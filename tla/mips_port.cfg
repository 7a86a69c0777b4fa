SPECIFICATION PortSpec
CONSTANTS
  Half = 128
  ByteCount = 4
  UintCount = 256
  LoadOffsets = 16
  StoreOffsets = 4
  size = 16
  Loaded <- MCLoaded
  Garbage <- MCGarbage
  IntBits = 8
  ImmediateBits = 4
  JumpSpan = 64
  Decoded <- MCDecoded
  DATA_SEGMENT_START = 48
  Inputs <- MCInputs
  Anything <- MCAnything
INVARIANTS
  PortTypeOK
  PortKeepsMeaning
CHECK_DEADLOCK FALSE
