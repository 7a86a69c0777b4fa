--------------------------- MODULE MipsSystemProofs ---------------------------
(***************************************************************************)
(* The processor with its memory and the MDU keeps its types, is a program *)
(* on the bus to which what holds of any bus applies, and executes its     *)
(* instructions one at a time, as Machine says, for ints, bytes and        *)
(* instruction fields of any width, any program and any memory; and what   *)
(* became of each instruction when the processor was made from MipsCpp.    *)
(***************************************************************************)
EXTENDS MipsSystem, MipsPort, MemWrapperProofs, MduValueProofs,
        WellFoundedInduction

-------------------------------------------------------------------------------
(* Induction *)

\* What induction on numbers rests on.
LEMMA LeastElement ==
  ASSUME NEW T \in SUBSET Nat, T # {}
  PROVE  \E n \in T : \A m \in T : n <= m
  <1> DEFINE R == OpToRel(<, Nat)
  <1>1. \E n \in T : \A m \in T : <<m, n>> \notin R
    <2>1. IsWellFoundedOn(R, Nat)
      BY NatLessThanWellFounded
    <2> HIDE DEF R
    <2> QED
      BY <2>1, WFMin
  <1>2. \A m, n \in Nat : m < n => <<m, n>> \in R
    BY DEF OpToRel
  <1> HIDE DEF R
  <1>3. PICK n \in T : \A m \in T : <<m, n>> \notin R
    BY <1>1
  <1>4. ASSUME NEW m \in T PROVE n <= m
    <2>1. m \in Nat /\ n \in Nat /\ <<m, n>> \notin R
      BY <1>3
    <2>2. ~(m < n)
      BY <1>2, <2>1
    <2> QED
      BY <2>1, <2>2
  <1> QED
    BY <1>4

LEMMA UpToAll ==
  ASSUME NEW n \in Nat, NEW S, 0 \in S, \A k \in 0 .. n - 1 : k \in S => k + 1 \in S
  PROVE  0 .. n \subseteq S
  <1> SUFFICES ASSUME (0 .. n) \ S # {} PROVE FALSE
    OBVIOUS
  <1>1. PICK m \in (0 .. n) \ S : \A k \in (0 .. n) \ S : m <= k
    <2>1. (0 .. n) \ S \in SUBSET Nat
      OBVIOUS
    <2> QED
      BY <2>1, LeastElement
  <1>2. m # 0 /\ m - 1 \in 0 .. n - 1
    BY <1>1
  <1>3. m - 1 \in S
    BY <1>1, <1>2
  <1> QED
    BY <1>1, <1>2, <1>3

\* A function defined by recursion on its argument.
LEMMA RecursionDefines ==
  ASSUME NEW n \in Nat, NEW a \in Int, NEW F \in [Nat \X Int -> Int]
  PROVE  \E f \in [0 .. n -> Int] : f[0] = a /\ \A k \in 1 .. n : f[k] = F[<<k, f[k - 1]>>]
  <1> DEFINE Is(f, m) == /\ f \in [0 .. m -> Int] /\ f[0] = a
                         /\ \A k \in 1 .. m : f[k] = F[<<k, f[k - 1]>>]
             S == {m \in Nat : \E f : Is(f, m)}
  <1>1. 0 \in S
    <2>1. Is([k \in 0 .. 0 |-> a], 0)
      OBVIOUS
    <2> QED
      BY <2>1
  <1>2. ASSUME NEW m \in 0 .. n - 1, m \in S PROVE m + 1 \in S
    <2>1. PICK f : Is(f, m)
      BY <1>2
    <2> DEFINE g == [k \in 0 .. m + 1 |-> IF k <= m THEN f[k] ELSE F[<<m + 1, f[m]>>]]
    <2>2. f[m] \in Int /\ F[<<m + 1, f[m]>>] \in Int
      BY <2>1
    <2>3. g \in [0 .. m + 1 -> Int] /\ g[0] = a
      BY <2>1, <2>2
    <2>4. ASSUME NEW k \in 1 .. m + 1 PROVE g[k] = F[<<k, g[k - 1]>>]
      <3>1. g[k - 1] = f[k - 1]
        OBVIOUS
      <3>2. CASE k <= m
        <4>1. k \in 1 .. m /\ g[k] = f[k]
          BY <3>2
        <4> QED
          BY <2>1, <3>1, <4>1
      <3>3. CASE k = m + 1
        <4>1. g[m + 1] = F[<<m + 1, f[m]>>] /\ k - 1 = m
          BY <3>3
        <4> QED
          BY <3>1, <3>3, <4>1
      <3> QED
        BY <3>2, <3>3
    <2> HIDE DEF g
    <2>5. Is(g, m + 1)
      BY <2>3, <2>4
    <2> QED
      BY <2>5
  <1> HIDE DEF S
  <1>3. n \in S
    BY <1>1, <1>2, UpToAll
  <1> QED
    BY <1>3 DEF S

-------------------------------------------------------------------------------
(* Powers of two *)

LEMMA PowerIs ==
  /\ Power[0] = 1 /\ \A n \in 1 .. IntBits : Power[n] = 2 * Power[n - 1]
  /\ \A n \in 0 .. IntBits : Power[n] \in Nat /\ Power[n] > 0
  <1> DEFINE Is(f) == f = [n \in 0 .. IntBits |-> IF n = 0 THEN 1 ELSE 2 * f[n - 1]]
             F == [p \in Nat \X Int |-> 2 * p[2]]
  <1>0. IntBits \in Nat
    BY MipsAssumption
  <1>1. \E f : Is(f)
    <2>1. F \in [Nat \X Int -> Int] /\ 1 \in Int
      OBVIOUS
    <2> HIDE DEF F
    <2>2. PICK f \in [0 .. IntBits -> Int] :
            f[0] = 1 /\ \A k \in 1 .. IntBits : f[k] = F[<<k, f[k - 1]>>]
      BY <1>0, <2>1, RecursionDefines, Zenon
    <2>3. ASSUME NEW k \in 1 .. IntBits PROVE f[k] = 2 * f[k - 1]
      <3>1. f[k - 1] \in Int /\ k \in Nat
        BY <1>0
      <3> QED
        BY <2>2, <3>1 DEF F
    <2>4. \A k \in 0 .. IntBits : f[k] = IF k = 0 THEN 1 ELSE 2 * f[k - 1]
      BY <1>0, <2>2, <2>3
    <2>5. Is(f)
      <3> HIDE DEF F
      <3> QED
        BY <2>2, <2>4
    <2> QED
      BY <2>5
  <1>2. Is(Power)
    BY <1>1 DEF Power
  <1>3. Power[0] = 1 /\ \A n \in 1 .. IntBits : Power[n] = 2 * Power[n - 1]
    BY <1>0, <1>2
  <1> DEFINE S == {n \in 0 .. IntBits : Power[n] \in Nat /\ Power[n] > 0}
  <1>4. 0 \in S
    BY <1>0, <1>3
  <1>5. \A k \in 0 .. IntBits - 1 : k \in S => k + 1 \in S
    BY <1>0, <1>3
  <1> HIDE DEF S
  <1>6. 0 .. IntBits \subseteq S
    BY <1>0, <1>4, <1>5, UpToAll
  <1> QED
    BY <1>3, <1>6 DEF S

\* A power is an even multiple of those before it.
LEMMA PowerMultiple ==
  ASSUME NEW j \in 0 .. IntBits, NEW i \in 0 .. j - 1
  PROVE  \E q \in Nat \ {0} : Power[j] = Power[i] * (2 * q)
  <1> DEFINE S == {m \in Nat : i + 1 + m <= IntBits =>
                     \E q \in Nat \ {0} : Power[i + 1 + m] = Power[i] * (2 * q)}
  <1>0. IntBits \in Nat
    BY MipsAssumption
  <1>1. 0 \in S
    <2>1. i + 1 <= IntBits => Power[i + 1] = 2 * Power[i] /\ Power[i] \in Nat
      BY <1>0, PowerIs
    <2>2. i + 1 <= IntBits => Power[i + 1] = Power[i] * (2 * 1)
      BY <2>1
    <2> QED
      BY <2>2
  <1>2. ASSUME NEW m \in 0 .. (j - i - 1) - 1, m \in S PROVE m + 1 \in S
    <2> SUFFICES ASSUME i + 1 + (m + 1) <= IntBits
                 PROVE  \E q \in Nat \ {0} : Power[i + 1 + (m + 1)] = Power[i] * (2 * q)
      OBVIOUS
    <2>1. PICK q \in Nat \ {0} : Power[i + 1 + m] = Power[i] * (2 * q)
      BY <1>0, <1>2
    <2>2. Power[i + 1 + (m + 1)] = 2 * Power[i + 1 + m]
      <3>1. i + 1 + (m + 1) \in 1 .. IntBits
        BY <1>0
      <3>2. Power[i + 1 + (m + 1)] = 2 * Power[(i + 1 + (m + 1)) - 1]
        BY <3>1, PowerIs
      <3> QED
        BY <3>2
    <2>3. Power[i] \in Nat
      BY <1>0, PowerIs
    <2>4. 2 * (Power[i] * (2 * q)) = Power[i] * (2 * (2 * q))
      BY <2>3
    <2> QED
      BY <2>1, <2>2, <2>4
  <1> HIDE DEF S
  <1>3. j - i - 1 \in S
    BY <1>0, <1>1, <1>2, UpToAll
  <1>4. i + 1 + (j - i - 1) = j
    BY <1>0
  <1> QED
    BY <1>0, <1>3, <1>4 DEF S

LEMMA PowerGrows ==
  ASSUME NEW j \in 0 .. IntBits, NEW i \in 0 .. j - 1
  PROVE  2 * Power[i] <= Power[j]
  <1>1. PICK q \in Nat \ {0} : Power[j] = Power[i] * (2 * q)
    BY PowerMultiple
  <1>2. Power[i] \in Nat /\ q - 1 \in Nat
    BY PowerIs, MipsAssumption
  <1>3. Power[i] * (q - 1) \in Nat
    BY <1>2
  <1>4. Power[i] * (2 * q) = 2 * Power[i] + 2 * (Power[i] * (q - 1))
    BY <1>2
  <1> QED
    BY <1>1, <1>2, <1>3, <1>4

-------------------------------------------------------------------------------
(* Division *)

LEMMA DivisionIs ==
  ASSUME NEW z \in Int, NEW d \in Nat, d > 0, NEW q \in Int, NEW r \in 0 .. d - 1,
         z = d * q + r
  PROVE  z \div d = q /\ z % d = r
  <1> DEFINE k == z \div d
             s == z % d
  <1>1. k \in Int /\ s \in 0 .. d - 1 /\ z = d * k + s
    BY DivMod
  <1> HIDE DEF k, s
  <1>2. d * (q - k) = s - r /\ q - k \in Int
    <2>1. d * (q - k) = d * q - d * k
      BY <1>1
    <2> QED
      BY <1>1, <2>1
  <1>3. CASE q - k >= 1
    <2>1. d * (q - k) = d * (q - k - 1) + d /\ d * (q - k - 1) >= 0
      BY <1>2, <1>3
    <2> QED
      BY <1>1, <1>2, <2>1
  <1>4. CASE q - k <= -1
    <2>1. d * (q - k) = -(d * (k - q - 1)) - d /\ d * (k - q - 1) >= 0
      BY <1>1, <1>4
    <2> QED
      BY <1>1, <1>2, <2>1
  <1>5. CASE q - k = 0
    <2>1. k = q
      BY <1>1, <1>5
    <2>2. s = r
      BY <1>1, <2>1
    <2> QED
      BY <2>1, <2>2 DEF k, s
  <1> QED
    BY <1>2, <1>3, <1>4, <1>5

\* Adding an even multiple leaves a bit alone.
LEMMA SameBit ==
  ASSUME NEW x \in Int, NEW d \in Nat, d > 0, NEW q \in Int
  PROVE  ((x + d * (2 * q)) \div d) % 2 = (x \div d) % 2
  <1> DEFINE k == x \div d
             m == x % d
             y == x + d * (2 * q)
  <1>1. k \in Int /\ m \in 0 .. d - 1 /\ x = d * k + m
    BY DivMod
  <1>2. y \in Int /\ k + 2 * q \in Int
    BY <1>1
  <1>3. y = d * (k + 2 * q) + m
    <2> HIDE DEF k, m
    <2>1. d * (k + 2 * q) = d * k + d * (2 * q)
      BY <1>1
    <2> QED
      BY <1>1, <2>1
  <1> HIDE DEF y, k, m
  <1>4. y \div d = k + 2 * q
    BY <1>1, <1>2, <1>3, DivisionIs
  <1>5. (k + 2 * q) % 2 = k % 2
    BY <1>1
  <1> QED
    BY <1>4, <1>5 DEF y, k

-------------------------------------------------------------------------------
(* Bits *)

LEMMA OfBitsSum ==
  ASSUME NEW B \in SUBSET Bits
  PROVE  \E sum \in [0 .. IntBits -> Int] :
            /\ sum[0] = 0 /\ OfBits(B) = AsInt(sum[IntBits])
            /\ \A n \in 1 .. IntBits :
                  sum[n] = sum[n - 1] + (IF n - 1 \in B THEN Power[n - 1] ELSE 0)
  <1> DEFINE Is(f) == f = [n \in 0 .. IntBits |->
                             IF n = 0 THEN 0
                             ELSE f[n - 1] + (IF n - 1 \in B THEN Power[n - 1] ELSE 0)]
             F == [p \in Nat \X Int |-> p[2] + (IF p[1] - 1 \in B THEN Power[p[1] - 1] ELSE 0)]
             sum == CHOOSE f : Is(f)
  <1>0. IntBits \in Nat
    BY MipsAssumption
  <1>1. ASSUME NEW k \in B PROVE Power[k] \in Int
    BY <1>0, PowerIs DEF Bits
  <1>2. PICK f \in [0 .. IntBits -> Int] :
          f[0] = 0 /\ \A k \in 1 .. IntBits : f[k] = F[<<k, f[k - 1]>>]
    <2>1. F \in [Nat \X Int -> Int] /\ 0 \in Int
      BY <1>1
    <2> HIDE DEF F
    <2> QED
      BY <1>0, <2>1, RecursionDefines, Zenon
  <1>3. ASSUME NEW k \in 1 .. IntBits
        PROVE  f[k] = f[k - 1] + (IF k - 1 \in B THEN Power[k - 1] ELSE 0)
    <2>1. f[k - 1] \in Int /\ k \in Nat
      BY <1>0
    <2> QED
      BY <1>2, <2>1 DEF F
  <1>4. \A k \in 0 .. IntBits :
          f[k] = IF k = 0 THEN 0
                 ELSE f[k - 1] + (IF k - 1 \in B THEN Power[k - 1] ELSE 0)
    BY <1>0, <1>2, <1>3
  <1>5. Is(f)
    <2> HIDE DEF F
    <2> QED
      BY <1>2, <1>4
  <1>6. Is(sum)
    BY <1>5
  <1>7. OfBits(B) = AsInt(sum[IntBits])
    BY DEF OfBits
  <1> HIDE DEF sum
  <1>8. sum[0] = 0 /\ \A n \in 1 .. IntBits :
          sum[n] = sum[n - 1] + (IF n - 1 \in B THEN Power[n - 1] ELSE 0)
    BY <1>0, <1>6
  <1> DEFINE S == {n \in 0 .. IntBits : sum[n] \in Int}
  <1>9. 0 \in S
    BY <1>0, <1>8
  <1>10. ASSUME NEW k \in 0 .. IntBits - 1, k \in S PROVE k + 1 \in S
    <2>1. k + 1 \in 1 .. IntBits /\ (k + 1) - 1 = k
      BY <1>0
    <2>2. sum[k + 1] = sum[k] + (IF k \in B THEN Power[k] ELSE 0)
      BY <1>8, <2>1
    <2> QED
      BY <1>1, <1>10, <2>1, <2>2
  <1> HIDE DEF S
  <1>11. 0 .. IntBits \subseteq S
    BY <1>0, <1>9, <1>10, UpToAll
  <1>12. sum \in [0 .. IntBits -> Int]
    BY <1>6, <1>11 DEF S
  <1> QED
    BY <1>7, <1>8, <1>12

\* The int with the bits B has the bits B.
LEMMA BitsOfBits ==
  ASSUME NEW B \in SUBSET Bits
  PROVE  OfBits(B) \in Int32 /\ BitsOf(OfBits(B)) = B
  <1>0. IntBits \in Nat /\ Modulus = Power[IntBits]
    BY MipsAssumption
  <1>1. PICK sum \in [0 .. IntBits -> Int] :
            /\ sum[0] = 0 /\ OfBits(B) = AsInt(sum[IntBits])
            /\ \A n \in 1 .. IntBits :
                  sum[n] = sum[n - 1] + (IF n - 1 \in B THEN Power[n - 1] ELSE 0)
    BY OfBitsSum
  <1> DEFINE S == {n \in 0 .. IntBits :
                     /\ sum[n] \in 0 .. Power[n] - 1
                     /\ \A i \in 0 .. n - 1 : (sum[n] \div Power[i]) % 2 = 1 <=> i \in B}
  <1>2. 0 \in S
    BY <1>0, <1>1, PowerIs
  <1>3. ASSUME NEW n \in 0 .. IntBits - 1, n \in S PROVE n + 1 \in S
    <2> DEFINE x == sum[n]
               y == sum[n + 1]
    <2>1. n \in 0 .. IntBits /\ n + 1 \in 1 .. IntBits /\ (n + 1) - 1 = n
      BY <1>0
    <2>2. y = x + (IF n \in B THEN Power[n] ELSE 0)
      BY <1>1, <2>1
    <2>3. Power[n] \in Nat /\ Power[n] > 0 /\ Power[n + 1] = 2 * Power[n]
      BY <2>1, PowerIs
    <2>4. x \in 0 .. Power[n] - 1
      BY <1>3
    <2>5. \A i \in 0 .. n - 1 : (x \div Power[i]) % 2 = 1 <=> i \in B
      BY <1>3
    <2> HIDE DEF x, y
    <2>6. y \in 0 .. Power[n + 1] - 1
      BY <2>2, <2>3, <2>4
    <2>7. ASSUME NEW i \in 0 .. n - 1 PROVE (y \div Power[i]) % 2 = 1 <=> i \in B
      <3>1. PICK q \in Nat \ {0} : Power[n] = Power[i] * (2 * q)
        BY <2>1, PowerMultiple
      <3>2. Power[i] \in Nat /\ Power[i] > 0
        BY <1>0, <2>1, PowerIs
      <3>3. (y \div Power[i]) % 2 = (x \div Power[i]) % 2
        <4>1. CASE n \in B
          <5>1. x \in Int /\ q \in Int /\ y = x + Power[i] * (2 * q)
            BY <2>2, <2>4, <3>1, <4>1
          <5> QED
            BY <3>2, <5>1, SameBit
        <4>2. CASE n \notin B
          BY <2>2, <2>4, <4>2
        <4> QED
          BY <4>1, <4>2
      <3> QED
        BY <2>5, <3>3
    <2>8. (y \div Power[n]) % 2 = 1 <=> n \in B
      <3>1. CASE n \in B
        <4>1. y = Power[n] * 1 + x /\ y \in Int /\ 1 \in Int
          BY <2>2, <2>3, <2>4, <3>1
        <4>2. y \div Power[n] = 1
          BY <2>3, <2>4, <4>1, DivisionIs, Zenon
        <4> QED
          BY <3>1, <4>2
      <3>2. CASE n \notin B
        <4>1. y = Power[n] * 0 + x /\ y \in Int
          BY <2>2, <2>3, <2>4, <3>2
        <4>2. y \div Power[n] = 0
          BY <2>3, <2>4, <4>1, DivisionIs
        <4> QED
          BY <3>2, <4>2
      <3> QED
        BY <3>1, <3>2
    <2>9. \A i \in 0 .. (n + 1) - 1 : (y \div Power[i]) % 2 = 1 <=> i \in B
      <3>1. \A i \in 0 .. (n + 1) - 1 : i \in 0 .. n - 1 \/ i = n
        BY <2>1
      <3> QED
        BY <2>7, <2>8, <3>1
    <2>10. n + 1 \in 0 .. IntBits
      BY <1>0
    <2> QED
      BY <2>6, <2>9, <2>10 DEF y
  <1> HIDE DEF S
  <1>4. 0 .. IntBits \subseteq S
    BY <1>0, <1>2, <1>3, UpToAll
  <1>5. IntBits \in S
    BY <1>0, <1>4
  <1> DEFINE y == sum[IntBits]
  <1>6. y \in 0 .. Modulus - 1 /\ \A i \in Bits : (y \div Power[i]) % 2 = 1 <=> i \in B
    BY <1>0, <1>5 DEF S, Bits
  <1> HIDE DEF y
  <1>7. OfBits(B) = AsInt(y)
    BY <1>1 DEF y
  <1>8. y \in Int /\ y % Modulus = y
    <2>1. y = Modulus * 0 + y /\ y \in Int /\ Modulus \in Nat /\ Modulus > 0
      BY <1>6, ModulusFacts
    <2> QED
      BY <1>6, <2>1, DivisionIs
  <1>9. OfBits(B) \in Int32 /\ AsUnsigned(OfBits(B)) = y
    BY <1>7, <1>8, AsIntType
  <1>10. BitsOf(OfBits(B)) = {i \in Bits : (y \div Power[i]) % 2 = 1}
    BY <1>9 DEF BitsOf
  <1> QED
    BY <1>6, <1>9, <1>10

-------------------------------------------------------------------------------
(* Ints, bytes and bits *)

\* Four bytes have four bits or more.
LEMMA IntsAreMany == Half >= 8 /\ 0 \in Int32 /\ 1 \in Int32 /\ 4 \in Int32
  <1> DEFINE square == ByteCount * ByteCount
  <1>1. square \in Nat /\ square >= 4
    BY BytesFacts
  <1>2. ByteCount * ByteCount * ByteCount * ByteCount = square * square
    BY BytesFacts
  <1> HIDE DEF square
  <1>3. square * square \in Nat /\ square * square >= 16
    BY <1>1
  <1>4. Modulus >= 16
    BY <1>2, <1>3, MipsMachineAssumption
  <1> QED
    BY <1>4, HalfAssumption DEF Int32, Modulus

LEMMA BitsFacts ==
  /\ IntBits \in Nat /\ Bits \in SUBSET Nat
  /\ JumpSpan \in Nat /\ JumpSpan > 0 /\ UintCount = Modulus
  /\ DATA_SEGMENT_START \in Int32 /\ DATA_SEGMENT_START > 0
  /\ DATA_SEGMENT_START - 4 \in Int32
  <1>1. IntBits \in Nat
    BY MipsAssumption
  <1>2. DATA_SEGMENT_START - 4 \in Int32
    BY IntsAreMany, MipsAssumption, HalfAssumption DEF Int32
  <1> QED
    BY <1>1, <1>2, MipsAssumption, MipsMachineAssumption DEF Bits

LEMMA OfBitsType ==
  ASSUME NEW B \in SUBSET Bits
  PROVE  OfBits(B) \in Int32
  BY BitsOfBits

LEMMA PlusType ==
  ASSUME NEW a \in Int, NEW b \in Int
  PROVE  Plus(a, b) \in Int32
  BY AsIntType DEF Plus

LEMMA AsUnsignedType ==
  ASSUME NEW a \in Int32
  PROVE  AsUnsigned(a) \in 0 .. UintCount - 1
  BY HalfAssumption, BitsFacts DEF AsUnsigned, Int32, Modulus

LEMMA ToIntType ==
  ASSUME NEW w \in Int4
  PROVE  ToInt(w) \in Int32
  <1>1. w[0] \in Int /\ w[1] \in Int /\ w[2] \in Int /\ w[3] \in Int /\ ByteCount \in Int
    BY BytesFacts DEF Int4, Byte
  <1>2. ByteCount * w[3] \in Int
    BY <1>1
  <1>3. ByteCount * (w[2] + ByteCount * w[3]) \in Int
    BY <1>1, <1>2
  <1>4. ByteCount * (w[1] + ByteCount * (w[2] + ByteCount * w[3])) \in Int
    BY <1>1, <1>3
  <1>5. w[0] + ByteCount * (w[1] + ByteCount * (w[2] + ByteCount * w[3])) \in Int
    BY <1>1, <1>4
  <1> QED
    BY <1>5, AsIntType DEF ToInt

LEMMA ToBytesType ==
  ASSUME NEW n \in Int32
  PROVE  ToBytes(n) \in Int4
  <1>1. AsUnsigned(n) \in Int /\ ByteCount \in Nat /\ ByteCount > 0
    BY AsUnsignedType, BytesFacts
  <1>2. ByteCount * ByteCount \in Nat /\ ByteCount * ByteCount > 0
    BY <1>1
  <1>3. ByteCount * ByteCount * ByteCount \in Nat /\ ByteCount * ByteCount * ByteCount > 0
    BY <1>1, <1>2
  <1>4. \A i \in 0 .. 3 : Weight[i] \in Nat /\ Weight[i] > 0
    BY <1>1, <1>2, <1>3 DEF Weight
  <1>5. \A i \in 0 .. 3 : AsUnsigned(n) \div Weight[i] \in Int
    BY <1>1, <1>4, DivisionOf
  <1>6. \A i \in 0 .. 3 : (AsUnsigned(n) \div Weight[i]) % ByteCount \in Byte
    BY <1>1, <1>5, DivisionOf DEF Byte
  <1> QED
    BY <1>6 DEF ToBytes, Int4

LEMMA InitialBregType == InitialBreg \in [Reg -> Int32]
  BY IntsAreMany, BitsFacts DEF InitialBreg

\* An instruction whose constants may have lost their sign.
AnyInstruction == [op : Op, rs : Reg, rt : Reg, rd : Reg, shamt : Int, kte16 : Int, kte26 : Int]

LEMMA FieldTypes ==
  ASSUME NEW i \in AnyInstruction
  PROVE  /\ i.op \in Op /\ i.rs \in Reg /\ i.rt \in Reg /\ i.rd \in Reg
         /\ i.shamt \in Int /\ i.kte16 \in Int /\ i.kte26 \in Int
  BY DEF AnyInstruction

LEMMA InstructionFields == Instruction \subseteq AnyInstruction
  BY DEF Instruction, AnyInstruction

-------------------------------------------------------------------------------
(* What instructions compute *)

LEMMA ComputedType ==
  ASSUME NEW i \in AnyInstruction, NEW R \in [Reg -> Int32], NEW c \in Int32,
         i.op \in ComputeOp
  PROVE  Computed(i, R, c) \in Int32
  <1>1. R[i.rs] \in Int32 /\ R[i.rt] \in Int32
    BY FieldTypes
  <1>2. /\ R[i.rs] \in Int /\ R[i.rt] \in Int /\ -R[i.rt] \in Int /\ i.kte16 \in Int
        /\ i.kte16 * Power[ImmediateBits] \in Int
    <2>1. R[i.rs] \in Int /\ R[i.rt] \in Int /\ i.kte16 \in Int
      BY <1>1, IntIsInt, FieldTypes
    <2>2. Power[ImmediateBits] \in Int
      BY MipsAssumption, PowerIs
    <2> QED
      BY <2>1, <2>2
  <1>3. ASSUME NEW b PROVE Truth(b) \in Int32
    BY IntsAreMany DEF Truth
  <1>4. ASSUME NEW x PROVE BitsOf(x) \subseteq Bits
    BY DEF BitsOf
  <1> DEFINE a == R[i.rs]
             b == R[i.rt]
  <1>5. /\ OfBits({k \in Bits : k - i.shamt \in BitsOf(b)}) \in Int32
        /\ OfBits({k \in Bits : k + i.shamt \in BitsOf(b)}) \in Int32
        /\ OfBits({k \in Bits : Lesser(k + i.shamt, IntBits - 1) \in BitsOf(b)}) \in Int32
    BY OfBitsType
  <1>6. ASSUME NEW x, NEW y
        PROVE  /\ OfBits(BitsOf(x) \cap BitsOf(y)) \in Int32
               /\ OfBits(BitsOf(x) \cup BitsOf(y)) \in Int32
               /\ OfBits((BitsOf(x) \cup BitsOf(y)) \ (BitsOf(x) \cap BitsOf(y))) \in Int32
               /\ OfBits(Bits \ (BitsOf(x) \cup BitsOf(y))) \in Int32
    <2>1. /\ BitsOf(x) \cap BitsOf(y) \in SUBSET Bits /\ BitsOf(x) \cup BitsOf(y) \in SUBSET Bits
          /\ (BitsOf(x) \cup BitsOf(y)) \ (BitsOf(x) \cap BitsOf(y)) \in SUBSET Bits
          /\ Bits \ (BitsOf(x) \cup BitsOf(y)) \in SUBSET Bits
      BY <1>4
    <2> QED
      BY <2>1, OfBitsType
  <1>7. /\ Plus(a, b) \in Int32 /\ Plus(a, -b) \in Int32 /\ Plus(a, i.kte16) \in Int32
        /\ AsInt(i.kte16 * Power[ImmediateBits]) \in Int32
    BY <1>2, PlusType, AsIntType
  <1>8. /\ Truth(a < b) \in Int32 /\ Truth(a < i.kte16) \in Int32
        /\ Truth(AsUnsigned(a) < AsUnsigned(i.kte16)) \in Int32
    BY <1>3
  <1> QED
    BY <1>5, <1>6, <1>7, <1>8 DEF Computed, ComputeOp

LEMMA ComputesType ==
  ASSUME NEW i \in AnyInstruction, NEW R \in [Reg -> Int32], NEW c \in Int32
  PROVE  Computes(i, R, c) \in [Reg -> Int32]
  <1>1. Destination(i) \in Reg
    BY FieldTypes DEF Destination, RA, Reg
  <1> QED
    BY <1>1, ComputedType DEF Computes

LEMMA TargetType ==
  ASSUME NEW i \in AnyInstruction, NEW R \in [Reg -> Int32], NEW c \in Int32
  PROVE  Target(i, R, c) \in Int32
  <1>1. R[i.rs] \in Int32 /\ c \in Int /\ i.kte16 \in Int /\ i.kte26 \in Int
    BY FieldTypes, IntIsInt
  <1>2. c % JumpSpan \in Int
    BY <1>1, BitsFacts, DivisionOf
  <1>3. AsInt((c - (c % JumpSpan)) + 4 * i.kte26) \in Int32
    BY <1>1, <1>2, AsIntType
  <1>4. Plus(c, 4 * i.kte16) \in Int32
    BY <1>1, PlusType
  <1> QED
    BY <1>1, <1>3, <1>4 DEF Target

-------------------------------------------------------------------------------
(* Requests *)

MipsRequest == [kind : {"load", "store"} \cup MduOp, type : OpType,
                addr : 0 .. UintCount - 1, kte : Int, dado : Int4]

LEMMA OfType ==
  ASSUME NEW kind \in {"load", "store"} \cup MduOp, NEW type \in OpType,
         NEW a \in Int32, NEW kte \in Int, NEW dado \in Int32
  PROVE  Of(kind, type, a, kte, dado) \in MipsRequest
  BY AsUnsignedType, ToBytesType DEF Of, MipsRequest

LEMMA RequestAddress ==
  ASSUME NEW r \in MipsRequest
  PROVE  AddressOf(r) \in 0 .. UintCount - 1
  <1>1. r.addr \in Int /\ r.kte \in Int
    BY BytesFacts DEF MipsRequest
  <1>2. r.kte % StoreOffsets \in Int /\ r.kte % LoadOffsets \in Int
    BY <1>1, BytesFacts, DivisionOf
  <1> DEFINE x == r.addr + (r.kte % StoreOffsets)
             y == r.addr + (r.kte % LoadOffsets)
  <1>3. x \in Int /\ y \in Int
    BY <1>1, <1>2
  <1> HIDE DEF x, y
  <1>4. x % UintCount \in 0 .. UintCount - 1 /\ y % UintCount \in 0 .. UintCount - 1
    BY <1>3, BytesFacts, DivisionOf
  <1> QED
    BY <1>4 DEF AddressOf, StoreAddress, LoadAddress, x, y

LEMMA FetchRequestType ==
  ASSUME NEW a \in Int32
  PROVE  FetchRequest(a) \in MipsRequest /\ CharRequest(a) \in MipsRequest
  BY OfType, IntsAreMany DEF FetchRequest, CharRequest, OpType

LEMMA MduRequestType ==
  ASSUME NEW i \in Instruction, i.op \in MduOp
  PROVE  MduRequest(i) \in MipsRequest
  <1>1. i.op \in {"load", "store"} \cup MduOp /\ "Word" \in OpType /\ 0 \in Int
    BY DEF OpType
  <1> QED
    BY <1>1, OfType, IntsAreMany DEF MduRequest

LEMMA DataRequestType ==
  ASSUME NEW i \in Instruction, NEW R \in [Reg -> Int32],
         i.op \in LoadOp \cup StoreOp
  PROVE  /\ DataRequest(i, R) \in MipsRequest
         /\ DataRequest(i, R).kind = IF i.op \in LoadOp THEN "load" ELSE "store"
  <1>1. R[i.rs] \in Int32 /\ R[i.rt] \in Int32 /\ i.kte16 \in Int /\ R[i.rs] \in Int
    BY FieldTypes, InstructionFields, IntIsInt
  <1>2. Plus(R[i.rs], i.kte16) \in Int32
    BY <1>1, PlusType
  <1>3. ASSUME NEW kind \in {"load", "store"}, NEW type \in OpType, NEW a \in Int32,
               NEW kte \in Int, NEW dado \in Int32
        PROVE  Of(kind, type, a, kte, dado) \in MipsRequest
               /\ Of(kind, type, a, kte, dado).kind = kind
    BY OfType DEF Of
  <1>4. "Byte" \in OpType /\ "Half" \in OpType /\ "Word" \in OpType /\ 0 \in Int
    BY DEF OpType
  <1> HIDE DEF MipsRequest
  <1>5. CASE i.op \in LoadOp
    <2>1. \/ DataRequest(i, R) = Of("load", "Byte", Plus(R[i.rs], i.kte16), 0, 0)
          \/ DataRequest(i, R) = Of("load", "Word", Plus(R[i.rs], i.kte16), 0, 0)
          \/ DataRequest(i, R) = Of("load", "Half", R[i.rs], i.kte16, 0)
          \/ DataRequest(i, R) = Of("load", "Word", R[i.rs], i.kte16, 0)
      BY <1>5 DEF DataRequest, LoadOp
    <2> QED
      BY <1>1, <1>2, <1>3, <1>4, <1>5, <2>1, IntsAreMany
  <1>6. CASE i.op \in StoreOp
    <2>1. /\ i.op \notin LoadOp
          /\ \/ DataRequest(i, R) = Of("store", "Byte", R[i.rs], i.kte16, R[i.rt])
             \/ DataRequest(i, R) = Of("store", "Half", R[i.rs], i.kte16, R[i.rt])
             \/ DataRequest(i, R) = Of("store", "Word", R[i.rs], i.kte16, R[i.rt])
      BY <1>6 DEF DataRequest, LoadOp, StoreOp
    <2> QED
      BY <1>1, <1>3, <1>4, <2>1
  <1> QED
    BY <1>5, <1>6

-------------------------------------------------------------------------------
(* The program is an instance of the bus *)

LEMMA MipsFacts ==
  /\ Master = {cpu, wrapper} /\ Blocking = {cpu, wrapper} /\ cpu # wrapper
  /\ PriorityOf[cpu] = mdu_priority /\ PriorityOf[wrapper] = mem_priority
  /\ Priority = {mdu_priority, mem_priority} /\ mdu_priority # mem_priority
  /\ \A m \in Master : LockFlags[m] = {FALSE}
  <1>1. /\ Master = {cpu, wrapper} /\ Blocking = {cpu, wrapper}
        /\ \A m \in Master : LockFlags[m] = {FALSE}
    BY MipsSystemAssumption DEF MipsMaster
  <1>2. cpu # wrapper /\ mdu_priority # mem_priority
    BY DEF cpu, wrapper, mdu_priority, mem_priority
  <1>3. PriorityOf[cpu] = mdu_priority /\ PriorityOf[wrapper] = mem_priority
    BY <1>2, MipsSystemAssumption DEF MipsMaster, Priorities
  <1> QED
    BY <1>1, <1>2, <1>3 DEF Priority

LEMMA MipsIsUnique == UniquePriorities
  BY MipsFacts DEF UniquePriorities

\* The n-th call of a request and who makes it.
Caller(r) == IF UsesMdu(r) THEN cpu ELSE wrapper
CallAddress(r, n) ==
    IF UsesMdu(r)
    THEN CASE n = 1 -> OpA [] n = 2 -> OpB
           [] n = 3 -> (IF r.kind = "MUL" THEN MLow ELSE Div)
           [] n = 4 -> (IF r.kind = "MUL" THEN MHigh ELSE Mod)
    ELSE AccessAddress(n)
CallReads(r, n) == IF UsesMdu(r) THEN n \in {3, 4} ELSE Reads(r, n)
LastCall(r) == IF UsesMdu(r) THEN 4 ELSE 3

LEMMA CallLength == \A r : Len(CallsOf(r)) = LastCall(r)
  <1>1. \A op : Len(MduAccesses(op)) = 4
    BY DEF MduAccesses
  <1> QED
    BY <1>1, AccessLength DEF CallsOf, LastCall

LEMMA CallFacts ==
  ASSUME NEW r, NEW n \in 1 .. LastCall(r)
  PROVE  CallsOf(r)[n] = IF CallReads(r, n) THEN ReadFrom(CallAddress(r, n))
                                            ELSE WriteTo(CallAddress(r, n))
  <1>1. CASE UsesMdu(r)
    <2>1. /\ CallsOf(r)[1] = WriteTo(OpA) /\ CallsOf(r)[2] = WriteTo(OpB)
          /\ CallsOf(r)[3] = ReadFrom(IF r.kind = "MUL" THEN MLow ELSE Div)
          /\ CallsOf(r)[4] = ReadFrom(IF r.kind = "MUL" THEN MHigh ELSE Mod)
      BY <1>1 DEF CallsOf, MduAccesses
    <2>2. n = 1 \/ n = 2 \/ n = 3 \/ n = 4
      BY <1>1 DEF LastCall
    <2> QED
      BY <1>1, <2>1, <2>2 DEF CallReads, CallAddress
  <1>2. CASE ~UsesMdu(r)
    BY <1>2, AccessFacts DEF CallsOf, CallReads, CallAddress, LastCall
  <1> QED
    BY <1>1, <1>2

LEMMA CallIsCall ==
  ASSUME NEW r, NEW n \in 1 .. LastCall(r)
  PROVE  CallsOf(r)[n] \in Calls[Caller(r)]
  <1> DEFINE mduCalls == [do_write : {TRUE}, address : {OpA, OpB}, length : {1}]
                 \cup [do_write : {FALSE}, address : {MLow, MHigh, Div, Mod}, length : {1}]
             memCalls == [do_write : {TRUE}, address : {OpTypeReg, AddrReg, MemAddr}, length : {1}]
                 \cup [do_write : {FALSE}, address : {MemAddr}, length : {1}]
  <1>1. Calls[cpu] = mduCalls /\ Calls[wrapper] = memCalls
    BY MipsFacts, MipsSystemAssumption DEF MipsMaster
  <1>2. ASSUME NEW a PROVE /\ a \in {OpA, OpB} => WriteTo(a) \in mduCalls
                           /\ a \in {MLow, MHigh, Div, Mod} => ReadFrom(a) \in mduCalls
                           /\ a \in {OpTypeReg, AddrReg, MemAddr} => WriteTo(a) \in memCalls
                           /\ a = MemAddr => ReadFrom(a) \in memCalls
    BY DEF WriteTo, ReadFrom
  <1> HIDE DEF mduCalls, memCalls
  <1>3. CASE UsesMdu(r)
    <2>1. n = 1 \/ n = 2 \/ n = 3 \/ n = 4
      BY <1>3 DEF LastCall
    <2> QED
      BY <1>1, <1>2, <1>3, <2>1, CallFacts DEF CallReads, CallAddress, Caller
  <1>4. CASE ~UsesMdu(r)
    BY <1>1, <1>2, <1>4, CallFacts DEF CallReads, CallAddress, Caller, Reads, AccessAddress
  <1> QED
    BY <1>3, <1>4

\* A call of the thread is a blocking call of the bus.
LEMMA CallIsBurst ==
  ASSUME NEW r, NEW n \in 1 .. LastCall(r), CallNumber(r, n)
  PROVE  /\ Next /\ reply' \in {reply} \cup Garbage
         /\ BurstCall(Caller(r), CallsOf(r)[n], FALSE)
  <1>1. BurstCall(Caller(r), CallsOf(r)[n], FALSE) /\ (reply' = reply \/ reply' \in Garbage)
    BY DEF CallNumber, WrapperCall, Caller, CallsOf
  <1>2. Caller(r) \in Master
    BY MipsFacts DEF Caller
  <1>3. Next
    BY <1>1, <1>2, CallIsCall, MipsFacts DEF Next, MasterStep
  <1> QED
    BY <1>1, <1>3

\* A step of the program is a step of the bus or leaves the bus alone.
LEMMA MipsStepIsBusStep ==
  ASSUME TypeOK, [MipsNext]_mips_vars
  PROVE  [Next]_vars
  <1>1. ASSUME NEW r, Ask(r) PROVE Next
    <2>1. 1 \in 1 .. LastCall(r)
      BY DEF LastCall
    <2> QED
      BY <1>1, <2>1, CallIsBurst DEF Ask
  <1>2. CASE Fetch \/ StartBus \/ NextChar
    BY <1>1, <1>2 DEF Fetch, StartBus, NextChar
  <1>3. CASE Decode \/ WithoutBus \/ EndBus
    <2>1. KeepBus
      BY <1>3 DEF Decode, WithoutBus, EndBus
    <2> QED
      BY <2>1 DEF KeepBus
  <1>4. CASE NextCall
    <2>1. step' \in 1 .. LastCall(request)
      <3>1. step \in 1 .. LastCall(request) - 1 /\ step' = step + 1
        BY <1>4, CallLength DEF NextCall
      <3> QED
        BY <3>1 DEF LastCall
    <2> QED
      BY <1>4, <2>1, CallIsBurst DEF NextCall
  <1>5. CASE CallReturns
    BY <1>5, MipsFacts DEF CallReturns, MipsMaster, Next, MasterStep
  <1>6. CASE RisingEdge
    BY <1>6 DEF RisingEdge, Next
  <1>7. ASSUME NEW p \in ToHandle, MduWrite(p) \/ MduRead(p) \/ MemWrite(p) \/ MemRead(p)
        PROVE  [Next]_vars
    <2>1. HandleRequest(p) \/ UNCHANGED vars
      BY <1>7, MemAnswerIsRequest DEF MduWrite, MduRead, MemWrite, MemRead
    <2> QED
      BY <2>1, MemToHandle DEF Next, NegEdge
  <1>8. CASE FallingEdgeOfBus
    BY <1>7, <1>8 DEF FallingEdgeOfBus, AskMdu, AskMem, NothingToDo, Next, NegEdge
  <1>9. CASE Reset \/ UNCHANGED mips_vars
    BY <1>9 DEF Reset, mips_vars
  <1> QED
    BY <1>2, <1>3, <1>4, <1>5, <1>6, <1>8, <1>9 DEF MipsNext, ThreadRuns, ClockEdge

-------------------------------------------------------------------------------
(* Types *)

\* What a request asks the slaves to keep has its type too.
MipsTypeInv == MipsTypeOK /\ request \in MipsRequest

LEMMA MipsTypeInit == MipsInit => MipsTypeInv
  <1> SUFFICES ASSUME MipsInit PROVE MipsTypeInv
    OBVIOUS
  <1>1. TypeOK
    BY TypeInit DEF MipsInit
  <1>2. MduTypeOK
    BY WaitAssumption DEF MipsInit, MduInit, MduTypeOK
  <1>3. MemTypeOK
    <2>1. 0 \in 0 .. UintCount - 1 /\ -1 \in -1 .. mem_wait_states
      BY BytesFacts, MemWaitAssumption
    <2> QED
      BY <2>1, BytesFacts DEF MipsInit, MemInit, MemTypeOK, OpType
  <1>4. request \in MipsRequest /\ reply \in Int4 /\ step \in 0 .. 4 /\ exited \in BOOLEAN
    <2>1. FetchRequest(0) \in MipsRequest
      BY FetchRequestType, IntsAreMany
    <2>2. request = FetchRequest(0) /\ reply = MinusOne /\ step = 0 /\ exited = FALSE
      BY DEF MipsInit
    <2>3. exited \in BOOLEAN
      BY <2>2
    <2>4. step \in 0 .. 4
      BY <2>2
    <2> QED
      BY <2>1, <2>2, <2>3, <2>4, BytesFacts
  <1>5. /\ counter \in Int32 /\ breg \in [Reg -> Int32] /\ hi \in Int32 /\ lo \in Int32
        /\ instruction \in Instruction
    BY IntsAreMany, InitialBregType, MipsAssumption DEF MipsInit
  <1>6. /\ stage \in {"wait", "fetch", "execute", "stopped"}
        /\ resets \in 0 .. MaxResets
    BY MipsSystemAssumption DEF MipsInit, AfterInstruction
  <1>7. before \in [pc : Int32, lo : Int32, hi : Int32, breg : [Reg -> Int32],
                   resets : 0 .. MaxResets]
    BY <1>5, <1>6 DEF MipsInit
  <1> QED
    BY <1>1, <1>2, <1>3, <1>4, <1>5, <1>6, <1>7 DEF MipsTypeInv, MipsTypeOK

\* The parts of the type invariant, as the steps of the program change them.
UserType == request \in MipsRequest /\ step \in 0 .. 4 /\ reply \in Int4
RegsType ==
    /\ counter \in Int32 /\ breg \in [Reg -> Int32]
    /\ hi \in Int32 /\ lo \in Int32 /\ instruction \in Instruction
    /\ stage \in {"wait", "fetch", "execute", "stopped"} /\ resets \in 0 .. MaxResets
    /\ before \in [pc : Int32, lo : Int32, hi : Int32, breg : [Reg -> Int32],
                   resets : 0 .. MaxResets]

LEMMA MipsTypeParts ==
  MipsTypeInv <=> /\ TypeOK /\ MduTypeOK /\ MemTypeOK /\ UserType /\ RegsType
                  /\ exited \in BOOLEAN
  BY DEF MipsTypeInv, MipsTypeOK, UserType, RegsType

LEMMA AskType ==
  ASSUME UserType, NEW r \in MipsRequest, Ask(r)
  PROVE  UserType'
  <1>1. 1 \in 1 .. LastCall(r) /\ CallNumber(r, 1)
    BY DEF LastCall, Ask
  <1>2. reply' \in {reply} \cup Garbage
    BY <1>1, CallIsBurst
  <1> QED
    BY <1>2, BytesFacts DEF Ask, UserType

LEMMA ThreadTypes ==
  ASSUME UserType, RegsType, ThreadRuns
  PROVE  UserType' /\ RegsType'
  <1> DEFINE R == Zeroed(breg)
  <1>t. /\ counter \in Int32 /\ breg \in [Reg -> Int32] /\ instruction \in Instruction
        /\ R \in [Reg -> Int32] /\ request \in MipsRequest /\ ToInt(reply) \in Int32
        /\ reply \in Int4 /\ step \in 0 .. 4 /\ hi \in Int32 /\ lo \in Int32
    BY ToIntType, IntsAreMany DEF UserType, RegsType, Zeroed, ZERO
  <1>1. CASE Fetch
    <2>1. UserType'
      BY <1>1, <1>t, AskType, FetchRequestType DEF Fetch
    <2>2. RegsType'
      BY <1>1 DEF Fetch, cleared, RegsType
    <2> QED
      BY <2>1, <2>2
  <1>2. CASE Decode
    <2>1. Decoded[ToInt(reply)] \in Instruction /\ Plus(counter, 4) \in Int32
      <3>1. counter \in Int
        BY <1>t, IntIsInt
      <3>2. Plus(counter, 4) \in Int32
        BY <3>1, PlusType
      <3> QED
        BY <1>t, <3>2, MipsAssumption
    <2>2. RegsType'
      BY <1>2, <2>1 DEF Decode, RegsType
    <2>3. UserType'
      BY <1>2 DEF Decode, KeepBus, UserType
    <2> QED
      BY <2>2, <2>3
  <1>3. CASE StartBus
    <2>1. breg' = R
      BY <1>3 DEF StartBus
    <2>2. RegsType'
      BY <1>3, <1>t, <2>1 DEF StartBus, RegsType
    <2>3. CASE instruction.op \in MduOp
      <3> DEFINE chosen ==
                   CASE instruction.op \in MduOp -> MduRequest(instruction)
                     [] instruction.op = "SYSCALL" -> CharRequest(breg'[A0])
                     [] OTHER -> DataRequest(instruction, breg')
      <3>0. chosen = MduRequest(instruction)
        BY <2>3 DEF MduOp
      <3>1. Ask(MduRequest(instruction))
        BY <1>3, <3>0 DEF StartBus
      <3>2. MduRequest(instruction) \in MipsRequest
        BY <1>t, <2>3, MduRequestType
      <3> QED
        BY <2>2, <3>1, <3>2, AskType
    <2>4. CASE instruction.op \notin MduOp /\ instruction.op = "SYSCALL"
      <3>1. breg'[A0] \in Int32
        BY <1>t, <2>1 DEF A0, Reg
      <3>2. Ask(CharRequest(breg'[A0]))
        BY <1>3, <2>4 DEF StartBus
      <3>3. CharRequest(breg'[A0]) \in MipsRequest
        BY <3>1, FetchRequestType
      <3> QED
        BY <2>2, <3>2, <3>3, AskType
    <2>5. CASE instruction.op \notin MduOp /\ instruction.op # "SYSCALL"
      <3>1. Ask(DataRequest(instruction, breg'))
        BY <1>3, <2>5 DEF StartBus
      <3>2. instruction.op \in LoadOp \cup StoreOp
        BY <1>3, <2>5 DEF StartBus, UsesBus
      <3>3. breg' \in [Reg -> Int32]
        BY <1>t, <2>1
      <3>4. DataRequest(instruction, breg') \in MipsRequest
        BY <1>t, <3>2, <3>3, DataRequestType
      <3> QED
        BY <2>2, <3>1, <3>4, AskType
    <2> QED
      BY <2>2, <2>3, <2>4, <2>5
  <1>4. CASE WithoutBus
    <2>1. UserType'
      BY <1>4 DEF WithoutBus, KeepBus, UserType
    <2>2. breg' \in [Reg -> Int32]
      <3>1. \/ \E n \in Inputs : breg' = [R EXCEPT ![V0] = n]
            \/ breg' = Computes(instruction, R, counter)
        BY <1>4 DEF WithoutBus
      <3>2. Inputs \subseteq Int32
        BY MipsMachineAssumption
      <3> HIDE DEF R
      <3>3. Computes(instruction, R, counter) \in [Reg -> Int32]
        BY <1>t, ComputesType, InstructionFields
      <3>4. \A n \in Int32 : [R EXCEPT ![V0] = n] \in [Reg -> Int32]
        BY <1>t
      <3> QED
        BY <3>1, <3>2, <3>3, <3>4
    <2>3. counter' \in Int32
      <3>1. counter' = Target(instruction, R, counter)
        BY <1>4 DEF WithoutBus
      <3> HIDE DEF R
      <3> QED
        BY <1>t, <3>1, TargetType, InstructionFields
    <2>4. stage' \in {"wait", "fetch", "execute", "stopped"}
      BY <1>4 DEF WithoutBus, AfterInstruction
    <2>5. UNCHANGED <<hi, lo, instruction, resets, before>>
      BY <1>4 DEF WithoutBus
    <2> QED
      BY <2>1, <2>2, <2>3, <2>4, <2>5 DEF RegsType
  <1>5. CASE NextCall
    <2>1. step \in 1 .. LastCall(request) - 1 /\ step' = step + 1
      BY <1>5, CallLength DEF NextCall
    <2>2. step' \in 1 .. LastCall(request) /\ step' \in 0 .. 4
      BY <2>1 DEF LastCall
    <2>3. reply' \in {reply} \cup Garbage
      BY <1>5, <2>2, CallIsBurst DEF NextCall
    <2>4. UserType'
      BY <1>5, <1>t, <2>2, <2>3, BytesFacts DEF NextCall, UserType
    <2>5. RegsType'
      BY <1>5 DEF NextCall, regs, cleared, RegsType
    <2> QED
      BY <2>4, <2>5
  <1>6. CASE NextChar
    <2>1. request.addr \in Int
      BY <1>t, BytesFacts DEF MipsRequest
    <2>2. Plus(AsInt(request.addr), 1) \in Int32
      <3>1. AsInt(request.addr) \in Int
        BY <2>1, AsIntType, IntIsInt
      <3> QED
        BY <3>1, PlusType
    <2>3. UserType'
      BY <1>6, <2>2, AskType, FetchRequestType DEF NextChar
    <2>4. RegsType'
      BY <1>6 DEF NextChar, regs, cleared, RegsType
    <2> QED
      BY <2>3, <2>4
  <1>7. CASE EndBus
    <2>1. UserType'
      BY <1>7 DEF EndBus, KeepBus, UserType
    <2>2. breg' \in [Reg -> Int32]
      BY <1>7, <1>t DEF EndBus
    <2>3. stage' \in {"wait", "fetch", "execute", "stopped"}
      BY <1>7 DEF EndBus, AfterInstruction
    <2> QED
      BY <1>7, <2>1, <2>2, <2>3 DEF EndBus, RegsType
  <1>8. CASE CallReturns
    BY <1>8 DEF CallReturns, user, regs, cleared, UserType, RegsType
  <1> QED
    BY <1>1, <1>2, <1>3, <1>4, <1>5, <1>6, <1>7, <1>8 DEF ThreadRuns

\* What the MDU is given and gives is an int.
LEMMA MduEdgeTypes ==
  ASSUME TypeOK, MduTypeOK, UserType, RegsType, exited \in BOOLEAN,
         NEW p, MduWrite(p) \/ MduRead(p)
  PROVE  MduTypeOK' /\ UserType' /\ RegsType' /\ exited' \in BOOLEAN
  <1>t. /\ opA \in Int32 /\ opB \in Int32 /\ wait_left \in -1 .. wait_states
        /\ breg \in [Reg -> Int32] /\ instruction \in Instruction
    BY DEF MduTypeOK, RegsType
  <1>1. CASE MduWrite(p)
    <2>1. breg[instruction.rs] \in Int32 /\ breg[instruction.rt] \in Int32
      BY <1>t, FieldTypes, InstructionFields
    <2>2. MduTypeOK'
      BY <1>1, <1>t, <2>1 DEF MduWrite, write, MduTypeOK
    <2>3. UserType' /\ RegsType' /\ exited' \in BOOLEAN
      BY <1>1 DEF MduWrite, user, regs, cleared, UserType, RegsType
    <2> QED
      BY <2>2, <2>3
  <1>2. CASE MduRead(p)
    <2>1. PICK r \in IF read_status = "OK" THEN Calculated(address[p], opA, opB) ELSE {0} :
            IF r = Trap
            THEN exited' = TRUE /\ UNCHANGED <<vars, mdu_vars, hi, lo>>
            ELSE /\ HandleAnswer(p, read_status) /\ read
                 /\ lo' = IF read_status = "OK" /\ address[p] \in {MLow, Div} THEN r ELSE lo
                 /\ hi' = IF read_status = "OK" /\ address[p] \in {MHigh, Mod} THEN r ELSE hi
                 /\ UNCHANGED exited
      BY <1>2 DEF MduRead
    <2>2. r \in Int32 \cup {Trap}
      <3>1. Calculated(address[p], opA, opB) \subseteq Int32 \cup {Trap}
        BY <1>t, CalculateType, MipsMachineAssumption DEF Calculated, Signal, Trap
      <3> QED
        BY <2>1, <3>1, IntsAreMany
    <2>3. MduTypeOK'
      BY <1>t, <2>1, WaitAssumption DEF mdu_vars, read, Start, MduTypeOK
    <2>4. UserType'
      BY <1>2 DEF MduRead, user, UserType
    <2>5. lo' \in Int32 /\ hi' \in Int32 /\ exited' \in BOOLEAN
      BY <2>1, <2>2 DEF RegsType
    <2>6. RegsType'
      BY <1>2, <2>5 DEF MduRead, RegsType
    <2> QED
      BY <2>3, <2>4, <2>5, <2>6
  <1> QED
    BY <1>1, <1>2

LEMMA MemEdgeTypes ==
  ASSUME TypeOK, MemTypeOK, UserType, NEW p \in {mem_priority}, MemWrite(p) \/ MemRead(p)
  PROVE  MemTypeOK' /\ UserType' /\ exited' \in BOOLEAN
  <1>1. CASE MemWrite(p)
    <2>1. /\ request.type \in OpType /\ request.dado \in Int4
          /\ AddressOf(request) \in 0 .. UintCount - 1
      BY RequestAddress DEF UserType, MipsRequest
    <2>2. MemTypeOK' /\ UNCHANGED user /\ exited' \in BOOLEAN
      BY <1>1, <2>1, MemWriteType
    <2> QED
      BY <2>2 DEF user, UserType
  <1>2. CASE MemRead(p)
    <2>1. /\ MemTypeOK' /\ UNCHANGED <<request, step>> /\ reply' \in Int4
          /\ exited' \in BOOLEAN
      BY <1>2, MemReadType DEF UserType
    <2> QED
      BY <2>1 DEF UserType
  <1> QED
    BY <1>1, <1>2

LEMMA MipsTypeStep == MipsTypeInv /\ [MipsNext]_mips_vars => MipsTypeInv'
  <1> SUFFICES ASSUME MipsTypeInv, [MipsNext]_mips_vars PROVE MipsTypeInv'
    OBVIOUS
  <1>t. /\ TypeOK /\ MduTypeOK /\ MemTypeOK /\ UserType /\ RegsType /\ exited \in BOOLEAN
    BY MipsTypeParts
  <1>s. SUFFICES /\ MduTypeOK' /\ MemTypeOK' /\ UserType' /\ RegsType'
                 /\ exited' \in BOOLEAN
    <2>1. TypeOK'
      BY <1>t, MipsStepIsBusStep, TypeStep
    <2> QED
      BY <1>s, <2>1 DEF MipsTypeInv, MipsTypeOK, UserType, RegsType
  <1>a. UNCHANGED mdu_vars => MduTypeOK'
    BY <1>t DEF mdu_vars, MduTypeOK
  <1>b. UNCHANGED mem_vars => MemTypeOK'
    BY <1>t DEF mem_vars, MemTypeOK
  <1>c. UNCHANGED user => UserType'
    BY <1>t DEF user, UserType
  <1>d. UNCHANGED regs => RegsType'
    BY <1>t DEF regs, cleared, RegsType
  <1>1. CASE ThreadRuns
    BY <1>1, <1>t, <1>a, <1>b, ThreadTypes DEF ThreadRuns
  <1>2. CASE RisingEdge
    <2>1. MemTypeOK'
      BY <1>2, <1>t, MemWaitAssumption DEF RisingEdge, update_wait, MemTypeOK
    <2>2. MduTypeOK'
      BY <1>2, <1>t, WaitAssumption DEF RisingEdge, update_wait_left, CountDown, MduTypeOK
    <2>3. RegsType'
      BY <1>2, <1>t DEF RisingEdge, cleared, RegsType
    <2> QED
      BY <1>2, <1>t, <1>c, <2>1, <2>2, <2>3 DEF RisingEdge
  <1>3. CASE AskMdu
    <2>1. PICK p \in ToHandle \cap {mdu_priority} :
             (MduWrite(p) \/ MduRead(p)) /\ UNCHANGED mem_vars
      BY <1>3 DEF AskMdu
    <2> QED
      BY <1>t, <1>b, <2>1, MduEdgeTypes
  <1>4. CASE AskMem
    <2>1. PICK p \in ToHandle \cap {mem_priority} :
             (MemWrite(p) \/ MemRead(p)) /\ UNCHANGED <<mdu_vars, regs>>
      BY <1>4 DEF AskMem
    <2>2. UNCHANGED mdu_vars /\ UNCHANGED regs
      BY <2>1
    <2> QED
      BY <1>t, <1>a, <1>d, <2>1, <2>2, MemEdgeTypes
  <1>5. CASE NothingToDo
    BY <1>5, <1>t, <1>a, <1>b, <1>c, <1>d DEF NothingToDo
  <1>6. CASE Reset
    <2>1. resets' \in 0 .. MaxResets
      BY <1>6, <1>t, MipsSystemAssumption DEF Reset, RegsType
    <2>2. RegsType'
      BY <1>6, <1>t, <2>1, IntsAreMany, InitialBregType DEF Reset, ResetHi, RegsType
    <2> QED
      BY <1>6, <1>t, <1>a, <1>b, <1>c, <2>2 DEF Reset
  <1>7. CASE UNCHANGED mips_vars
    BY <1>7, <1>t, <1>a, <1>b, <1>c, <1>d DEF mips_vars
  <1> QED
    BY <1>1, <1>2, <1>3, <1>4, <1>5, <1>6, <1>7
    DEF MipsNext, ClockEdge, FallingEdgeOfBus

LEMMA MipsTyped == MipsSpec => []MipsTypeInv
  BY MipsTypeInit, MipsTypeStep, PTL DEF MipsSpec

\* Types of the processor, for ints, bytes and fields of any width and every
\* program: no instruction, interleaving of its bus calls or reset puts anything
\* but an int into a register, or anything but bytes into the memory.
THEOREM MipsTypes == MipsSpec => []MipsTypeOK
  <1>1. MipsTypeInv => MipsTypeOK
    BY DEF MipsTypeInv
  <1> QED
    BY <1>1, MipsTyped, PTL

\* Whatever holds of the bus with any slaves holds of the processor's.
THEOREM MipsIsABus == MipsSpec => Spec
  <1>1. MipsInit => Init
    BY DEF MipsInit
  <1>2. MipsTypeInv /\ [MipsNext]_mips_vars => [Next]_vars
    BY MipsStepIsBusStep DEF MipsTypeInv, MipsTypeOK
  <1> QED
    BY <1>1, <1>2, MipsTyped, PTL DEF MipsSpec, Spec

-------------------------------------------------------------------------------
(* The bus call in progress *)

Moved(n) == step > n \/ (step = n /\ pc[Caller(request)] # "transfer")

\* The form of the caller is that of the call in progress, and nobody else calls.
CallInv ==
    /\ stage \in {"wait", "stopped"} => step = 0
    /\ step = 0 => pc[cpu] = "idle" /\ pc[wrapper] = "idle"
    /\ step > 0 =>
          /\ step <= LastCall(request)
          /\ \A m \in Master : m # Caller(request) => pc[m] = "idle"
          /\ pc[Caller(request)] = "transfer" =>
                LET p == PriorityOf[Caller(request)] IN
                /\ address[p] = CallAddress(request, step)
                /\ end_address[p] = CallAddress(request, step)
                /\ do_write[p] <=> ~CallReads(request, step)
    /\ \A m \in Master : pc[m] # "poll"

LEMMA CallAddressFacts ==
  ASSUME NEW r, NEW n \in 1 .. LastCall(r)
  PROVE  /\ CallAddress(r, n) \in Nat /\ CallAddress(r, n) % 4 = 0
         /\ CallAddress(r, n) < AddressSpace /\ CallAddress(r, n) + 4 < AddressSpace
         /\ get_slave(CallAddress(r, n)) # {}
  <1>1. MemEndAddr + 4 < AddressSpace /\ AddressSpace \in Nat
    BY MipsSystemAssumption, SpaceAssumption
  <1>2. CASE UsesMdu(r)
    <2>1. n = 1 \/ n = 2 \/ n = 3 \/ n = 4
      BY <1>2 DEF LastCall
    <2>2. CallAddress(r, n) \in {256, 260, 264, 268, 272, 276}
      BY <1>2, <2>1 DEF CallAddress, OpA, OpB, MLow, MHigh, Div, Mod
    <2>3. "MDU" \in get_slave(CallAddress(r, n))
      BY <2>2, MipsSystemAssumption
      DEF get_slave, MipsSlave, Starts, Ends, StartAddr, EndAddr
    <2> QED
      BY <1>1, <2>2, <2>3 DEF MemEndAddr
  <1>3. CASE ~UsesMdu(r)
    <2>1. CallAddress(r, n) \in {1028, 1032, 1036}
      BY <1>3 DEF CallAddress, AccessAddress, OpTypeReg, AddrReg, MemAddr
    <2>2. "mem" \in get_slave(CallAddress(r, n))
      BY <2>1, MipsSystemAssumption
      DEF get_slave, MipsSlave, Starts, Ends, MemStartAddr, MemEndAddr
    <2> QED
      BY <1>1, <2>1, <2>2 DEF MemEndAddr
  <1> QED
    BY <1>2, <1>3

LEMMA CallerFacts ==
  ASSUME NEW r
  PROVE  /\ Caller(r) \in Master /\ PriorityOf[Caller(r)] \in Priority
         /\ UsesMdu(r) => Caller(r) = cpu /\ PriorityOf[Caller(r)] = mdu_priority
         /\ ~UsesMdu(r) => Caller(r) = wrapper /\ PriorityOf[Caller(r)] = mem_priority
  BY MipsFacts DEF Caller

\* A call of the thread is put in the form as it is.
LEMMA CallFillsForm ==
  ASSUME TypeOK, NEW r, NEW n \in 1 .. LastCall(r), CallNumber(r, n)
  PROVE  /\ address'[PriorityOf[Caller(r)]] = CallAddress(r, n)
         /\ end_address'[PriorityOf[Caller(r)]] = CallAddress(r, n)
         /\ do_write'[PriorityOf[Caller(r)]] <=> ~CallReads(r, n)
         /\ pc' = [pc EXCEPT ![Caller(r)] = "transfer"] /\ pc[Caller(r)] = "idle"
         /\ pc'[Caller(r)] = "transfer"
         /\ \A m \in Master : m # Caller(r) => pc'[m] = pc[m]
  <1> DEFINE c == CallsOf(r)[n]
             p == PriorityOf[Caller(r)]
  <1>1. BurstCall(Caller(r), c, FALSE)
    BY CallIsBurst
  <1>a. /\ CallReads(r, n) => c = ReadFrom(CallAddress(r, n))
        /\ ~CallReads(r, n) => c = WriteTo(CallAddress(r, n))
    BY CallFacts
  <1>b. \A a : /\ ReadFrom(a).address = a /\ ReadFrom(a).length = 1 /\ ReadFrom(a).do_write = FALSE
               /\ WriteTo(a).address = a /\ WriteTo(a).length = 1 /\ WriteTo(a).do_write = TRUE
    BY DEF WriteTo, ReadFrom
  <1>2. c.address = CallAddress(r, n) /\ c.length = 1
    BY <1>a, <1>b
  <1>3. (CallReads(r, n) => c.do_write = FALSE) /\ (~CallReads(r, n) => c.do_write = TRUE)
    BY <1>a, <1>b
  <1> HIDE DEF c
  <1>4. EndOfBurst(c) = CallAddress(r, n)
    <2>1. EndOfBurst(c) = (CallAddress(r, n) + (1 - 1) * 4) % AddressSpace
      BY <1>2 DEF EndOfBurst
    <2>2. CallAddress(r, n) + (1 - 1) * 4 = CallAddress(r, n)
      BY CallAddressFacts
    <2> QED
      BY <2>1, <2>2, CallAddressFacts, ModOfWord
  <1>5. Fill(p, c, FALSE) /\ p \in Priority /\ Caller(r) \in Master
    BY <1>1, CallerFacts DEF BurstCall
  <1>6. address'[p] = CallAddress(r, n) /\ end_address'[p] = CallAddress(r, n)
    BY <1>2, <1>4, <1>5 DEF Fill, TypeOK
  <1>7. do_write'[p] = c.do_write
    BY <1>5 DEF Fill, TypeOK
  <1>8. pc' = [pc EXCEPT ![Caller(r)] = "transfer"] /\ pc[Caller(r)] = "idle"
    BY <1>1 DEF BurstCall
  <1>9. pc'[Caller(r)] = "transfer" /\ \A m \in Master : m # Caller(r) => pc'[m] = pc[m]
    BY <1>5, <1>8 DEF TypeOK
  <1> QED
    BY <1>3, <1>6, <1>7, <1>8, <1>9

\* A falling edge serves the call in progress, at a register of its slave.
LEMMA EdgeServesCall ==
  ASSUME MipsTypeInv, BusInv, CallInv, NEW p \in ToHandle
  PROVE  /\ p = PriorityOf[Caller(request)] /\ pc[Caller(request)] = "transfer"
         /\ step \in 1 .. LastCall(request) /\ Reached(p) /\ Done(p)
         /\ address[p] = CallAddress(request, step)
         /\ do_write[p] <=> ~CallReads(request, step)
         /\ p = mdu_priority <=> UsesMdu(request)
  <1>1. p \in Pending /\ p \in Priority
    BY HandledIsPending DEF BusInv, Pending
  <1>2. PICK m \in Master : PriorityOf[m] = p
    BY <1>1 DEF Priority
  <1>3. pc[m] = "transfer"
    BY <1>1, <1>2 DEF BusInv, ReturnsFinal, Pending, Final, CallInv, TypeOK, PcValues
  <1>4. step \in 0 .. 4 /\ step # 0
    <2>1. step \in 0 .. 4
      BY DEF MipsTypeInv, MipsTypeOK
    <2>2. step # 0
      BY <1>3, MipsFacts DEF CallInv
    <2> QED
      BY <2>1, <2>2
  <1>5. m = Caller(request) /\ step \in 1 .. LastCall(request)
    BY <1>3, <1>4 DEF CallInv, LastCall
  <1>6. /\ address[p] = CallAddress(request, step)
        /\ end_address[p] = CallAddress(request, step)
        /\ do_write[p] <=> ~CallReads(request, step)
    BY <1>2, <1>3, <1>4, <1>5 DEF CallInv
  <1>7. Reached(p)
    BY <1>5, <1>6, CallAddressFacts DEF Reached
  <1>8. (CallAddress(request, step) + 4) % AddressSpace = CallAddress(request, step) + 4
    BY <1>5, CallAddressFacts, ModOfWord
  <1>9. Done(p)
    BY <1>5, <1>6, <1>8, CallAddressFacts DEF Done
  <1>10. p = mdu_priority <=> UsesMdu(request)
    BY <1>2, <1>5, CallerFacts, MipsFacts
  <1> QED
    BY <1>2, <1>3, <1>5, <1>6, <1>7, <1>9, <1>10

\* With the answer WAIT the call goes on; with OK it ends.
LEMMA AnswerOutcome ==
  ASSUME MipsTypeInv, BusInv, CallInv, NEW p \in ToHandle, NEW answer \in {"OK", "WAIT"},
         HandleAnswer(p, answer)
  PROVE  /\ answer = "WAIT" => UNCHANGED <<pc, address, end_address, do_write>>
         /\ answer = "OK" => /\ pc'[Caller(request)] = "edge"
                             /\ \A m \in Master : m # Caller(request) => pc'[m] = pc[m]
  <1>1. ~Reject(p)
    BY EdgeServesCall DEF Reject
  <1>2. CASE answer = "WAIT" /\ SlaveWait(p)
    BY <1>2 DEF SlaveWait, FallingEdge, form
  <1>3. CASE answer = "OK" /\ SlaveOK(p)
    <2>1. pc' = Notified(p)
      BY <1>3, EdgeServesCall DEF SlaveOK
    <2>2. Caller(request) \in Master /\ \A m \in Master : m # Caller(request) => PriorityOf[m] # p
      BY EdgeServesCall, CallerFacts, MipsIsUnique DEF UniquePriorities
    <2> QED
      BY <1>3, <2>1, <2>2, EdgeServesCall DEF Notified
  <1> QED
    BY <1>1, <1>2, <1>3 DEF HandleAnswer

\* A step that starts or ends no transfer.
Steady ==
    /\ request' = request /\ step' = step
    /\ UNCHANGED <<address, end_address, do_write>>
    /\ \A m \in Master : /\ pc'[m] = "transfer" <=> pc[m] = "transfer"
                         /\ pc[m] = "idle" => pc'[m] = "idle"
                         /\ pc'[m] = "poll" => pc[m] = "poll"

LEMMA SteadyMoves ==
  ASSUME Steady
  PROVE  \A n : Moved(n)' <=> Moved(n)
  BY CallerFacts DEF Steady, Moved

LEMMA SamePlace ==
  ASSUME UNCHANGED <<request, step>>, UNCHANGED vars
  PROVE  Steady
  BY DEF vars, form, Steady

LEMMA ReturnIsSteady ==
  ASSUME TypeOK, CallReturns
  PROVE  Steady
  <1>1. PICK m \in MipsMaster : Return(m)
    BY DEF CallReturns
  <1>2. pc[m] = "ready" /\ pc' = [pc EXCEPT ![m] = "idle"]
        /\ UNCHANGED <<address, end_address, do_write>>
    BY <1>1 DEF Return, form
  <1>3. \A k \in Master : pc'[k] = IF k = m THEN "idle" ELSE pc[k]
    BY <1>2 DEF TypeOK
  <1> QED
    BY <1>2, <1>3 DEF CallReturns, user, Steady

LEMMA RisingIsSteady ==
  ASSUME RisingEdge
  PROVE  Steady
  BY DEF RisingEdge, PosEdge, form, user, Steady

LEMMA NothingIsSteady ==
  ASSUME NothingToDo
  PROVE  Steady
  BY DEF NothingToDo, NothingPending, FallingEdge, form, user, Steady

LEMMA SteadyCall ==
  ASSUME CallInv, Steady, stage' \in {"wait", "stopped"} => stage \in {"wait", "stopped"}
  PROVE  CallInv'
  BY CallerFacts, MipsFacts DEF CallInv, Steady

\* A new call is the only one.
LEMMA NewCall ==
  ASSUME TypeOK, CallInv, Idle, NEW n \in 1 .. LastCall(request'), CallNumber(request', n),
         step' = n, stage' \in {"fetch", "execute"}
  PROVE  /\ CallInv' /\ pc'[Caller(request')] = "transfer"
         /\ \A k \in Nat : Moved(k)' <=> n > k
  <1>1. /\ address'[PriorityOf[Caller(request')]] = CallAddress(request', n)
        /\ end_address'[PriorityOf[Caller(request')]] = CallAddress(request', n)
        /\ do_write'[PriorityOf[Caller(request')]] <=> ~CallReads(request', n)
        /\ pc'[Caller(request')] = "transfer"
        /\ \A m \in Master : m # Caller(request') => pc'[m] = pc[m]
    BY CallFillsForm
  <1>2. n \in Nat /\ n > 0 /\ n <= LastCall(request')
    BY DEF LastCall
  <1>3. \A m \in Master : m # Caller(request') => pc'[m] = "idle"
    BY <1>1, MipsFacts DEF Idle
  <1>4. \A m \in Master : pc'[m] # "poll"
    BY <1>1, <1>3
  <1> QED
    BY <1>1, <1>2, <1>3, <1>4 DEF CallInv, Moved

LEMMA AskIsNewCall ==
  ASSUME TypeOK, CallInv, Idle, NEW r, Ask(r), stage' \in {"fetch", "execute"}
  PROVE  /\ CallInv' /\ pc'[Caller(request')] = "transfer"
         /\ \A k \in Nat : Moved(k)' <=> 1 > k
  <1>1. 1 \in 1 .. LastCall(request') /\ CallNumber(request', 1) /\ step' = 1
    BY DEF Ask, LastCall
  <1> QED
    BY <1>1, NewCall

LEMMA NextIsNewCall ==
  ASSUME TypeOK, CallInv, NextCall
  PROVE  /\ CallInv' /\ pc'[Caller(request')] = "transfer" /\ request' = request
         /\ step \in 1 .. LastCall(request) - 1 /\ step' = step + 1
         /\ pc[Caller(request)] = "idle"
         /\ \A k \in Nat : Moved(k)' <=> Moved(k)
  <1>1. /\ step \in 1 .. LastCall(request) - 1 /\ step' = step + 1 /\ request' = request
        /\ CallNumber(request', step') /\ Idle /\ stage' \in {"fetch", "execute"}
    BY CallLength DEF NextCall, regs
  <1>2. step' \in 1 .. LastCall(request')
    BY <1>1 DEF LastCall
  <1>3. CallInv' /\ pc'[Caller(request')] = "transfer" /\ \A k \in Nat : Moved(k)' <=> step' > k
    BY <1>1, <1>2, NewCall
  <1>4. pc[Caller(request)] = "idle"
    BY <1>1 DEF Idle, Caller
  <1>5. step \in Nat
    BY <1>1
  <1>6. \A k \in Nat : Moved(k) <=> step >= k
    BY <1>4, <1>5 DEF Moved
  <1> QED
    BY <1>1, <1>3, <1>4, <1>5, <1>6

\* Between two calls nobody is in one.
LEMMA NoCall ==
  ASSUME CallInv, step = 0 \/ Idle
  PROVE  Idle
  BY DEF CallInv, Idle

LEMMA StaysIdle ==
  ASSUME CallInv, Idle, step' = 0, UNCHANGED vars
  PROVE  CallInv'
  BY DEF vars, form, CallInv, Idle

\* The end of a transfer.
LEMMA EndOfCall ==
  ASSUME MipsTypeInv, BusInv, CallInv, NEW p \in ToHandle, HandleAnswer(p, "OK"),
         UNCHANGED <<request, step, stage>>
  PROVE  /\ CallInv' /\ pc'[Caller(request)] = "edge"
         /\ \A k \in Nat : (Moved(k)' <=> step >= k) /\ (Moved(k) <=> step > k)
  <1>1. /\ pc'[Caller(request)] = "edge"
        /\ \A m \in Master : m # Caller(request) => pc'[m] = pc[m]
    BY AnswerOutcome
  <1>2. pc[Caller(request)] = "transfer" /\ step \in 1 .. LastCall(request) /\ step \in Nat
    BY EdgeServesCall DEF LastCall
  <1>3. CallInv'
    BY <1>1, <1>2 DEF CallInv
  <1> QED
    BY <1>1, <1>2, <1>3 DEF Moved

LEMMA WaitIsSteady ==
  ASSUME MipsTypeInv, BusInv, CallInv, NEW p \in ToHandle, HandleAnswer(p, "WAIT"),
         UNCHANGED <<request, step>>
  PROVE  Steady
  BY AnswerOutcome DEF Steady

-------------------------------------------------------------------------------
(* The falling edges *)

\* The transfer of the call in progress ends.
Ended ==
    /\ CallInv' /\ pc'[Caller(request)] = "edge" /\ pc[Caller(request)] = "transfer"
    /\ request' = request /\ step' = step
    /\ \A k \in Nat : (Moved(k)' <=> step >= k) /\ (Moved(k) <=> step > k)

LEMMA EdgeEnds ==
  ASSUME MipsTypeInv, BusInv, CallInv, NEW p \in ToHandle, HandleAnswer(p, "OK"),
         UNCHANGED <<request, step, stage>>
  PROVE  Ended
  <1>1. /\ CallInv' /\ pc'[Caller(request)] = "edge"
        /\ \A k \in Nat : (Moved(k)' <=> step >= k) /\ (Moved(k) <=> step > k)
    BY EndOfCall
  <1>2. pc[Caller(request)] = "transfer"
    BY EdgeServesCall
  <1> QED
    BY <1>1, <1>2 DEF Ended

LEMMA MduWriteOutcome ==
  ASSUME MipsTypeInv, BusInv, CallInv, NEW p \in ToHandle, p = mdu_priority, MduWrite(p)
  PROVE  /\ UNCHANGED <<user, exited, regs>> /\ UsesMdu(request) /\ step \in {1, 2}
         /\ \/ Steady /\ UNCHANGED <<opA, opB>>
            \/ /\ Ended
               /\ step = 1 => opA' = breg[instruction.rs] /\ opB' = opB
               /\ step = 2 => opA' = opA /\ opB' = breg[instruction.rt]
  <1>1. /\ UsesMdu(request) /\ step \in 1 .. LastCall(request) /\ do_write[p]
        /\ address[p] = CallAddress(request, step) /\ ~CallReads(request, step)
        /\ HandleAnswer(p, write_status(address[p]))
        /\ write(address[p], breg[IF address[p] = OpA THEN instruction.rs ELSE instruction.rt])
    BY EdgeServesCall DEF MduWrite
  <1>2. UNCHANGED <<user, exited, regs>> /\ UNCHANGED <<request, step, stage>>
    BY DEF MduWrite, user, regs
  <1>3. step \in {1, 2}
    BY <1>1 DEF LastCall, CallReads
  <1>4. (step = 1 => address[p] = OpA) /\ (step = 2 => address[p] = OpB) /\ OpA # OpB
    BY <1>1 DEF CallAddress, OpA, OpB
  <1>5. CASE write_status(address[p]) = "WAIT"
    BY <1>1, <1>2, <1>3, <1>5, WaitIsSteady DEF write
  <1>6. CASE write_status(address[p]) = "OK"
    <2>1. Ended
      BY <1>1, <1>2, <1>6, EdgeEnds
    <2>2. /\ step = 1 => opA' = breg[instruction.rs] /\ opB' = opB
          /\ step = 2 => opA' = opA /\ opB' = breg[instruction.rt]
      BY <1>1, <1>4, <1>6 DEF write, Register
    <2> QED
      BY <1>1, <1>2, <1>3, <2>1, <2>2
  <1> QED
    BY <1>3, <1>4, <1>5, <1>6 DEF write_status

LEMMA MduReadOutcome ==
  ASSUME MipsTypeInv, BusInv, CallInv, NEW p \in ToHandle, p = mdu_priority, MduRead(p),
         ~exited
  PROVE  /\ UNCHANGED <<user, counter, breg, instruction, stage, resets, before, opA, opB>>
         /\ UsesMdu(request) /\ step \in {3, 4}
         /\ \/ /\ exited' /\ UNCHANGED <<vars, hi, lo>>
               /\ Trap \in Calculated(CallAddress(request, step), opA, opB)
            \/ Steady /\ UNCHANGED <<exited, hi, lo>>
            \/ /\ Ended /\ exited' = exited
               /\ \E r \in Calculated(CallAddress(request, step), opA, opB) \ {Trap} :
                     /\ step = 3 => lo' = r /\ hi' = hi
                     /\ step = 4 => lo' = lo /\ hi' = r
  <1>1. /\ UsesMdu(request) /\ step \in 1 .. LastCall(request) /\ ~do_write[p]
        /\ address[p] = CallAddress(request, step) /\ CallReads(request, step)
    BY EdgeServesCall DEF MduRead
  <1>2. PICK r \in IF read_status = "OK" THEN Calculated(address[p], opA, opB) ELSE {0} :
          IF r = Trap
          THEN exited' = TRUE /\ UNCHANGED <<vars, mdu_vars, hi, lo>>
          ELSE /\ HandleAnswer(p, read_status) /\ read
               /\ lo' = IF read_status = "OK" /\ address[p] \in {MLow, Div} THEN r ELSE lo
               /\ hi' = IF read_status = "OK" /\ address[p] \in {MHigh, Mod} THEN r ELSE hi
               /\ UNCHANGED exited
    BY DEF MduRead
  <1>3. UNCHANGED <<user, counter, breg, instruction, stage, resets, before, opA, opB>>
    BY <1>2 DEF MduRead, mdu_vars, read
  <1>4. step \in {3, 4}
    BY <1>1 DEF CallReads
  <1>5. /\ step = 3 => address[p] \in {MLow, Div} /\ address[p] \notin {MHigh, Mod}
        /\ step = 4 => address[p] \in {MHigh, Mod} /\ address[p] \notin {MLow, Div}
    BY <1>1 DEF CallAddress, MLow, Div, MHigh, Mod
  <1>6. UNCHANGED <<request, step, stage>>
    BY <1>3 DEF user
  <1>7. read_status \in {"OK", "WAIT"} /\ Trap # 0
    BY IntsAreMany DEF read_status, Trap
  <1>8. CASE r = Trap
    <2>1. r \in Calculated(CallAddress(request, step), opA, opB)
      BY <1>1, <1>2, <1>7, <1>8
    <2>2. exited' /\ UNCHANGED <<vars, hi, lo>>
      BY <1>2, <1>8
    <2> QED
      BY <1>1, <1>3, <1>4, <1>8, <2>1, <2>2
  <1>9. CASE r # Trap /\ read_status = "WAIT"
    BY <1>1, <1>2, <1>3, <1>4, <1>6, <1>9, WaitIsSteady
  <1>10. CASE r # Trap /\ read_status = "OK"
    <2>1. Ended
      BY <1>2, <1>6, <1>10, EdgeEnds
    <2>2. r \in Calculated(CallAddress(request, step), opA, opB) \ {Trap}
      BY <1>1, <1>2, <1>10
    <2>3. (step = 3 => lo' = r /\ hi' = hi) /\ (step = 4 => lo' = lo /\ hi' = r)
      BY <1>2, <1>5, <1>10
    <2> QED
      BY <1>1, <1>2, <1>3, <1>4, <1>10, <2>1, <2>2, <2>3
  <1> QED
    BY <1>7, <1>8, <1>9, <1>10

LEMMA MemWriteOutcome ==
  ASSUME MipsTypeInv, BusInv, CallInv, NEW p \in ToHandle, p = mem_priority, MemWrite(p),
         ~exited, UNCHANGED regs
  PROVE  /\ UNCHANGED user /\ ~UsesMdu(request) /\ step \in 1 .. 3
         /\ step = 3 => request.kind = "store"
         /\ \/ exited' /\ UNCHANGED <<vars, mem>> /\ step = 3 /\ ~InRange(addr_reg)
            \/ Steady /\ UNCHANGED <<exited, mem, op_type_reg, addr_reg>>
            \/ /\ Ended /\ exited' = exited
               /\ op_type_reg' = IF step = 1 THEN request.type ELSE op_type_reg
               /\ addr_reg' = IF step = 2 THEN AddressOf(request) ELSE addr_reg
               /\ step # 3 => mem' = mem
               /\ step = 3 => /\ InRange(addr_reg)
                              /\ mem' = Store(mem, op_type_reg, addr_reg, request.dado)
  <1>1. /\ ~UsesMdu(request) /\ step \in 1 .. 3 /\ do_write[p]
        /\ address[p] = AccessAddress(step) /\ ~CallReads(request, step)
    BY EdgeServesCall, MipsFacts DEF MemWrite, LastCall, CallAddress
  <1>2. UNCHANGED user /\ UNCHANGED <<request, step, stage>>
    BY DEF MemWrite, user, regs
  <1>3. step = 3 => request.kind = "store"
    BY <1>1 DEF MipsTypeInv, MipsRequest, UsesMdu, CallReads, Reads
  <1>4. /\ address[p] = OpTypeReg <=> step = 1
        /\ address[p] = AddrReg <=> step = 2
        /\ address[p] = MemAddr <=> step = 3
    BY <1>1 DEF AccessAddress, OpTypeReg, AddrReg, MemAddr
  <1>5. CASE exited'
    BY <1>1, <1>2, <1>3, <1>4, <1>5 DEF MemWrite, WriteExits, mem_vars
  <1>6. CASE ~exited'
    <2>1. /\ HandleAnswer(p, mem_write_status) /\ mem_write(MemValue, address[p])
          /\ ~WriteExits(address[p]) /\ exited' = exited
      BY <1>6, MipsTypeParts DEF MemWrite, WriteExits
    <2>2. CASE mem_write_status = "WAIT"
      BY <1>1, <1>2, <1>3, <2>1, <2>2, WaitIsSteady DEF mem_write
    <2>3. CASE mem_write_status = "OK"
      <3>1. Ended
        BY <1>2, <2>1, <2>3, EdgeEnds
      <3>2. mem_direct_write(MemValue, address[p])
        BY <2>1, <2>3 DEF mem_write
      <3>3. MemValue = IF step = 1 THEN request.type
                       ELSE IF step = 2 THEN AddressOf(request) ELSE request.dado
        BY <1>1, <1>4 DEF MemValue, OpTypeReg, AddrReg
      <3>4. /\ op_type_reg' = IF step = 1 THEN request.type ELSE op_type_reg
            /\ addr_reg' = IF step = 2 THEN AddressOf(request) ELSE addr_reg
            /\ step # 3 => mem' = mem
            /\ step = 3 => mem' = Store(mem, op_type_reg, addr_reg, request.dado)
        BY <1>4, <3>2, <3>3 DEF mem_direct_write
      <3>5. step = 3 => InRange(addr_reg)
        BY <1>4, <2>1, <2>3 DEF WriteExits
      <3> QED
        BY <1>1, <1>2, <1>3, <2>1, <3>1, <3>4, <3>5
    <2> QED
      BY <2>2, <2>3 DEF mem_write_status
  <1> QED
    BY <1>5, <1>6

LEMMA MemReadOutcome ==
  ASSUME MipsTypeInv, BusInv, CallInv, NEW p \in ToHandle, p = mem_priority, MemRead(p),
         ~exited, UNCHANGED regs
  PROVE  /\ UNCHANGED <<request, step, mem, op_type_reg, addr_reg>>
         /\ ~UsesMdu(request) /\ step = 3 /\ request.kind = "load"
         /\ \/ exited' /\ UNCHANGED <<vars, reply>> /\ ~InRange(addr_reg)
            \/ Steady /\ UNCHANGED <<exited, reply>>
            \/ /\ Ended /\ exited' = exited /\ InRange(addr_reg)
               /\ reply' \in Load(mem, op_type_reg, addr_reg)
  <1>1. ~UsesMdu(request) /\ step = 3 /\ request.kind = "load"
    BY EdgeServesCall, MipsFacts DEF MemRead, CallReads, Reads
  <1>2. UNCHANGED <<request, step, stage>>
    BY DEF MemRead, regs
  <1>3. CASE exited'
    BY <1>1, <1>2, <1>3 DEF MemRead, ReadExits, mem_vars
  <1>4. CASE ~exited'
    <2>1. /\ HandleAnswer(p, mem_read_status) /\ mem_read(address[p]) /\ ~ReadExits
          /\ exited' = exited
      BY <1>4, MipsTypeParts DEF MemRead, ReadExits
    <2>2. UNCHANGED <<mem, op_type_reg, addr_reg>>
      BY <2>1 DEF mem_read
    <2>3. CASE mem_read_status = "WAIT"
      BY <1>1, <1>2, <1>4, <2>1, <2>2, <2>3, WaitIsSteady DEF MemRead
    <2>4. CASE mem_read_status = "OK"
      <3>1. Ended
        BY <1>2, <2>1, <2>4, EdgeEnds
      <3> QED
        BY <1>1, <1>2, <1>4, <2>1, <2>2, <2>4, <3>1 DEF MemRead, mem_direct_read, ReadExits
    <2> QED
      BY <2>3, <2>4 DEF mem_read_status
  <1> QED
    BY <1>3, <1>4

-------------------------------------------------------------------------------
(* The calls of the thread, and what the memory has got of them *)

\* Every step starts a call, ends one, or goes on with the one in progress.
LEMMA StepOfCall ==
  ASSUME MipsTypeInv, BusInv, CallInv, MipsNext
  PROVE  /\ CallInv'
         /\ FallingEdgeOfBus => Steady \/ Ended
         /\ CallReturns \/ RisingEdge \/ Reset => Steady
  <1>t. TypeOK /\ (step = 0 => Idle)
    BY NoCall DEF MipsTypeInv, MipsTypeOK
  <1>1. ASSUME NEW r, Ask(r), Idle, stage' \in {"fetch", "execute"} PROVE CallInv'
    BY <1>1, <1>t, AskIsNewCall
  <1>2. Fetch \/ StartBus \/ NextChar => CallInv'
    BY <1>1, <1>t DEF Fetch, StartBus, NextChar, CallReturned, regs
  <1>3. Decode \/ WithoutBus \/ EndBus => CallInv'
    BY <1>t, StaysIdle DEF Decode, WithoutBus, EndBus, CallReturned, KeepBus
  <1>4. NextCall => CallInv'
    BY <1>t, NextIsNewCall
  <1>5. CallReturns => Steady /\ stage' = stage
    BY <1>t, ReturnIsSteady DEF CallReturns, regs
  <1>6. RisingEdge => Steady /\ (stage' \in {"wait", "stopped"} => stage \in {"wait", "stopped"})
    BY RisingIsSteady DEF RisingEdge
  <1>7. Reset => Steady /\ stage' = stage
    BY SamePlace DEF Reset, user
  <1>8. FallingEdgeOfBus => stage' = stage /\ (Steady \/ Ended)
    <2>1. ASSUME NEW p \in ToHandle, p = mdu_priority, MduWrite(p), ~exited
          PROVE  stage' = stage /\ (Steady \/ Ended)
      BY <2>1, MduWriteOutcome DEF regs
    <2>2. ASSUME NEW p \in ToHandle, p = mdu_priority, MduRead(p), ~exited
          PROVE  stage' = stage /\ (Steady \/ Ended)
      <3>1. /\ stage' = stage /\ UNCHANGED <<request, step>>
            /\ UNCHANGED vars \/ Steady \/ Ended
        BY <2>2, MduReadOutcome DEF user
      <3> QED
        BY <3>1, SamePlace
    <2>3. ASSUME NEW p \in ToHandle, p = mem_priority, MemWrite(p), ~exited, UNCHANGED regs
          PROVE  stage' = stage /\ (Steady \/ Ended)
      <3>1. /\ stage' = stage /\ UNCHANGED <<request, step>>
            /\ UNCHANGED vars \/ Steady \/ Ended
        BY <2>3, MemWriteOutcome DEF user, regs
      <3> QED
        BY <3>1, SamePlace
    <2>4. ASSUME NEW p \in ToHandle, p = mem_priority, MemRead(p), ~exited, UNCHANGED regs
          PROVE  stage' = stage /\ (Steady \/ Ended)
      <3>1. /\ stage' = stage /\ UNCHANGED <<request, step>>
            /\ UNCHANGED vars \/ Steady \/ Ended
        BY <2>4, MemReadOutcome DEF regs
      <3> QED
        BY <3>1, SamePlace
    <2>5. NothingToDo => stage' = stage /\ Steady
      BY NothingIsSteady DEF NothingToDo, regs
    <2> QED
      BY <2>1, <2>2, <2>3, <2>4, <2>5 DEF FallingEdgeOfBus, Blocked, AskMdu, AskMem
  <1>9. Ended => CallInv'
    BY DEF Ended
  <1>10. Steady /\ (stage' \in {"wait", "stopped"} => stage \in {"wait", "stopped"}) => CallInv'
    BY SteadyCall
  <1> QED
    BY <1>2, <1>3, <1>4, <1>5, <1>6, <1>7, <1>8, <1>9, <1>10
    DEF MipsNext, ThreadRuns, ClockEdge

\* Each of the three calls of a load or store leaves its effect in the memory.
MemInv ==
    step > 0 /\ ~UsesMdu(request) =>
       /\ Moved(1) => op_type_reg = request.type
       /\ Moved(2) => addr_reg = AddressOf(request)
       /\ Moved(3) =>
             /\ InRange(AddressOf(request))
             /\ request.kind = "load" => reply \in Load(mem, request.type, AddressOf(request))

LEMMA MemKept ==
  ASSUME MemInv, Steady, UNCHANGED <<reply, mem, op_type_reg, addr_reg>>
  PROVE  MemInv'
  <1>1. \A n : Moved(n)' <=> Moved(n)
    BY SteadyMoves
  <1> QED
    BY <1>1 DEF MemInv, Steady

LEMMA MemStep ==
  ASSUME MipsTypeInv, BusInv, CallInv, MemInv, MipsNext
  PROVE  MemInv'
  <1>t. TypeOK /\ (step = 0 => Idle) /\ step \in 0 .. 4
    BY NoCall DEF MipsTypeInv, MipsTypeOK
  <1>1. ASSUME NEW r, Ask(r), Idle, stage' \in {"fetch", "execute"} PROVE MemInv'
    <2>1. ~Moved(1)' /\ ~Moved(2)' /\ ~Moved(3)'
      BY <1>1, <1>t, AskIsNewCall
    <2> QED
      BY <2>1 DEF MemInv
  <1>2. Fetch \/ StartBus \/ NextChar => MemInv'
    BY <1>1, <1>t DEF Fetch, StartBus, NextChar, CallReturned, regs
  <1>3. Decode \/ WithoutBus \/ EndBus => MemInv'
    BY DEF Decode, WithoutBus, EndBus, MemInv
  <1>4. NextCall /\ UNCHANGED mem_vars => MemInv'
    <2> SUFFICES ASSUME NextCall, UNCHANGED mem_vars, ~UsesMdu(request) PROVE MemInv'
      BY NextIsNewCall, <1>t DEF MemInv
    <2>1. /\ request' = request /\ \A k \in Nat : Moved(k)' <=> Moved(k)
          /\ step \in 1 .. 2 /\ step' = step + 1
      BY <1>t, NextIsNewCall DEF LastCall
    <2>2. ~Moved(3)
      BY <2>1 DEF Moved
    <2> QED
      BY <2>1, <2>2 DEF MemInv, mem_vars
  <1>5. CallReturns /\ UNCHANGED mem_vars => MemInv'
    BY StepOfCall, MemKept DEF mem_vars, CallReturns, user
  <1>12. Reset => MemInv'
    BY StepOfCall, MemKept DEF mem_vars, Reset, user
  <1>6. RisingEdge => MemInv'
    BY StepOfCall, MemKept DEF RisingEdge, user, update_wait
  <1>7. ASSUME NEW p \in ToHandle, p = mdu_priority, MduWrite(p) \/ MduRead(p), ~exited
        PROVE  MemInv'
    <2>1. UNCHANGED user /\ UsesMdu(request)
      BY <1>7, MduWriteOutcome, MduReadOutcome
    <2> QED
      BY <2>1 DEF user, MemInv
  <1>8. ASSUME NEW p \in ToHandle, p = mem_priority, MemWrite(p), ~exited, UNCHANGED regs
        PROVE  MemInv'
    <2>1. /\ UNCHANGED <<request, step, reply>> /\ ~UsesMdu(request) /\ step \in 1 .. 3
          /\ step = 3 => request.kind = "store"
      BY <1>8, MemWriteOutcome DEF user
    <2>2. CASE UNCHANGED <<vars, mem>> /\ exited'
      <3>1. Steady
        BY <2>1, <2>2, SamePlace
      <3>2. UNCHANGED <<op_type_reg, addr_reg>>
        BY <1>8, <2>2 DEF MemWrite, mem_vars
      <3> QED
        BY <2>1, <2>2, <3>1, <3>2, MemKept
    <2>3. CASE Steady /\ UNCHANGED <<exited, mem, op_type_reg, addr_reg>>
      BY <2>1, <2>3, MemKept
    <2>4. CASE /\ Ended /\ exited' = exited
               /\ op_type_reg' = IF step = 1 THEN request.type ELSE op_type_reg
               /\ addr_reg' = IF step = 2 THEN AddressOf(request) ELSE addr_reg
               /\ step = 3 => InRange(addr_reg)
      <3>1. \A k \in Nat : (Moved(k)' <=> step >= k) /\ (Moved(k) <=> step > k)
        BY <2>4 DEF Ended
      <3> QED
        BY <2>1, <2>4, <3>1 DEF MemInv
    <2> QED
      BY <1>8, <2>2, <2>3, <2>4, MemWriteOutcome
  <1>9. ASSUME NEW p \in ToHandle, p = mem_priority, MemRead(p), ~exited, UNCHANGED regs
        PROVE  MemInv'
    <2>1. /\ UNCHANGED <<request, step, mem, op_type_reg, addr_reg>>
          /\ ~UsesMdu(request) /\ step = 3 /\ request.kind = "load"
      BY <1>9, MemReadOutcome
    <2>2. CASE UNCHANGED <<vars, reply>>
      BY <2>1, <2>2, SamePlace, MemKept
    <2>3. CASE Steady /\ UNCHANGED <<exited, reply>>
      BY <2>1, <2>3, MemKept
    <2>4. CASE Ended /\ InRange(addr_reg) /\ reply' \in Load(mem, op_type_reg, addr_reg)
      <3>1. \A k \in Nat : (Moved(k)' <=> step >= k) /\ (Moved(k) <=> step > k)
        BY <2>4 DEF Ended
      <3> QED
        BY <2>1, <2>4, <3>1 DEF MemInv
    <2> QED
      BY <1>9, <2>2, <2>3, <2>4, MemReadOutcome
  <1>10. NothingToDo => MemInv'
    BY NothingIsSteady, MemKept DEF NothingToDo, mem_vars, user
  <1>11. FallingEdgeOfBus => MemInv'
    BY <1>7, <1>8, <1>9, <1>10 DEF FallingEdgeOfBus, Blocked, AskMdu, AskMem
  <1> QED
    BY <1>2, <1>3, <1>4, <1>5, <1>6, <1>11, <1>12 DEF MipsNext, ThreadRuns, ClockEdge

-------------------------------------------------------------------------------
(* Addresses *)

LEMMA UintMod ==
  ASSUME NEW z \in Int
  PROVE  /\ z % UintCount \in 0 .. UintCount - 1
         /\ z \in 0 .. UintCount - 1 => z % UintCount = z
         /\ (z + UintCount) % UintCount = z % UintCount
         /\ (z - UintCount) % UintCount = z % UintCount
         /\ ((z % UintCount) + 1) % UintCount = (z + 1) % UintCount
  <1> DEFINE q == z \div UintCount
             r == z % UintCount
             s == (z + 1) % UintCount
  <1>0. UintCount \in Nat /\ UintCount > 0
    BY BytesFacts
  <1>1. q \in Int /\ r \in 0 .. UintCount - 1 /\ z = UintCount * q + r
    BY <1>0, DivMod
  <1>2. z \in 0 .. UintCount - 1 => r = z
    BY <1>0, DivisionIs
  <1> HIDE DEF q, r, s
  <1>3. (z + UintCount) % UintCount = r
    <2>1. z + UintCount = UintCount * (q + 1) + r
      BY <1>0, <1>1
    <2> QED
      BY <1>0, <1>1, <2>1, DivisionIs
  <1>4. (z - UintCount) % UintCount = r
    <2>1. z - UintCount = UintCount * (q - 1) + r
      BY <1>0, <1>1
    <2> QED
      BY <1>0, <1>1, <2>1, DivisionIs
  <1>5. (r + 1) % UintCount = s
    <2>1. CASE r + 1 < UintCount
      <3>1. r + 1 = UintCount * 0 + (r + 1) /\ z + 1 = UintCount * q + (r + 1)
        BY <1>0, <1>1
      <3>2. r + 1 \in Int /\ z + 1 \in Int /\ r + 1 \in 0 .. UintCount - 1
        BY <1>0, <1>1, <2>1
      <3>3. (r + 1) % UintCount = r + 1 /\ (z + 1) % UintCount = r + 1
        BY <1>0, <1>1, <3>1, <3>2, DivisionIs
      <3> QED
        BY <3>3 DEF s
    <2>2. CASE r + 1 = UintCount
      <3>1. r + 1 = UintCount * 1 + 0 /\ z + 1 = UintCount * (q + 1) + 0
        BY <1>0, <1>1, <2>2
      <3>2. r + 1 \in Int /\ z + 1 \in Int /\ 0 \in 0 .. UintCount - 1 /\ q + 1 \in Int
        BY <1>0, <1>1
      <3>3. (r + 1) % UintCount = 0 /\ (z + 1) % UintCount = 0
        BY <1>0, <1>1, <3>1, <3>2, DivisionIs
      <3> QED
        BY <3>3 DEF s
    <2> QED
      BY <1>0, <1>1, <2>1, <2>2
  <1> QED
    BY <1>1, <1>2, <1>3, <1>4, <1>5 DEF r, s

\* A request with no offset is for its address.
LEMMA PlainAddress ==
  ASSUME NEW r, r.kind = "load", r.kte = 0, r.addr \in 0 .. UintCount - 1
  PROVE  AddressOf(r) = r.addr
  <1>1. 0 % LoadOffsets = 0
    BY BytesFacts, DivisionIs
  <1>2. r.addr + (r.kte % LoadOffsets) = r.addr /\ r.addr \in Int
    BY <1>1, BytesFacts
  <1>3. AddressOf(r) = (r.addr + (r.kte % LoadOffsets)) % UintCount
    BY DEF AddressOf, LoadAddress
  <1> QED
    BY <1>2, <1>3, UintMod

LEMMA FetchAddress ==
  ASSUME NEW a \in Int32
  PROVE  /\ FetchRequest(a).kind = "load" /\ FetchRequest(a).type = "Word"
         /\ AddressOf(FetchRequest(a)) = AsUnsigned(a)
  <1>1. /\ FetchRequest(a).kind = "load" /\ FetchRequest(a).type = "Word"
        /\ FetchRequest(a).kte = 0 /\ FetchRequest(a).addr = AsUnsigned(a)
    BY DEF FetchRequest, Of
  <1>2. AsUnsigned(a) \in 0 .. UintCount - 1
    BY AsUnsignedType
  <1> QED
    BY <1>1, <1>2, PlainAddress

\* The next character is at the next address.
LEMMA NextCharAddress ==
  ASSUME NEW x \in 0 .. UintCount - 1
  PROVE  CharRequest(Plus(AsInt(x), 1)).addr = (x + 1) % UintCount
  <1> DEFINE y == AsInt(x)
  <1>0. x \in Int
    BY BytesFacts
  <1>1. x \in Int /\ y \in Int
    BY <1>0, AsIntType, IntIsInt
  <1>2. AsUnsigned(Plus(y, 1)) = (y + 1) % Modulus
    BY <1>1, AsIntType DEF Plus
  <1>3. y = x \/ y = x - UintCount
    BY <1>1, UintMod, BitsFacts DEF AsInt
  <1> HIDE DEF y
  <1>4. (y + 1) % UintCount = (x + 1) % UintCount
    <2>1. x + 1 \in Int /\ (x + 1) - UintCount = (x - UintCount) + 1
      BY <1>1, BytesFacts
    <2>2. ((x + 1) - UintCount) % UintCount = (x + 1) % UintCount
      BY <2>1, UintMod
    <2> QED
      BY <1>3, <2>1, <2>2
  <1> QED
    BY <1>2, <1>4, BitsFacts DEF CharRequest, Of, y

\* A text in the memory has an end there.
LEMMA TextFits ==
  ASSUME NEW t \in 0 .. UintCount - 1, NEW n \in 0 .. UintCount - 1,
         \A k \in 0 .. n - 1 : InRange((t + k) % UintCount)
  PROVE  n <= 4 * size + 4
  <1> DEFINE end == 4 * size + 4
             k == end - t
  <1>0. UintCount \in Nat /\ size \in Nat
    BY BytesFacts
  <1> SUFFICES ASSUME n > end PROVE FALSE
    BY <1>0
  <1>1. end \in 0 .. UintCount - 1
    BY <1>0
  <1>2. ASSUME NEW a \in Nat, InRange(a) PROVE a < end
    BY <1>0, <1>2 DEF InRange
  <1>3. t < end
    <2>1. InRange((t + 0) % UintCount)
      BY <1>0, <1>1
    <2>2. (t + 0) % UintCount = t
      BY <1>0, UintMod
    <2> QED
      BY <1>2, <2>1, <2>2
  <1>4. k \in 0 .. n - 1 /\ t + k = end
    BY <1>0, <1>1, <1>3
  <1>5. InRange((t + k) % UintCount)
    BY <1>4
  <1>6. (t + k) % UintCount = end
    BY <1>1, <1>4, UintMod
  <1> QED
    BY <1>0, <1>1, <1>2, <1>5, <1>6

-------------------------------------------------------------------------------
(* The states of the abstract processor *)

State(c, l, h, b, m) == [pc |-> c, lo |-> l, hi |-> h, breg |-> b, memory |-> m]

LEMMA PartsOf ==
  ASSUME NEW c, NEW l, NEW h, NEW b, NEW m
  PROVE  /\ State(c, l, h, b, m).pc = c /\ State(c, l, h, b, m).lo = l
         /\ State(c, l, h, b, m).hi = h /\ State(c, l, h, b, m).breg = b
         /\ State(c, l, h, b, m).memory = m
  BY DEF State

LEMMA StateIs ==
  ASSUME NEW s, DOMAIN s = {"pc", "lo", "hi", "breg", "memory"},
         s = [f \in DOMAIN s |-> s[f]]
  PROVE  s = State(s.pc, s.lo, s.hi, s.breg, s.memory)
  BY DEF State

LEMMA RestartedIs ==
  ASSUME NEW c, NEW l, NEW h, NEW b, NEW m
  PROVE  Restarted(State(c, l, h, b, m)) = State(0, 0, 0, InitialBreg, m)
  <1> DEFINE s == Restarted(State(c, l, h, b, m))
  <1>1. s.pc = 0 /\ s.lo = 0 /\ s.hi = 0 /\ s.breg = InitialBreg /\ s.memory = m
    BY DEF Restarted, State
  <1>2. /\ DOMAIN s = {"pc", "lo", "hi", "breg", "memory"}
        /\ s = [f \in DOMAIN s |-> s[f]]
    BY DEF Restarted, State
  <1> HIDE DEF s
  <1>3. s = State(0, 0, 0, InitialBreg, m)
    BY <1>1, <1>2, StateIs
  <1> QED
    BY <1>3 DEF s

LEMMA WithPcIs ==
  ASSUME NEW c, NEW l, NEW h, NEW b, NEW m, NEW x
  PROVE  WithPc(State(c, l, h, b, m), x) = State(x, l, h, b, m)
  BY DEF WithPc, State

\* What is seen of a state.
LEMMA SeenOf ==
  ASSUME NEW c, NEW l, NEW h, NEW b, NEW m, NEW p
  PROVE  /\ Visible([state |-> State(c, l, h, b, m), phase |-> p]).state =
              State(c, l, h, Zeroed(b), m)
         /\ Visible([state |-> State(c, l, h, b, m), phase |-> p]).phase = p
  <1> DEFINE o == [state |-> State(c, l, h, b, m), phase |-> p]
  <1>1. Visible(o) = [o EXCEPT !.state = [State(c, l, h, b, m) EXCEPT !.breg[ZERO] = 0]]
    BY DEF Visible
  <1>2. [State(c, l, h, b, m) EXCEPT !.breg[ZERO] = 0] = State(c, l, h, Zeroed(b), m)
    BY DEF Zeroed, State
  <1> QED
    BY <1>1, <1>2

LEMMA SeenRunning ==
  ASSUME NEW c, NEW l, NEW h, NEW b, NEW m
  PROVE  /\ Visible(Running(State(c, l, h, b, m))).state = State(c, l, h, Zeroed(b), m)
         /\ Visible(Running(State(c, l, h, b, m))).phase =
              IF c < DATA_SEGMENT_START THEN "running" ELSE "stopped"
  <1>1. State(c, l, h, b, m).pc = c
    BY DEF State
  <1>2. Running(State(c, l, h, b, m)) =
          [state |-> State(c, l, h, b, m),
           phase |-> IF c < DATA_SEGMENT_START THEN "running" ELSE "stopped"]
    BY <1>1 DEF Running
  <1> QED
    BY <1>2, SeenOf

LEMMA SeenExit ==
  ASSUME NEW c, NEW l, NEW h, NEW b \in [Reg -> Int32], NEW m
  PROVE  Visible(Exit(State(c, l, h, Zeroed(b), m))) = Exit(State(c, l, h, Zeroed(b), m))
  <1> DEFINE o == Exit(State(c, l, h, Zeroed(b), m))
  <1>1. Zeroed(Zeroed(b)) = Zeroed(b)
    BY DEF Zeroed
  <1>2. Visible(o).state = State(c, l, h, Zeroed(b), m) /\ Visible(o).phase = "exited"
    BY <1>1, SeenOf DEF Exit
  <1>3. /\ DOMAIN Visible(o) = {"state", "phase"}
        /\ Visible(o) = [f \in DOMAIN Visible(o) |-> Visible(o)[f]]
    BY DEF Visible, Exit
  <1> HIDE DEF o
  <1>4. Visible(o) = [state |-> State(c, l, h, Zeroed(b), m), phase |-> "exited"]
    BY <1>2, <1>3
  <1> QED
    BY <1>4 DEF o, Exit

-------------------------------------------------------------------------------
(* The instruction in progress *)

\* The registers and the memory before it, and as they are.
Earlier == State(before.pc, before.lo, before.hi, Zeroed(before.breg), mem)
Undisturbed == resets = before.resets
Disturbed == resets > before.resets
BaseLo == IF Undisturbed THEN before.lo ELSE 0
BaseHi == IF Undisturbed THEN before.hi ELSE 0
Now == State(counter, BaseLo, BaseHi, Zeroed(breg), mem)

LEMMA ExecutesLoad ==
  ASSUME NEW s, NEW t, NEW i, NEW R, i.op \in LoadOp
  PROVE  Executes(s, t, i, R) =
           IF FailsOf(DataRequest(i, R)) THEN {Exit(s)} ELSE AfterLoad(t, i, R)
  <1>1. i.op \notin StoreOp /\ i.op \notin MduOp /\ i.op # "SYSCALL"
    BY DEF LoadOp, StoreOp, MduOp
  <1> QED
    BY <1>1 DEF Executes

LEMMA ExecutesStore ==
  ASSUME NEW s, NEW t, NEW i, NEW R, i.op \in StoreOp
  PROVE  Executes(s, t, i, R) =
           IF FailsOf(DataRequest(i, R)) THEN {Exit(s)}
           ELSE {Running([t EXCEPT !.memory = EffectOf(@, DataRequest(i, R))])}
  <1>1. i.op \notin LoadOp /\ i.op \notin MduOp /\ i.op # "SYSCALL"
    BY DEF LoadOp, StoreOp, MduOp
  <1> QED
    BY <1>1 DEF Executes

LEMMA ExecutesMdu ==
  ASSUME NEW s, NEW t, NEW i, NEW R, i.op \in MduOp
  PROVE  Executes(s, t, i, R) = AfterMdu(s, t, ResultsOf(i.op, R[i.rs], R[i.rt]))
  <1>1. i.op \notin LoadOp /\ i.op \notin StoreOp /\ i.op # "SYSCALL"
    BY DEF LoadOp, StoreOp, MduOp
  <1> QED
    BY <1>1 DEF Executes

LEMMA ExecutesPrint ==
  ASSUME NEW s, NEW t, NEW i, NEW R, i.op = "SYSCALL", R[V0] = 4
  PROVE  Executes(s, t, i, R) =
           {o \in {Running(t)} : PrintEnds(t, AsUnsigned(R[A0]))}
           \cup {o \in {Exit(s)} : PrintExits(t, AsUnsigned(R[A0]))}
  <1>1. i.op \notin LoadOp /\ i.op \notin StoreOp /\ i.op \notin MduOp
    BY DEF LoadOp, StoreOp, MduOp
  <1> QED
    BY <1>1 DEF Executes

LEMMA ExecutesInput ==
  ASSUME NEW s, NEW t, NEW i, NEW R, i.op = "SYSCALL", R[V0] = 5
  PROVE  Executes(s, t, i, R) = {Running([t EXCEPT !.breg[V0] = n]) : n \in Inputs}
  <1>1. i.op \notin LoadOp /\ i.op \notin StoreOp /\ i.op \notin MduOp /\ R[V0] # 4
    BY DEF LoadOp, StoreOp, MduOp
  <1> QED
    BY <1>1 DEF Executes

LEMMA ExecutesOther ==
  ASSUME NEW s, NEW t, NEW i, NEW R, ~UsesBus(i, R), ~(i.op = "SYSCALL" /\ R[V0] = 5)
  PROVE  Executes(s, t, i, R) =
           LET u == [WithPc(t, Target(i, R, t.pc)) EXCEPT !.breg = Computes(i, R, t.pc)] IN
           {IF Ends10(i, R) THEN [state |-> u, phase |-> "stopped"] ELSE Running(u)}
  <1>1. /\ i.op \notin LoadOp /\ i.op \notin StoreOp /\ i.op \notin MduOp
        /\ ~(i.op = "SYSCALL" /\ R[V0] = 4)
    BY DEF UsesBus
  <1> QED
    BY <1>1 DEF Executes

LEMMA NowFields ==
  /\ Now.pc = counter /\ Now.breg = Zeroed(breg) /\ Now.memory = mem
  /\ Earlier.pc = before.pc /\ Earlier.breg = Zeroed(before.breg) /\ Earlier.memory = mem
  /\ \A x : WithPc(Earlier, x) = State(x, before.lo, before.hi, Zeroed(before.breg), mem)
  /\ \A x : WithPc(Earlier, x).breg = Earlier.breg
  /\ Restarted(Earlier) = State(0, 0, 0, InitialBreg, mem)
  /\ Restarted(Earlier).breg = InitialBreg /\ Restarted(Earlier).pc = 0
  /\ \A x : /\ WithPc(Restarted(Earlier), x) = State(x, 0, 0, InitialBreg, mem)
            /\ WithPc(Restarted(Earlier), x).pc = x
  <1>1. Restarted(Earlier) = State(0, 0, 0, InitialBreg, mem)
    BY RestartedIs DEF Earlier
  <1> QED
    BY <1>1, WithPcIs, PartsOf DEF Earlier, Now

\* The instruction takes its operands from the registers R.
Began(R) ==
    \/ Undisturbed /\ R = Earlier.breg /\ counter = Plus(before.pc, 4) /\ Zeroed(breg) = R
    \/ Disturbed /\ R = InitialBreg /\ counter = 4 /\ breg = R
    \/ step > 0 /\ Disturbed /\ counter = 0 /\ breg = InitialBreg

LEMMA InitialIsZeroed == Zeroed(InitialBreg) = InitialBreg
  BY DEF Zeroed, InitialBreg, ZERO, SP, Reg

LEMMA BeganFrom ==
  ASSUME MipsTypeInv, NEW R, Began(R)
  PROVE  \/ /\ Undisturbed /\ ~Disturbed /\ R = Earlier.breg
            /\ Now = WithPc(Earlier, Plus(Earlier.pc, 4))
         \/ /\ Disturbed /\ ~Undisturbed /\ R = Restarted(Earlier).breg /\ breg = R
            /\ Now = WithPc(Restarted(Earlier), 4)
         \/ /\ Disturbed /\ ~Undisturbed /\ step > 0 /\ breg = InitialBreg
            /\ Now = Restarted(Earlier)
  <1>1. Undisturbed => ~Disturbed
    BY MipsSystemAssumption DEF MipsTypeInv, MipsTypeOK, Undisturbed, Disturbed
  <1>2. CASE Undisturbed /\ R = Earlier.breg /\ counter = Plus(before.pc, 4) /\ Zeroed(breg) = R
    <2>1. Now = State(Plus(before.pc, 4), before.lo, before.hi, Zeroed(before.breg), mem)
      BY <1>2, NowFields DEF Now, BaseLo, BaseHi
    <2> QED
      BY <1>1, <1>2, <2>1, NowFields
  <1>d. Disturbed => ~Undisturbed /\ BaseLo = 0 /\ BaseHi = 0
    BY <1>1 DEF BaseLo, BaseHi
  <1>3. CASE Disturbed /\ R = InitialBreg /\ counter = 4 /\ breg = R
    <2>1. Now = State(4, 0, 0, InitialBreg, mem)
      BY <1>d, <1>3, InitialIsZeroed DEF Now
    <2> QED
      BY <1>d, <1>3, <2>1, NowFields
  <1>4. CASE step > 0 /\ Disturbed /\ counter = 0 /\ breg = InitialBreg
    <2>1. Now = State(0, 0, 0, InitialBreg, mem)
      BY <1>d, <1>4, InitialIsZeroed DEF Now
    <2> QED
      BY <1>d, <1>4, <2>1, NowFields
  <1> QED
    BY <1>2, <1>3, <1>4 DEF Began

\* An outcome, for the abstract processor.
Expected(o) ==
    /\ Undisturbed => Visible(o) \in OutcomesOf(Earlier)
    /\ Disturbed => Visible(o) \in ResetsOf(Earlier)

\* What the instruction has begun with is what the abstract one begins with.
LEMMA OutcomeIsExpected ==
  ASSUME MipsTypeInv, ~FetchFails(Earlier), instruction \in Fetched(Earlier),
         NEW R \in {Earlier.breg, InitialBreg}, Began(R),
         step > 0 => UsesBus(instruction, R),
         instruction.op \in MduOp => Zeroed(breg) = R /\ counter # 0,
         NEW o \in Executes(Earlier, Now, instruction, R)
  PROVE  Expected(o)
  <1> DEFINE s == Earlier
             i == instruction
  <1>1. CASE /\ Undisturbed /\ ~Disturbed /\ R = s.breg
             /\ Now = WithPc(s, Plus(s.pc, 4))
    <2>1. Visible(o) \in StepOf(s, i)
      BY <1>1 DEF StepOf
    <2> QED
      BY <1>1, <2>1 DEF OutcomesOf, Expected
  <1>2. CASE /\ Disturbed /\ ~Undisturbed /\ R = Restarted(s).breg /\ breg = R
             /\ Now = WithPc(Restarted(s), 4)
    <2>1. o \in ResetInFetch(s, i)
      BY <1>2 DEF ResetInFetch
    <2> QED
      BY <1>2, <2>1 DEF ResetsOf, Expected
  <1>3. CASE /\ Disturbed /\ ~Undisturbed /\ step > 0 /\ breg = InitialBreg
             /\ Now = Restarted(s)
    <2>1. UsesBus(i, R) /\ i.op \notin MduOp
      BY <1>3, NowFields
    <2>2. o \in ResetInExecute(s, i, R)
      BY <1>3, <2>1 DEF ResetInExecute
    <2> QED
      BY <1>3, <2>2 DEF ResetsOf, Expected
  <1> QED
    BY <1>1, <1>2, <1>3, BeganFrom

OperandPairs(R) ==
    LET i == instruction IN
    {<<R[i.rs], R[i.rt]>>, <<R[i.rs], breg[i.rt]>>, <<breg[i.rs], breg[i.rt]>>}

LEMMA MduOutcomeIsExpected ==
  ASSUME MipsTypeInv, ~FetchFails(Earlier), instruction \in Fetched(Earlier),
         instruction.op \in MduOp, NEW R \in {Earlier.breg, InitialBreg}, Began(R),
         step > 0, breg[ZERO] = 0, NEW a, NEW b, <<a, b>> \in OperandPairs(R), NEW o,
         \/ o \in AfterMdu(Earlier, Now, ResultsOf(instruction.op, a, b))
         \/ /\ Disturbed /\ counter = 0
            /\ \E h \in ResultsOf(instruction.op, a, b).hi \ {Signal} :
                  o = Running([Now EXCEPT !.hi = h])
  PROVE  Expected(o)
  <1> DEFINE s == Earlier
             i == instruction
             results == ResultsOf(i.op, a, b)
  <1>0. instruction \in Instruction /\ breg \in [Reg -> Int32] /\ Zeroed(breg) = breg
    BY DEF MipsTypeInv, MipsTypeOK, Zeroed, ZERO
  <1>1. CASE /\ Undisturbed /\ ~Disturbed /\ R = s.breg
             /\ Now = WithPc(s, Plus(s.pc, 4))
    <2>1. R = breg
      BY <1>0, <1>1, NowFields
    <2>2. a = R[i.rs] /\ b = R[i.rt]
      BY <2>1 DEF OperandPairs
    <2>3. o \in AfterMdu(s, Now, ResultsOf(i.op, R[i.rs], R[i.rt]))
      BY <1>1, <2>2
    <2>4. o \in Executes(s, Now, i, R)
      BY <2>3, ExecutesMdu
    <2>5. Visible(o) \in StepOf(s, i)
      BY <1>1, <2>4 DEF StepOf
    <2> QED
      BY <1>1, <2>5 DEF OutcomesOf, Expected
  <1>2. CASE /\ Disturbed /\ ~Undisturbed /\ R = Restarted(s).breg /\ breg = R
             /\ Now = WithPc(Restarted(s), 4)
    <2>1. counter # 0
      BY <1>2, NowFields
    <2>2. a = R[i.rs] /\ b = R[i.rt]
      BY <1>2 DEF OperandPairs
    <2>3. o \in AfterMdu(s, Now, ResultsOf(i.op, R[i.rs], R[i.rt]))
      BY <2>1, <2>2
    <2>4. o \in Executes(s, Now, i, R)
      BY <2>3, ExecutesMdu
    <2>5. o \in ResetInFetch(s, i)
      BY <1>2, <2>4 DEF ResetInFetch
    <2> QED
      BY <1>2, <2>5 DEF ResetsOf, Expected
  <1>3. CASE /\ Disturbed /\ ~Undisturbed /\ step > 0 /\ breg = InitialBreg
             /\ Now = Restarted(s)
    <2> DEFINE t == Restarted(s)
               after == AfterMdu(s, t, results)
                        \cup {Running([t EXCEPT !.hi = h]) : h \in results.hi \ {Signal}}
    <2>1. t.breg = breg
      BY <1>3, NowFields
    <2>2. o \in after
      BY <1>3
    <2>3. after \subseteq ResetInMdu(s, i, R)
      BY <2>1 DEF ResetInMdu, OperandPairs
    <2>4. UsesBus(i, R)
      BY DEF UsesBus
    <2>5. o \in ResetInExecute(s, i, R)
      BY <2>2, <2>3, <2>4 DEF ResetInExecute
    <2> QED
      BY <1>3, <2>5 DEF ResetsOf, Expected
  <1> QED
    BY <1>1, <1>2, <1>3, BeganFrom

\* What the programmer sees: before the end of an instruction, the state from
\* before it; otherwise the state as it is.
LEMMA SeenInFlight ==
  ASSUME InFlight
  PROVE  /\ MachineState = Earlier
         /\ ~exited => MachinePhase = "running" /\ MachineResets = before.resets
         /\ exited => MachinePhase = "exited" /\ MachineResets = resets
  BY DEF MachineState, MachinePhase, MachineResets, Registers, Earlier, State, Zeroed

LEMMA SeenInFlightNext ==
  ASSUME InFlight'
  PROVE  /\ MachineState' = Earlier'
         /\ ~exited' => MachinePhase' = "running" /\ MachineResets' = before'.resets
         /\ exited' => MachinePhase' = "exited" /\ MachineResets' = resets'
  BY DEF MachineState, MachinePhase, MachineResets, Registers, Earlier, State, Zeroed

\* An outcome is a step of the abstract processor.
LEMMA OutcomeIsStep ==
  ASSUME ~exited, InFlight, Undisturbed \/ Disturbed, NEW o, Expected(o),
         MachineState' = Visible(o).state, MachinePhase' = Visible(o).phase,
         MachineResets' = resets
  PROVE  Abstract!Next
  <1>1. /\ MachineState = Earlier /\ MachinePhase = "running"
        /\ MachineResets = before.resets
    BY SeenInFlight
  <1> HIDE DEF MachineState, MachinePhase, MachineResets
  <1>2. CASE Undisturbed
    <2>1. Visible(o) \in OutcomesOf(MachineState) /\ MachineResets' = MachineResets
      BY <1>1, <1>2 DEF Expected, Undisturbed
    <2>2. Abstract!Instruction
      BY <1>1, <2>1 DEF Abstract!Instruction
    <2> QED
      BY <2>2 DEF Abstract!Next
  <1>3. CASE Disturbed
    <2>1. Visible(o) \in ResetsOf(MachineState) /\ MachineResets' > MachineResets
      BY <1>1, <1>3 DEF Expected, Disturbed
    <2>2. Abstract!Reset
      BY <1>1, <2>1 DEF Abstract!Reset
    <2> QED
      BY <2>2 DEF Abstract!Next
  <1> QED
    BY <1>2, <1>3

-------------------------------------------------------------------------------
(* The invariant of the instruction in progress *)

\* A fetch uses the pc from before it.
FetchInv ==
    stage = "fetch" /\ step > 0 =>
       /\ request = FetchRequest(before.pc)
       /\ lo = BaseLo /\ hi = BaseHi
       /\ \/ Undisturbed /\ counter = before.pc /\ breg = before.breg
          \/ Disturbed /\ counter = 0 /\ breg = InitialBreg

\* SYSCALL 4 reads its n-th character; the MDU has got the operands so far; the
\* calls of an instruction.
Text(R) == AsUnsigned(R[A0])
Printing(R, n) ==
    /\ request.addr = (Text(R) + n) % UintCount /\ request.kte = 0
    /\ request.kind = "load" /\ request.type = "Byte"
    /\ \A k \in 0 .. n - 1 : InRange((Text(R) + k) % UintCount)
    /\ MayGoOn(Earlier, Text(R), n)
Calculating(R) ==
    LET i == instruction IN
    /\ Moved(1) => opA \in {R[i.rs], breg[i.rs]}
    /\ Moved(2) => <<opA, opB>> \in OperandPairs(R)
    /\ ~Moved(3) => lo = BaseLo
    /\ Moved(3) => \/ lo \in ResultsOf(i.op, opA, opB).lo \ {Signal}
                   \/ Disturbed /\ counter = 0 /\ lo = 0
    /\ hi = BaseHi
Performing(R) ==
    /\ UsesBus(instruction, R)
    /\ \/ instruction.op \in LoadOp \cup StoreOp /\ request = DataRequest(instruction, R)
          /\ lo = BaseLo /\ hi = BaseHi
       \/ instruction.op = "SYSCALL" /\ (\E n \in 0 .. UintCount - 1 : Printing(R, n))
          /\ lo = BaseLo /\ hi = BaseHi
       \/ instruction.op \in MduOp /\ request = MduRequest(instruction) /\ Calculating(R)

\* An instruction in progress is the one that was fetched, and what it has done
\* so far leads to an outcome of it.
ExecuteInv ==
    stage = "execute" /\ ~Completed =>
       /\ ~FetchFails(Earlier) /\ instruction \in Fetched(Earlier)
       /\ step = 0 => Began(Zeroed(breg)) /\ lo = BaseLo /\ hi = BaseHi
       /\ step > 0 => /\ breg[ZERO] = 0
                      /\ \E R \in {Earlier.breg, InitialBreg} : Began(R) /\ Performing(R)
KindInv ==
    stage = "execute" /\ step > 0 /\ instruction.op \in LoadOp \cup {"SYSCALL"}
       => request.kind = "load"

MipsInv ==
    /\ MipsTypeInv /\ BusInv /\ CallInv /\ MemInv
    /\ FetchInv /\ ExecuteInv /\ KindInv

MachineKept == UNCHANGED <<MachineState, MachinePhase, MachineResets>>

LEMMA SteadyCompleted ==
  ASSUME Steady
  PROVE  Completed' <=> Completed
  <1>1. /\ request' = request /\ step' = step
        /\ pc'[Caller(request)] = "transfer" <=> pc[Caller(request)] = "transfer"
    BY CallerFacts DEF Steady
  <1>2. CallsOf(request') = CallsOf(request) /\ UsesMdu(request') = UsesMdu(request)
    BY <1>1
  <1> QED
    BY <1>1, <1>2 DEF Completed, Caller

\* A step that tells the instruction nothing.
LEMMA InvKept ==
  ASSUME MipsInv, request' = request, step' = 0 <=> step = 0, step' > 0 <=> step > 0,
         Completed => Completed',
         UsesMdu(request) => \A n \in Nat : Moved(n)' <=> Moved(n),
         UNCHANGED <<counter, breg, hi, lo, instruction, stage, resets, before, mem, opA, opB>>
  PROVE  FetchInv' /\ ExecuteInv' /\ KindInv'
  <1>1. /\ Earlier' = Earlier /\ Undisturbed' = Undisturbed /\ Disturbed' = Disturbed
        /\ BaseLo' = BaseLo /\ BaseHi' = BaseHi
    BY DEF Earlier, Undisturbed, Disturbed, BaseLo, BaseHi
  <1>2. FetchInv'
    BY <1>1 DEF MipsInv, FetchInv
  <1>3. KindInv'
    BY DEF MipsInv, KindInv
  <1>4. ASSUME NEW R, Began(R) PROVE Began(R)'
    BY <1>1, <1>4 DEF Began
  <1>5. ASSUME NEW R, Performing(R) PROVE Performing(R)'
    <2>1. OperandPairs(R)' = OperandPairs(R)
      BY DEF OperandPairs
    <2>2. UsesMdu(request) /\ Calculating(R) => Calculating(R)'
      BY <1>1, <2>1 DEF Calculating
    <2>3. \A n : Printing(R, n) => Printing(R, n)'
      BY <1>1 DEF Printing
    <2>4. instruction.op \in MduOp => UsesMdu(MduRequest(instruction))
      BY DEF UsesMdu, MduRequest, Of
    <2> QED
      BY <1>1, <1>5, <2>2, <2>3, <2>4 DEF Performing
  <1>6. ExecuteInv'
    <2> SUFFICES ASSUME stage = "execute", ~Completed PROVE ExecuteInv'
      BY DEF ExecuteInv
    <2>1. ~FetchFails(Earlier)' /\ instruction' \in Fetched(Earlier)'
      BY <1>1 DEF MipsInv, ExecuteInv
    <2>2. step = 0 => Began(Zeroed(breg))' /\ lo' = BaseLo' /\ hi' = BaseHi'
      BY <1>1, <1>4 DEF MipsInv, ExecuteInv
    <2>3. step > 0 => /\ breg'[ZERO] = 0
                      /\ \E R \in {Earlier.breg, InitialBreg} : Began(R)' /\ Performing(R)'
      BY <1>4, <1>5 DEF MipsInv, ExecuteInv
    <2> QED
      BY <1>1, <2>1, <2>2, <2>3 DEF ExecuteInv
  <1> QED
    BY <1>2, <1>3, <1>6

LEMMA SeenBetween ==
  ASSUME ~InFlight, ~exited
  PROVE  /\ MachineState = State(counter, lo, hi, Zeroed(breg), mem)
         /\ MachineResets = resets
         /\ MachinePhase =
              IF stage = "stopped" \/ (Completed /\ stage = "execute"
                                       /\ counter >= DATA_SEGMENT_START)
              THEN "stopped" ELSE "running"
  BY DEF MachineState, MachinePhase, MachineResets, Registers, State, Zeroed

LEMMA SeenBetweenNext ==
  ASSUME ~InFlight', ~exited'
  PROVE  /\ MachineState' = State(counter', lo', hi', Zeroed(breg'), mem')
         /\ MachineResets' = resets'
         /\ MachinePhase' =
              IF stage' = "stopped" \/ (Completed' /\ stage' = "execute"
                                        /\ counter' >= DATA_SEGMENT_START)
              THEN "stopped" ELSE "running"
  BY DEF MachineState, MachinePhase, MachineResets, Registers, State, Zeroed

LEMMA HiddenKept ==
  ASSUME InFlight, InFlight', ~exited, ~exited', UNCHANGED <<before, mem>>
  PROVE  MachineKept
  <1>1. MachineState = Earlier /\ MachinePhase = "running" /\ MachineResets = before.resets
    BY SeenInFlight
  <1>2. /\ MachineState' = Earlier' /\ MachinePhase' = "running"
        /\ MachineResets' = before'.resets
    BY SeenInFlightNext
  <1>3. Earlier' = Earlier
    BY DEF Earlier, State
  <1> QED
    BY <1>1, <1>2, <1>3 DEF MachineKept

LEMMA ShownKept ==
  ASSUME InFlight' <=> InFlight, Completed' <=> Completed,
         UNCHANGED <<exited, counter, breg, hi, lo, stage, resets, before, mem>>
  PROVE  MachineKept
  <1>1. Registers' = Registers
    BY DEF Registers
  <1>2. MachineState' = MachineState
    BY <1>1 DEF MachineState
  <1>3. MachinePhase' = MachinePhase
    BY DEF MachinePhase
  <1>4. MachineResets' = MachineResets
    BY <1>1 DEF MachineResets
  <1> QED
    BY <1>2, <1>3, <1>4 DEF MachineKept

\* A step of the bus is one.
LEMMA NothingNew ==
  ASSUME MipsInv, Steady,
         UNCHANGED <<counter, breg, hi, lo, instruction, stage, resets, before, mem, opA, opB>>
  PROVE  /\ FetchInv' /\ ExecuteInv' /\ KindInv'
         /\ exited' = exited => MachineKept
         /\ InFlight' <=> InFlight
  <1>1. Completed' <=> Completed
    BY SteadyCompleted
  <1>2. \A n \in Nat : Moved(n)' <=> Moved(n)
    BY SteadyMoves
  <1>3. request' = request /\ step' = step
    BY DEF Steady
  <1>4. InFlight' <=> InFlight
    BY <1>1, <1>3 DEF InFlight
  <1>5. exited' = exited => MachineKept
    BY <1>1, <1>4, ShownKept
  <1> QED
    BY <1>1, <1>2, <1>3, <1>4, <1>5, InvKept

-------------------------------------------------------------------------------
(* The steps of the thread *)

\* Every step leaves what the programmer sees, or is one of the abstract
\* processor.
Simulates == FetchInv' /\ ExecuteInv' /\ KindInv' /\ (Abstract!Next \/ MachineKept)

ThreadStep == ~exited /\ UNCHANGED <<mdu_vars, mem_vars, exited>>

LEMMA SameWhen ==
  ASSUME UNCHANGED <<before, resets, mem>>
  PROVE  /\ Earlier' = Earlier /\ Undisturbed' = Undisturbed /\ Disturbed' = Disturbed
         /\ BaseLo' = BaseLo /\ BaseHi' = BaseHi
  BY DEF Earlier, State, Undisturbed, Disturbed, BaseLo, BaseHi

LEMMA ThreadFacts ==
  ASSUME ThreadStep
  PROVE  mem' = mem /\ exited' = exited /\ ~exited /\ ~exited' /\ opA' = opA /\ opB' = opB
  BY DEF ThreadStep, mem_vars, mdu_vars

LEMMA FetchSimulates ==
  ASSUME MipsInv, ThreadStep, Fetch
  PROVE  Simulates
  <1>1. /\ stage = "fetch" /\ step = 0 /\ stage' = "fetch" /\ step' = 1
        /\ request' = FetchRequest(counter) /\ resets' = resets
        /\ counter' = counter /\ breg' = breg /\ hi' = hi /\ lo' = lo
    BY DEF Fetch, Ask, cleared
  <1>2. /\ before'.pc = counter /\ before'.lo = lo /\ before'.hi = hi
        /\ before'.breg = breg /\ before'.resets = resets
    BY DEF Fetch
  <1>3. mem' = mem /\ ~exited /\ ~exited'
    BY ThreadFacts
  <1>4. ~InFlight /\ InFlight'
    BY <1>1 DEF InFlight
  <1>5. MachineState = State(counter, lo, hi, Zeroed(breg), mem)
        /\ MachineResets = resets /\ MachinePhase = "running"
    BY <1>1, <1>3, <1>4, SeenBetween
  <1>6. MachineState' = Earlier' /\ MachinePhase' = "running" /\ MachineResets' = before'.resets
    BY <1>3, <1>4, SeenInFlightNext
  <1>7. Earlier' = State(counter, lo, hi, Zeroed(breg), mem)
    BY <1>2, <1>3 DEF Earlier
  <1>8. MachineKept
    BY <1>2, <1>5, <1>6, <1>7 DEF MachineKept
  <1>9. Undisturbed' /\ BaseLo' = lo /\ BaseHi' = hi
    BY <1>1, <1>2 DEF Undisturbed, BaseLo, BaseHi
  <1>10. FetchInv'
    BY <1>1, <1>2, <1>9 DEF FetchInv
  <1>11. ExecuteInv' /\ KindInv'
    BY <1>1 DEF ExecuteInv, KindInv
  <1> QED
    BY <1>8, <1>10, <1>11 DEF Simulates

\* The fetch has got the word at the pc from before it.
LEMMA FetchedIs ==
  ASSUME MipsInv, stage = "fetch", CallReturned
  PROVE  /\ InFlight /\ step > 0 /\ ~FetchFails(Earlier)
         /\ Decoded[ToInt(reply)] \in Fetched(Earlier)
         /\ before.pc \in Int32
  <1>1. step > 0
    BY CallLength DEF CallReturned, LastCall
  <1>2. request = FetchRequest(before.pc) /\ before.pc \in Int32
    BY <1>1 DEF MipsInv, FetchInv, MipsTypeInv, MipsTypeOK
  <1>3. /\ request.kind = "load" /\ request.type = "Word"
        /\ AddressOf(request) = AsUnsigned(before.pc)
    BY <1>2, FetchAddress
  <1>4. ~UsesMdu(request) /\ Caller(request) = wrapper
    BY <1>3 DEF UsesMdu, MduOp, Caller
  <1>5. step = 3 /\ Moved(3)
    BY <1>4, CallLength DEF CallReturned, LastCall, Moved, Idle
  <1>6. InRange(AsUnsigned(before.pc)) /\ reply \in Load(mem, "Word", AsUnsigned(before.pc))
    BY <1>1, <1>3, <1>4, <1>5 DEF MipsInv, MemInv
  <1>7. ~FetchFails(Earlier) /\ Decoded[ToInt(reply)] \in Fetched(Earlier)
    BY <1>6, NowFields DEF FetchFails, Fetched
  <1> QED
    BY <1>1, <1>2, <1>7 DEF InFlight

LEMMA FourIs == Plus(0, 4) = 4
  <1>1. 4 \in 0 .. Modulus - 1 /\ 4 < Half /\ 4 \in Int
    BY IntsAreMany, HalfAssumption DEF Modulus
  <1>2. 4 % Modulus = 4
    BY <1>1, UintMod, BitsFacts
  <1>3. AsInt(4) = 4
    BY <1>1, <1>2 DEF AsInt
  <1>4. Plus(0, 4) = AsInt(4)
    BY DEF Plus
  <1> QED
    BY <1>3, <1>4

LEMMA DecodeSimulates ==
  ASSUME MipsInv, ThreadStep, Decode
  PROVE  Simulates
  <1>1. /\ stage = "fetch" /\ CallReturned /\ stage' = "execute" /\ step' = 0
        /\ instruction' = Decoded[ToInt(reply)] /\ counter' = Plus(counter, 4)
        /\ UNCHANGED <<request, breg, hi, lo, resets, before>>
    BY DEF Decode, KeepBus
  <1>2. mem' = mem /\ ~exited /\ ~exited'
    BY ThreadFacts
  <1>3. /\ InFlight /\ step > 0 /\ ~FetchFails(Earlier)
        /\ instruction' \in Fetched(Earlier) /\ before.pc \in Int32
    BY <1>1, FetchedIs
  <1>4. /\ Earlier' = Earlier /\ Undisturbed' = Undisturbed /\ Disturbed' = Disturbed
        /\ BaseLo' = BaseLo /\ BaseHi' = BaseHi
    BY <1>1, <1>2, SameWhen
  <1>5. InFlight'
    <2>1. ~Completed'
      BY <1>1, CallLength DEF Completed, LastCall
    <2> QED
      BY <1>1, <2>1 DEF InFlight
  <1>6. MachineKept
    BY <1>1, <1>2, <1>3, <1>5, HiddenKept
  <1>7. /\ lo = BaseLo /\ hi = BaseHi
        /\ \/ Undisturbed /\ counter = before.pc /\ breg = before.breg
           \/ Disturbed /\ counter = 0 /\ breg = InitialBreg
    BY <1>1, <1>3 DEF MipsInv, FetchInv
  <1>8. Began(Zeroed(breg))'
    BY <1>1, <1>4, <1>7, NowFields, InitialIsZeroed, FourIs DEF Began
  <1>9. ExecuteInv'
    BY <1>1, <1>3, <1>4, <1>7, <1>8 DEF ExecuteInv
  <1>10. FetchInv' /\ KindInv'
    BY <1>1 DEF FetchInv, KindInv
  <1> QED
    BY <1>6, <1>9, <1>10 DEF Simulates

\* An instruction that has called nobody.
LEMMA NotStarted ==
  ASSUME MipsInv, stage = "execute", step = 0
  PROVE  /\ InFlight /\ ~FetchFails(Earlier) /\ instruction \in Fetched(Earlier)
         /\ Began(Zeroed(breg)) /\ lo = BaseLo /\ hi = BaseHi
         /\ Zeroed(breg) \in {Earlier.breg, InitialBreg} /\ (Undisturbed \/ Disturbed)
         /\ instruction \in Instruction /\ breg \in [Reg -> Int32]
         /\ Zeroed(breg) \in [Reg -> Int32] /\ Zeroed(breg)[ZERO] = 0
  <1>1. ~Completed
    BY CallLength DEF Completed, LastCall
  <1>2. /\ ~FetchFails(Earlier) /\ instruction \in Fetched(Earlier)
        /\ Began(Zeroed(breg)) /\ lo = BaseLo /\ hi = BaseHi
    BY <1>1 DEF MipsInv, ExecuteInv
  <1>3. Zeroed(breg) \in {Earlier.breg, InitialBreg} /\ (Undisturbed \/ Disturbed)
    BY <1>2 DEF Began
  <1>4. instruction \in Instruction /\ breg \in [Reg -> Int32]
    BY DEF MipsInv, MipsTypeInv, MipsTypeOK
  <1>5. Zeroed(breg) \in [Reg -> Int32] /\ Zeroed(breg)[ZERO] = 0
    BY <1>4, IntsAreMany DEF Zeroed, ZERO, Reg
  <1> QED
    BY <1>1, <1>2, <1>3, <1>4, <1>5 DEF InFlight

LEMMA CharRequestIs ==
  ASSUME NEW x \in Int32
  PROVE  /\ CharRequest(x).kind = "load" /\ CharRequest(x).type = "Byte"
         /\ CharRequest(x).addr = AsUnsigned(x) /\ CharRequest(x).kte = 0
  BY DEF CharRequest, Of

LEMMA StartBusSimulates ==
  ASSUME MipsInv, ThreadStep, StartBus
  PROVE  Simulates
  <1> DEFINE i == instruction
  <1>1. /\ stage = "execute" /\ step = 0
        /\ UNCHANGED <<counter, hi, lo, instruction, stage, resets, before>>
    BY DEF StartBus
  <1>2. mem' = mem /\ ~exited /\ ~exited'
    BY ThreadFacts
  <1>3. /\ InFlight /\ ~FetchFails(Earlier) /\ i \in Fetched(Earlier)
        /\ lo = BaseLo /\ hi = BaseHi /\ i \in Instruction
        /\ Zeroed(breg) \in {Earlier.breg, InitialBreg}
        /\ Zeroed(breg) \in [Reg -> Int32]
    BY <1>1, NotStarted
  <1>4. /\ Earlier' = Earlier /\ Undisturbed' = Undisturbed /\ Disturbed' = Disturbed
        /\ BaseLo' = BaseLo /\ BaseHi' = BaseHi
    BY <1>1, <1>2, SameWhen
  <1>5. PICK R \in {Earlier.breg, InitialBreg} : R = Zeroed(breg)
    BY <1>3
  <1>6. /\ breg' = R /\ UsesBus(i, R) /\ step' = 1
        /\ Ask(CASE i.op \in MduOp -> MduRequest(i)
                 [] i.op = "SYSCALL" -> CharRequest(R[A0])
                 [] OTHER -> DataRequest(i, R))
    BY <1>5 DEF StartBus, Ask
  <1>7. request' = (CASE i.op \in MduOp -> MduRequest(i)
                      [] i.op = "SYSCALL" -> CharRequest(R[A0])
                      [] OTHER -> DataRequest(i, R))
    BY <1>6 DEF Ask
  <1>8. Began(R) /\ R \in [Reg -> Int32] /\ R[ZERO] = 0
    BY <1>1, <1>5, NotStarted
  <1>9. ~Moved(1)' /\ ~Moved(2)' /\ ~Moved(3)'
    <2>1. TypeOK /\ CallInv /\ Idle
      BY <1>1, NoCall DEF MipsInv, MipsTypeInv, MipsTypeOK
    <2>2. \A k \in Nat : Moved(k)' <=> 1 > k
      BY <1>1, <1>6, <2>1, AskIsNewCall
    <2> QED
      BY <2>2
  <1>10. ~Completed' /\ InFlight'
    BY <1>1, <1>6, CallLength DEF Completed, LastCall, InFlight
  <1>11. MachineKept
    BY <1>1, <1>2, <1>3, <1>10, HiddenKept
  <1>12. Began(R)'
    <2>1. Zeroed(breg') = R
      BY <1>6, <1>8 DEF Zeroed, Reg, ZERO
    <2>2. step = 0
      BY <1>1
    <2> QED
      BY <1>1, <1>4, <1>6, <1>8, <2>1, <2>2 DEF Began
  <1> DEFINE called == /\ Performing(R)'
                       /\ i.op \in LoadOp \cup {"SYSCALL"} => request'.kind = "load"
  <1>13. ASSUME i.op \in MduOp PROVE called
    <2>1. request' = MduRequest(i)
      BY <1>7, <1>13 DEF MduOp
    <2>2. Calculating(R)'
      BY <1>1, <1>3, <1>4, <1>9 DEF Calculating
    <2>3. Performing(R)'
      BY <1>1, <1>6, <1>13, <2>1, <2>2 DEF Performing
    <2>4. i.op \notin LoadOp \cup {"SYSCALL"}
      BY <1>13 DEF MduOp, LoadOp
    <2> QED
      BY <1>1, <2>3, <2>4
  <1>14. ASSUME i.op \in LoadOp \cup StoreOp PROVE called
    <2>1. request' = DataRequest(i, R)
      BY <1>7, <1>14 DEF MduOp, LoadOp, StoreOp
    <2>2. Performing(R)'
      BY <1>1, <1>3, <1>4, <1>6, <1>14, <2>1 DEF Performing
    <2>3. i.op \in LoadOp => request'.kind = "load"
      BY <1>3, <1>8, <1>14, <2>1, DataRequestType
    <2>4. i.op # "SYSCALL"
      BY <1>14 DEF LoadOp, StoreOp
    <2> QED
      BY <1>1, <2>2, <2>3, <2>4
  <1>15. ASSUME i.op = "SYSCALL" PROVE called
    <2>1. request' = CharRequest(R[A0]) /\ R[A0] \in Int32
      BY <1>7, <1>8, <1>15 DEF MduOp, Reg, A0
    <2>2. /\ request'.kind = "load" /\ request'.type = "Byte" /\ request'.kte = 0
          /\ request'.addr = Text(R)
      BY <2>1, CharRequestIs DEF Text
    <2>3. Text(R) \in 0 .. UintCount - 1 /\ (Text(R) + 0) % UintCount = Text(R)
          /\ 0 \in 0 .. UintCount - 1
      <3>1. Text(R) \in 0 .. UintCount - 1 /\ UintCount \in Nat /\ UintCount > 0
        BY <2>1, AsUnsignedType, BytesFacts DEF Text
      <3> QED
        BY <3>1, UintMod
    <2>4. Printing(R, 0)'
      <3>1. 0 .. 0 - 1 = {}
        OBVIOUS
      <3> QED
        BY <2>2, <2>3, <3>1 DEF Printing, MayGoOn
    <2>5. Performing(R)'
      BY <1>1, <1>3, <1>4, <1>6, <1>15, <2>3, <2>4 DEF Performing
    <2> QED
      BY <1>1, <2>2, <2>5
  <1>16. called
    BY <1>6, <1>13, <1>14, <1>15 DEF UsesBus
  <1>17. ExecuteInv'
    <2>1. breg'[ZERO] = 0
      BY <1>6, <1>8
    <2>2. R \in {Earlier'.breg, InitialBreg}
      BY <1>4
    <2> QED
      BY <1>1, <1>3, <1>4, <1>6, <1>12, <1>16, <2>1, <2>2 DEF ExecuteInv
  <1>18. KindInv' /\ FetchInv'
    BY <1>1, <1>16 DEF KindInv, FetchInv
  <1> QED
    BY <1>11, <1>17, <1>18 DEF Simulates

LEMMA WithoutBusSimulates ==
  ASSUME MipsInv, ThreadStep, WithoutBus
  PROVE  Simulates
  <1> DEFINE i == instruction
             R == Zeroed(breg)
  <1>1. /\ stage = "execute" /\ step = 0 /\ ~UsesBus(i, R) /\ step' = step
        /\ UNCHANGED <<hi, lo, instruction, resets, before>>
        /\ counter' = Target(i, R, counter)
        /\ IF i.op = "SYSCALL" /\ R[V0] = 5
           THEN \E n \in Inputs : breg' = [R EXCEPT ![V0] = n]
           ELSE breg' = Computes(i, R, counter)
        /\ stage' = IF Ends10(i, R) THEN "stopped" ELSE AfterInstruction(counter')
    BY DEF WithoutBus, Ends10
  <1>2. mem' = mem /\ ~exited /\ ~exited' /\ exited' = exited
    BY ThreadFacts
  <1>3. /\ InFlight /\ ~FetchFails(Earlier) /\ i \in Fetched(Earlier)
        /\ Began(R) /\ lo = BaseLo /\ hi = BaseHi /\ R \in {Earlier.breg, InitialBreg}
        /\ Undisturbed \/ Disturbed
    BY <1>1, NotStarted
  <1>4. stage' \in {"wait", "stopped"}
    BY <1>1 DEF AfterInstruction
  <1>5. ~InFlight'
    BY <1>4 DEF InFlight
  <1>6. /\ MachineState' = State(counter', lo, hi, Zeroed(breg'), mem)
        /\ MachineResets' = resets
        /\ MachinePhase' = IF stage' = "stopped" THEN "stopped" ELSE "running"
    BY <1>1, <1>2, <1>4, <1>5, SeenBetweenNext
  <1>7. FetchInv' /\ ExecuteInv' /\ KindInv'
    BY <1>4 DEF FetchInv, ExecuteInv, KindInv
  <1>8. ASSUME NEW o \in Executes(Earlier, Now, i, R),
               MachineState' = Visible(o).state, MachinePhase' = Visible(o).phase
        PROVE  Simulates
    <2>1. MipsTypeInv /\ i.op \notin MduOp
      BY <1>1 DEF MipsInv, UsesBus
    <2>2. Expected(o)
      BY <1>1, <1>3, <1>8, <2>1, OutcomeIsExpected
    <2>3. Abstract!Next
      BY <1>2, <1>3, <1>6, <1>8, <2>2, OutcomeIsStep
    <2> QED
      BY <1>7, <2>3 DEF Simulates
  <1>9. CASE i.op = "SYSCALL" /\ R[V0] = 5
    <2>1. PICK n \in Inputs : breg' = [R EXCEPT ![V0] = n]
      BY <1>1, <1>9
    <2> DEFINE o == Running(State(counter, lo, hi, [R EXCEPT ![V0] = n], mem))
    <2>2. counter' = counter
      BY <1>1, <1>9 DEF Target, Taken
    <2>3. Now = State(counter, lo, hi, R, mem)
      BY <1>3 DEF Now
    <2>4. o \in Executes(Earlier, Now, i, R)
      <3>1. [Now EXCEPT !.breg[V0] = n] = State(counter, lo, hi, [R EXCEPT ![V0] = n], mem)
        <4>1. [State(counter, lo, hi, R, mem) EXCEPT !.breg[V0] = n]
                = State(counter, lo, hi, [R EXCEPT ![V0] = n], mem)
          BY DEF State
        <4> QED
          BY <2>3, <4>1
      <3>2. Executes(Earlier, Now, i, R) = {Running([Now EXCEPT !.breg[V0] = k]) : k \in Inputs}
        BY <1>9, ExecutesInput
      <3> QED
        BY <3>1, <3>2
    <2>5. /\ Visible(o).state = State(counter, lo, hi, Zeroed([R EXCEPT ![V0] = n]), mem)
          /\ Visible(o).phase = IF counter < DATA_SEGMENT_START THEN "running" ELSE "stopped"
      BY SeenRunning
    <2>6. stage' = IF counter < DATA_SEGMENT_START THEN "wait" ELSE "stopped"
      BY <1>1, <1>9, <2>2 DEF Ends10, AfterInstruction
    <2> HIDE DEF o
    <2> QED
      BY <1>6, <1>8, <2>1, <2>2, <2>4, <2>5, <2>6
  <1>10. CASE ~(i.op = "SYSCALL" /\ R[V0] = 5)
    <2> DEFINE u == State(counter', lo, hi, breg', mem)
               o == IF Ends10(i, R) THEN [state |-> u, phase |-> "stopped"] ELSE Running(u)
    <2>1. breg' = Computes(i, R, counter) /\ counter' = Target(i, R, counter)
      BY <1>1, <1>10
    <2>2. Now = State(counter, lo, hi, R, mem) /\ Now.pc = counter
      BY <1>3, NowFields DEF Now
    <2>3. [WithPc(Now, Target(i, R, Now.pc)) EXCEPT !.breg = Computes(i, R, Now.pc)] = u
      <3>1. WithPc(Now, counter') = State(counter', lo, hi, R, mem)
        BY <2>2, WithPcIs
      <3>2. [State(counter', lo, hi, R, mem) EXCEPT !.breg = breg'] = u
        BY DEF State
      <3> QED
        BY <2>1, <2>2, <3>1, <3>2
    <2>4. o \in Executes(Earlier, Now, i, R)
      BY <1>1, <1>10, <2>3, ExecutesOther
    <2>5. /\ Visible(o).state = State(counter', lo, hi, Zeroed(breg'), mem)
          /\ Visible(o).phase = IF ~Ends10(i, R) /\ counter' < DATA_SEGMENT_START
                                THEN "running" ELSE "stopped"
      <3>1. CASE Ends10(i, R)
        <4>1. o = [state |-> u, phase |-> "stopped"]
          BY <3>1
        <4> QED
          BY <3>1, <4>1, SeenOf
      <3>2. CASE ~Ends10(i, R)
        <4>1. o = Running(u)
          BY <3>2
        <4> QED
          BY <3>2, <4>1, SeenRunning
      <3> QED
        BY <3>1, <3>2
    <2>6. stage' = IF ~Ends10(i, R) /\ counter' < DATA_SEGMENT_START
                   THEN "wait" ELSE "stopped"
      BY <1>1 DEF AfterInstruction
    <2> HIDE DEF o
    <2> QED
      BY <1>6, <1>8, <2>4, <2>5, <2>6
  <1> QED
    BY <1>9, <1>10

LEMMA NextCallSimulates ==
  ASSUME MipsInv, ThreadStep, NextCall
  PROVE  Simulates
  <1>1. /\ request' = request /\ step \in 1 .. LastCall(request) - 1 /\ step' = step + 1
        /\ pc[Caller(request)] = "idle" /\ pc'[Caller(request')] = "transfer"
        /\ \A k \in Nat : Moved(k)' <=> Moved(k)
    BY NextIsNewCall DEF MipsInv, MipsTypeInv, MipsTypeOK
  <1>2. UNCHANGED <<counter, breg, hi, lo, instruction, stage, resets, before>>
    BY DEF NextCall, regs, cleared
  <1>3. /\ mem' = mem /\ exited' = exited /\ opA' = opA /\ opB' = opB
    BY ThreadFacts
  <1>4. LastCall(request) \in Int /\ step > 0 /\ step' > 0 /\ step # LastCall(request)
    BY <1>1 DEF LastCall
  <1>5. ~Completed /\ ~Completed'
    BY <1>1, <1>4, CallLength DEF Completed, Caller
  <1>6. InFlight' <=> InFlight
    BY <1>2, <1>4, <1>5 DEF InFlight
  <1>7. MachineKept
    BY <1>2, <1>3, <1>5, <1>6, ShownKept
  <1>8. FetchInv' /\ ExecuteInv' /\ KindInv'
    BY <1>1, <1>2, <1>3, <1>4, <1>5, InvKept
  <1> QED
    BY <1>7, <1>8 DEF Simulates

LEMMA CallReturnsSimulates ==
  ASSUME MipsInv, ThreadStep, CallReturns
  PROVE  Simulates
  <1>1. Steady
    BY ReturnIsSteady DEF MipsInv, MipsTypeInv, MipsTypeOK
  <1>2. UNCHANGED <<counter, breg, hi, lo, instruction, stage, resets, before>>
    BY DEF CallReturns, regs, cleared
  <1> QED
    BY <1>1, <1>2, ThreadFacts, NothingNew DEF Simulates

LEMMA RisingEdgeSimulates ==
  ASSUME MipsInv, RisingEdge
  PROVE  Simulates
  <1>1. /\ UNCHANGED <<counter, breg, hi, lo, instruction, resets, before, mem, opA, opB, exited>>
        /\ stage' = (IF stage = "wait" THEN "fetch" ELSE stage) /\ ~exited /\ stage # "stopped"
    BY DEF RisingEdge, Blocked, cleared, update_wait, update_wait_left
  <1>2. Steady
    BY RisingIsSteady
  <1>3. CASE stage # "wait"
    BY <1>1, <1>2, <1>3, NothingNew DEF Simulates
  <1>4. CASE stage = "wait"
    <2>1. step = 0 /\ step' = 0 /\ stage' = "fetch"
      BY <1>1, <1>2, <1>4 DEF Steady, MipsInv, CallInv
    <2>2. ~InFlight /\ ~InFlight'
      BY <1>4, <2>1 DEF InFlight
    <2>3. /\ MachineState = State(counter, lo, hi, Zeroed(breg), mem)
          /\ MachineResets = resets /\ MachinePhase = "running"
      BY <1>1, <1>4, <2>2, SeenBetween
    <2>4. /\ MachineState' = State(counter', lo', hi', Zeroed(breg'), mem')
          /\ MachineResets' = resets' /\ MachinePhase' = "running"
      BY <1>1, <2>1, <2>2, SeenBetweenNext
    <2>5. MachineKept
      BY <1>1, <2>3, <2>4 DEF MachineKept
    <2> QED
      BY <2>1, <2>5 DEF Simulates, FetchInv, ExecuteInv, KindInv
  <1> QED
    BY <1>3, <1>4

\* The calls of an instruction have returned.  If it is not completed, they
\* have read from the memory.
LEMMA ReturnedIs ==
  ASSUME MipsInv, stage = "execute", CallReturned
  PROVE  /\ step > 0 /\ pc[Caller(request)] # "transfer"
         /\ Completed => /\ instruction.op \notin LoadOp \cup {"SYSCALL"}
                         /\ ~InFlight
         /\ ~Completed =>
               /\ InFlight /\ breg[ZERO] = 0
               /\ ~FetchFails(Earlier) /\ instruction \in Fetched(Earlier)
               /\ request.kind = "load" /\ instruction.op \in LoadOp \cup {"SYSCALL"}
               /\ InRange(AddressOf(request))
               /\ reply \in Load(mem, request.type, AddressOf(request))
               /\ lo = BaseLo /\ hi = BaseHi /\ (Undisturbed \/ Disturbed)
               /\ \E R \in {Earlier.breg, InitialBreg} :
                     Began(R) /\ Performing(R) /\ UsesBus(instruction, R)
  <1>1. /\ step = LastCall(request) /\ step > 0 /\ step \in Nat
        /\ pc[Caller(request)] # "transfer"
    <2>1. step = LastCall(request) /\ Idle
      BY CallLength DEF CallReturned
    <2>2. pc[Caller(request)] # "transfer"
      BY <2>1 DEF Idle, Caller
    <2> QED
      BY <2>1, <2>2 DEF LastCall
  <1>2. Completed <=> request.kind # "load"
    BY <1>1, CallLength DEF Completed, Caller
  <1>3. CASE Completed
    <2>1. instruction.op \notin LoadOp \cup {"SYSCALL"}
      BY <1>1, <1>2, <1>3 DEF MipsInv, KindInv
    <2> QED
      BY <1>1, <1>3, <2>1 DEF InFlight
  <1>4. CASE ~Completed
    <2>1. /\ ~FetchFails(Earlier) /\ instruction \in Fetched(Earlier) /\ breg[ZERO] = 0
          /\ \E R \in {Earlier.breg, InitialBreg} : Began(R) /\ Performing(R)
      BY <1>1, <1>4 DEF MipsInv, ExecuteInv
    <2>2. PICK R \in {Earlier.breg, InitialBreg} : Began(R) /\ Performing(R)
      BY <2>1
    <2>3. request.kind = "load" /\ ~UsesMdu(request) /\ step = 3
      BY <1>1, <1>2, <1>4 DEF UsesMdu, MduOp, LastCall
    <2>4. InRange(AddressOf(request)) /\ reply \in Load(mem, request.type, AddressOf(request))
      BY <1>1, <2>3 DEF MipsInv, MemInv, Moved
    <2>5. instruction.op \notin MduOp
      <3>1. instruction.op \in MduOp => MduRequest(instruction).kind = instruction.op
        BY DEF MduRequest, Of
      <3>2. instruction.op \in MduOp => request = MduRequest(instruction)
        BY <2>2 DEF Performing, LoadOp, StoreOp, MduOp
      <3> QED
        BY <2>3, <3>1, <3>2 DEF UsesMdu
    <2>6. instruction \in Instruction /\ R \in [Reg -> Int32]
      <3>1. Earlier.breg \in [Reg -> Int32]
        <4>1. before.breg \in [Reg -> Int32]
          BY DEF MipsInv, MipsTypeInv, MipsTypeOK
        <4>2. Zeroed(before.breg) \in [Reg -> Int32]
          BY <4>1, IntsAreMany DEF Zeroed
        <4> QED
          BY <4>2, NowFields
      <3> QED
        BY <3>1, InitialBregType DEF MipsInv, MipsTypeInv, MipsTypeOK
    <2>7. instruction.op \notin StoreOp
      <3>1. instruction.op \in StoreOp => DataRequest(instruction, R).kind = "store"
        BY <2>6, DataRequestType DEF StoreOp, LoadOp
      <3>2. instruction.op \in StoreOp => request = DataRequest(instruction, R)
        BY <2>2, <2>5 DEF Performing, StoreOp
      <3> QED
        BY <2>3, <3>1, <3>2
    <2>8. UsesBus(instruction, R) /\ instruction.op \in LoadOp \cup {"SYSCALL"}
          /\ lo = BaseLo /\ hi = BaseHi
      BY <2>2, <2>5, <2>7 DEF Performing
    <2>9. Undisturbed \/ Disturbed
      BY <2>2 DEF Began
    <2> QED
      BY <1>1, <1>4, <2>1, <2>2, <2>3, <2>4, <2>8, <2>9 DEF InFlight
  <1> QED
    BY <1>3, <1>4

\* The character that has been read is the n-th of the text.
LEMMA CharacterIs ==
  ASSUME MipsInv, NEW R \in {Earlier.breg, InitialBreg}, NEW n \in 0 .. UintCount - 1,
         Printing(R, n), InRange(AddressOf(request)),
         reply \in Load(mem, request.type, AddressOf(request))
  PROVE  /\ AddressOf(request) = (Text(R) + n) % UintCount
         /\ Text(R) \in 0 .. UintCount - 1
         /\ \A k \in 0 .. n : InRange((Text(R) + k) % UintCount)
         /\ reply \in Load(mem, "Byte", (Text(R) + n) % UintCount)
         /\ n <= 4 * size + 4
  <1>1. Text(R) \in 0 .. UintCount - 1
    <2>1. before.breg \in [Reg -> Int32]
      BY DEF MipsInv, MipsTypeInv, MipsTypeOK
    <2>2. Zeroed(before.breg) \in [Reg -> Int32]
      BY <2>1, IntsAreMany DEF Zeroed
    <2>3. R \in [Reg -> Int32]
      BY <2>2, NowFields, InitialBregType
    <2>4. R[A0] \in Int32
      BY <2>3 DEF A0, Reg
    <2> QED
      BY <2>4, AsUnsignedType DEF Text
  <1>2. AddressOf(request) = (Text(R) + n) % UintCount
    <2>1. request.addr \in 0 .. UintCount - 1
      BY DEF MipsInv, MipsTypeInv, MipsRequest
    <2> QED
      BY <2>1, PlainAddress DEF Printing
  <1>3. \A k \in 0 .. n - 1 : InRange((Text(R) + k) % UintCount)
    BY DEF Printing
  <1>4. n <= 4 * size + 4
    BY <1>1, <1>3, TextFits
  <1>5. \A k \in 0 .. n : InRange((Text(R) + k) % UintCount)
    <2>1. \A k \in 0 .. n : k \in 0 .. n - 1 \/ k = n
      BY BytesFacts
    <2> QED
      BY <1>2, <1>3, <2>1
  <1> QED
    BY <1>1, <1>2, <1>4, <1>5 DEF Printing

LEMMA NextCharSimulates ==
  ASSUME MipsInv, ThreadStep, NextChar
  PROVE  Simulates
  <1>1. /\ stage = "execute" /\ CallReturned /\ MoreChars /\ stage' = "execute"
        /\ request' = CharRequest(Plus(AsInt(request.addr), 1)) /\ step' = 1
        /\ UNCHANGED <<counter, breg, hi, lo, instruction, stage, resets, before>>
    BY DEF NextChar, Ask, regs, cleared
  <1>2. mem' = mem /\ ~exited /\ ~exited'
    BY ThreadFacts
  <1>3. instruction.op = "SYSCALL" /\ ToInt(reply) # 0
    BY <1>1 DEF MoreChars
  <1>4. ~Completed
    BY <1>1, <1>3, ReturnedIs
  <1>5. /\ InFlight /\ breg[ZERO] = 0 /\ step > 0
        /\ ~FetchFails(Earlier) /\ instruction \in Fetched(Earlier)
        /\ InRange(AddressOf(request))
        /\ reply \in Load(mem, request.type, AddressOf(request))
        /\ lo = BaseLo /\ hi = BaseHi
    BY <1>1, <1>4, ReturnedIs
  <1>6. PICK R \in {Earlier.breg, InitialBreg} :
          Began(R) /\ Performing(R) /\ UsesBus(instruction, R)
    BY <1>1, <1>4, ReturnedIs
  <1>7. PICK n \in 0 .. UintCount - 1 : Printing(R, n)
    BY <1>3, <1>6 DEF Performing, LoadOp, StoreOp, MduOp
  <1>8. /\ AddressOf(request) = (Text(R) + n) % UintCount /\ Text(R) \in 0 .. UintCount - 1
        /\ \A k \in 0 .. n : InRange((Text(R) + k) % UintCount)
        /\ reply \in Load(mem, "Byte", (Text(R) + n) % UintCount)
    BY <1>5, <1>7, CharacterIs
  <1>9. UintCount \in Nat /\ UintCount > 0 /\ n \in Nat /\ Text(R) \in Int
    BY <1>8, BytesFacts
  <1>10. /\ Earlier' = Earlier /\ Undisturbed' = Undisturbed /\ Disturbed' = Disturbed
         /\ BaseLo' = BaseLo /\ BaseHi' = BaseHi
    BY <1>1, <1>2, SameWhen
  <1>11. ~Completed' /\ InFlight'
    BY <1>1, CallLength DEF Completed, LastCall, InFlight
  <1>12. MachineKept
    BY <1>1, <1>2, <1>5, <1>11, HiddenKept
  <1>13. Began(R)'
    BY <1>1, <1>5, <1>6, <1>10 DEF Began
  <1>14. /\ request'.kind = "load" /\ request'.type = "Byte" /\ request'.kte = 0
         /\ request'.addr = (Text(R) + (n + 1)) % UintCount
    <2>1. request.addr = (Text(R) + n) % UintCount /\ request.addr \in 0 .. UintCount - 1
      BY <1>7 DEF Printing, MipsInv, MipsTypeInv, MipsRequest
    <2>2. request'.addr = (request.addr + 1) % UintCount
      BY <1>1, <2>1, NextCharAddress
    <2>3. (request.addr + 1) % UintCount = ((Text(R) + n) + 1) % UintCount
      <3> DEFINE z == Text(R) + n
      <3>1. z \in Int
        BY <1>9
      <3> HIDE DEF z
      <3>2. ((z % UintCount) + 1) % UintCount = (z + 1) % UintCount
        BY <3>1, UintMod
      <3> QED
        BY <2>1, <3>2 DEF z
    <2>4. (Text(R) + n) + 1 = Text(R) + (n + 1)
      BY <1>9
    <2>5. request'.kind = "load" /\ request'.type = "Byte" /\ request'.kte = 0
      BY <1>1 DEF CharRequest, Of
    <2> QED
      BY <2>2, <2>3, <2>4, <2>5
  <1>15. \E k \in 0 .. UintCount - 1 : Printing(R, k)'
    <2>1. CASE n + 1 < UintCount
      <3>1. \A k \in 0 .. (n + 1) - 1 : k \in 0 .. n - 1 \/ k = n
        BY <1>9
      <3>2. MayGoOn(Earlier, Text(R), n + 1)
        <4>1. MayGoOn(Earlier, Text(R), n) /\ Earlier.memory = mem
          BY <1>7, NowFields DEF Printing
        <4> QED
          BY <1>3, <1>8, <3>1, <4>1 DEF MayGoOn
      <3>3. \A k \in 0 .. (n + 1) - 1 : InRange((Text(R) + k) % UintCount)
        BY <1>8, <1>9
      <3>4. Printing(R, n + 1)'
        BY <1>10, <1>14, <3>2, <3>3 DEF Printing
      <3>5. n + 1 \in 0 .. UintCount - 1
        BY <1>9, <2>1
      <3> QED
        BY <3>4, <3>5
    <2>2. CASE n + 1 = UintCount
      <3>1. request'.addr = (Text(R) + 0) % UintCount
        <4>1. Text(R) + (n + 1) = Text(R) + UintCount /\ Text(R) + 0 = Text(R)
          BY <1>9, <2>2
        <4>2. (Text(R) + UintCount) % UintCount = Text(R) % UintCount
          BY <1>9, UintMod
        <4> QED
          BY <1>14, <4>1, <4>2
      <3>2. 0 .. 0 - 1 = {} /\ 0 \in 0 .. UintCount - 1
        BY <1>9
      <3>3. Printing(R, 0)'
        BY <1>14, <3>1, <3>2 DEF Printing, MayGoOn
      <3> QED
        BY <3>2, <3>3
    <2> QED
      BY <1>9, <2>1, <2>2
  <1>16. Performing(R)'
    BY <1>1, <1>3, <1>5, <1>6, <1>10, <1>15 DEF Performing
  <1>17. ExecuteInv'
    BY <1>1, <1>5, <1>10, <1>13, <1>16 DEF ExecuteInv
  <1>18. KindInv' /\ FetchInv'
    BY <1>1, <1>14 DEF KindInv, FetchInv
  <1> QED
    BY <1>12, <1>17, <1>18 DEF Simulates

LEMMA EndBusSimulates ==
  ASSUME MipsInv, ThreadStep, EndBus
  PROVE  Simulates
  <1> DEFINE i == instruction
  <1>1. /\ stage = "execute" /\ CallReturned /\ ~MoreChars
        /\ breg' = IF i.op \in LoadOp THEN [breg EXCEPT ![i.rt] = ToInt(reply)] ELSE breg
        /\ stage' = AfterInstruction(counter) /\ step' = 0
        /\ UNCHANGED <<counter, hi, lo, instruction, resets, before>>
    BY DEF EndBus
  <1>2. mem' = mem /\ ~exited /\ ~exited' /\ exited' = exited
    BY ThreadFacts
  <1>3. stage' = IF counter < DATA_SEGMENT_START THEN "wait" ELSE "stopped"
    BY <1>1 DEF AfterInstruction
  <1>4. FetchInv' /\ ExecuteInv' /\ KindInv' /\ ~InFlight'
    BY <1>3 DEF FetchInv, ExecuteInv, KindInv, InFlight
  <1>5. /\ MachineState' = State(counter, lo, hi, Zeroed(breg'), mem)
        /\ MachineResets' = resets
        /\ MachinePhase' = IF counter < DATA_SEGMENT_START THEN "running" ELSE "stopped"
    BY <1>1, <1>2, <1>3, <1>4, SeenBetweenNext
  <1>6. CASE Completed
    <2>1. breg' = breg /\ ~InFlight
      BY <1>1, <1>6, ReturnedIs
    <2>2. counter \in Int /\ DATA_SEGMENT_START \in Int
      BY IntIsInt, BitsFacts DEF MipsInv, MipsTypeInv, MipsTypeOK
    <2>3. /\ MachineState = State(counter, lo, hi, Zeroed(breg), mem)
          /\ MachineResets = resets
          /\ MachinePhase = IF counter < DATA_SEGMENT_START THEN "running" ELSE "stopped"
      BY <1>1, <1>2, <1>6, <2>1, <2>2, SeenBetween
    <2>4. MachineKept
      BY <1>5, <2>1, <2>3 DEF MachineKept
    <2> QED
      BY <1>4, <2>4 DEF Simulates
  <1>7. CASE ~Completed
    <2>1. /\ InFlight /\ breg[ZERO] = 0 /\ step > 0
          /\ ~FetchFails(Earlier) /\ i \in Fetched(Earlier)
          /\ i.op \in LoadOp \cup {"SYSCALL"} /\ InRange(AddressOf(request))
          /\ reply \in Load(mem, request.type, AddressOf(request))
          /\ lo = BaseLo /\ hi = BaseHi /\ (Undisturbed \/ Disturbed)
      BY <1>1, <1>7, ReturnedIs
    <2>2. PICK R \in {Earlier.breg, InitialBreg} :
            Began(R) /\ Performing(R) /\ UsesBus(i, R)
      BY <1>1, <1>7, ReturnedIs
    <2>3. Zeroed(breg) = breg /\ Now = State(counter, lo, hi, breg, mem)
      <3>1. Zeroed(breg) = breg
        BY <2>1 DEF MipsInv, MipsTypeInv, MipsTypeOK, Zeroed
      <3> QED
        BY <2>1, <3>1 DEF Now
    <2>4. ASSUME NEW o, o = Running(State(counter, lo, hi, breg', mem)),
                 o \in Executes(Earlier, Now, i, R)
          PROVE  Simulates
      <3>1. MipsTypeInv /\ i.op \notin MduOp
        BY <2>1 DEF MipsInv, LoadOp, MduOp
      <3>2. Expected(o)
        BY <2>1, <2>2, <2>4, <3>1, OutcomeIsExpected
      <3>3. MachineState' = Visible(o).state /\ MachinePhase' = Visible(o).phase
        BY <1>5, <2>4, SeenRunning
      <3>4. Abstract!Next
        BY <1>2, <1>5, <2>1, <3>2, <3>3, OutcomeIsStep
      <3> QED
        BY <1>4, <3>4 DEF Simulates
    <2>5. CASE i.op \in LoadOp
      <3>1. request = DataRequest(i, R) /\ i.op # "SYSCALL"
        BY <2>2, <2>5 DEF Performing, LoadOp, StoreOp, MduOp
      <3>2. [Now EXCEPT !.breg[i.rt] = ToInt(reply)] = State(counter, lo, hi, breg', mem)
        <4>1. breg' = [breg EXCEPT ![i.rt] = ToInt(reply)]
          BY <1>1, <2>5
        <4>2. [State(counter, lo, hi, breg, mem) EXCEPT !.breg[i.rt] = ToInt(reply)]
                = State(counter, lo, hi, [breg EXCEPT ![i.rt] = ToInt(reply)], mem)
          BY DEF State
        <4> QED
          BY <2>3, <4>1, <4>2
      <3>3. Running(State(counter, lo, hi, breg', mem)) \in AfterLoad(Now, i, R)
        BY <2>1, <3>1, <3>2, NowFields DEF AfterLoad
      <3>4. Executes(Earlier, Now, i, R) = AfterLoad(Now, i, R)
        BY <2>1, <2>5, <3>1, ExecutesLoad DEF FailsOf
      <3> QED
        BY <2>4, <3>3, <3>4
    <2>6. CASE i.op = "SYSCALL"
      <3>1. PICK n \in 0 .. UintCount - 1 : Printing(R, n)
        BY <2>2, <2>6 DEF Performing, LoadOp, StoreOp, MduOp
      <3>2. /\ \A k \in 0 .. n : InRange((Text(R) + k) % UintCount)
            /\ reply \in Load(mem, "Byte", (Text(R) + n) % UintCount)
            /\ n <= 4 * size + 4
        BY <2>1, <3>1, CharacterIs
      <3>3. ToInt(reply) = 0
        BY <1>1, <2>6 DEF MoreChars
      <3>4. MayBeZero(Now, (Text(R) + n) % UintCount)
        BY <3>2, <3>3, NowFields DEF MayBeZero
      <3>5. MayGoOn(Now, Text(R), n)
        BY <3>1, NowFields DEF Printing, MayGoOn
      <3>6. n \in 0 .. 4 * size + 4
        BY <3>1, <3>2, BytesFacts
      <3>7. PrintEnds(Now, Text(R))
        BY <3>2, <3>4, <3>5, <3>6 DEF PrintEnds
      <3>8. breg' = breg /\ R[V0] = 4
        BY <1>1, <2>2, <2>6 DEF UsesBus, LoadOp, StoreOp, MduOp
      <3>9. Running(Now) \in Executes(Earlier, Now, i, R)
        BY <2>6, <3>7, <3>8, ExecutesPrint DEF Text
      <3> QED
        BY <2>3, <2>4, <3>8, <3>9
    <2> QED
      BY <2>1, <2>5, <2>6
  <1> QED
    BY <1>6, <1>7

-------------------------------------------------------------------------------
(* Resets *)

\* The operands that a reset leaves are among those of the reset.
LEMMA PairsAfterReset ==
  ASSUME MipsTypeInv, NEW R, Began(R), breg[ZERO] = 0, breg' = InitialBreg,
         instruction' = instruction
  PROVE  /\ OperandPairs(R) \subseteq OperandPairs(R)'
         /\ {R[instruction.rs], breg[instruction.rs]}
              \subseteq {R[instruction.rs], breg'[instruction.rs]}
  <1>1. Zeroed(breg) = breg
    BY DEF MipsTypeInv, MipsTypeOK, Zeroed
  <1>2. breg = R \/ breg = InitialBreg
    BY <1>1 DEF Began
  <1> QED
    BY <1>2 DEF OperandPairs

LEMMA ResetSimulates ==
  ASSUME MipsInv, Reset
  PROVE  Simulates
  <1>1. /\ ~exited /\ ~exited' /\ exited' = exited /\ stage # "stopped" /\ Waits
        /\ counter' = 0 /\ lo' = 0 /\ hi' = 0 /\ breg' = InitialBreg
        /\ resets' = resets + 1 /\ mem' = mem /\ opA' = opA /\ opB' = opB
        /\ UNCHANGED <<request, step, reply, instruction, stage, before>>
    BY DEF Reset, ResetHi, user, mdu_vars, mem_vars
  <1>2. Steady
    BY SamePlace DEF Reset, user
  <1>3. Completed' <=> Completed
    BY <1>2, SteadyCompleted
  <1>4. \A k \in Nat : Moved(k)' <=> Moved(k)
    BY <1>2, SteadyMoves
  <1>5. InFlight' <=> InFlight
    BY <1>1, <1>3 DEF InFlight
  <1>6. KindInv'
    BY <1>1 DEF MipsInv, KindInv
  <1>7. resets \in Nat /\ before.resets \in Nat
    BY MipsSystemAssumption DEF MipsInv, MipsTypeInv, MipsTypeOK
  <1>8. CASE InFlight
    <2>1. MachineKept
      BY <1>1, <1>5, <1>8, HiddenKept
    <2>2. Earlier' = Earlier
      BY <1>1 DEF Earlier
    <2>3. Undisturbed \/ Disturbed => Disturbed' /\ ~Undisturbed'
      BY <1>1, <1>7 DEF Undisturbed, Disturbed
    <2>4. FetchInv'
      <3> SUFFICES ASSUME stage = "fetch", step > 0 PROVE FetchInv'
        BY <1>1 DEF FetchInv
      <3>1. request = FetchRequest(before.pc) /\ (Undisturbed \/ Disturbed)
        BY DEF MipsInv, FetchInv
      <3> QED
        BY <1>1, <2>3, <3>1 DEF FetchInv, BaseLo, BaseHi
    <2>5. ExecuteInv'
      <3> SUFFICES ASSUME stage = "execute", ~Completed PROVE ExecuteInv'
        BY <1>1, <1>3 DEF ExecuteInv
      <3>1. step > 0
        <4>1. step # 0
          BY <1>1, MipsFacts DEF Waits, MipsInv, CallInv, MipsMaster
        <4> QED
          BY <4>1 DEF MipsInv, MipsTypeInv, MipsTypeOK
      <3>2. ~FetchFails(Earlier) /\ instruction \in Fetched(Earlier) /\ breg[ZERO] = 0
        BY <3>1 DEF MipsInv, ExecuteInv
      <3>3. PICK R \in {Earlier.breg, InitialBreg} : Began(R) /\ Performing(R)
        BY <3>1 DEF MipsInv, ExecuteInv
      <3>4. Disturbed' /\ ~Undisturbed' /\ BaseLo' = 0 /\ BaseHi' = 0
        BY <2>3, <3>3 DEF Began, BaseLo, BaseHi
      <3>5. Began(R)'
        BY <1>1, <3>1, <3>4 DEF Began
      <3>6. /\ OperandPairs(R) \subseteq OperandPairs(R)'
            /\ {R[instruction.rs], breg[instruction.rs]}
                 \subseteq {R[instruction.rs], breg'[instruction.rs]}
        BY <1>1, <3>2, <3>3, PairsAfterReset DEF MipsInv
      <3>7. Calculating(R) => Calculating(R)'
        <4> SUFFICES ASSUME Calculating(R) PROVE Calculating(R)'
          OBVIOUS
        <4>1. Moved(1)' => opA' \in {R[instruction'.rs], breg'[instruction'.rs]}
          BY <1>1, <1>4, <3>6 DEF Calculating
        <4>2. Moved(2)' => <<opA', opB'>> \in OperandPairs(R)'
          BY <1>1, <1>4, <3>6 DEF Calculating
        <4> QED
          BY <1>1, <3>4, <4>1, <4>2 DEF Calculating
      <3>8. \A n : Printing(R, n) => Printing(R, n)'
        BY <1>1, <2>2 DEF Printing
      <3>9. Performing(R)'
        BY <1>1, <3>3, <3>4, <3>7, <3>8 DEF Performing
      <3>10. breg'[ZERO] = 0
        BY <1>1 DEF InitialBreg, ZERO, SP, Reg
      <3> QED
        BY <1>1, <2>2, <3>1, <3>2, <3>5, <3>9, <3>10 DEF ExecuteInv
    <2> QED
      BY <1>6, <2>1, <2>4, <2>5 DEF Simulates
  <1>9. CASE ~InFlight
    <2>1. FetchInv' /\ ExecuteInv'
      BY <1>1, <1>3, <1>9 DEF InFlight, FetchInv, ExecuteInv
    <2>2. /\ MachineState = State(counter, lo, hi, Zeroed(breg), mem)
          /\ MachineResets = resets /\ MachinePhase # "exited"
      BY <1>1, <1>9, SeenBetween
    <2>3. /\ MachineState' = State(0, 0, 0, InitialBreg, mem)
          /\ MachineResets' = resets + 1 /\ MachinePhase' = "running"
      <3>1. ~(0 >= DATA_SEGMENT_START) /\ stage' # "stopped"
        BY <1>1, IntIsInt, BitsFacts
      <3> QED
        BY <1>1, <1>5, <1>9, <3>1, SeenBetweenNext, InitialIsZeroed
    <2>4. Restarted(MachineState) = State(0, 0, 0, InitialBreg, mem)
      BY <2>2, RestartedIs
    <2>5. PICK o : o = Running(Restarted(MachineState))
      OBVIOUS
    <2>6. o \in ResetsOf(MachineState)
      BY <2>5 DEF ResetsOf
    <2>7. o.state = State(0, 0, 0, InitialBreg, mem) /\ o.phase = "running"
      <3>1. 0 < DATA_SEGMENT_START /\ State(0, 0, 0, InitialBreg, mem).pc = 0
        BY BitsFacts DEF State
      <3> QED
        BY <2>4, <2>5, <3>1 DEF Running
    <2> HIDE DEF MachineState, MachinePhase, MachineResets
    <2>8. MachineResets' > MachineResets
      BY <1>7, <2>2, <2>3
    <2>9. Abstract!Reset
      BY <2>2, <2>3, <2>6, <2>7, <2>8 DEF Abstract!Reset
    <2> QED
      BY <1>6, <2>1, <2>9 DEF Simulates, Abstract!Next
  <1> QED
    BY <1>8, <1>9

-------------------------------------------------------------------------------
(* The falling edges, for the abstract processor *)

LEMMA BeginningTypes ==
  ASSUME MipsTypeInv, NEW R \in {Earlier.breg, InitialBreg}
  PROVE  R \in [Reg -> Int32] /\ instruction \in Instruction
  <1>1. before.breg \in [Reg -> Int32] /\ instruction \in Instruction
    BY DEF MipsTypeInv, MipsTypeOK
  <1>2. Zeroed(before.breg) \in [Reg -> Int32]
    BY <1>1, IntsAreMany DEF Zeroed
  <1> QED
    BY <1>1, <1>2, NowFields, InitialBregType

\* The kind of the request tells that of the instruction.
LEMMA PerformingIs ==
  ASSUME MipsTypeInv, NEW R \in {Earlier.breg, InitialBreg}, Performing(R)
  PROVE  /\ UsesBus(instruction, R)
         /\ UsesMdu(request) => /\ instruction.op \in MduOp
                                /\ request = MduRequest(instruction) /\ Calculating(R)
         /\ ~UsesMdu(request) => lo = BaseLo /\ hi = BaseHi
         /\ request.kind = "store" => /\ instruction.op \in StoreOp
                                      /\ request = DataRequest(instruction, R)
         /\ request.kind = "load" =>
               \/ instruction.op \in LoadOp /\ request = DataRequest(instruction, R)
               \/ /\ instruction.op = "SYSCALL" /\ R[V0] = 4
                  /\ \E n \in 0 .. UintCount - 1 : Printing(R, n)
  <1> DEFINE i == instruction
  <1>1. CASE i.op \in LoadOp \cup StoreOp
    <2>1. request = DataRequest(i, R) /\ lo = BaseLo /\ hi = BaseHi
      BY <1>1 DEF Performing, LoadOp, StoreOp, MduOp
    <2>2. request.kind = IF i.op \in LoadOp THEN "load" ELSE "store"
      BY <1>1, <2>1, BeginningTypes, DataRequestType
    <2> QED
      BY <1>1, <2>1, <2>2 DEF Performing, UsesMdu, MduOp
  <1>2. CASE i.op = "SYSCALL"
    <2>1. PICK n \in 0 .. UintCount - 1 : Printing(R, n)
      BY <1>2 DEF Performing, LoadOp, StoreOp, MduOp
    <2>2. request.kind = "load" /\ R[V0] = 4 /\ lo = BaseLo /\ hi = BaseHi
      BY <1>2, <2>1 DEF Performing, Printing, UsesBus, LoadOp, StoreOp, MduOp
    <2> QED
      BY <1>2, <2>1, <2>2 DEF Performing, UsesMdu, MduOp
  <1>3. CASE i.op \in MduOp
    <2>1. request = MduRequest(i) /\ Calculating(R)
      BY <1>3 DEF Performing, LoadOp, StoreOp, MduOp
    <2>2. request.kind = i.op
      BY <2>1 DEF MduRequest, Of
    <2> QED
      BY <1>3, <2>1, <2>2 DEF Performing, UsesMdu, MduOp
  <1> QED
    BY <1>1, <1>2, <1>3 DEF Performing

LEMMA InCall ==
  ASSUME MipsInv, NEW p \in ToHandle
  PROVE  /\ step > 0 /\ stage \in {"fetch", "execute"} /\ ~Completed /\ InFlight
         /\ p = mdu_priority <=> UsesMdu(request)
         /\ Undisturbed \/ Disturbed
         /\ stage = "fetch" => /\ request = FetchRequest(before.pc)
                               /\ request.kind = "load" /\ ~UsesMdu(request)
         /\ stage = "execute" =>
               /\ ~FetchFails(Earlier) /\ instruction \in Fetched(Earlier) /\ breg[ZERO] = 0
               /\ \E R \in {Earlier.breg, InitialBreg} : Began(R) /\ Performing(R)
  <1>1. /\ pc[Caller(request)] = "transfer" /\ step \in 1 .. LastCall(request)
        /\ p = mdu_priority <=> UsesMdu(request)
    BY EdgeServesCall DEF MipsInv
  <1>2. step > 0
    BY <1>1 DEF LastCall
  <1>3. stage \in {"fetch", "execute"}
    BY <1>2 DEF MipsInv, CallInv, MipsTypeInv, MipsTypeOK
  <1>4. ~Completed
    BY <1>1 DEF Completed, Caller
  <1>5. InFlight
    BY <1>2, <1>3, <1>4 DEF InFlight
  <1>6. CASE stage = "fetch"
    <2>1. request = FetchRequest(before.pc) /\ (Undisturbed \/ Disturbed)
      BY <1>2, <1>6 DEF MipsInv, FetchInv
    <2>2. request.kind = "load"
      BY <2>1 DEF FetchRequest, Of
    <2>3. ~UsesMdu(request)
      BY <2>2 DEF UsesMdu, MduOp
    <2> QED
      BY <1>1, <1>2, <1>3, <1>4, <1>5, <1>6, <2>1, <2>2, <2>3
  <1>7. CASE stage = "execute"
    <2>1. /\ ~FetchFails(Earlier) /\ instruction \in Fetched(Earlier) /\ breg[ZERO] = 0
          /\ \E R \in {Earlier.breg, InitialBreg} : Began(R) /\ Performing(R)
      BY <1>2, <1>4, <1>7 DEF MipsInv, ExecuteInv
    <2>2. Undisturbed \/ Disturbed
      BY <2>1 DEF Began
    <2> QED
      BY <1>1, <1>2, <1>3, <1>4, <1>5, <1>7, <2>1, <2>2
  <1> QED
    BY <1>3, <1>6, <1>7

\* The end of the program.
LEMMA ExitSimulates ==
  ASSUME MipsInv, NEW p \in ToHandle, ~exited, exited', UNCHANGED <<vars, request, step>>,
         Expected(Exit(Earlier)),
         UNCHANGED <<counter, breg, hi, lo, instruction, stage, resets, before, mem, opA, opB>>
  PROVE  Simulates
  <1>1. InFlight /\ (Undisturbed \/ Disturbed)
    BY InCall
  <1>2. Steady
    BY SamePlace
  <1>3. FetchInv' /\ ExecuteInv' /\ KindInv' /\ InFlight'
    BY <1>1, <1>2, NothingNew
  <1>4. MachineState' = Earlier' /\ MachinePhase' = "exited" /\ MachineResets' = resets
    BY <1>3, SeenInFlightNext
  <1>5. Earlier' = Earlier
    BY DEF Earlier
  <1>6. Visible(Exit(Earlier)) = Exit(Earlier)
    <2>1. before.breg \in [Reg -> Int32]
      BY DEF MipsInv, MipsTypeInv, MipsTypeOK
    <2> QED
      BY <2>1, SeenExit DEF Earlier
  <1>7. MachineState' = Visible(Exit(Earlier)).state /\ MachinePhase' = Visible(Exit(Earlier)).phase
    BY <1>4, <1>5, <1>6 DEF Exit
  <1>8. Abstract!Next
    BY <1>1, <1>4, <1>7, OutcomeIsStep
  <1> QED
    BY <1>3, <1>8 DEF Simulates

\* The MDU calculates what the instruction is to give.
LEMMA CalculatedIs ==
  ASSUME NEW i, i.op \in MduOp, NEW a \in Int32, NEW b \in Int32
  PROVE  /\ Calculated(CallAddress(MduRequest(i), 3), a, b) = ResultsOf(i.op, a, b).lo
         /\ Calculated(CallAddress(MduRequest(i), 4), a, b) = ResultsOf(i.op, a, b).hi
  <1>1. \A x : {x} # Undefined
    BY IntsAreMany DEF Undefined
  <1>2. MduRequest(i).kind = i.op /\ UsesMdu(MduRequest(i))
    BY DEF MduRequest, Of, UsesMdu
  <1>3. CASE i.op = "MUL"
    <2>1. /\ CallAddress(MduRequest(i), 3) = MLow
          /\ CallAddress(MduRequest(i), 4) = MHigh
      BY <1>2, <1>3 DEF CallAddress
    <2>2. calculate(MLow, a, b) = {LowWord(a, b)} /\ calculate(MHigh, a, b) = {HighWord(a, b)}
      BY DEF calculate, MLow, MHigh, Div, Mod
    <2>3. ResultsOf(i.op, a, b).lo = {LowWord(a, b)} /\ ResultsOf(i.op, a, b).hi = {HighWord(a, b)}
      BY <1>3 DEF ResultsOf
    <2> QED
      BY <1>1, <2>1, <2>2, <2>3 DEF Calculated
  <1>4. CASE i.op = "DIV"
    <2>1. /\ CallAddress(MduRequest(i), 3) = Div
          /\ CallAddress(MduRequest(i), 4) = Mod
      BY <1>2, <1>4 DEF CallAddress
    <2>2. /\ calculate(Div, a, b) = IF DivisionDefined(a, b) THEN {Quotient(a, b)} ELSE Undefined
          /\ calculate(Mod, a, b) = IF DivisionDefined(a, b) THEN {Remainder(a, b)} ELSE Undefined
      BY DEF calculate, MLow, MHigh, Div, Mod
    <2>3. CASE DivisionDefined(a, b)
      <3>1. /\ ResultsOf(i.op, a, b).lo = {Quotient(a, b)}
            /\ ResultsOf(i.op, a, b).hi = {Remainder(a, b)}
        BY <1>4, <2>3 DEF ResultsOf
      <3> QED
        BY <1>1, <2>1, <2>2, <2>3, <3>1 DEF Calculated
    <2>4. CASE ~DivisionDefined(a, b)
      <3>1. /\ ResultsOf(i.op, a, b).lo = Anything
            /\ ResultsOf(i.op, a, b).hi = Anything
        BY <1>4, <2>4 DEF ResultsOf
      <3> QED
        BY <2>1, <2>2, <2>4, <3>1 DEF Calculated
    <2> QED
      BY <2>3, <2>4
  <1> QED
    BY <1>3, <1>4 DEF MduOp

\* A call of MUL or DIV.
LEMMA MduCall ==
  ASSUME MipsInv, NEW p \in ToHandle, p = mdu_priority
  PROVE  /\ stage = "execute" /\ step > 0 /\ step \in Nat /\ ~Completed /\ InFlight
         /\ UsesMdu(request) /\ request = MduRequest(instruction) /\ instruction.op \in MduOp
         /\ ~FetchFails(Earlier) /\ instruction \in Fetched(Earlier)
         /\ breg[ZERO] = 0 /\ Zeroed(breg) = breg /\ (Undisturbed \/ Disturbed)
         /\ opA \in Int32 /\ opB \in Int32
         /\ \E R \in {Earlier.breg, InitialBreg} :
               Began(R) /\ Calculating(R) /\ UsesBus(instruction, R)
  <1>1. /\ UsesMdu(request) /\ stage = "execute" /\ step > 0 /\ ~Completed /\ InFlight
        /\ ~FetchFails(Earlier) /\ instruction \in Fetched(Earlier) /\ breg[ZERO] = 0
        /\ Undisturbed \/ Disturbed
        /\ \E R \in {Earlier.breg, InitialBreg} : Began(R) /\ Performing(R)
    BY InCall
  <1>2. PICK R \in {Earlier.breg, InitialBreg} : Began(R) /\ Performing(R)
    BY <1>1
  <1>3. /\ UsesBus(instruction, R) /\ instruction.op \in MduOp
        /\ request = MduRequest(instruction) /\ Calculating(R)
    BY <1>1, <1>2, PerformingIs DEF MipsInv
  <1>4. Zeroed(breg) = breg /\ step \in Nat
    BY <1>1 DEF MipsInv, MipsTypeInv, MipsTypeOK, Zeroed
  <1>5. opA \in Int32 /\ opB \in Int32
    BY DEF MipsInv, MipsTypeInv, MipsTypeOK, MduTypeOK
  <1> QED
    BY <1>1, <1>2, <1>3, <1>4, <1>5

\* A transfer that does not end the instruction.
LEMMA GoesOn ==
  ASSUME MipsInv, NEW p \in ToHandle, p = mdu_priority, ~exited, exited' = exited,
         request' = request, step' = step, step # 4,
         NEW R \in {Earlier.breg, InitialBreg},
         Began(R), UsesBus(instruction, R), Calculating(R)',
         UNCHANGED <<counter, breg, instruction, stage, resets, before, mem>>
  PROVE  Simulates
  <1>1. /\ stage = "execute" /\ step > 0 /\ InFlight
        /\ UsesMdu(request) /\ request = MduRequest(instruction) /\ instruction.op \in MduOp
        /\ ~FetchFails(Earlier) /\ instruction \in Fetched(Earlier) /\ breg[ZERO] = 0
    BY MduCall
  <1>2. Len(CallsOf(request')) = 4
    BY <1>1, CallLength DEF LastCall
  <1>3. ~Completed' /\ InFlight'
    BY <1>1, <1>2 DEF Completed, InFlight
  <1>4. MachineKept
    BY <1>1, <1>3, HiddenKept
  <1>5. /\ Earlier' = Earlier /\ Undisturbed' = Undisturbed /\ Disturbed' = Disturbed
    BY SameWhen
  <1>6. Began(R)'
    BY <1>1, <1>5 DEF Began
  <1>7. Performing(R)'
    BY <1>1 DEF Performing
  <1>8. ExecuteInv'
    BY <1>1, <1>5, <1>6, <1>7 DEF ExecuteInv
  <1>9. FetchInv' /\ KindInv'
    BY <1>1 DEF FetchInv, MipsInv, KindInv
  <1> QED
    BY <1>4, <1>8, <1>9 DEF Simulates

LEMMA MduWriteSimulates ==
  ASSUME MipsInv, NEW p \in ToHandle, p = mdu_priority, MduWrite(p), ~exited,
         UNCHANGED mem_vars
  PROVE  Simulates
  <1>1. /\ UNCHANGED <<request, step, reply, exited>> /\ mem' = mem
        /\ UNCHANGED <<counter, breg, hi, lo, instruction, stage, resets, before>>
    BY DEF MduWrite, user, mem_vars, regs, cleared
  <1>2. MipsTypeInv /\ BusInv /\ CallInv
    BY DEF MipsInv
  <1>3. CASE Steady /\ UNCHANGED <<opA, opB>>
    BY <1>1, <1>3, NothingNew DEF Simulates
  <1>4. CASE /\ Ended /\ step \in {1, 2}
             /\ step = 1 => opA' = breg[instruction.rs] /\ opB' = opB
             /\ step = 2 => opA' = opA /\ opB' = breg[instruction.rt]
    <2>1. PICK R \in {Earlier.breg, InitialBreg} :
            Began(R) /\ Calculating(R) /\ UsesBus(instruction, R)
      BY MduCall
    <2>2. \A k \in Nat : (Moved(k)' <=> step >= k) /\ (Moved(k) <=> step > k)
      BY <1>4 DEF Ended
    <2>3. lo' = BaseLo' /\ hi' = BaseHi'
      <3>1. BaseLo' = BaseLo /\ BaseHi' = BaseHi
        BY <1>1, SameWhen
      <3>2. ~Moved(3)
        BY <1>4, <2>2
      <3> QED
        BY <1>1, <2>1, <3>1, <3>2 DEF Calculating
    <2>4. CASE step = 1
      <3>1. ~Moved(2)' /\ ~Moved(3)'
        BY <2>2, <2>4
      <3> QED
        <4>1. Calculating(R)'
          BY <1>1, <1>4, <2>3, <2>4, <3>1 DEF Calculating
        <4> QED
          BY <1>1, <2>1, <2>4, <4>1, GoesOn
    <2>5. CASE step = 2
      <3>1. Moved(1) /\ ~Moved(3)'
        BY <2>2, <2>5
      <3>2. opA' = opA /\ opA \in {R[instruction.rs], breg[instruction.rs]}
            /\ opB' = breg[instruction.rt]
        BY <1>4, <2>1, <2>5, <3>1 DEF Calculating
      <3>3. <<opA', opB'>> \in OperandPairs(R)'
        BY <1>1, <3>2 DEF OperandPairs
      <3>4. Calculating(R)'
        BY <1>1, <2>3, <3>1, <3>2, <3>3 DEF Calculating
      <3> QED
        BY <1>1, <2>1, <2>5, <3>4, GoesOn
    <2> QED
      BY <1>4, <2>4, <2>5
  <1> QED
    BY <1>2, <1>3, <1>4, MduWriteOutcome

LEMMA AfterMduHas ==
  ASSUME NEW s, NEW c, NEW l, NEW h, NEW b, NEW m, NEW results,
         NEW x \in results.lo \ {Signal}, NEW y \in results.hi \ {Signal}
  PROVE  Running(State(c, x, y, b, m)) \in AfterMdu(s, State(c, l, h, b, m), results)
  <1> DEFINE t == State(c, l, h, b, m)
             u == [t EXCEPT !.lo = x, !.hi = y]
             outcome(i, j) == Running([t EXCEPT !.lo = i, !.hi = j])
             los == results.lo \ {Signal}
             his == results.hi \ {Signal}
             all == {outcome(i, j) : i \in los, j \in his}
  <1>1. u.pc = c /\ u.lo = x /\ u.hi = y /\ u.breg = b /\ u.memory = m
    BY DEF State
  <1>2. /\ DOMAIN u = {"pc", "lo", "hi", "breg", "memory"}
        /\ u = [f \in DOMAIN u |-> u[f]]
    BY DEF State
  <1>3. outcome(x, y) \in all
    <2> HIDE DEF outcome, los, his
    <2>1. x \in los /\ y \in his
      BY DEF los, his
    <2> QED
      BY <2>1
  <1>4. AfterMdu(s, t, results)
          = all \cup {o \in {Exit(s)} : Signal \in results.lo \cup results.hi}
    <2> HIDE DEF t
    <2> QED
      BY DEF AfterMdu
  <1>5. outcome(x, y) \in AfterMdu(s, t, results)
    <2> HIDE DEF all, outcome, t
    <2> QED
      BY <1>3, <1>4
  <1>6. outcome(x, y) = Running(u)
    OBVIOUS
  <1> HIDE DEF u, outcome
  <1>7. u = State(c, x, y, b, m)
    BY <1>1, <1>2, StateIs
  <1> QED
    BY <1>5, <1>6, <1>7

LEMMA AfterMduTraps ==
  ASSUME NEW s, NEW t, NEW results, Signal \in results.lo \cup results.hi
  PROVE  Exit(s) \in AfterMdu(s, t, results)
  <1> DEFINE all == {Running([t EXCEPT !.lo = l, !.hi = h]) :
                       l \in results.lo \ {Signal}, h \in results.hi \ {Signal}}
  <1>1. AfterMdu(s, t, results)
          = all \cup {o \in {Exit(s)} : Signal \in results.lo \cup results.hi}
    BY DEF AfterMdu
  <1> HIDE DEF all
  <1> QED
    BY <1>1

\* The last transfer of MUL or DIV sets hi, and completes the instruction.
LEMMA MduCompletes ==
  ASSUME MipsInv, NEW p \in ToHandle, p = mdu_priority, ~exited, exited' = exited,
         UNCHANGED <<request, step, counter, breg, lo, instruction, stage, resets, before, mem>>,
         Ended, step = 4,
         NEW R \in {Earlier.breg, InitialBreg},
         Began(R), Calculating(R), UsesBus(instruction, R),
         NEW r \in ResultsOf(instruction.op, opA, opB).hi \ {Signal}, hi' = r
  PROVE  Simulates
  <1> DEFINE i == instruction
             results == ResultsOf(i.op, opA, opB)
  <1>1. /\ stage = "execute" /\ InFlight /\ UsesMdu(request) /\ i.op \in MduOp
        /\ request = MduRequest(i) /\ ~FetchFails(Earlier) /\ i \in Fetched(Earlier)
        /\ breg[ZERO] = 0 /\ Zeroed(breg) = breg /\ (Undisturbed \/ Disturbed)
    BY MduCall
  <1>2. Moved(2) /\ Moved(3) /\ pc'[cpu] = "edge"
    BY <1>1 DEF Ended, Caller
  <1>3. Completed' /\ ~InFlight'
    <2>1. Len(CallsOf(request')) = 4 /\ request'.kind # "load" /\ UsesMdu(request')
      BY <1>1, CallLength DEF LastCall, UsesMdu, MduOp
    <2> QED
      BY <1>1, <1>2, <2>1 DEF Completed, InFlight
  <1>4. <<opA, opB>> \in OperandPairs(R) /\ hi = BaseHi
    BY <1>2 DEF Calculating
  <1>5. \/ lo \in results.lo \ {Signal}
        \/ Disturbed /\ counter = 0 /\ lo = 0
    BY <1>2 DEF Calculating
  <1> DEFINE o == Running(State(counter, lo, r, breg, mem))
  <1>6. \/ o \in AfterMdu(Earlier, Now, results)
        \/ /\ Disturbed /\ counter = 0
           /\ \E h \in results.hi \ {Signal} : o = Running([Now EXCEPT !.hi = h])
    <2>1. CASE lo \in results.lo \ {Signal}
      <3>1. o \in AfterMdu(Earlier, State(counter, BaseLo, BaseHi, breg, mem), results)
        <4> HIDE DEF results
        <4> QED
          BY <2>1, AfterMduHas DEF results
      <3> QED
        BY <1>1, <3>1 DEF Now
    <2>2. CASE Disturbed /\ counter = 0 /\ lo = 0
      <3>1. ~Undisturbed
        BY <2>2, MipsSystemAssumption
        DEF Undisturbed, Disturbed, MipsInv, MipsTypeInv, MipsTypeOK
      <3>2. Now = State(counter, lo, BaseHi, breg, mem)
        BY <1>1, <2>2, <3>1 DEF Now, BaseLo
      <3>3. [State(counter, lo, BaseHi, breg, mem) EXCEPT !.hi = r]
              = State(counter, lo, r, breg, mem)
        BY DEF State
      <3>4. [Now EXCEPT !.hi = r] = State(counter, lo, r, breg, mem)
        BY <3>2, <3>3
      <3> QED
        BY <2>2, <3>4
    <2> QED
      BY <1>5, <2>1, <2>2
  <1>7. Expected(o)
    <2>1. MipsTypeInv /\ step > 0
      BY DEF MipsInv
    <2> HIDE DEF o
    <2> QED
      BY <1>1, <1>4, <1>6, <2>1, MduOutcomeIsExpected
  <1>8. /\ MachineState' = State(counter, lo, r, breg, mem) /\ MachineResets' = resets
        /\ MachinePhase' = IF counter >= DATA_SEGMENT_START THEN "stopped" ELSE "running"
    BY <1>1, <1>3, SeenBetweenNext
  <1>9. counter \in Int /\ DATA_SEGMENT_START \in Int
    BY IntIsInt, BitsFacts DEF MipsInv, MipsTypeInv, MipsTypeOK
  <1>10. /\ Visible(o).state = State(counter, lo, r, breg, mem)
         /\ Visible(o).phase = IF counter < DATA_SEGMENT_START THEN "running" ELSE "stopped"
    BY <1>1, SeenRunning
  <1> HIDE DEF o
  <1>11. Abstract!Next
    BY <1>1, <1>7, <1>8, <1>9, <1>10, OutcomeIsStep
  <1>12. FetchInv' /\ ExecuteInv' /\ KindInv'
    BY <1>1, <1>3 DEF FetchInv, ExecuteInv, KindInv, LoadOp, MduOp
  <1> QED
    BY <1>11, <1>12 DEF Simulates

LEMMA MduReadSimulates ==
  ASSUME MipsInv, NEW p \in ToHandle, p = mdu_priority, MduRead(p), ~exited,
         UNCHANGED mem_vars
  PROVE  Simulates
  <1> DEFINE i == instruction
             results == ResultsOf(i.op, opA, opB)
             number == CallAddress(request, step)
  <1>1. /\ stage = "execute" /\ step > 0 /\ request = MduRequest(i) /\ i.op \in MduOp
        /\ ~FetchFails(Earlier) /\ i \in Fetched(Earlier) /\ breg[ZERO] = 0
        /\ opA \in Int32 /\ opB \in Int32
    BY MduCall
  <1>2. MipsTypeInv /\ BusInv /\ CallInv
    BY DEF MipsInv
  <1>3. /\ UNCHANGED <<user, counter, breg, instruction, stage, resets, before, opA, opB>>
        /\ step \in {3, 4}
        /\ \/ /\ exited' /\ UNCHANGED <<vars, hi, lo>>
              /\ Trap \in Calculated(number, opA, opB)
           \/ Steady /\ UNCHANGED <<exited, hi, lo>>
           \/ /\ Ended /\ exited' = exited
              /\ \E r \in Calculated(number, opA, opB) \ {Trap} :
                    /\ step = 3 => lo' = r /\ hi' = hi
                    /\ step = 4 => lo' = lo /\ hi' = r
    BY <1>2, MduReadOutcome
  <1>4. UNCHANGED <<request, step, reply>> /\ mem' = mem
    BY <1>3 DEF user, mem_vars
  <1>5. Calculated(number, opA, opB) = IF step = 3 THEN results.lo ELSE results.hi
    BY <1>1, <1>3, CalculatedIs
  <1>6. PICK R \in {Earlier.breg, InitialBreg} :
          Began(R) /\ Calculating(R) /\ UsesBus(i, R)
    BY MduCall
  <1>7. Trap = Signal
    BY DEF Trap, Signal
  <1>8. CASE exited' /\ UNCHANGED <<vars, hi, lo>> /\ Trap \in Calculated(number, opA, opB)
    <2>1. Moved(2)
      BY <1>3 DEF Moved
    <2>2. <<opA, opB>> \in OperandPairs(R)
      BY <1>6, <2>1 DEF Calculating
    <2>3. Signal \in results.lo \cup results.hi
      BY <1>5, <1>7, <1>8
    <2>4. Exit(Earlier) \in AfterMdu(Earlier, Now, results)
      <3> HIDE DEF results
      <3> QED
        BY <2>3, AfterMduTraps
    <2>5. Expected(Exit(Earlier))
      BY <1>1, <1>2, <1>6, <2>2, <2>4, MduOutcomeIsExpected
    <2> QED
      BY <1>3, <1>4, <1>8, <2>5, ExitSimulates
  <1>9. CASE Steady /\ UNCHANGED <<exited, hi, lo>>
    BY <1>3, <1>4, <1>9, NothingNew DEF Simulates
  <1>10. CASE /\ Ended /\ exited' = exited
              /\ \E r \in Calculated(number, opA, opB) \ {Trap} :
                    /\ step = 3 => lo' = r /\ hi' = hi
                    /\ step = 4 => lo' = lo /\ hi' = r
    <2>1. PICK r \in Calculated(number, opA, opB) \ {Trap} :
             /\ step = 3 => lo' = r /\ hi' = hi
             /\ step = 4 => lo' = lo /\ hi' = r
      BY <1>10
    <2>2. CASE step = 3
      <3>1. /\ Moved(1) /\ Moved(2) /\ Moved(3)'
        BY <1>10, <2>2 DEF Ended
      <3>2. lo' \in results.lo \ {Signal} /\ hi' = hi
        BY <1>5, <1>7, <2>1, <2>2
      <3>3. OperandPairs(R)' = OperandPairs(R) /\ BaseHi' = BaseHi
        BY <1>3, <1>4, SameWhen DEF OperandPairs
      <3>4. Calculating(R)'
        BY <1>3, <1>6, <3>1, <3>2, <3>3 DEF Calculating
      <3> QED
        BY <1>3, <1>4, <1>6, <1>10, <2>2, <3>4, GoesOn
    <2>3. CASE step = 4
      <3>1. r \in results.hi \ {Signal} /\ hi' = r /\ lo' = lo
        BY <1>5, <1>7, <2>1, <2>3
      <3> QED
        BY <1>3, <1>4, <1>6, <1>10, <2>3, <3>1, MduCompletes
    <2> QED
      BY <1>3, <2>2, <2>3
  <1> QED
    BY <1>3, <1>8, <1>9, <1>10

\* A call of the memory; the last one of a store completes it.
LEMMA MemFacts ==
  ASSUME MipsInv, NEW p \in ToHandle, p = mem_priority, UNCHANGED <<mdu_vars, regs>>
  PROVE  /\ MipsTypeInv /\ BusInv /\ CallInv /\ MemInv /\ ~UsesMdu(request) /\ step > 0
         /\ p # mdu_priority
         /\ UNCHANGED <<counter, breg, hi, lo, instruction, stage, resets, before, opA, opB>>
  <1>1. p # mdu_priority
    BY MipsFacts
  <1>2. ~UsesMdu(request) /\ step > 0
    BY <1>1, InCall
  <1> QED
    BY <1>1, <1>2 DEF MipsInv, mdu_vars, regs, cleared

\* One that does not end the instruction.
LEMMA MemGoesOn ==
  ASSUME MipsInv, NEW p \in ToHandle, p = mem_priority, UNCHANGED <<mdu_vars, regs>>,
         ~exited, exited' = exited, request' = request, step' = step, mem' = mem,
         step # 3 \/ request.kind = "load"
  PROVE  Simulates
  <1>1. /\ ~UsesMdu(request) /\ step > 0
        /\ UNCHANGED <<counter, breg, hi, lo, instruction, stage, resets, before, opA, opB>>
    BY MemFacts
  <1>2. ~Completed /\ InFlight
    BY InCall
  <1>3. ~Completed'
    <2>1. Len(CallsOf(request')) = 3
      BY <1>1, CallLength DEF LastCall
    <2> QED
      BY <2>1 DEF Completed
  <1>4. InFlight'
    BY <1>1, <1>2, <1>3 DEF InFlight
  <1>5. MachineKept
    BY <1>1, <1>2, <1>4, HiddenKept
  <1>6. FetchInv' /\ ExecuteInv' /\ KindInv'
    BY <1>1, <1>2, InvKept
  <1> QED
    BY <1>5, <1>6 DEF Simulates

LEMMA StoreCompletes ==
  ASSUME MipsInv, NEW p \in ToHandle, p = mem_priority, UNCHANGED <<mdu_vars, regs>>,
         ~exited, exited' = exited, request' = request, step' = step,
         step = 3, request.kind = "store", Ended, ~FailsOf(request),
         mem' = EffectOf(mem, request)
  PROVE  Simulates
  <1> DEFINE i == instruction
  <1>1. /\ ~UsesMdu(request) /\ p # mdu_priority /\ MipsTypeInv
        /\ UNCHANGED <<counter, breg, hi, lo, instruction, stage, resets, before, opA, opB>>
    BY MemFacts
  <1>2. /\ InFlight /\ stage = "execute" /\ (Undisturbed \/ Disturbed) /\ breg[ZERO] = 0
        /\ ~FetchFails(Earlier) /\ i \in Fetched(Earlier)
        /\ \E R \in {Earlier.breg, InitialBreg} : Began(R) /\ Performing(R)
    BY InCall
  <1>3. PICK R \in {Earlier.breg, InitialBreg} : Began(R) /\ Performing(R)
    BY <1>2
  <1>4. /\ i.op \in StoreOp /\ request = DataRequest(i, R) /\ UsesBus(i, R)
        /\ lo = BaseLo /\ hi = BaseHi
    BY <1>1, <1>3, PerformingIs
  <1>5. Zeroed(breg) = breg /\ Now = State(counter, lo, hi, breg, mem)
    <2>1. Zeroed(breg) = breg
      BY <1>1, <1>2 DEF MipsTypeInv, MipsTypeOK, Zeroed
    <2> QED
      BY <1>4, <2>1 DEF Now
  <1>6. Completed' /\ ~InFlight'
    <2>1. Len(CallsOf(request')) = 3 /\ ~UsesMdu(request') /\ pc'[wrapper] = "edge"
      BY <1>1, CallLength DEF LastCall, Ended, Caller
    <2>2. Completed'
      BY <2>1 DEF Completed
    <2> QED
      BY <1>1, <1>2, <2>2 DEF InFlight
  <1> DEFINE o == Running(State(counter, lo, hi, breg, mem'))
  <1>7. o \in Executes(Earlier, Now, i, R)
    <2>1. Executes(Earlier, Now, i, R)
            = {Running([Now EXCEPT !.memory = EffectOf(@, request)])}
      BY <1>4, ExecutesStore
    <2>2. [State(counter, lo, hi, breg, mem) EXCEPT !.memory = EffectOf(mem, request)]
            = State(counter, lo, hi, breg, mem')
      BY DEF State
    <2>3. [Now EXCEPT !.memory = EffectOf(@, request)]
            = [Now EXCEPT !.memory = EffectOf(mem, request)]
      BY NowFields
    <2> QED
      BY <1>5, <2>1, <2>2, <2>3
  <1>8. /\ Visible(o).state = State(counter, lo, hi, breg, mem')
        /\ Visible(o).phase = IF counter < DATA_SEGMENT_START THEN "running" ELSE "stopped"
    BY <1>5, SeenRunning
  <1>9. /\ MachineState' = State(counter, lo, hi, breg, mem') /\ MachineResets' = resets
        /\ MachinePhase' = IF counter >= DATA_SEGMENT_START THEN "stopped" ELSE "running"
    BY <1>1, <1>2, <1>5, <1>6, SeenBetweenNext
  <1>10. counter \in Int /\ DATA_SEGMENT_START \in Int
    BY <1>1, IntIsInt, BitsFacts DEF MipsTypeInv, MipsTypeOK
  <1> HIDE DEF o
  <1>11. Expected(o)
    <2>1. i.op \notin MduOp
      BY <1>4 DEF StoreOp, MduOp
    <2> QED
      BY <1>1, <1>2, <1>3, <1>4, <1>7, <2>1, OutcomeIsExpected
  <1>12. Abstract!Next
    BY <1>2, <1>8, <1>9, <1>10, <1>11, OutcomeIsStep
  <1>13. FetchInv' /\ ExecuteInv' /\ KindInv'
    BY <1>1, <1>2, <1>4, <1>6
    DEF FetchInv, ExecuteInv, KindInv, LoadOp, StoreOp
  <1> QED
    BY <1>12, <1>13 DEF Simulates

\* Beyond the memory the program ends, whatever the access is for.
LEMMA OutOfRange ==
  ASSUME MipsInv, NEW p \in ToHandle, p = mem_priority, step = 3, ~InRange(addr_reg)
  PROVE  Expected(Exit(Earlier))
  <1> DEFINE i == instruction
  <1>1. p # mdu_priority /\ ~UsesMdu(request) /\ step > 0 /\ MipsTypeInv
    BY MipsFacts, InCall DEF MipsInv
  <1>2. ~InRange(AddressOf(request))
    <2>1. Moved(2)
      BY DEF Moved
    <2> QED
      BY <1>1, <2>1 DEF MipsInv, MemInv
  <1>3. CASE stage = "fetch"
    <2>1. request = FetchRequest(before.pc) /\ before.pc \in Int32
      BY <1>3, InCall DEF MipsInv, MipsTypeInv, MipsTypeOK
    <2>2. FetchFails(Earlier)
      BY <1>2, <2>1, FetchAddress, NowFields DEF FetchFails
    <2>3. Visible(Exit(Earlier)) = Exit(Earlier)
      <3>1. before.breg \in [Reg -> Int32]
        BY <1>1 DEF MipsTypeInv, MipsTypeOK
      <3> QED
        BY <3>1, SeenExit DEF Earlier
    <2> QED
      BY <2>2, <2>3 DEF Expected, OutcomesOf, ResetsOf
  <1>4. CASE stage = "execute"
    <2>1. /\ ~FetchFails(Earlier) /\ i \in Fetched(Earlier)
          /\ \E R \in {Earlier.breg, InitialBreg} : Began(R) /\ Performing(R)
      BY <1>4, InCall
    <2>2. PICK R \in {Earlier.breg, InitialBreg} : Began(R) /\ Performing(R)
      BY <2>1
    <2>3. UsesBus(i, R)
      BY <1>1, <2>2, PerformingIs
    <2>4. ASSUME Exit(Earlier) \in Executes(Earlier, Now, i, R), i.op \notin MduOp
          PROVE  Expected(Exit(Earlier))
      BY <1>1, <2>1, <2>2, <2>3, <2>4, OutcomeIsExpected
    <2>5. CASE request = DataRequest(i, R) /\ i.op \in LoadOp \cup StoreOp
      <3>1. FailsOf(DataRequest(i, R))
        BY <1>2, <2>5 DEF FailsOf
      <3>2. Executes(Earlier, Now, i, R) = {Exit(Earlier)}
        BY <2>5, <3>1, ExecutesLoad, ExecutesStore
      <3>3. i.op \notin MduOp
        BY <2>5 DEF LoadOp, StoreOp, MduOp
      <3> QED
        BY <2>4, <3>2, <3>3
    <2>6. CASE /\ i.op = "SYSCALL" /\ R[V0] = 4
               /\ \E n \in 0 .. UintCount - 1 : Printing(R, n)
      <3>1. PICK n \in 0 .. UintCount - 1 : Printing(R, n)
        BY <2>6
      <3>2. Text(R) \in 0 .. UintCount - 1
        <4>1. R[A0] \in Int32
          BY <1>1, BeginningTypes DEF A0, Reg
        <4> QED
          BY <4>1, AsUnsignedType DEF Text
      <3>3. AddressOf(request) = (Text(R) + n) % UintCount
        <4>1. request.addr \in 0 .. UintCount - 1
          BY <1>1 DEF MipsTypeInv, MipsRequest
        <4> QED
          BY <3>1, <4>1, PlainAddress DEF Printing
      <3>4. \A k \in 0 .. n - 1 : InRange((Text(R) + k) % UintCount)
        BY <3>1 DEF Printing
      <3>5. n \in 0 .. 4 * size + 4
        <4>1. n <= 4 * size + 4
          BY <3>2, <3>4, TextFits
        <4> QED
          BY <4>1, BytesFacts
      <3>6. MayGoOn(Now, Text(R), n)
        BY <3>1, NowFields DEF Printing, MayGoOn
      <3>7. PrintExits(Now, Text(R))
        BY <1>2, <3>3, <3>4, <3>5, <3>6 DEF PrintExits
      <3>8. Exit(Earlier) \in Executes(Earlier, Now, i, R)
        BY <2>6, <3>7, ExecutesPrint DEF Text
      <3>9. i.op \notin MduOp
        BY <2>6 DEF MduOp
      <3> QED
        BY <2>4, <3>8, <3>9
    <2>7. request.kind \in {"load", "store"}
      BY <1>1 DEF MipsTypeInv, MipsRequest, UsesMdu
    <2> QED
      BY <1>1, <2>2, <2>5, <2>6, <2>7, PerformingIs DEF LoadOp, StoreOp
  <1> QED
    BY <1>3, <1>4, InCall

LEMMA MemWriteSimulates ==
  ASSUME MipsInv, NEW p \in ToHandle, p = mem_priority, MemWrite(p), ~exited,
         UNCHANGED <<mdu_vars, regs>>
  PROVE  Simulates
  <1>1. /\ MipsTypeInv /\ BusInv /\ CallInv /\ MemInv /\ ~UsesMdu(request) /\ step > 0
        /\ UNCHANGED <<counter, breg, hi, lo, instruction, stage, resets, before, opA, opB>>
    BY MemFacts
  <1>2. /\ UNCHANGED user /\ step \in 1 .. 3 /\ (step = 3 => request.kind = "store")
        /\ \/ exited' /\ UNCHANGED <<vars, mem>> /\ step = 3 /\ ~InRange(addr_reg)
           \/ Steady /\ UNCHANGED <<exited, mem, op_type_reg, addr_reg>>
           \/ /\ Ended /\ exited' = exited
              /\ step # 3 => mem' = mem
              /\ step = 3 => /\ InRange(addr_reg)
                             /\ mem' = Store(mem, op_type_reg, addr_reg, request.dado)
    <2>1. UNCHANGED regs
      OBVIOUS
    <2> QED
      BY <1>1, <2>1, MemWriteOutcome
  <1>3. UNCHANGED <<request, step, reply>>
    BY <1>2 DEF user
  <1>4. CASE exited' /\ UNCHANGED <<vars, mem>> /\ step = 3 /\ ~InRange(addr_reg)
    BY <1>1, <1>3, <1>4, OutOfRange, ExitSimulates
  <1>5. CASE Steady /\ UNCHANGED <<exited, mem, op_type_reg, addr_reg>>
    BY <1>1, <1>5, NothingNew DEF Simulates
  <1>6. CASE /\ Ended /\ exited' = exited
             /\ step # 3 => mem' = mem
             /\ step = 3 => /\ InRange(addr_reg)
                            /\ mem' = Store(mem, op_type_reg, addr_reg, request.dado)
    <2>1. CASE step # 3
      BY <1>3, <1>6, <2>1, MemGoesOn
    <2>2. CASE step = 3
      <3>1. Moved(1) /\ Moved(2) /\ request.kind = "store"
        BY <1>2, <2>2 DEF Moved
      <3>2. op_type_reg = request.type /\ addr_reg = AddressOf(request)
        BY <1>1, <3>1 DEF MemInv
      <3>3. ~FailsOf(request) /\ mem' = EffectOf(mem, request)
        BY <1>6, <2>2, <3>1, <3>2 DEF FailsOf, EffectOf
      <3> QED
        BY <1>3, <1>6, <2>2, <3>1, <3>3, StoreCompletes
    <2> QED
      BY <2>1, <2>2
  <1> QED
    BY <1>2, <1>4, <1>5, <1>6

LEMMA MemReadSimulates ==
  ASSUME MipsInv, NEW p \in ToHandle, p = mem_priority, MemRead(p), ~exited,
         UNCHANGED <<mdu_vars, regs>>
  PROVE  Simulates
  <1>1. /\ MipsTypeInv /\ BusInv /\ CallInv
        /\ UNCHANGED <<counter, breg, hi, lo, instruction, stage, resets, before, opA, opB>>
    BY MemFacts
  <1>2. /\ UNCHANGED <<request, step, mem>> /\ step = 3 /\ request.kind = "load"
        /\ \/ exited' /\ UNCHANGED vars /\ ~InRange(addr_reg)
           \/ exited' = exited
    <2>1. UNCHANGED regs
      OBVIOUS
    <2> QED
      BY <1>1, <2>1, MemReadOutcome
  <1>3. CASE exited' /\ UNCHANGED vars /\ ~InRange(addr_reg)
    BY <1>1, <1>2, <1>3, OutOfRange, ExitSimulates
  <1>4. CASE exited' = exited
    BY <1>2, <1>4, MemGoesOn
  <1> QED
    BY <1>2, <1>3, <1>4

LEMMA NothingToDoSimulates ==
  ASSUME MipsInv, NothingToDo
  PROVE  Simulates
  <1>1. /\ UNCHANGED <<counter, breg, hi, lo, instruction, stage, resets, before, mem, opA, opB>>
        /\ exited' = exited
    BY DEF NothingToDo, regs, cleared, mem_vars, mdu_vars
  <1> QED
    BY <1>1, NothingIsSteady, NothingNew DEF Simulates

-------------------------------------------------------------------------------
(* The processor is an instance of the abstract one *)

LEMMA StepSimulates ==
  ASSUME MipsInv, MipsNext
  PROVE  Simulates
  <1>1. CASE ThreadRuns
    <2>1. ThreadStep
      BY <1>1 DEF ThreadRuns, ThreadStep
    <2> QED
      BY <1>1, <2>1, FetchSimulates, DecodeSimulates, StartBusSimulates, WithoutBusSimulates,
        NextCallSimulates, NextCharSimulates, EndBusSimulates, CallReturnsSimulates
      DEF ThreadRuns
  <1>2. CASE FallingEdgeOfBus
    <2>1. ASSUME NEW p \in ToHandle, p = mdu_priority, MduWrite(p) \/ MduRead(p), ~exited,
                 UNCHANGED mem_vars
          PROVE  Simulates
      BY <2>1, MduWriteSimulates, MduReadSimulates
    <2>2. ASSUME NEW p \in ToHandle, p = mem_priority, MemWrite(p) \/ MemRead(p), ~exited,
                 UNCHANGED <<mdu_vars, regs>>
          PROVE  Simulates
      BY <2>2, MemWriteSimulates, MemReadSimulates
    <2> QED
      BY <1>2, <2>1, <2>2, NothingToDoSimulates
      DEF FallingEdgeOfBus, Blocked, AskMdu, AskMem
  <1> QED
    BY <1>1, <1>2, RisingEdgeSimulates, ResetSimulates DEF MipsNext, ClockEdge

LEMMA MipsInvInit == MipsInit => MipsInv /\ Abstract!Init
  <1> SUFFICES ASSUME MipsInit PROVE MipsInv /\ Abstract!Init
    OBVIOUS
  <1>1. MipsTypeInv /\ BusInv
    BY MipsTypeInit, BusInit DEF MipsInit
  <1>2. step = 0 /\ stage = "wait" /\ ~exited /\ resets = 0
    BY BitsFacts DEF MipsInit, AfterInstruction
  <1>3. CallInv
    <2>1. \A m \in Master : pc[m] = "idle"
      BY DEF MipsInit, Init
    <2>2. pc[cpu] = "idle" /\ pc[wrapper] = "idle"
      BY <2>1, MipsFacts
    <2> QED
      BY <1>2, <2>1, <2>2 DEF CallInv
  <1>4. MemInv /\ FetchInv /\ ExecuteInv /\ KindInv
    BY <1>2 DEF MemInv, FetchInv, ExecuteInv, KindInv
  <1>5. ~InFlight
    BY <1>2 DEF InFlight
  <1>6. Abstract!Init
    BY <1>2, <1>5, SeenBetween DEF Abstract!Init
  <1> QED
    BY <1>1, <1>3, <1>4, <1>6 DEF MipsInv

LEMMA MipsInvStep ==
  MipsInv /\ [MipsNext]_mips_vars => MipsInv' /\ [Abstract!Next]_(Abstract!vars)
  <1> SUFFICES ASSUME MipsInv, [MipsNext]_mips_vars
               PROVE  MipsInv' /\ [Abstract!Next]_(Abstract!vars)
    OBVIOUS
  <1>1. MipsTypeInv'
    BY MipsTypeStep DEF MipsInv
  <1>2. BusInv'
    <2>1. [Next]_vars
      BY MipsStepIsBusStep DEF MipsInv, MipsTypeInv, MipsTypeOK
    <2> QED
      BY <2>1, BusStep, MipsIsUnique DEF MipsInv
  <1>3. CASE MipsNext
    <2>1. CallInv' /\ MemInv'
      BY <1>3, StepOfCall, MemStep DEF MipsInv
    <2>2. FetchInv' /\ ExecuteInv' /\ KindInv' /\ (Abstract!Next \/ MachineKept)
      BY <1>3, StepSimulates DEF Simulates
    <2> QED
      BY <1>1, <1>2, <2>1, <2>2 DEF MipsInv, MachineKept, Abstract!vars
  <1>4. CASE UNCHANGED mips_vars
    <2>1. /\ UNCHANGED <<vars, mdu_vars, mem_vars, user, exited, regs>>
      BY <1>4 DEF mips_vars
    <2>2. /\ UNCHANGED <<request, step, reply, exited, mem, op_type_reg, addr_reg, opA, opB>>
          /\ UNCHANGED <<counter, breg, hi, lo, instruction, stage, resets, before>>
      BY <2>1 DEF user, mem_vars, mdu_vars, regs, cleared
    <2>3. Steady
      BY <2>1, <2>2, SamePlace
    <2>4. CallInv' /\ MemInv'
      BY <2>2, <2>3, SteadyCall, MemKept DEF MipsInv
    <2>5. FetchInv' /\ ExecuteInv' /\ KindInv' /\ MachineKept
      BY <2>2, <2>3, NothingNew
    <2> QED
      BY <1>1, <1>2, <2>4, <2>5 DEF MipsInv, MachineKept, Abstract!vars
  <1> QED
    BY <1>3, <1>4

\* Each instruction, with its bus calls, wait states and resets, has the effect
\* of one step of a processor that owns its memory; the thread, the clock and
\* the slaves never show more of it, or less, than the one step.
THEOREM MipsIsAMachine == MipsSpec => MachineSafety
  BY MipsInvInit, MipsInvStep, PTL DEF MipsSpec, MachineSafety

-------------------------------------------------------------------------------
(* The port *)

StateType == [pc : Int32, lo : Int32, hi : Int32, breg : [Reg -> Int32], memory : Memory]
OutcomeType == [state : StateType, phase : {"running", "stopped", "exited"}]

LEMMA EndsType ==
  ASSUME NEW s \in StateType
  PROVE  /\ Running(s) \in OutcomeType /\ Exit(s) \in OutcomeType
         /\ [state |-> s, phase |-> "stopped"] \in OutcomeType
  BY DEF Running, Exit, OutcomeType

LEMMA SetType ==
  ASSUME NEW s \in StateType, NEW R \in [Reg -> Int32]
  PROVE  /\ [s EXCEPT !.breg = R] \in StateType
         /\ \A r \in Reg, x \in Int32 : [s EXCEPT !.breg[r] = x] \in StateType
         /\ \A c \in Int32 : /\ WithPc(s, c) \in StateType
                             /\ [WithPc(s, c) EXCEPT !.breg = R] \in StateType
  BY DEF StateType, WithPc

LEMMA VisibleType ==
  ASSUME NEW o \in OutcomeType
  PROVE  Visible(o) \in OutcomeType
  <1>1. o.state \in StateType /\ ZERO \in Reg /\ 0 \in Int32
    BY IntsAreMany DEF OutcomeType, ZERO, Reg
  <1>2. [o.state EXCEPT !.breg[ZERO] = 0] \in StateType
    BY <1>1 DEF StateType
  <1>3. Visible(o) = [o EXCEPT !.state = [o.state EXCEPT !.breg[ZERO] = 0]]
    BY <1>1 DEF Visible, OutcomeType, StateType
  <1> QED
    BY <1>2, <1>3 DEF OutcomeType

LEMMA NextPcType ==
  ASSUME NEW s \in StateType
  PROVE  /\ WithPc(s, Plus(s.pc, 4)) \in StateType /\ WithPc(s, Plus(s.pc, 4)).pc \in Int32
         /\ s.breg \in [Reg -> Int32]
  <1>1. s.pc \in Int32 /\ s.pc \in Int /\ s.breg \in [Reg -> Int32]
    BY IntIsInt DEF StateType
  <1>2. Plus(s.pc, 4) \in Int32
    BY <1>1, PlusType
  <1> QED
    BY <1>1, <1>2 DEF StateType, WithPc

LEMMA FetchedType ==
  ASSUME NEW s \in StateType, ~FetchFails(s)
  PROVE  Fetched(s) \subseteq Instruction
  <1>1. AsUnsigned(s.pc) \in Nat /\ s.memory \in Memory
    BY AsUnsignedType, BytesFacts DEF StateType
  <1>2. Load(s.memory, "Word", AsUnsigned(s.pc)) \subseteq Int4
    BY <1>1, LoadType DEF FetchFails, OpType
  <1> QED
    BY <1>2, ToIntType, MipsAssumption DEF Fetched

\* Results of the MDU, and the outcomes they lead to.
LEMMA AfterMduType ==
  ASSUME NEW s \in StateType, NEW t \in StateType, NEW results,
         results.lo \subseteq Int32 \cup {Signal}, results.hi \subseteq Int32 \cup {Signal}
  PROVE  AfterMdu(s, t, results) \subseteq OutcomeType
  <1> DEFINE outcome(l, h) == Running([t EXCEPT !.lo = l, !.hi = h])
             los == results.lo \ {Signal}
             his == results.hi \ {Signal}
             all == {outcome(l, h) : l \in los, h \in his}
             exits == {o \in {Exit(s)} : Signal \in results.lo \cup results.hi}
  <1>1. ASSUME NEW l \in los, NEW h \in his PROVE outcome(l, h) \in OutcomeType
    <2>1. [t EXCEPT !.lo = l, !.hi = h] \in StateType
      BY DEF StateType
    <2> QED
      BY <2>1, EndsType
  <1>2. exits \subseteq OutcomeType
    BY EndsType
  <1>3. AfterMdu(s, t, results) = all \cup exits
    BY DEF AfterMdu
  <1>4. all \subseteq OutcomeType
    <2> HIDE DEF outcome, los, his
    <2> QED
      BY <1>1
  <1> HIDE DEF all, exits
  <1> QED
    BY <1>2, <1>3, <1>4

LEMMA ResultsType ==
  ASSUME NEW op \in MduOp, NEW a \in Int32, NEW b \in Int32
  PROVE  /\ ResultsOf(op, a, b).lo \subseteq Int32 \cup {Signal}
         /\ ResultsOf(op, a, b).hi \subseteq Int32 \cup {Signal}
         /\ CppResults(op, a, b).lo \subseteq Int32 \cup {Signal}
         /\ CppResults(op, a, b).hi \subseteq Int32 \cup {Signal}
  <1>1. LowWord(a, b) \in Int32 /\ HighWord(a, b) \in Int32
    BY LowWordType, HighWordType
  <1>2. Anything \subseteq Int32 \cup {Signal} /\ 0 \in Int32 /\ -1 \in Int32
    BY MipsMachineAssumption, IntsAreMany, HalfAssumption DEF Int32
  <1>3. DivisionDefined(a, b) => Quotient(a, b) \in Int32 /\ Remainder(a, b) \in Int32
    BY QuotientType
  <1> QED
    BY <1>1, <1>2, <1>3 DEF ResultsOf, CppResults

LEMMA ExecutesType ==
  ASSUME NEW s \in StateType, NEW t \in StateType, NEW i \in Instruction,
         NEW R \in [Reg -> Int32]
  PROVE  Executes(s, t, i, R) \subseteq OutcomeType
  <1>i. /\ i \in AnyInstruction /\ i.rs \in Reg /\ i.rt \in Reg /\ V0 \in Reg
        /\ R[i.rs] \in Int32 /\ R[i.rt] \in Int32 /\ t.pc \in Int32 /\ t.memory \in Memory
    BY InstructionFields, FieldTypes DEF V0, Reg, StateType
  <1>e. Exit(s) \in OutcomeType
    BY EndsType
  <1>1. CASE i.op \in LoadOp \cup StoreOp /\ ~FailsOf(DataRequest(i, R))
    <2> DEFINE r == DataRequest(i, R)
    <2>1. r \in MipsRequest /\ r.kind = (IF i.op \in LoadOp THEN "load" ELSE "store")
      BY <1>1, DataRequestType
    <2> HIDE DEF r
    <2>2. /\ AddressOf(r) \in Nat /\ InRange(AddressOf(r))
          /\ r.type \in OpType /\ r.dado \in Int4
      BY <1>1, <2>1, RequestAddress, BytesFacts DEF FailsOf, MipsRequest, r
    <2>3. CASE i.op \in LoadOp
      <3>1. Executes(s, t, i, R) = AfterLoad(t, i, R)
        BY <1>1, <2>3, ExecutesLoad
      <3>2. Load(t.memory, r.type, AddressOf(r)) \subseteq Int4
        BY <1>i, <2>2, LoadType
      <3>3. ASSUME NEW w \in Load(t.memory, r.type, AddressOf(r))
            PROVE  Running([t EXCEPT !.breg[i.rt] = ToInt(w)]) \in OutcomeType
        BY <1>i, <3>2, ToIntType, SetType, EndsType
      <3> QED
        BY <3>1, <3>3 DEF AfterLoad, r
    <2>4. CASE i.op \in StoreOp
      <3>1. i.op \notin LoadOp
        BY <2>4 DEF LoadOp, StoreOp
      <3>2. Executes(s, t, i, R) = {Running([t EXCEPT !.memory = EffectOf(t.memory, r)])}
        BY <1>1, <2>4, ExecutesStore DEF r
      <3>3. EffectOf(t.memory, r) \in Memory
        BY <1>i, <2>1, <2>2, <3>1, StoreType DEF EffectOf
      <3>4. [t EXCEPT !.memory = EffectOf(t.memory, r)] \in StateType
        BY <3>3 DEF StateType
      <3> QED
        BY <3>2, <3>4, EndsType
    <2> QED
      BY <1>1, <2>3, <2>4
  <1>2. CASE i.op \in LoadOp \cup StoreOp /\ FailsOf(DataRequest(i, R))
    <2>1. Executes(s, t, i, R) = {Exit(s)}
      BY <1>2, ExecutesLoad, ExecutesStore
    <2> QED
      BY <1>e, <2>1
  <1>3. CASE i.op \in MduOp
    <2>1. Executes(s, t, i, R) = AfterMdu(s, t, ResultsOf(i.op, R[i.rs], R[i.rt]))
      BY <1>3, ExecutesMdu
    <2> QED
      BY <1>i, <1>3, <2>1, ResultsType, AfterMduType
  <1>4. CASE i.op = "SYSCALL" /\ R[V0] = 4
    <2>1. Executes(s, t, i, R) \subseteq {Running(t), Exit(s)}
      BY <1>4, ExecutesPrint
    <2> QED
      BY <1>e, <2>1, EndsType
  <1>5. CASE i.op = "SYSCALL" /\ R[V0] = 5
    <2>1. Executes(s, t, i, R) = {Running([t EXCEPT !.breg[V0] = n]) : n \in Inputs}
      BY <1>5, ExecutesInput
    <2>2. ASSUME NEW n \in Inputs PROVE Running([t EXCEPT !.breg[V0] = n]) \in OutcomeType
      BY <1>i, MipsMachineAssumption, SetType, EndsType
    <2> QED
      BY <2>1, <2>2
  <1>6. CASE /\ i.op \notin LoadOp \cup StoreOp \cup MduOp
             /\ ~(i.op = "SYSCALL" /\ R[V0] \in {4, 5})
    <2> DEFINE u == [WithPc(t, Target(i, R, t.pc)) EXCEPT !.breg = Computes(i, R, t.pc)]
    <2>1. Executes(s, t, i, R) =
            {IF Ends10(i, R) THEN [state |-> u, phase |-> "stopped"] ELSE Running(u)}
      BY <1>6, ExecutesOther DEF UsesBus
    <2>2. Target(i, R, t.pc) \in Int32 /\ Computes(i, R, t.pc) \in [Reg -> Int32]
      BY <1>i, TargetType, ComputesType
    <2>3. u \in StateType
      BY <2>2 DEF StateType, WithPc
    <2> HIDE DEF u
    <2> QED
      BY <2>1, <2>3, EndsType
  <1> QED
    BY <1>1, <1>2, <1>3, <1>4, <1>5, <1>6

\* MipsCpp.
LEMMA CppFieldsType ==
  ASSUME NEW i \in Instruction, NEW R \in [Reg -> Int32]
  PROVE  /\ Field(i) \in AnyInstruction /\ [i EXCEPT !.op = "SLL"] \in AnyInstruction
         /\ CppAddress(i, R) \in Nat /\ CppIndex(i, R) \in Int32
  <1>1. /\ i \in AnyInstruction /\ i.kte16 \in Int /\ R[i.rs] \in Int32 /\ R[i.rs] \in Int
        /\ LoadOffsets \in Nat /\ LoadOffsets > 0 /\ Power[ImmediateBits] = LoadOffsets
    BY InstructionFields, FieldTypes, IntIsInt, BytesFacts, MipsMachineAssumption
  <1>2. i.kte16 % LoadOffsets \in Nat
    BY <1>1, DivisionOf
  <1>3. Field(i) = [i EXCEPT !.kte16 = i.kte16 % LoadOffsets]
    BY <1>1 DEF Field
  <1>4. Field(i) \in AnyInstruction /\ Field(i).kte16 = i.kte16 % LoadOffsets
    BY <1>1, <1>2, <1>3 DEF AnyInstruction
  <1>5. [i EXCEPT !.op = "SLL"] \in AnyInstruction
    BY <1>1 DEF AnyInstruction, Op, ComputeOp
  <1>6. AsUnsigned(R[i.rs]) + (i.kte16 % LoadOffsets) \in Int
    BY <1>1, <1>2, AsUnsignedType, BytesFacts
  <1>7. CppAddress(i, R) \in Nat
    BY <1>6, BytesFacts, DivisionOf DEF CppAddress, LoadAddress
  <1>8. CppIndex(i, R) \in Int32
    BY <1>1, <1>2, <1>4, PlusType DEF CppIndex
  <1> QED
    BY <1>4, <1>5, <1>7, <1>8

LEMMA CppLoadType ==
  ASSUME NEW m \in Memory, NEW i \in Instruction, NEW R \in [Reg -> Int32], i.op \in LoadOp
  PROVE  CppLoad(m, i, R) \subseteq Int4
  <1>1. ASSUME NEW n PROVE WordAt(m, n) \subseteq Int4
    BY BytesFacts DEF WordAt, Memory
  <1>2. ASSUME NEW w \in Int4 PROVE SignExtended(w, 1) \in Int4
    BY BytesFacts DEF SignExtended, Int4
  <1>3. ASSUME NEW w \in Int4, NEW a \in Nat PROVE CppHalf(w, a) \in Int4
    <2>1. a % 4 \in 0 .. 3
      OBVIOUS
    <2>2. Shifted(w, a % 4) \in Int4
      BY <2>1, BytesFacts DEF Shifted, Int4
    <2>3. ZeroExtended(Shifted(w, a % 4), 2) \in Int4
      BY <2>2, BytesFacts DEF ZeroExtended, Int4
    <2> QED
      BY <2>3, BytesFacts DEF CppHalf
  <1>4. CppAddress(i, R) \in Nat
    BY CppFieldsType
  <1>5. i.op = "LB" \/ i.op = "LH" \/ i.op = "LW" \/ i.op = "LHU"
    BY DEF LoadOp
  <1>6. \A n : {SignExtended(w, 1) : w \in WordAt(m, n)} \subseteq Int4
    BY <1>1, <1>2
  <1>7. \A n : {CppHalf(w, CppAddress(i, R)) : w \in WordAt(m, n)} \subseteq Int4
    BY <1>1, <1>3, <1>4
  <1> QED
    BY <1>1, <1>5, <1>6, <1>7 DEF CppLoad

\* What CppExecutes is for each kind of instruction.
LEMMA CppExecutesLoad ==
  ASSUME NEW s, NEW t, NEW i, NEW R, i.op \in LoadOp
  PROVE  CppExecutes(s, t, i, R) =
           {o \in {Exit(s)} : MayCrash(i, R)}
           \cup {Running([t EXCEPT !.breg[i.rt] = ToInt(w)]) :
                   w \in {v \in CppLoad(t.memory, i, R) : MayGetBy(i, R)}}
  <1>1. i.op \notin StoreOp /\ i.op \notin MduOp /\ i.op # "SYSCALL"
    BY DEF LoadOp, StoreOp, MduOp
  <1> QED
    BY <1>1 DEF CppExecutes

LEMMA CppExecutesStore ==
  ASSUME NEW s, NEW t, NEW i, NEW R, i.op \in StoreOp
  PROVE  CppExecutes(s, t, i, R) =
           IF MayCrash(i, R) THEN {Exit(s)}
           ELSE {Running([t EXCEPT !.memory = CppStore(t.memory, i, R)])}
  <1>1. i.op \notin LoadOp /\ i.op \notin MduOp /\ i.op # "SYSCALL"
    BY DEF LoadOp, StoreOp, MduOp
  <1> QED
    BY <1>1 DEF CppExecutes

LEMMA CppExecutesMdu ==
  ASSUME NEW s, NEW t, NEW i, NEW R, i.op \in MduOp
  PROVE  CppExecutes(s, t, i, R) = AfterMdu(s, t, CppResults(i.op, R[i.rs], R[i.rt]))
  <1>1. i.op \notin LoadOp /\ i.op \notin StoreOp /\ i.op # "SYSCALL"
    BY DEF LoadOp, StoreOp, MduOp
  <1> QED
    BY <1>1 DEF CppExecutes

LEMMA CppExecutesSyscall ==
  ASSUME NEW s, NEW t, NEW i, NEW R, i.op = "SYSCALL"
  PROVE  CppExecutes(s, t, i, R) =
           {Running([t EXCEPT !.breg = Computes([i EXCEPT !.op = "SLL"], R, t.pc)])}
  <1>1. i.op \notin LoadOp /\ i.op \notin StoreOp /\ i.op \notin MduOp
    BY DEF LoadOp, StoreOp, MduOp
  <1> QED
    BY <1>1 DEF CppExecutes

LEMMA CppExecutesType ==
  ASSUME NEW s \in StateType, NEW t \in StateType, NEW i \in Instruction,
         NEW R \in [Reg -> Int32]
  PROVE  CppExecutes(s, t, i, R) \subseteq OutcomeType
  <1>i. /\ i \in AnyInstruction /\ i.rs \in Reg /\ i.rt \in Reg
        /\ R[i.rs] \in Int32 /\ R[i.rt] \in Int32 /\ t.pc \in Int32 /\ t.memory \in Memory
    BY InstructionFields, FieldTypes DEF Reg, StateType
  <1>e. Exit(s) \in OutcomeType
    BY EndsType
  <1>1. CASE i.op \in LoadOp
    <2>1. CppLoad(t.memory, i, R) \subseteq Int4
      BY <1>i, <1>1, CppLoadType
    <2>2. ASSUME NEW w \in CppLoad(t.memory, i, R)
          PROVE  Running([t EXCEPT !.breg[i.rt] = ToInt(w)]) \in OutcomeType
      BY <1>i, <2>1, ToIntType, SetType, EndsType
    <2>3. CppExecutes(s, t, i, R) \subseteq
            {Exit(s)} \cup {Running([t EXCEPT !.breg[i.rt] = ToInt(w)]) :
                              w \in CppLoad(t.memory, i, R)}
      BY <1>1, CppExecutesLoad
    <2> QED
      BY <1>e, <2>2, <2>3
  <1>2. CASE i.op \in StoreOp
    <2>1. i.op \notin LoadOp /\ (~MayCrash(i, R) => InRange(CppAddress(i, R)))
      BY <1>2 DEF LoadOp, StoreOp, MayCrash, Unchecked
    <2>2. CASE MayCrash(i, R)
      <3>1. CppExecutes(s, t, i, R) = {Exit(s)}
        BY <1>2, <2>2, CppExecutesStore
      <3> QED
        BY <1>e, <3>1
    <2>3. CASE ~MayCrash(i, R)
      <3> DEFINE stored == CppStore(t.memory, i, R)
                 u == [t EXCEPT !.memory = stored]
      <3>1. CppExecutes(s, t, i, R) = {Running(u)}
        BY <1>2, <2>3, CppExecutesStore
      <3>2. stored \in Memory
        BY <1>i, <2>1, <2>3, CppFieldsType, ToBytesType, StoreType DEF CppStore, OpType
      <3> HIDE DEF stored
      <3>3. u \in StateType
        BY <3>2 DEF StateType
      <3> HIDE DEF u
      <3> QED
        BY <3>1, <3>3, EndsType
    <2> QED
      BY <2>2, <2>3
  <1>3. CASE i.op \in MduOp
    <2>2. CppExecutes(s, t, i, R) = AfterMdu(s, t, CppResults(i.op, R[i.rs], R[i.rt]))
      BY <1>3, CppExecutesMdu
    <2> QED
      BY <1>i, <1>3, <2>2, ResultsType, AfterMduType
  <1>4. CASE i.op = "SYSCALL"
    <2> DEFINE B == Computes([i EXCEPT !.op = "SLL"], R, t.pc)
    <2>2. CppExecutes(s, t, i, R) = {Running([t EXCEPT !.breg = B])}
      BY <1>4, CppExecutesSyscall
    <2>3. B \in [Reg -> Int32]
      BY <1>i, CppFieldsType, ComputesType
    <2> HIDE DEF B
    <2> QED
      BY <2>2, <2>3, SetType, EndsType
  <1>5. CASE i.op \notin LoadOp \cup StoreOp \cup MduOp /\ i.op # "SYSCALL"
    <2> DEFINE B == CppComputes(i, R, t.pc)
               c == CppTarget(i, R, t.pc)
    <2>1. CppExecutes(s, t, i, R) = {Running([WithPc(t, c) EXCEPT !.breg = B])}
      BY <1>5 DEF CppExecutes
    <2>2. B \in [Reg -> Int32]
      BY <1>i, CppFieldsType, ComputesType DEF CppComputes
    <2>3. c \in Int32
      BY <1>i, CppFieldsType, TargetType DEF CppTarget
    <2> HIDE DEF B, c
    <2> QED
      BY <2>1, <2>2, <2>3, SetType, EndsType
  <1> QED
    BY <1>1, <1>2, <1>3, <1>4, <1>5

LEMMA OutcomesType ==
  ASSUME NEW s \in StateType
  PROVE  OutcomesOf(s) \subseteq OutcomeType /\ CppOutcomesOf(s) \subseteq OutcomeType
  <1>1. CASE FetchFails(s)
    BY <1>1, EndsType DEF OutcomesOf, CppOutcomesOf
  <1>2. CASE ~FetchFails(s)
    <2>1. ASSUME NEW i \in Fetched(s)
          PROVE  StepOf(s, i) \subseteq OutcomeType /\ CppStep(s, i) \subseteq OutcomeType
      BY <1>2, FetchedType, NextPcType, ExecutesType, CppExecutesType, VisibleType
        DEF StepOf, CppStep
    <2> QED
      BY <1>2, <2>1 DEF OutcomesOf, CppOutcomesOf
  <1> QED
    BY <1>1, <1>2

\* On either processor, for ints, bytes and fields of any width, registers keep
\* ints and the memory words, and a program runs, stops or exits.
THEOREM PortTypes == PortSpec => []PortTypeOK
  <1>1. PortInit => PortTypeOK
    <2>1. InitialBreg \in [Reg -> Int32] /\ CppInitialBreg \in [Reg -> Int32]
      BY InitialBregType, IntsAreMany DEF CppInitialBreg
    <2>2. PortInit => state \in StateType
      BY <2>1, BytesFacts, IntsAreMany DEF PortInit, StateType
    <2> QED
      BY <2>2, EndsType DEF PortInit, PortTypeOK, StateType, OutcomeType
  <1>2. PortTypeOK /\ [PortNext]_port_vars => PortTypeOK'
    <2> SUFFICES ASSUME PortTypeOK, PortNext PROVE PortTypeOK'
      BY DEF PortTypeOK, port_vars
    <2>1. \E o \in OutcomesOf(state) \cup CppOutcomesOf(state) : StepTo(o)
      BY DEF PortNext, MipsStep, MipsCppStep
    <2>2. PICK o \in OutcomeType : StepTo(o)
      BY <2>1, OutcomesType DEF PortTypeOK, StateType
    <2> QED
      BY <2>2 DEF StepTo, OutcomeType, StateType, PortTypeOK
  <1> QED
    BY <1>1, <1>2, PTL DEF PortSpec

-------------------------------------------------------------------------------
(* What the port changed *)

\* The bits that a sign fills.
HighBits == {k \in Bits : k >= ImmediateBits}

LEMMA PowersOfFields ==
  /\ IntBits \in Nat /\ ImmediateBits \in 1 .. IntBits - 3
  /\ Modulus = Power[IntBits] /\ LoadOffsets = Power[ImmediateBits]
  /\ Power[ImmediateBits] \in Nat /\ Power[ImmediateBits - 1] \in Nat
  /\ Power[ImmediateBits - 1] > 0 /\ Power[ImmediateBits] = 2 * Power[ImmediateBits - 1]
  /\ 8 * Power[ImmediateBits] <= Modulus
  <1>1. /\ IntBits \in Nat /\ ImmediateBits \in 1 .. IntBits - 3
        /\ Modulus = Power[IntBits] /\ LoadOffsets = Power[ImmediateBits]
    BY MipsAssumption, MipsMachineAssumption
  <1> DEFINE b == ImmediateBits
  <1>2. /\ b \in 0 .. IntBits /\ b - 1 \in 0 .. IntBits
        /\ b \in 1 .. IntBits /\ b + 1 \in 1 .. IntBits /\ b + 2 \in 1 .. IntBits
        /\ (b + 1) - 1 = b /\ (b + 2) - 1 = b + 1 /\ b + 2 \in 0 .. IntBits - 1
        /\ IntBits \in 0 .. IntBits
    BY <1>1
  <1>3. /\ Power[b] \in Nat /\ Power[b - 1] \in Nat /\ Power[b - 1] > 0
        /\ Power[b] = 2 * Power[b - 1]
    BY <1>2, PowerIs
  <1>4. Power[b + 1] = 2 * Power[b] /\ Power[b + 2] = 2 * Power[b + 1]
    BY <1>2, PowerIs
  <1>5. 2 * Power[b + 2] <= Power[IntBits]
    BY <1>2, PowerGrows
  <1>6. 8 * Power[b] <= Modulus
    BY <1>1, <1>3, <1>4, <1>5
  <1> QED
    BY <1>1, <1>3, <1>6

\* A constant as a number of its bits, and the bits it has as an int.
LEMMA FieldOf ==
  ASSUME NEW k \in -Power[ImmediateBits - 1] .. Power[ImmediateBits - 1] - 1
  PROVE  /\ k \in Int /\ k >= 0 => k % Power[ImmediateBits] = k
         /\ k < 0 => /\ k % Power[ImmediateBits] = k + Power[ImmediateBits]
                     /\ k + Power[ImmediateBits] \in 0 .. Power[ImmediateBits] - 1
                     /\ AsUnsigned(k) = k + Modulus
                     /\ AsUnsigned(k + Power[ImmediateBits]) = k + Power[ImmediateBits]
  <1> DEFINE P == Power[ImmediateBits]
  <1>1. k \in Int /\ P \in Nat /\ P > 0 /\ (k >= 0 => k \in 0 .. P - 1)
        /\ (k < 0 => k + P \in 0 .. P - 1)
    BY PowersOfFields
  <1> HIDE DEF P
  <1>2. CASE k >= 0
    <2>1. k = P * 0 + k /\ 0 \in Int
      BY <1>1
    <2>2. k % P = k
      BY <1>1, <1>2, <2>1, DivisionIs, Zenon
    <2> QED
      BY <1>1, <1>2, <2>2 DEF P
  <1>3. CASE k < 0
    <2>1. k = P * (-1) + (k + P) /\ -1 \in Int
      BY <1>1
    <2>2. k % P = k + P
      BY <1>1, <1>3, <2>1, DivisionIs
    <2>3. AsUnsigned(k) = k + Modulus /\ AsUnsigned(k + P) = k + P
      BY <1>1, <1>3 DEF AsUnsigned
    <2> QED
      BY <1>1, <1>3, <2>2, <2>3 DEF P
  <1> QED
    BY <1>1, <1>2, <1>3

\* A negative constant has the bits of its field and all those above.
LEMMA BitsOfNegative ==
  ASSUME NEW k \in -Power[ImmediateBits - 1] .. Power[ImmediateBits - 1] - 1, k < 0
  PROVE  /\ BitsOf(k) = BitsOf(k + Power[ImmediateBits]) \cup HighBits
         /\ BitsOf(k + Power[ImmediateBits]) \cap HighBits = {}
  <1> DEFINE b == ImmediateBits
             P == Power[b]
             M == Power[IntBits]
             f == k + P
  <1>1. /\ IntBits \in Nat /\ b \in 1 .. IntBits - 3 /\ M = Modulus
        /\ k \in Int /\ f \in Nat /\ f < P /\ AsUnsigned(k) = k + M /\ AsUnsigned(f) = f
        /\ P \in Nat /\ M \in Nat
    <2>1. /\ IntBits \in Nat /\ b \in 1 .. IntBits - 3 /\ M = Modulus /\ P \in Nat
          /\ M \in Nat
      BY PowersOfFields, ModulusFacts
    <2>2. /\ k \in Int /\ f \in 0 .. P - 1 /\ AsUnsigned(k) = k + Modulus
          /\ AsUnsigned(f) = f
      BY FieldOf
    <2> HIDE DEF f
    <2> QED
      BY <2>1, <2>2
  <1>2. k + M = f + (M - P)
    BY <1>1
  <1> HIDE DEF f
  <1>3. ASSUME NEW i \in Bits, i < b
        PROVE  ((k + M) \div Power[i]) % 2 = (f \div Power[i]) % 2
    <2>1. i \in 0 .. b - 1 /\ i \in 0 .. IntBits - 1 /\ b \in 0 .. IntBits
          /\ IntBits \in 0 .. IntBits /\ i \in 0 .. IntBits
      BY <1>1, <1>3 DEF Bits
    <2>2. PICK q \in Nat \ {0} : P = Power[i] * (2 * q)
      BY <2>1, PowerMultiple
    <2>3. PICK r \in Nat \ {0} : M = Power[i] * (2 * r)
      BY <2>1, PowerMultiple
    <2>4. Power[i] \in Nat /\ Power[i] > 0
      BY <2>1, PowerIs
    <2>5. M - P = Power[i] * (2 * (r - q))
      BY <2>2, <2>3, <2>4
    <2>6. k + M = f + Power[i] * (2 * (r - q)) /\ r - q \in Int /\ f \in Int
      BY <1>1, <1>2, <2>5
    <2> QED
      BY <2>4, <2>6, SameBit
  <1>4. ASSUME NEW i \in Bits, i >= b
        PROVE  ((k + M) \div Power[i]) % 2 = 1 /\ (f \div Power[i]) % 2 = 0
    <2>1. i \in 0 .. IntBits - 1 /\ IntBits \in 0 .. IntBits /\ i \in 0 .. IntBits
      BY <1>1 DEF Bits
    <2>2. PICK r \in Nat \ {0} : M = Power[i] * (2 * r)
      BY <2>1, PowerMultiple
    <2>3. Power[i] \in Nat /\ Power[i] > 0 /\ P <= Power[i]
      <3>1. i = b \/ b \in 0 .. i - 1
        BY <1>1, <1>4, <2>1
      <3>2. b \in 0 .. i - 1 => 2 * P <= Power[i]
        BY <2>1, PowerGrows
      <3> QED
        BY <1>1, <2>1, <3>1, <3>2, PowerIs
    <2> DEFINE D == Power[i]
    <2>4. M = D * (2 * r) /\ D \in Nat /\ D > 0 /\ P <= D
      BY <2>2, <2>3
    <2> HIDE DEF D, M, P
    <2>5. k + M = D * (2 * r - 1) + (D - P + f) /\ D - P + f \in 0 .. D - 1
      <3>1. D * (2 * r - 1) = D * (2 * r) - D
        BY <2>4
      <3> QED
        BY <1>1, <1>2, <2>4, <3>1
    <2>6. (k + M) \div D = 2 * r - 1
      <3>1. k + M \in Int /\ 2 * r - 1 \in Int
        BY <1>1, <2>4
      <3> QED
        BY <2>4, <2>5, <3>1, DivisionIs, Zenon
    <2>7. f \div D = 0
      <3>1. f = D * 0 + f /\ f \in 0 .. D - 1 /\ f \in Int /\ 0 \in Int
        BY <1>1, <2>4
      <3> QED
        BY <2>4, <3>1, DivisionIs, Zenon
    <2>8. (2 * r - 1) % 2 = 1 /\ 0 % 2 = 0
      OBVIOUS
    <2> QED
      BY <2>6, <2>7, <2>8 DEF D
  <1>5. ASSUME NEW i \in Bits PROVE i < b \/ i >= b
    BY <1>1 DEF Bits
  <1>6. BitsOf(k) = {i \in Bits : ((k + M) \div Power[i]) % 2 = 1}
    BY <1>1 DEF BitsOf
  <1>7. BitsOf(f) = {i \in Bits : (f \div Power[i]) % 2 = 1}
    BY <1>1 DEF BitsOf
  <1>8. ASSUME NEW i \in Bits PROVE i \in HighBits <=> i >= b
    BY DEF HighBits
  <1>9. ASSUME NEW i \in Bits, i < b PROVE ~(i >= b)
    BY <1>1, <1>9 DEF Bits
  <1>10. BitsOf(k) = BitsOf(f) \cup HighBits
    <2>1. ASSUME NEW i \in Bits PROVE i \in BitsOf(k) <=> i \in BitsOf(f) \/ i \in HighBits
      <3>1. CASE i < b
        BY <1>3, <1>6, <1>7, <1>8, <1>9, <3>1
      <3>2. CASE i >= b
        BY <1>4, <1>6, <1>7, <1>8, <3>2
      <3> QED
        BY <1>5, <3>1, <3>2
    <2>2. BitsOf(k) \subseteq Bits /\ BitsOf(f) \subseteq Bits /\ HighBits \subseteq Bits
      BY <1>6, <1>7 DEF HighBits
    <2> QED
      BY <2>1, <2>2
  <1>11. BitsOf(f) \cap HighBits = {}
    <2>1. ASSUME NEW i \in BitsOf(f) \cap HighBits PROVE FALSE
      <3>1. i \in Bits /\ (f \div Power[i]) % 2 = 1 /\ i >= b
        BY <1>7, <1>8, <2>1 DEF HighBits
      <3>2. (f \div Power[i]) % 2 = 0
        BY <1>4, <3>1
      <3> QED
        BY <3>1, <3>2
    <2> QED
      BY <2>1
  <1> QED
    BY <1>10, <1>11 DEF f

LEMMA HighFacts ==
  /\ HighBits # {} /\ HighBits \subseteq Bits /\ High(-1) = HighBits
  /\ \A x : High(x) = BitsOf(x) \cap HighBits
  <1>1. \A x : High(x) = BitsOf(x) \cap HighBits
    BY DEF High, HighBits, BitsOf
  <1>2. IntBits - 1 \in HighBits
    BY PowersOfFields DEF HighBits, Bits
  <1>3. -1 \in -Power[ImmediateBits - 1] .. Power[ImmediateBits - 1] - 1 /\ -1 < 0
    BY PowersOfFields
  <1>4. High(-1) = HighBits
    BY <1>1, <1>3, BitsOfNegative
  <1> QED
    BY <1>1, <1>2, <1>4 DEF HighBits

\* A value that the port computes otherwise.
LEMMA ComputesOtherwise ==
  ASSUME NEW i \in Instruction, NEW R \in [Reg -> Int32], NEW c \in Int32,
         i.op \in {"SLTIU", "ANDI", "ORI", "XORI"}, i.kte16 < 0
  PROVE  Computed(i, R, c) # Computed(Field(i), R, c) <=>
            \/ i.op = "ANDI" /\ High(R[i.rs]) # {}
            \/ i.op = "ORI" /\ High(R[i.rs]) # High(-1)
            \/ i.op = "XORI"
            \/ /\ i.op = "SLTIU"
               /\ AsUnsigned(R[i.rs]) \in Field(i).kte16 .. AsUnsigned(i.kte16) - 1
  <1> DEFINE k == i.kte16
             f == i.kte16 + Power[ImmediateBits]
             a == R[i.rs]
             A == BitsOf(a)
             K == BitsOf(k)
             F == BitsOf(f)
  <1>1. /\ i.rs \in Reg /\ a \in Int32
        /\ k \in -Power[ImmediateBits - 1] .. Power[ImmediateBits - 1] - 1
    BY DEF Instruction
  <1>2. Field(i) = [i EXCEPT !.kte16 = f]
    BY <1>1, FieldOf DEF Field
  <1>3. /\ Field(i).op = i.op /\ Field(i).rs = i.rs /\ Field(i).rt = i.rt
        /\ Field(i).kte16 = f
    BY <1>2 DEF Instruction
  <1>4. /\ K = F \cup HighBits /\ F \cap HighBits = {} /\ HighBits # {} /\ HighBits \subseteq Bits
        /\ High(a) = A \cap HighBits /\ High(-1) = HighBits
    BY <1>1, BitsOfNegative, HighFacts
  <1>5. A \subseteq Bits /\ K \subseteq Bits /\ F \subseteq Bits
    BY DEF BitsOf
  <1>6. ASSUME NEW B \in SUBSET Bits, NEW C \in SUBSET Bits PROVE OfBits(B) = OfBits(C) <=> B = C
    BY BitsOfBits
  <1> HIDE DEF k, f, a, A, K, F
  <1>7. CASE i.op = "ANDI"
    <2>1. /\ Computed(i, R, c) = OfBits(A \cap K)
          /\ Computed(Field(i), R, c) = OfBits(A \cap F)
      BY <1>3, <1>7 DEF Computed, A, K, F, a, k
    <2>2. OfBits(A \cap K) = OfBits(A \cap F) <=> A \cap K = A \cap F
      BY <1>5, <1>6
    <2>3. A \cap K = A \cap F <=> A \cap HighBits = {}
      BY <1>4
    <2> QED
      BY <1>4, <1>7, <2>1, <2>2, <2>3 DEF a
  <1>8. CASE i.op = "ORI"
    <2>1. /\ Computed(i, R, c) = OfBits(A \cup K)
          /\ Computed(Field(i), R, c) = OfBits(A \cup F)
      BY <1>3, <1>8 DEF Computed, A, K, F, a, k
    <2>2. OfBits(A \cup K) = OfBits(A \cup F) <=> A \cup K = A \cup F
      BY <1>5, <1>6
    <2>3. A \cup K = A \cup F <=> A \cap HighBits = HighBits
      BY <1>4
    <2> QED
      BY <1>4, <1>8, <2>1, <2>2, <2>3 DEF a
  <1>9. CASE i.op = "XORI"
    <2>1. /\ Computed(i, R, c) = OfBits((A \cup K) \ (A \cap K))
          /\ Computed(Field(i), R, c) = OfBits((A \cup F) \ (A \cap F))
      BY <1>3, <1>9 DEF Computed, A, K, F, a, k
    <2>2. (A \cup K) \ (A \cap K) # (A \cup F) \ (A \cap F)
      BY <1>4
    <2>3. (A \cup K) \ (A \cap K) \in SUBSET Bits /\ (A \cup F) \ (A \cap F) \in SUBSET Bits
      BY <1>5
    <2> QED
      BY <1>6, <1>9, <2>1, <2>2, <2>3
  <1>10. CASE i.op = "SLTIU"
    <2> DEFINE u == AsUnsigned(a)
               v == AsUnsigned(k)
               w == AsUnsigned(f)
    <2>1. /\ Computed(i, R, c) = IF u < v THEN 1 ELSE 0
          /\ Computed(Field(i), R, c) = IF u < w THEN 1 ELSE 0
      BY <1>3, <1>10 DEF Computed, Truth, a, k
    <2>2. w = f /\ f \in Int /\ v = k + Modulus /\ k \in Int /\ f <= k + Modulus
      <3>1. /\ AsUnsigned(f) = f /\ f \in 0 .. Power[ImmediateBits] - 1 /\ k \in Int
            /\ AsUnsigned(k) = k + Modulus
        BY <1>1, FieldOf DEF f, k
      <3>2. Power[ImmediateBits] \in Nat /\ 8 * Power[ImmediateBits] <= Modulus /\ Modulus \in Nat
        BY PowersOfFields, ModulusFacts
      <3>3. f = k + Power[ImmediateBits]
        BY DEF f, k
      <3> QED
        BY <3>1, <3>2, <3>3
    <2>3. u \in Int /\ Modulus \in Int
      BY <1>1, AsUnsignedType, BytesFacts, ModulusFacts DEF a
    <2>4. (u < v <=> u < w) <=> u \notin f .. v - 1
      <3> HIDE DEF u, v, w
      <3> QED
        BY <2>2, <2>3
    <2>5. Computed(i, R, c) # Computed(Field(i), R, c) <=> ~(u < v <=> u < w)
      <3> HIDE DEF u, v, w
      <3> QED
        BY <2>1
    <2> QED
      BY <1>3, <1>10, <2>4, <2>5 DEF a, k
  <1> QED
    BY <1>7, <1>8, <1>9, <1>10

LEMMA AsIntDiffers ==
  ASSUME NEW x \in Int, NEW d \in 1 .. Modulus - 1
  PROVE  AsInt(x + d) # AsInt(x)
  <1> DEFINE M == Modulus
             q == x \div M
             r == x % M
             p == (x + d) \div M
  <1>0. M \in Nat /\ M > 0 /\ d \in Int /\ 0 < d /\ d < M
    BY ModulusFacts
  <1> HIDE DEF M
  <1> SUFFICES ASSUME AsInt(x + d) = AsInt(x) PROVE FALSE
    OBVIOUS
  <1>1. (x + d) % M = x % M
    BY <1>0, AsIntType DEF M
  <1>2. q \in Int /\ r \in Int /\ x = M * q + r /\ p \in Int /\ x + d = M * p + r
    BY <1>0, <1>1, DivMod
  <1> HIDE DEF q, r, p
  <1>3. M * p - M * q = d /\ M * p \in Int /\ M * q \in Int
    BY <1>0, <1>2
  <1>4. M * (p - q) = M * p - M * q
    BY <1>0, <1>2
  <1>5. M * (p - q) = d /\ p - q \in Int
    BY <1>2, <1>3, <1>4
  <1>6. CASE p - q >= 1
    <2>1. M * (p - q) = M * (p - q - 1) + M /\ M * (p - q - 1) >= 0
      BY <1>0, <1>5, <1>6
    <2> QED
      BY <1>0, <1>5, <2>1
  <1>7. CASE p - q <= 0
    <2>1. M * (p - q) = -(M * (q - p)) /\ M * (q - p) >= 0
      BY <1>0, <1>2, <1>7
    <2> QED
      BY <1>0, <1>5, <2>1
  <1> QED
    BY <1>5, <1>6, <1>7

\* The fields of an instruction that lost the sign of its constant.
LEMMA FieldFacts ==
  ASSUME NEW i \in Instruction
  PROVE  /\ Field(i).op = i.op /\ Field(i).rs = i.rs /\ Field(i).rt = i.rt
         /\ Field(i).kte26 = i.kte26 /\ Field(i).kte16 = i.kte16 % Power[ImmediateBits]
         /\ i.kte16 \in -Power[ImmediateBits - 1] .. Power[ImmediateBits - 1] - 1
         /\ i.kte16 >= 0 => Field(i) = i
  <1>1. i.kte16 \in -Power[ImmediateBits - 1] .. Power[ImmediateBits - 1] - 1
    BY DEF Instruction
  <1> DEFINE k == i.kte16 % Power[ImmediateBits]
  <1>2. Field(i) = [i EXCEPT !.kte16 = k]
    BY DEF Field
  <1>3. i.kte16 >= 0 => k = i.kte16
    BY <1>1, FieldOf
  <1> HIDE DEF k
  <1>4. i.kte16 >= 0 => Field(i) = i
    BY <1>2, <1>3 DEF Instruction
  <1>5. /\ Field(i).op = i.op /\ Field(i).rs = i.rs /\ Field(i).rt = i.rt
        /\ Field(i).kte26 = i.kte26 /\ Field(i).kte16 = k
    BY <1>2 DEF Instruction
  <1> QED
    BY <1>1, <1>4, <1>5 DEF k

LEMMA TakenIs ==
  ASSUME NEW i, NEW R
  PROVE  Taken(i, R) <=> \/ i.op = "BEQ" /\ R[i.rs] = R[i.rt]
                         \/ i.op = "BNE" /\ R[i.rs] # R[i.rt]
                         \/ i.op = "BLEZ" /\ R[i.rs] <= 0
                         \/ i.op = "BGTZ" /\ R[i.rs] > 0
  BY DEF Taken

LEMMA TargetsOtherwise ==
  ASSUME NEW i \in Instruction, NEW R \in [Reg -> Int32], NEW c \in Int32
  PROVE  Target(i, R, c) # Target(Field(i), R, c) <=> i.kte16 < 0 /\ Taken(i, R)
  <1> DEFINE k == i.kte16
             P == Power[ImmediateBits]
  <1>1. CASE k >= 0
    BY <1>1, FieldFacts
  <1>2. CASE k < 0
    <2>1. Field(i).kte16 = k + P /\ k \in Int /\ P \in Nat /\ P > 0 /\ 8 * P <= Modulus
          /\ c \in Int
      BY <1>2, FieldFacts, FieldOf, PowersOfFields, IntIsInt
    <2>2. Taken(Field(i), R) <=> Taken(i, R)
      BY FieldFacts, TakenIs
    <2> HIDE DEF k, P
    <2>3. CASE Taken(i, R)
      <3>1. i.op # "JR" /\ i.op \notin {"J", "JAL"}
        BY <2>3, TakenIs
      <3>2. /\ Target(i, R, c) = AsInt(c + 4 * k)
            /\ Target(Field(i), R, c) = AsInt(c + 4 * (k + P))
        BY <2>1, <2>2, <2>3, <3>1, FieldFacts DEF Target, Plus, k
      <3>3. c + 4 * (k + P) = (c + 4 * k) + 4 * P /\ c + 4 * k \in Int
            /\ 4 * P \in 1 .. Modulus - 1
        BY <2>1, ModulusFacts
      <3>4. AsInt((c + 4 * k) + 4 * P) # AsInt(c + 4 * k)
        BY <3>3, AsIntDiffers
      <3> QED
        BY <1>2, <2>3, <3>2, <3>3, <3>4 DEF k
    <2>4. CASE ~Taken(i, R)
      <3>1. Target(i, R, c) = Target(Field(i), R, c)
        BY <2>2, <2>4, FieldFacts DEF Target
      <3> QED
        BY <2>4, <3>1
    <2> QED
      BY <2>3, <2>4
  <1>3. k \in Int
    BY FieldFacts, FieldOf
  <1> QED
    BY <1>1, <1>2, <1>3

\* What two states show.
LEMMA ShowsSame ==
  ASSUME NEW s \in StateType, NEW t \in StateType
  PROVE  Visible(Running(s)) = Visible(Running(t)) <=>
            /\ s.pc = t.pc /\ s.lo = t.lo /\ s.hi = t.hi /\ s.memory = t.memory
            /\ \A r \in Reg : r # ZERO => s.breg[r] = t.breg[r]
  <1> DEFINE clear(x) == [x EXCEPT !.breg[ZERO] = 0]
             end(x) == IF x.pc < DATA_SEGMENT_START THEN "running" ELSE "stopped"
  <1>1. ASSUME NEW x \in StateType
        PROVE  /\ Visible(Running(x)) = [state |-> clear(x), phase |-> end(x)]
               /\ clear(x) = [pc |-> x.pc, lo |-> x.lo, hi |-> x.hi,
                              breg |-> Zeroed(x.breg), memory |-> x.memory]
    BY DEF Visible, Running, StateType, Zeroed
  <1>2. Zeroed(s.breg) = Zeroed(t.breg) <=> \A r \in Reg : r # ZERO => s.breg[r] = t.breg[r]
    <2>1. s.breg \in [Reg -> Int32] /\ t.breg \in [Reg -> Int32] /\ ZERO \in Reg
      BY DEF StateType, ZERO, Reg
    <2>2. ASSUME \A r \in Reg : r # ZERO => s.breg[r] = t.breg[r]
          PROVE  Zeroed(s.breg) = Zeroed(t.breg)
      BY <2>1, <2>2 DEF Zeroed
    <2>3. ASSUME Zeroed(s.breg) = Zeroed(t.breg), NEW r \in Reg, r # ZERO
          PROVE  s.breg[r] = t.breg[r]
      <3>1. Zeroed(s.breg)[r] = s.breg[r] /\ Zeroed(t.breg)[r] = t.breg[r]
        BY <2>1, <2>3 DEF Zeroed
      <3> QED
        BY <2>3, <3>1
    <2> QED
      BY <2>2, <2>3
  <1> HIDE DEF clear, end
  <1>3. Visible(Running(s)) = Visible(Running(t)) <=> clear(s) = clear(t) /\ end(s) = end(t)
    BY <1>1
  <1>4. clear(s) = clear(t) <=> /\ s.pc = t.pc /\ s.lo = t.lo /\ s.hi = t.hi
                                /\ s.memory = t.memory /\ Zeroed(s.breg) = Zeroed(t.breg)
    BY <1>1
  <1>5. s.pc = t.pc => end(s) = end(t)
    BY DEF end
  <1> QED
    BY <1>2, <1>3, <1>4, <1>5

LEMMA NotAltered ==
  ASSUME NEW i, NEW R, NEW m,
         i.op \notin BranchOp \cup {"SLTIU", "ANDI", "ORI", "XORI", "MUL", "LH"}
  PROVE  ~Alters(i, R, m)
  BY TakenIs DEF Alters, NegativeConstant, LongProduct, NegativeHalf, BranchOp

-------------------------------------------------------------------------------
(* The steps of the two processors *)

AfterFetch(s) == WithPc(s, Plus(s.pc, 4))

\* The steps of the two processors, and whether they differ.
LEMMA StepsAre ==
  ASSUME NEW s, NEW i
  PROVE  /\ StepOf(s, i) = {Visible(o) : o \in Executes(s, AfterFetch(s), i, s.breg)}
         /\ CppStep(s, i) = {Visible(o) : o \in CppExecutes(s, AfterFetch(s), i, s.breg)}
  BY DEF StepOf, CppStep, AfterFetch

Keeps(s, i) ==
    /\ StepOf(s, i) # CppStep(s, i) =>
          Alters(i, s.breg, s.memory) \/ OtherPlace(i, s.breg) \/ Service(i, s.breg)
    /\ Alters(i, s.breg, s.memory) => StepOf(s, i) # CppStep(s, i)

LEMMA SameKeeps ==
  ASSUME NEW s, NEW i, ~Alters(i, s.breg, s.memory),
         OtherPlace(i, s.breg) \/ Service(i, s.breg)
         \/ Executes(s, AfterFetch(s), i, s.breg) = CppExecutes(s, AfterFetch(s), i, s.breg)
  PROVE  Keeps(s, i)
  BY StepsAre DEF Keeps

\* Instructions that each lead to one outcome.
LEMMA OneOutcome ==
  ASSUME NEW s, NEW i, NEW u \in StateType, NEW v \in StateType,
         Executes(s, AfterFetch(s), i, s.breg) = {Running(u)},
         CppExecutes(s, AfterFetch(s), i, s.breg) = {Running(v)}
  PROVE  StepOf(s, i) = CppStep(s, i) <=>
            /\ u.pc = v.pc /\ u.lo = v.lo /\ u.hi = v.hi /\ u.memory = v.memory
            /\ \A r \in Reg : r # ZERO => u.breg[r] = v.breg[r]
  <1>1. StepOf(s, i) = {Visible(Running(u))} /\ CppStep(s, i) = {Visible(Running(v))}
    BY StepsAre
  <1>2. StepOf(s, i) = CppStep(s, i) <=> Visible(Running(u)) = Visible(Running(v))
    BY <1>1
  <1> QED
    BY <1>2, ShowsSame

LEMMA ComputesKeeps ==
  ASSUME NEW s \in StateType, NEW i \in Instruction,
         i.op \notin LoadOp \cup StoreOp \cup MduOp, i.op # "SYSCALL"
  PROVE  Keeps(s, i)
  <1> DEFINE t == AfterFetch(s)
             R == s.breg
             c == t.pc
             X == Computes(i, R, c)
             Y == CppComputes(i, R, c)
             u == [WithPc(t, Target(i, R, c)) EXCEPT !.breg = X]
             v == [WithPc(t, CppTarget(i, R, c)) EXCEPT !.breg = Y]
  <1>1. t \in StateType /\ c \in Int32 /\ R \in [Reg -> Int32]
    BY NextPcType DEF AfterFetch
  <1>2. /\ i \in AnyInstruction /\ Field(i) \in AnyInstruction /\ i.rt \in Reg
    BY <1>1, InstructionFields, CppFieldsType, FieldTypes
  <1>3. Executes(s, t, i, R) = {Running(u)}
    BY ExecutesOther DEF UsesBus, Ends10
  <1>4. CppExecutes(s, t, i, R) = {Running(v)}
    BY DEF CppExecutes
  <1> HIDE DEF t, R, c
  <1>5. /\ X \in [Reg -> Int32] /\ Y \in [Reg -> Int32]
        /\ Target(i, R, c) \in Int32 /\ CppTarget(i, R, c) \in Int32
    BY <1>1, <1>2, ComputesType, TargetType DEF CppComputes, CppTarget
  <1> HIDE DEF X, Y
  <1>6. /\ u \in StateType /\ v \in StateType
        /\ u.pc = Target(i, R, c) /\ v.pc = Target(Field(i), R, c)
        /\ u.lo = v.lo /\ u.hi = v.hi /\ u.memory = v.memory /\ u.breg = X /\ v.breg = Y
    BY <1>1, <1>5 DEF StateType, WithPc, CppTarget
  <1> HIDE DEF u, v
  <1>7. StepOf(s, i) = CppStep(s, i) <=>
           /\ Target(i, R, c) = Target(Field(i), R, c)
           /\ \A r \in Reg : r # ZERO => X[r] = Y[r]
    BY <1>3, <1>4, <1>6, OneOutcome DEF t, R
  <1>8. Target(i, R, c) # Target(Field(i), R, c) <=> i.kte16 < 0 /\ Taken(i, R)
    BY <1>1, TargetsOtherwise
  <1>9. ASSUME i.op \in {"SLTIU", "ANDI", "ORI", "XORI"}, i.kte16 < 0
        PROVE  (\A r \in Reg : r # ZERO => X[r] = Y[r]) <=>
                  i.rt = ZERO \/ Computed(i, R, c) = Computed(Field(i), R, c)
    <2>1. Destination(i) = i.rt /\ Destination(Field(i)) = i.rt /\ i.op \in ComputeOp
          /\ Field(i).op \in ComputeOp
      BY <1>9, FieldFacts DEF Destination, ComputeOp
    <2>2. /\ X = [R EXCEPT ![i.rt] = Computed(i, R, c)]
          /\ Y = [R EXCEPT ![i.rt] = Computed(Field(i), R, c)]
      BY <1>9, <2>1 DEF X, Y, Computes, CppComputes
    <2>3. /\ X[i.rt] = Computed(i, R, c) /\ Y[i.rt] = Computed(Field(i), R, c)
          /\ \A r \in Reg : r # i.rt => X[r] = Y[r]
      BY <1>1, <1>2, <2>2
    <2> QED
      BY <1>2, <2>3
  <1>10. ASSUME ~(i.op \in {"SLTIU", "ANDI", "ORI", "XORI"} /\ i.kte16 < 0) PROVE X = Y
    <2>1. i.kte16 >= 0 \/ i.kte16 < 0
      BY FieldFacts, FieldOf
    <2> QED
      BY <1>10, <2>1, FieldFacts DEF X, Y, CppComputes
  <1>11. ASSUME i.op \in {"SLTIU", "ANDI", "ORI", "XORI"}, i.kte16 < 0
         PROVE  Computed(i, R, c) # Computed(Field(i), R, c) <=>
                    \/ i.op = "ANDI" /\ High(R[i.rs]) # {}
                    \/ i.op = "ORI" /\ High(R[i.rs]) # High(-1)
                    \/ i.op = "XORI"
                    \/ /\ i.op = "SLTIU"
                       /\ AsUnsigned(R[i.rs]) \in Field(i).kte16 .. AsUnsigned(i.kte16) - 1
    BY <1>1, <1>11, ComputesOtherwise
  <1>12. NegativeConstant(i, R) <=>
            \/ i.kte16 < 0 /\ Taken(i, R)
            \/ /\ i.op \in {"SLTIU", "ANDI", "ORI", "XORI"} /\ i.kte16 < 0 /\ i.rt # ZERO
               /\ Computed(i, R, c) # Computed(Field(i), R, c)
    BY <1>11 DEF NegativeConstant
  <1>13. NegativeConstant(i, R) <=> StepOf(s, i) # CppStep(s, i)
    <2>1. CASE i.op \in {"SLTIU", "ANDI", "ORI", "XORI"} /\ i.kte16 < 0
      BY <1>7, <1>8, <1>9, <1>12, <2>1
    <2>2. CASE ~(i.op \in {"SLTIU", "ANDI", "ORI", "XORI"} /\ i.kte16 < 0)
      BY <1>7, <1>8, <1>10, <1>12, <2>2
    <2> QED
      BY <2>1, <2>2
  <1>14. Alters(i, R, s.memory) <=> NegativeConstant(i, R)
    BY DEF Alters, LongProduct, NegativeHalf, LoadOp, MduOp
  <1> QED
    BY <1>13, <1>14 DEF Keeps, R

LEMMA SyscallKeeps ==
  ASSUME NEW s \in StateType, NEW i \in Instruction, i.op = "SYSCALL"
  PROVE  Keeps(s, i)
  <1> DEFINE t == AfterFetch(s)
             R == s.breg
             c == t.pc
  <1>1. t \in StateType /\ c \in Int32 /\ R \in [Reg -> Int32] /\ t.breg = R
    BY NextPcType DEF AfterFetch, WithPc, StateType
  <1>2. ~Alters(i, R, s.memory)
    BY NotAltered DEF BranchOp
  <1>3. ASSUME ~Service(i, R) PROVE StepOf(s, i) = CppStep(s, i)
    <2> DEFINE u == [WithPc(t, Target(i, R, c)) EXCEPT !.breg = Computes(i, R, c)]
               v == [t EXCEPT !.breg = Computes([i EXCEPT !.op = "SLL"], R, c)]
    <2>1. R[V0] \notin {4, 5, 10} /\ Computes([i EXCEPT !.op = "SLL"], R, 0) = R
      BY <1>3 DEF Service
    <2>2. Executes(s, t, i, R) = {Running(u)}
      BY <2>1, ExecutesOther DEF UsesBus, Ends10, LoadOp, StoreOp, MduOp
    <2>3. CppExecutes(s, t, i, R) = {Running(v)}
      BY CppExecutesSyscall
    <2>4. Computes([i EXCEPT !.op = "SLL"], R, c) = R
      <3> DEFINE j == [i EXCEPT !.op = "SLL"]
      <3>1. j.op = "SLL"
        BY DEF Instruction
      <3> HIDE DEF j
      <3>2. Computed(j, R, c) = Computed(j, R, 0)
        BY <3>1 DEF Computed
      <3> QED
        BY <2>1, <3>2 DEF Computes, j
    <2>5. Target(i, R, c) = c
      BY TakenIs DEF Target
    <2>6. Computes(i, R, c) = R
      BY DEF Computes, ComputeOp
    <2> HIDE DEF t, R, c
    <2>7. /\ u \in StateType /\ v \in StateType
          /\ u.pc = v.pc /\ u.lo = v.lo /\ u.hi = v.hi /\ u.memory = v.memory /\ u.breg = v.breg
      BY <1>1, <2>4, <2>5, <2>6 DEF StateType, WithPc, c
    <2> HIDE DEF u, v
    <2> QED
      BY <2>2, <2>3, <2>7, OneOutcome DEF t, R
  <1> QED
    BY <1>2, <1>3 DEF Keeps

WithResults(t, l, h) == [t EXCEPT !.lo = l, !.hi = h]

LEMMA AfterMduOne ==
  ASSUME NEW s, NEW t, NEW l \in Int32, NEW h \in Int32, NEW results,
         results.lo = {l}, results.hi = {h}
  PROVE  AfterMdu(s, t, results) = {Running(WithResults(t, l, h))}
  <1> DEFINE outcome(x, y) == Running(WithResults(t, x, y))
  <1>1. l # Signal /\ h # Signal
    BY HalfAssumption DEF Signal, Int32
  <1>2. results.lo \ {Signal} = {l} /\ results.hi \ {Signal} = {h}
        /\ Signal \notin results.lo \cup results.hi
    BY <1>1
  <1>3. AfterMdu(s, t, results) =
          {outcome(x, y) : x \in results.lo \ {Signal}, y \in results.hi \ {Signal}}
          \cup {o \in {Exit(s)} : Signal \in results.lo \cup results.hi}
    BY DEF AfterMdu, WithResults
  <1> HIDE DEF outcome
  <1>4. AfterMdu(s, t, results) = {outcome(x, y) : x \in {l}, y \in {h}}
    BY <1>2, <1>3
  <1>5. AfterMdu(s, t, results) = {outcome(l, h)}
    BY <1>4
  <1> QED
    BY <1>5 DEF outcome

\* The sign of the low word is the high word if the product is an int.
LEMMA SignOfProduct ==
  ASSUME NEW a \in Int32, NEW b \in Int32
  PROVE  HighWord(a, b) = (IF LowWord(a, b) < 0 THEN -1 ELSE 0) <=> a * b \in Int32
  <1> DEFINE x == a * b
             q == x \div Modulus
             r == x % Modulus
  <1>1. x \in Int
    BY IntIsInt
  <1>2. HighWord(a, b) = q /\ LowWord(a, b) = IF r < Half THEN r ELSE r - Modulus
    BY DEF HighWord, LowWord, AsInt
  <1> HIDE DEF x
  <1>3. q \in Int /\ r \in 0 .. Modulus - 1 /\ x = Modulus * q + r
    BY <1>1, ModulusFacts, DivMod
  <1>4. x \in 0 .. Half - 1 => q = 0 /\ r = x
    <2>1. x = Modulus * 0 + x
      BY <1>1, ModulusFacts
    <2> QED
      BY <1>1, <2>1, ModulusFacts, HalfAssumption, DivisionIs
  <1>5. x \in -Half .. -1 => q = -1 /\ r = x + Modulus
    <2>1. x = Modulus * (-1) + (x + Modulus)
      BY <1>1, ModulusFacts
    <2> QED
      BY <1>1, <2>1, ModulusFacts, HalfAssumption, DivisionIs
  <1> HIDE DEF q, r
  <1>6. Modulus = 2 * Half /\ Half \in Nat /\ Half > 0
    BY ModulusFacts, HalfAssumption
  <1>7. q = 0 => x = r
    BY <1>1, <1>3, <1>6
  <1>8. q = -1 => x = r - Modulus
    BY <1>1, <1>3, <1>6
  <1>9. q = (IF LowWord(a, b) < 0 THEN -1 ELSE 0) <=> x \in Int32
    <2>1. CASE r < Half
      BY <1>1, <1>2, <1>3, <1>4, <1>5, <1>6, <1>7, <2>1 DEF Int32
    <2>2. CASE r >= Half
      BY <1>1, <1>2, <1>3, <1>4, <1>5, <1>6, <1>8, <2>2 DEF Int32
    <2> QED
      BY <1>3, <1>6, <2>1, <2>2
  <1> QED
    BY <1>2, <1>9 DEF x

LEMMA MduKeeps ==
  ASSUME NEW s \in StateType, NEW i \in Instruction, i.op \in MduOp
  PROVE  Keeps(s, i)
  <1> DEFINE t == AfterFetch(s)
             R == s.breg
             a == R[i.rs]
             b == R[i.rt]
  <1>1. /\ t \in StateType /\ a \in Int32 /\ b \in Int32
    BY NextPcType, InstructionFields, FieldTypes DEF AfterFetch
  <1>2. /\ Executes(s, t, i, R) = AfterMdu(s, t, ResultsOf(i.op, a, b))
        /\ CppExecutes(s, t, i, R) = AfterMdu(s, t, CppResults(i.op, a, b))
    BY ExecutesMdu, CppExecutesMdu
  <1>3. CASE i.op = "DIV"
    <2>1. CppResults(i.op, a, b) = ResultsOf(i.op, a, b)
      BY <1>3 DEF CppResults
    <2>2. ~Alters(i, R, s.memory)
      BY <1>3, NotAltered DEF BranchOp
    <2> QED
      BY <1>2, <2>1, <2>2, SameKeeps
  <1>4. CASE i.op = "MUL"
    <2> DEFINE l == LowWord(a, b)
               h == HighWord(a, b)
               g == IF l < 0 THEN -1 ELSE 0
               u == WithResults(t, l, h)
               v == WithResults(t, l, g)
               X == ResultsOf(i.op, a, b)
               Y == CppResults(i.op, a, b)
    <2>1. l \in Int32 /\ h \in Int32 /\ g \in Int32
      BY <1>1, LowWordType, HighWordType, IntsAreMany, HalfAssumption DEF Int32
    <2>2. X.lo = {l} /\ X.hi = {h} /\ Y.lo = {l} /\ Y.hi = {g}
      BY <1>4 DEF ResultsOf, CppResults
    <2>s. h = g <=> a * b \in Int32
      BY <1>1, SignOfProduct
    <2> HIDE DEF l, h, g, t, R, a, b, X, Y
    <2>e. AfterMdu(s, t, X) = {Running(u)}
      BY <2>1, <2>2, AfterMduOne
    <2>c. AfterMdu(s, t, Y) = {Running(v)}
      BY <2>1, <2>2, AfterMduOne
    <2>3. /\ Executes(s, t, i, R) = {Running(u)}
          /\ CppExecutes(s, t, i, R) = {Running(v)}
      BY <1>2, <2>e, <2>c DEF X, Y
    <2>4. /\ u \in StateType /\ v \in StateType /\ u.hi = h /\ v.hi = g
          /\ u.pc = v.pc /\ u.lo = v.lo /\ u.memory = v.memory /\ u.breg = v.breg
      BY <1>1, <2>1 DEF StateType, WithResults
    <2> HIDE DEF u, v
    <2>5. StepOf(s, i) = CppStep(s, i) <=> h = g
      BY <2>3, <2>4, OneOutcome DEF t, R
    <2>6. Alters(i, R, s.memory) <=> LongProduct(i, R)
      BY <1>4, TakenIs DEF Alters, NegativeConstant, NegativeHalf
    <2>7. LongProduct(i, R) <=> ~(a * b \in Int32)
      BY <1>4 DEF LongProduct, a, b
    <2> QED
      BY <2>s, <2>5, <2>6, <2>7 DEF Keeps, R
  <1> QED
    BY <1>3, <1>4 DEF MduOp

-------------------------------------------------------------------------------
(* Loads and stores *)

\* The words that a load in range may find.
LEMMA LoadWords ==
  ASSUME NEW m, NEW type, NEW a \in Nat, InRange(a)
  PROVE  Load(m, type, a) = {LoadWord(type, w, a) : w \in WordAt(m, a \div 4)}
  <1> DEFINE n == a \div 4
  <1>1. n \in Nat /\ n <= size /\ size \in Nat
    BY BytesFacts DEF InRange
  <1> HIDE DEF n
  <1>2. WordAt(m, n) = IF n = size THEN Garbage ELSE {m[n]}
    BY <1>1 DEF WordAt
  <1> QED
    BY <1>2 DEF Load, Outside, n

LEMMA WordAtType ==
  ASSUME NEW m \in Memory, NEW n
  PROVE  WordAt(m, n) \subseteq Int4 /\ WordAt(m, n) # {}
  BY BytesFacts, MemoryAssumption DEF WordAt, Memory

\* The addresses of the two.
LEMMA AddressesAre ==
  ASSUME NEW i \in Instruction, NEW R \in [Reg -> Int32]
  PROVE  /\ i.op \in {"LH", "LW"} =>
               AddressOf(DataRequest(i, R)) = CppAddress(i, R)
         /\ i.op \in {"LB", "LHU"} /\ CppIndex(i, R) = 0 /\ i.kte16 >= 0 =>
               AddressOf(DataRequest(i, R)) = 0
         /\ i.op \in StoreOp /\ i.kte16 \in 0 .. StoreOffsets - 1 =>
               AddressOf(DataRequest(i, R)) = CppAddress(i, R)
         /\ i.op = "LH" => DataRequest(i, R).type = "Half"
         /\ i.op \in {"LW", "LHU"} => DataRequest(i, R).type = "Word"
         /\ i.op = "LB" => DataRequest(i, R).type = "Byte"
  <1> DEFINE r == DataRequest(i, R)
  <1>1. ASSUME i.op \in {"LH", "LW"} PROVE AddressOf(r) = CppAddress(i, R)
    BY <1>1 DEF DataRequest, Of, AddressOf, CppAddress
  <1>2. ASSUME i.op \in {"LB", "LHU"}, CppIndex(i, R) = 0, i.kte16 >= 0
        PROVE  AddressOf(r) = 0
    <2>1. Plus(R[i.rs], i.kte16) = 0
      BY <1>2, FieldFacts DEF CppIndex
    <2>2. r.kind = "load" /\ r.kte = 0 /\ r.addr = AsUnsigned(Plus(R[i.rs], i.kte16))
      BY <1>2 DEF DataRequest, Of
    <2>3. AsUnsigned(0) = 0 /\ 0 \in 0 .. UintCount - 1
      BY BytesFacts DEF AsUnsigned
    <2> HIDE DEF r
    <2> QED
      BY <2>1, <2>2, <2>3, PlainAddress
  <1>3. ASSUME i.op \in StoreOp, i.kte16 \in 0 .. StoreOffsets - 1
        PROVE  AddressOf(r) = CppAddress(i, R)
    <2>1. r.kind = "store" /\ r.addr = AsUnsigned(R[i.rs]) /\ r.kte = i.kte16
      BY <1>3 DEF DataRequest, Of, StoreOp
    <2>2. i.kte16 % LoadOffsets = i.kte16
      BY <1>3, FieldFacts, FieldOf, PowersOfFields
    <2>3. i.kte16 % StoreOffsets = i.kte16
      <3>1. i.kte16 = StoreOffsets * 0 + i.kte16 /\ i.kte16 \in Int /\ 0 \in Int
        BY <1>3, BytesFacts
      <3> QED
        BY <1>3, <3>1, BytesFacts, DivisionIs, Zenon
    <2> HIDE DEF r
    <2> QED
      BY <2>1, <2>2, <2>3 DEF AddressOf, StoreAddress, LoadAddress, CppAddress
  <1>4. /\ i.op = "LH" => r.type = "Half"
        /\ i.op \in {"LW", "LHU"} => r.type = "Word"
        /\ i.op = "LB" => r.type = "Byte"
    BY DEF DataRequest, Of
  <1> QED
    BY <1>1, <1>2, <1>3, <1>4

LEMMA StoreKeeps ==
  ASSUME NEW s \in StateType, NEW i \in Instruction, i.op \in StoreOp
  PROVE  Keeps(s, i)
  <1> DEFINE t == AfterFetch(s)
             R == s.breg
             r == DataRequest(i, R)
  <1>1. R \in [Reg -> Int32]
    BY NextPcType
  <1>2. ~Alters(i, R, s.memory)
    BY NotAltered DEF StoreOp, BranchOp
  <1>3. ASSUME ~OtherPlace(i, R)
        PROVE  Executes(s, t, i, R) = CppExecutes(s, t, i, R)
    <2>1. i.kte16 \in 0 .. StoreOffsets - 1
      BY <1>3 DEF OtherPlace
    <2>2. AddressOf(r) = CppAddress(i, R)
      BY <1>1, <2>1, AddressesAre
    <2>3. MayCrash(i, R) <=> FailsOf(r)
      BY <2>2 DEF MayCrash, Unchecked, FailsOf, StoreOp
    <2>4. r.kind = "store" /\ r.dado = ToBytes(R[i.rt])
          /\ r.type = IF i.op = "SB" THEN "Byte" ELSE IF i.op = "SH" THEN "Half" ELSE "Word"
      BY DEF DataRequest, Of, StoreOp
    <2>5. EffectOf(t.memory, r) = CppStore(t.memory, i, R)
      <3> HIDE DEF r, t
      <3> QED
        BY <2>2, <2>4 DEF EffectOf, CppStore
    <2>6. Executes(s, t, i, R) =
            IF FailsOf(r) THEN {Exit(s)}
            ELSE {Running([t EXCEPT !.memory = EffectOf(t.memory, r)])}
      BY ExecutesStore
    <2>7. CppExecutes(s, t, i, R) =
            IF MayCrash(i, R) THEN {Exit(s)}
            ELSE {Running([t EXCEPT !.memory = CppStore(t.memory, i, R)])}
      BY CppExecutesStore
    <2> QED
      BY <2>3, <2>5, <2>6, <2>7
  <1> QED
    BY <1>2, <1>3, SameKeeps

\* The value of a half-word: its sign only counts if it is extended.
LEMMA HalfSigns ==
  ASSUME NEW v \in Int4
  PROVE  /\ SignExtended(v, 2) \in Int4 /\ ZeroExtended(v, 2) \in Int4
         /\ ToInt(ZeroExtended(v, 2)) >= 0
         /\ v[1] >= ByteCount \div 2 => ToInt(SignExtended(v, 2)) < 0
         /\ v[1] < ByteCount \div 2 => SignExtended(v, 2) = ZeroExtended(v, 2)
  <1> DEFINE B == ByteCount
             S == B * B
             k == B \div 2
             x == v[0] + B * v[1]
             M == Modulus
  <1>1. /\ v[0] \in 0 .. B - 1 /\ v[1] \in 0 .. B - 1 /\ B \in Nat /\ B >= 2
    BY BytesFacts DEF Int4, Byte
  <1>2. B = 2 * k /\ k \in Nat /\ k >= 1
    BY <1>1, MemoryAssumption
  <1>3. S \in Nat /\ S >= 4 /\ S * S = M /\ M \in Nat /\ M = 2 * Half /\ Half \in Nat
    <2>1. S \in Nat /\ S >= 4
      BY <1>1
    <2>2. B * B * B * B = S * S
      BY <1>1
    <2> QED
      BY <2>1, <2>2, MipsMachineAssumption, ModulusFacts, HalfAssumption
  <1>4. x \in 0 .. S - 1
    <2>1. B * v[1] \in Nat /\ B * v[1] <= B * (B - 1)
      BY <1>1
    <2>2. B * (B - 1) = S - B
      BY <1>1
    <2> QED
      BY <1>1, <1>3, <2>1, <2>2
  <1>5. 2 * S <= M
    <2>1. S * S = S * (S - 2) + 2 * S /\ S * (S - 2) >= 0
      BY <1>3
    <2> QED
      BY <1>3, <2>1
  <1>6. SignExtended(v, 2) \in Int4 /\ ZeroExtended(v, 2) \in Int4
    BY <1>1, BytesFacts DEF SignExtended, ZeroExtended, Int4, Byte
  <1>z. /\ ZeroExtended(v, 2)[0] = v[0] /\ ZeroExtended(v, 2)[1] = v[1]
        /\ ZeroExtended(v, 2)[2] = 0 /\ ZeroExtended(v, 2)[3] = 0
    BY DEF ZeroExtended
  <1>7. v[1] < k => SignExtended(v, 2) = ZeroExtended(v, 2)
    BY DEF SignExtended, ZeroExtended
  <1>s. v[1] >= k => /\ SignExtended(v, 2)[0] = v[0] /\ SignExtended(v, 2)[1] = v[1]
                     /\ SignExtended(v, 2)[2] = B - 1 /\ SignExtended(v, 2)[3] = B - 1
    BY <1>1, <1>2 DEF SignExtended
  <1>8. ToInt(ZeroExtended(v, 2)) = AsInt(x)
    <2>1. v[1] + B * (0 + B * 0) = v[1]
      BY <1>1
    <2> QED
      BY <1>z, <2>1 DEF ToInt
  <1>9. v[1] >= k => ToInt(SignExtended(v, 2)) = AsInt(x - S + M)
    <2>1. v[0] + B * (v[1] + B * ((B - 1) + B * (B - 1))) = x - S + M
      <3>1. (B - 1) + B * (B - 1) = S - 1
        BY <1>1
      <3>2. B * (S - 1) = B * S - B /\ B * S \in Int
        BY <1>1, <1>3
      <3>3. B * (v[1] + (B * S - B)) = B * v[1] + B * (B * S - B)
        BY <1>1, <1>3, <3>2
      <3>4. B * (B * S - B) = B * (B * S) - S
        BY <1>1, <3>2
      <3>5. B * (B * S) = M
        <4>1. B * (B * S) = B * B * S
          BY <1>1, <1>3
        <4> QED
          BY <1>3, <4>1
      <3>6. /\ B * v[1] \in Int /\ v[0] \in Int /\ S \in Int /\ M \in Int
            /\ x = v[0] + B * v[1]
        BY <1>1, <1>3
      <3>7. v[1] + B * (S - 1) = v[1] + (B * S - B)
        BY <3>2
      <3>8. B * (v[1] + B * (S - 1)) = B * v[1] + (M - S)
        BY <3>3, <3>4, <3>5, <3>7
      <3> DEFINE z == B * (v[1] + B * (S - 1))
                 y == B * v[1]
      <3> HIDE DEF x, S, M, z, y
      <3>9. z = y + (M - S) /\ y \in Int /\ x = v[0] + y
        BY <3>6, <3>8 DEF z, y
      <3>10. v[0] + z = x - S + M
        BY <3>6, <3>9
      <3> QED
        BY <3>1, <3>10 DEF z
    <2> QED
      BY <1>s, <2>1 DEF ToInt
  <1>10. v[1] >= k => S <= 2 * x
    <2>1. B * v[1] \in Int /\ (v[1] >= k => B * (v[1] - k) >= 0)
      BY <1>1, <1>2
    <2>2. B * (v[1] - k) = B * v[1] - B * k
      BY <1>1, <1>2
    <2>3. 2 * (B * k) = S /\ B * k \in Int
      BY <1>1, <1>2
    <2> QED
      BY <1>1, <2>1, <2>2, <2>3
  <1> HIDE DEF x, S, k
  <1>11. AsInt(x) >= 0
    <2>1. x = Modulus * 0 + x /\ x \in 0 .. Modulus - 1 /\ x \in Int /\ 0 \in Int
      BY <1>3, <1>4, <1>5
    <2>2. x % Modulus = x
      BY <2>1, ModulusFacts, DivisionIs, Zenon
    <2> QED
      BY <1>3, <1>4, <1>5, <2>2 DEF AsInt
  <1>12. v[1] >= k => AsInt(x - S + M) < 0
    <2> SUFFICES ASSUME v[1] >= k PROVE AsInt(x - S + M) < 0
      OBVIOUS
    <2>1. /\ x - S + M \in Half .. Modulus - 1 /\ x - S + M \in Int
      BY <1>3, <1>4, <1>5, <1>10
    <2> DEFINE y == x - S + M
    <2>2. y = Modulus * 0 + y /\ y \in 0 .. Modulus - 1 /\ y \in Int /\ 0 \in Int
      BY <1>3, <2>1
    <2> HIDE DEF y
    <2>3. y % Modulus = y
      BY <2>2, ModulusFacts, DivisionIs, Zenon
    <2> QED
      BY <1>3, <2>1, <2>3 DEF AsInt, y
  <1> QED
    BY <1>6, <1>7, <1>8, <1>9, <1>11, <1>12 DEF k

\* An instruction that has loaded the word w.
HasLoaded(t, i, w) == Running([t EXCEPT !.breg[i.rt] = ToInt(w)])

LEMMA LoadsAre ==
  ASSUME NEW s, NEW t, NEW i, NEW R, i.op \in LoadOp
  PROVE  /\ FailsOf(DataRequest(i, R)) => Executes(s, t, i, R) = {Exit(s)}
         /\ ~FailsOf(DataRequest(i, R)) =>
              Executes(s, t, i, R) =
                {HasLoaded(t, i, w) :
                   w \in Load(t.memory, DataRequest(i, R).type, AddressOf(DataRequest(i, R)))}
         /\ MayCrash(i, R) /\ ~MayGetBy(i, R) => CppExecutes(s, t, i, R) = {Exit(s)}
         /\ ~MayCrash(i, R) /\ MayGetBy(i, R) =>
              CppExecutes(s, t, i, R) = {HasLoaded(t, i, w) : w \in CppLoad(t.memory, i, R)}
  <1> DEFINE all(L) == {HasLoaded(t, i, w) : w \in L}
             loaded == CppLoad(t.memory, i, R)
  <1>1. Executes(s, t, i, R) =
          IF FailsOf(DataRequest(i, R)) THEN {Exit(s)} ELSE AfterLoad(t, i, R)
    BY ExecutesLoad
  <1>2. AfterLoad(t, i, R) =
          all(Load(t.memory, DataRequest(i, R).type, AddressOf(DataRequest(i, R))))
    BY DEF AfterLoad, HasLoaded
  <1>3. CppExecutes(s, t, i, R) =
          {o \in {Exit(s)} : MayCrash(i, R)} \cup all({v \in loaded : MayGetBy(i, R)})
    <2>1. i.op \notin StoreOp /\ i.op \notin MduOp /\ i.op # "SYSCALL"
      BY DEF LoadOp, StoreOp, MduOp
    <2> QED
      BY <2>1 DEF CppExecutes, HasLoaded
  <1> HIDE DEF loaded
  <1>4. ASSUME MayCrash(i, R), ~MayGetBy(i, R) PROVE CppExecutes(s, t, i, R) = {Exit(s)}
    BY <1>3, <1>4
  <1>5. ASSUME ~MayCrash(i, R), MayGetBy(i, R) PROVE CppExecutes(s, t, i, R) = all(loaded)
    <2>1. {v \in loaded : MayGetBy(i, R)} = loaded
      BY <1>5
    <2>2. {o \in {Exit(s)} : MayCrash(i, R)} = {}
      BY <1>5
    <2> QED
      BY <1>3, <2>1, <2>2
  <1> QED
    BY <1>1, <1>2, <1>4, <1>5 DEF loaded

\* A word that is loaded from the first byte of the memory.
LEMMA FirstLoads ==
  ASSUME NEW m \in Memory
  PROVE  /\ 0 \div 4 = 0 /\ InRange(0) /\ WordAt(m, 0) = {m[0]} /\ m[0] \in Int4
         /\ LoadWord("Byte", m[0], 0) = SignExtended(m[0], 1)
         /\ Load(m, "Byte", 0) = {SignExtended(m[0], 1)}
         /\ Load(m, "Word", 0) = {m[0]}
  <1>1. 0 \div 4 = 0 /\ 0 % 4 = 0
    OBVIOUS
  <1>2. InRange(0) /\ WordAt(m, 0) = {m[0]} /\ m[0] \in Int4
    BY <1>1, BytesFacts DEF InRange, WordAt, Memory
  <1>3. Shifted(m[0], 0) = m[0]
    BY <1>2 DEF Shifted, Int4
  <1>4. LoadWord("Byte", m[0], 0) = SignExtended(m[0], 1) /\ LoadWord("Word", m[0], 0) = m[0]
    BY <1>1, <1>3 DEF LoadWord, lb, lw
  <1>5. /\ Load(m, "Byte", 0) = {LoadWord("Byte", w, 0) : w \in {m[0]}}
        /\ Load(m, "Word", 0) = {LoadWord("Word", w, 0) : w \in {m[0]}}
    BY <1>1, <1>2, LoadWords
  <1> QED
    BY <1>1, <1>2, <1>4, <1>5

LEMMA WordKeeps ==
  ASSUME NEW s \in StateType, NEW i \in Instruction, i.op \in {"LB", "LHU", "LW"}
  PROVE  Keeps(s, i)
  <1> DEFINE t == AfterFetch(s)
             R == s.breg
             m == t.memory
             r == DataRequest(i, R)
             a == CppAddress(i, R)
  <1>1. R \in [Reg -> Int32] /\ m \in Memory /\ i.op \in LoadOp
    BY NextPcType DEF AfterFetch, StateType, LoadOp
  <1>2. ~Alters(i, R, s.memory)
    BY NotAltered DEF BranchOp
  <1> HIDE DEF t, R, m, r, a
  <1>3. /\ FailsOf(r) => Executes(s, t, i, R) = {Exit(s)}
        /\ ~FailsOf(r) =>
             Executes(s, t, i, R) = {HasLoaded(t, i, w) : w \in Load(m, r.type, AddressOf(r))}
        /\ MayCrash(i, R) /\ ~MayGetBy(i, R) => CppExecutes(s, t, i, R) = {Exit(s)}
        /\ ~MayCrash(i, R) /\ MayGetBy(i, R) =>
             CppExecutes(s, t, i, R) = {HasLoaded(t, i, w) : w \in CppLoad(m, i, R)}
    BY <1>1, LoadsAre DEF r, m
  <1>4. CASE i.op = "LW"
    <2>1. AddressOf(r) = a /\ r.type = "Word" /\ a \in Nat
      BY <1>1, <1>4, AddressesAre, CppFieldsType DEF r, a
    <2>2. (MayCrash(i, R) <=> FailsOf(r)) /\ (MayGetBy(i, R) <=> ~FailsOf(r))
      BY <1>4, <2>1 DEF MayCrash, MayGetBy, Unchecked, FailsOf, a
    <2>3. CppLoad(m, i, R) = WordAt(m, a \div 4)
      BY <1>4 DEF CppLoad, a
    <2>4. ~FailsOf(r) => Load(m, "Word", a) = WordAt(m, a \div 4)
      <3>1. \A w : LoadWord("Word", w, a) = w
        BY DEF LoadWord, lw
      <3> QED
        BY <2>1, <3>1, LoadWords DEF FailsOf
    <2>5. Executes(s, t, i, R) = CppExecutes(s, t, i, R)
      BY <1>3, <2>1, <2>2, <2>3, <2>4
    <2> QED
      BY <1>2, <2>5, SameKeeps DEF t, R
  <1>5. CASE i.op \in {"LB", "LHU"}
    <2>1. ASSUME ~OtherPlace(i, R)
          PROVE  Executes(s, t, i, R) = CppExecutes(s, t, i, R)
      <3>1. CppIndex(i, R) = 0 /\ i.kte16 >= 0
        BY <1>5, <2>1 DEF OtherPlace
      <3>2. /\ AddressOf(r) = 0
            /\ i.op = "LB" => r.type = "Byte"
            /\ i.op = "LHU" => r.type = "Word"
        BY <1>1, <1>5, <3>1, AddressesAre DEF r
      <3>3. ~FailsOf(r) /\ ~MayCrash(i, R) /\ MayGetBy(i, R)
        BY <1>1, <1>5, <3>1, <3>2, FirstLoads, BytesFacts
          DEF FailsOf, MayCrash, MayGetBy, Unchecked
      <3>4. CASE i.op = "LB"
        <4>1. CppLoad(m, i, R) = {SignExtended(w, 1) : w \in WordAt(m, 0)}
          BY <3>1, <3>4 DEF CppLoad
        <4>2. CppLoad(m, i, R) = Load(m, r.type, AddressOf(r))
          BY <1>1, <3>2, <3>4, <4>1, FirstLoads
        <4> QED
          BY <1>3, <3>3, <4>2
      <3>5. CASE i.op = "LHU"
        <4>1. CppLoad(m, i, R) = WordAt(m, 0)
          BY <3>1, <3>5 DEF CppLoad
        <4>2. CppLoad(m, i, R) = Load(m, r.type, AddressOf(r))
          BY <1>1, <3>2, <3>5, <4>1, FirstLoads
        <4> QED
          BY <1>3, <3>3, <4>2
      <3> QED
        BY <1>5, <3>4, <3>5
    <2> QED
      BY <1>2, <2>1, SameKeeps DEF t, R
  <1> QED
    BY <1>4, <1>5

\* Half-words: what the two find in a word.
LEMMA HalvesAre ==
  ASSUME NEW w \in Int4, NEW a \in Nat
  PROVE  /\ lh(w, a) \in Int4 /\ CppHalf(w, a) \in Int4
         /\ a % 2 = 1 => lh(w, a) = CppHalf(w, a)
         /\ a % 2 = 0 => /\ ToInt(CppHalf(w, a)) >= 0
                         /\ ToInt(lh(w, a)) >= 0 => lh(w, a) = CppHalf(w, a)
  <1> DEFINE v == Shifted(w, a % 4)
  <1>1. a % 4 \in 0 .. 3 /\ (a % 2 = 0 \/ a % 2 = 1)
    OBVIOUS
  <1>2. v \in Int4
    BY <1>1, BytesFacts DEF Shifted, Int4
  <1> HIDE DEF v
  <1>3. a % 2 = 1 => lh(w, a) = MinusOne /\ CppHalf(w, a) = MinusOne
    BY DEF lh, CppHalf
  <1>4. a % 2 = 0 => lh(w, a) = SignExtended(v, 2) /\ CppHalf(w, a) = ZeroExtended(v, 2)
    BY DEF lh, CppHalf, v
  <1>5. v[1] \in Int /\ ByteCount \div 2 \in Int
    BY <1>2, BytesFacts, DivisionOf DEF Int4, Byte
  <1>6. v[1] >= ByteCount \div 2 \/ v[1] < ByteCount \div 2
    BY <1>5
  <1>7. ToInt(SignExtended(v, 2)) \in Int
    BY <1>2, HalfSigns, ToIntType, IntIsInt
  <1>8. ToInt(SignExtended(v, 2)) >= 0 => ~(ToInt(SignExtended(v, 2)) < 0)
    BY <1>7
  <1> QED
    BY <1>1, <1>2, <1>3, <1>4, <1>6, <1>8, HalfSigns, BytesFacts

LEMMA HalfKeeps ==
  ASSUME NEW s \in StateType, NEW i \in Instruction, i.op = "LH"
  PROVE  Keeps(s, i)
  <1> DEFINE t == AfterFetch(s)
             R == s.breg
             m == t.memory
             r == DataRequest(i, R)
             a == CppAddress(i, R)
             W == WordAt(m, a \div 4)
             X == Executes(s, t, i, R)
             Y == CppExecutes(s, t, i, R)
  <1>1. /\ t \in StateType /\ R \in [Reg -> Int32] /\ m \in Memory /\ m = s.memory
        /\ a \in Nat /\ i.op \in LoadOp /\ i.rt \in Reg
    BY NextPcType, CppFieldsType, InstructionFields, FieldTypes
      DEF AfterFetch, WithPc, StateType, LoadOp
  <1>2. AddressOf(r) = a /\ r.type = "Half"
    BY <1>1, AddressesAre
  <1>3. W \subseteq Int4 /\ W # {}
    BY <1>1, WordAtType
  <1>4. Alters(i, R, m) <=> NegativeHalf(i, R, m)
    BY TakenIs DEF Alters, NegativeConstant, LongProduct
  <1>5. /\ StepOf(s, i) = {Visible(o) : o \in X}
        /\ CppStep(s, i) = {Visible(o) : o \in Y}
    BY StepsAre
  <1>6. (MayCrash(i, R) <=> ~InRange(a)) /\ (MayGetBy(i, R) <=> InRange(a))
        /\ (FailsOf(r) <=> ~InRange(a))
    BY <1>2 DEF MayCrash, MayGetBy, Unchecked, FailsOf
  <1> HIDE DEF t, R, m, r, a, W, X, Y
  <1>7. CASE ~InRange(a)
    <2>1. X = {Exit(s)} /\ Y = {Exit(s)}
      BY <1>1, <1>6, <1>7, LoadsAre DEF X, Y, r
    <2>2. ~NegativeHalf(i, R, m)
      BY <1>7 DEF NegativeHalf, a
    <2> QED
      BY <1>1, <1>4, <1>5, <2>1, <2>2 DEF Keeps, R
  <1>8. CASE InRange(a)
    <2>1. Load(m, "Half", a) = {lh(w, a) : w \in W}
      <3>1. \A w : LoadWord("Half", w, a) = lh(w, a)
        BY DEF LoadWord
      <3>2. Load(m, "Half", a) = {LoadWord("Half", w, a) : w \in W}
        BY <1>1, <1>8, LoadWords DEF W
      <3> QED
        BY <3>1, <3>2
    <2>2. CppLoad(m, i, R) = {CppHalf(w, a) : w \in W}
      BY DEF CppLoad, W, a
    <2>3. X = {HasLoaded(t, i, w) : w \in Load(m, "Half", a)}
      BY <1>1, <1>2, <1>6, <1>8, LoadsAre DEF X, r, m
    <2>4. Y = {HasLoaded(t, i, w) : w \in CppLoad(m, i, R)}
      BY <1>1, <1>6, <1>8, LoadsAre DEF Y, m
    <2>5. /\ X = {HasLoaded(t, i, lh(w, a)) : w \in W}
          /\ Y = {HasLoaded(t, i, CppHalf(w, a)) : w \in W}
      BY <2>1, <2>2, <2>3, <2>4
    <2>6. /\ StepOf(s, i) = {Visible(HasLoaded(t, i, lh(w, a))) : w \in W}
          /\ CppStep(s, i) = {Visible(HasLoaded(t, i, CppHalf(w, a))) : w \in W}
      BY <1>5, <2>5
    <2>7. ASSUME NEW x \in Int4, NEW y \in Int4
          PROVE  Visible(HasLoaded(t, i, x)) = Visible(HasLoaded(t, i, y)) <=>
                    i.rt = ZERO \/ ToInt(x) = ToInt(y)
      <3> DEFINE u == [t EXCEPT !.breg[i.rt] = ToInt(x)]
                 v == [t EXCEPT !.breg[i.rt] = ToInt(y)]
      <3>0. ToInt(x) \in Int32 /\ ToInt(y) \in Int32
        BY ToIntType
      <3>1. /\ u \in StateType /\ v \in StateType
            /\ u.pc = v.pc /\ u.lo = v.lo /\ u.hi = v.hi /\ u.memory = v.memory
            /\ u.breg[i.rt] = ToInt(x) /\ v.breg[i.rt] = ToInt(y)
            /\ \A q \in Reg : q # i.rt => u.breg[q] = v.breg[q]
        BY <1>1, <3>0 DEF StateType
      <3>2. HasLoaded(t, i, x) = Running(u) /\ HasLoaded(t, i, y) = Running(v)
        BY DEF HasLoaded
      <3> HIDE DEF u, v
      <3>3. Visible(Running(u)) = Visible(Running(v)) <=>
               \A q \in Reg : q # ZERO => u.breg[q] = v.breg[q]
        BY <3>1, ShowsSame
      <3> QED
        BY <1>1, <3>1, <3>2, <3>3
    <2>8. ASSUME NEW w \in W PROVE w \in Int4 /\ lh(w, a) \in Int4 /\ CppHalf(w, a) \in Int4
      BY <1>1, <1>3, HalvesAre
    <2>9. NegativeHalf(i, R, m) <=>
            i.rt # ZERO /\ a % 2 = 0 /\ \E w \in W : ToInt(lh(w, a)) < 0
      BY <1>8, <2>1 DEF NegativeHalf, a
    <2>10. ASSUME NegativeHalf(i, R, m) PROVE StepOf(s, i) # CppStep(s, i)
      <3>1. PICK w \in W : ToInt(lh(w, a)) < 0 /\ i.rt # ZERO /\ a % 2 = 0
        BY <2>9, <2>10
      <3>2. ASSUME NEW v \in W
            PROVE  Visible(HasLoaded(t, i, lh(w, a))) # Visible(HasLoaded(t, i, CppHalf(v, a)))
        <4>1. ToInt(CppHalf(v, a)) >= 0
          BY <1>1, <2>8, <3>1, HalvesAre
        <4>2. ToInt(CppHalf(v, a)) \in Int /\ ToInt(lh(w, a)) \in Int
          BY <2>8, ToIntType, IntIsInt
        <4>3. ToInt(lh(w, a)) # ToInt(CppHalf(v, a))
          BY <3>1, <4>1, <4>2
        <4> QED
          BY <2>7, <2>8, <3>1, <4>3
      <3>3. Visible(HasLoaded(t, i, lh(w, a))) \in StepOf(s, i)
        BY <2>6
      <3>4. Visible(HasLoaded(t, i, lh(w, a))) \notin CppStep(s, i)
        BY <2>6, <3>2
      <3> QED
        BY <3>3, <3>4
    <2>11. ASSUME ~NegativeHalf(i, R, m) PROVE StepOf(s, i) = CppStep(s, i)
      <3>1. ASSUME NEW w \in W
            PROVE  Visible(HasLoaded(t, i, lh(w, a))) = Visible(HasLoaded(t, i, CppHalf(w, a)))
        <4>1. CASE i.rt = ZERO
          BY <2>7, <2>8, <4>1
        <4>2. CASE a % 2 = 0 /\ ~(ToInt(lh(w, a)) < 0)
          <5>1. ToInt(lh(w, a)) \in Int
            BY <2>8, ToIntType, IntIsInt
          <5>2. ToInt(lh(w, a)) >= 0
            BY <4>2, <5>1
          <5> QED
            BY <1>1, <2>8, <4>2, <5>2, HalvesAre
        <4>3. CASE a % 2 # 0
          <5>1. a % 2 = 1
            BY <1>1, <4>3
          <5> QED
            BY <1>1, <2>8, <5>1, HalvesAre
        <4> QED
          BY <2>9, <2>11, <4>1, <4>2, <4>3
      <3> QED
        BY <2>6, <3>1
    <2> QED
      BY <1>1, <1>4, <2>10, <2>11 DEF Keeps, R
  <1> QED
    BY <1>7, <1>8

LEMMA InstructionKeeps ==
  ASSUME NEW s \in StateType, NEW i \in Instruction
  PROVE  Keeps(s, i)
  <1>1. i.op \in LoadOp => i.op \in {"LB", "LHU", "LW"} \/ i.op = "LH"
    BY DEF LoadOp
  <1> QED
    BY <1>1, ComputesKeeps, SyscallKeeps, MduKeeps, StoreKeeps, WordKeeps, HalfKeeps

\* In every state of either processor, for ints, bytes and fields of any width,
\* an instruction does in mips_v0 what it did in MipsCpp unless it has a negative
\* constant, a long product, a half-word with a sign, another place or a service;
\* and the first three always show.
THEOREM PortMeaning == PortSpec => []PortKeepsMeaning
  <1>1. PortTypeOK => PortKeepsMeaning
    <2> SUFFICES ASSUME PortTypeOK, ~FetchFails(state), NEW i \in Fetched(state)
                 PROVE  Keeps(state, i)
      BY DEF PortKeepsMeaning, Keeps
    <2>1. state \in StateType
      BY DEF PortTypeOK, StateType
    <2> QED
      BY <2>1, FetchedType, InstructionKeeps
  <1> QED
    BY <1>1, PortTypes, PTL
===============================================================================
