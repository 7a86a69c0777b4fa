------------------------------- MODULE MduProofs -------------------------------
(***************************************************************************)
(* The results of the direct program are right for ints of any width.      *)
(***************************************************************************)
EXTENDS MduDirect, MduValueProofs

\* The high word and the low word of a product, read separately, are the
\* product (mdu_direct_master.h:28-31).
LEMMA JoinIsProduct ==
  ASSUME NEW a \in Int32, NEW b \in Int32
  PROVE  Join(HighWord(a, b), LowWord(a, b)) = a * b
  <1>1. a * b \in Int
    BY IntIsInt
  <1>2. a * b = Modulus * ((a * b) \div Modulus) + ((a * b) % Modulus)
    BY <1>1, DivMod, ModulusFacts
  <1>3. (a * b) \div Modulus \in Int
    BY <1>1, DivMod, ModulusFacts
  <1>4. Modulus * ((a * b) \div Modulus) = ((a * b) \div Modulus) * Modulus
    BY <1>3, ModulusFacts
  <1>5. AsUnsigned(LowWord(a, b)) = (a * b) % Modulus
    BY <1>1, AsIntType DEF LowWord
  <1> QED
    BY <1>2, <1>4, <1>5 DEF Join, HighWord

\* What one testcase prints, whatever was in the registers before.
LEMMA TestcasePrints ==
  ASSUME NEW a \in Int32, NEW b \in Int32, do_testcase(a, b)
  PROVE  /\ printed'.a = a /\ printed'.b = b
         /\ printed'.joined = Join(HighWord(a, b), LowWord(a, b))
         /\ DivisionDefined(a, b) => /\ printed'.div = Quotient(a, b)
                                     /\ printed'.mod = Remainder(a, b)
  <1>1. DirectReached(OpA) /\ DirectReached(OpB)
    BY DEF DirectReached, OpA, OpB, StartAddr, EndAddr
  <1>2. opA' = a /\ opB' = b
    BY <1>1 DEF do_testcase, direct_write
  <1>3. /\ direct_read(MHigh, a, b) = {HighWord(a, b)}
        /\ direct_read(MLow, a, b) = {LowWord(a, b)}
        /\ DivisionDefined(a, b) =>
              /\ direct_read(Div, a, b) = {Quotient(a, b)}
              /\ direct_read(Mod, a, b) = {Remainder(a, b)}
    BY DEF direct_read, calculate, MHigh, MLow, Div, Mod
  <1> QED
    BY <1>2, <1>3 DEF do_testcase

\* For every pair of ints of every width, the two halves of the product join to
\* the product, and quotient and remainder obey the laws of division wherever
\* the division is defined.
THEOREM DirectResults == DirectSpec => [](JoinedProduct /\ DivisionLaws)
  <1>1. DirectInit => JoinedProduct /\ DivisionLaws
    BY DEF DirectInit, JoinedProduct, DivisionLaws
  <1>2. JoinedProduct /\ DivisionLaws /\ [DirectNext]_direct_vars
          => (JoinedProduct /\ DivisionLaws)'
    <2>1. ASSUME NEW a \in Int32, NEW b \in Int32, do_testcase(a, b)
          PROVE  JoinedProduct' /\ DivisionLaws'
      <3>1. JoinedProduct'
        BY <2>1, TestcasePrints, JoinIsProduct DEF JoinedProduct
      <3>2. a \in Int /\ b \in Int
        BY IntIsInt
      <3>3. DivisionDefined(a, b) =>
              /\ Quotient(a, b) * b + Remainder(a, b) = a
              /\ Magnitude(Remainder(a, b)) < Magnitude(b)
              /\ Remainder(a, b) < 0 => a < 0
              /\ Remainder(a, b) > 0 => a > 0
        BY <3>2, DivisionIsExact DEF DivisionDefined
      <3>4. DivisionLaws'
        BY <2>1, <3>3, TestcasePrints DEF DivisionLaws
      <3> QED
        BY <3>1, <3>4
    <2>2. CASE UNCHANGED direct_vars
      BY <2>2 DEF direct_vars, JoinedProduct, DivisionLaws
    <2> QED
      BY <2>1, <2>2 DEF DirectNext
  <1> QED
    BY <1>1, <1>2, PTL DEF DirectSpec

\* Every quotient and remainder that is printed obeys the laws of division.
COROLLARY DivisionsAreRight == DirectSpec => []DivisionLaws
  BY DirectResults, PTL

-------------------------------------------------------------------------------
(* Types *)

\* The types of one printed line, whatever the operands.
LEMMA TestcaseTypes ==
  ASSUME NEW a \in Int32, NEW b \in Int32, do_testcase(a, b)
  PROVE  /\ printed'.high \in Int32 /\ printed'.low \in Int32
         /\ {printed'.div, printed'.mod} \subseteq Undefined
         /\ ~crashed' => {printed'.div, printed'.mod} \subseteq Int32
         /\ opA' = a /\ opB' = b /\ wait_left' = wait_left /\ crashed' \in BOOLEAN
  <1>1. DirectReached(OpA) /\ DirectReached(OpB)
    BY DEF DirectReached, OpA, OpB, StartAddr, EndAddr
  <1>2. opA' = a /\ opB' = b
    BY <1>1 DEF do_testcase, direct_write
  <1>3. direct_read(MHigh, a, b) \subseteq Int32 /\ direct_read(MLow, a, b) \subseteq Int32
    <2>1. /\ direct_read(MHigh, a, b) = {HighWord(a, b)}
          /\ direct_read(MLow, a, b) = {LowWord(a, b)}
      BY DEF direct_read, calculate, MHigh, MLow, Div, Mod
    <2> QED
      BY <2>1, HighWordType, LowWordType
  <1>4. direct_read(Div, a, b) \subseteq Undefined /\ direct_read(Mod, a, b) \subseteq Undefined
    BY CalculateType DEF direct_read, Undefined
  <1>5. PICK high \in direct_read(MHigh, a, b), low \in direct_read(MLow, a, b),
            div \in direct_read(Div, a, b), mod \in direct_read(Mod, a, b) :
          /\ printed' = [a |-> a, b |-> b, high |-> high, low |-> low,
                         joined |-> Join(high, low), div |-> div, mod |-> mod]
          /\ crashed' = (Trap \in {div, mod})
    BY <1>2 DEF do_testcase
  <1>6. printed'.high \in Int32 /\ printed'.low \in Int32
    BY <1>3, <1>5
  <1>7. printed'.div = div /\ printed'.mod = mod
    BY <1>5
  <1>8. div \in Int32 \cup {Trap} /\ mod \in Int32 \cup {Trap}
    BY <1>4 DEF Undefined
  <1>9. crashed' \in BOOLEAN /\ (~crashed' => div # Trap /\ mod # Trap)
    <2>1. crashed' = (Trap \in {div, mod})
      BY <1>5
    <2>2. crashed' \in BOOLEAN
      BY <2>1
    <2>3. ~crashed' => div # Trap /\ mod # Trap
      BY <2>1
    <2> QED
      BY <2>2, <2>3
  <1>10. wait_left' = wait_left
    BY DEF do_testcase
  <1> QED
    BY <1>2, <1>6, <1>7, <1>8, <1>9, <1>10 DEF Undefined

\* For ints of any width, what the direct program reads from the MDU fits in an
\* int, unless the division was undefined and ended the program.
THEOREM DirectTypes == DirectSpec => []DirectTypeOK
  <1>1. DirectInit => DirectTypeOK
    <2>1. DirectInit => MduTypeOK /\ printed = None
      BY WaitAssumption DEF DirectInit, MduInit, MduTypeOK
    <2>2. DirectInit => crashed \in BOOLEAN
      BY DEF DirectInit
    <2> QED
      BY <2>1, <2>2 DEF DirectTypeOK
  <1>2. DirectTypeOK /\ [DirectNext]_direct_vars => DirectTypeOK'
    BY TestcaseTypes DEF DirectNext, direct_vars, mdu_vars, DirectTypeOK, MduTypeOK
  <1> QED
    BY <1>1, <1>2, PTL DEF DirectSpec
===============================================================================
