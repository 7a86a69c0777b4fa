---------------------------- MODULE MduValueProofs ----------------------------
(***************************************************************************)
(* The arithmetic of the MDU is right for ints of any width.               *)
(***************************************************************************)
EXTENDS Mdu, TLAPS

LEMMA ModulusFacts == Modulus \in Nat /\ Modulus > 0 /\ Modulus = 2 * Half
  BY HalfAssumption DEF Modulus

\* Division with a positive divisor.
LEMMA DivMod ==
  ASSUME NEW x \in Int, NEW d \in Nat, d > 0
  PROVE  /\ x \div d \in Int /\ x % d \in 0 .. d - 1
         /\ x = d * (x \div d) + (x % d)
  OBVIOUS

LEMMA IntIsInt == Int32 \subseteq Int
  BY HalfAssumption DEF Int32

LEMMA AsIntType ==
  ASSUME NEW x \in Int
  PROVE  AsInt(x) \in Int32 /\ AsUnsigned(AsInt(x)) = x % Modulus
  <1>1. x % Modulus \in 0 .. Modulus - 1
    BY DivMod, ModulusFacts
  <1> QED
    BY <1>1, ModulusFacts, HalfAssumption DEF AsInt, AsUnsigned, Int32

LEMMA MagnitudeFacts ==
  ASSUME NEW x \in Int
  PROVE  /\ Magnitude(x) \in Nat
         /\ x >= 0 => Magnitude(x) = x
         /\ x < 0 => Magnitude(x) = -x
  BY DEF Magnitude

\* Quotient and remainder give back the dividend, and the remainder is smaller
\* than the divisor and has the sign of the dividend.
LEMMA DivisionIsExact ==
  ASSUME NEW a \in Int, NEW b \in Int, b # 0
  PROVE  /\ Quotient(a, b) * b + Remainder(a, b) = a
         /\ Magnitude(Remainder(a, b)) < Magnitude(b)
         /\ Remainder(a, b) < 0 => a < 0
         /\ Remainder(a, b) > 0 => a > 0
  <1> DEFINE q == Magnitude(a) \div Magnitude(b)
             r == Magnitude(a) % Magnitude(b)
  <1>1. Magnitude(a) \in Nat /\ Magnitude(b) \in Nat /\ Magnitude(b) > 0
    BY MagnitudeFacts
  <1>2. q \in Int /\ r \in 0 .. Magnitude(b) - 1 /\ Magnitude(a) = Magnitude(b) * q + r
    BY <1>1, DivMod
  <1>3. Quotient(a, b) = IF (a < 0) = (b < 0) THEN q ELSE -q
    BY DEF Quotient
  <1>4. Remainder(a, b) = IF a < 0 THEN -r ELSE r
    BY MagnitudeFacts DEF Remainder
  <1> HIDE DEF q, r
  <1>5. Quotient(a, b) * b = IF a < 0 THEN -(Magnitude(b) * q) ELSE Magnitude(b) * q
    <2>1. CASE b > 0
      BY <1>2, <1>3, <2>1, MagnitudeFacts
    <2>2. CASE b < 0
      BY <1>2, <1>3, <2>2, MagnitudeFacts
    <2> QED
      BY <2>1, <2>2
  <1>6. Magnitude(b) * q \in Int
    BY <1>1, <1>2
  <1>7. Quotient(a, b) * b + Remainder(a, b) = a
    <2>1. CASE a < 0
      <3>1. Magnitude(a) = -a /\ a = -(Magnitude(b) * q + r)
        BY <1>2, <1>6, <2>1, MagnitudeFacts
      <3>2. Quotient(a, b) * b = -(Magnitude(b) * q) /\ Remainder(a, b) = -r
        BY <1>4, <1>5, <2>1
      <3> QED
        BY <1>2, <1>6, <3>1, <3>2
    <2>2. CASE a >= 0
      <3>1. a = Magnitude(b) * q + r
        BY <1>2, <2>2, MagnitudeFacts
      <3>2. Quotient(a, b) * b = Magnitude(b) * q /\ Remainder(a, b) = r
        BY <1>4, <1>5, <2>2
      <3> QED
        BY <3>1, <3>2
    <2> QED
      BY <2>1, <2>2
  <1>8. Magnitude(Remainder(a, b)) = r
    BY <1>2, <1>4 DEF Magnitude
  <1>9. Remainder(a, b) < 0 => a < 0
    BY <1>2, <1>4
  <1>10. Remainder(a, b) > 0 => a >= 0 /\ r > 0
    BY <1>2, <1>4
  <1>11. a = 0 => r = 0
    BY <1>1, <1>2, MagnitudeFacts
  <1> QED
    BY <1>1, <1>2, <1>7, <1>8, <1>9, <1>10, <1>11

-------------------------------------------------------------------------------
(* The results fit in the int they are returned in. *)

LEMMA HighWordType ==
  ASSUME NEW a \in Int32, NEW b \in Int32
  PROVE  HighWord(a, b) \in Int32
  <1>1. a \in Int /\ b \in Int /\ a * b \in Int /\ Half \in Int /\ Half >= 1
    BY IntIsInt, HalfAssumption
  <1>2. -(Half * Half) <= a * b /\ a * b <= Half * Half
    <2>1. -Half <= a /\ a <= Half /\ -Half <= b /\ b <= Half
      BY <1>1 DEF Int32
    <2>2. \A x \in Nat, y \in Nat : x <= Half /\ y <= Half => x * y <= Half * Half
      <3> SUFFICES ASSUME NEW x \in Nat, NEW y \in Nat, x <= Half, y <= Half
                   PROVE  x * y <= Half * Half
        OBVIOUS
      <3>1. (Half - x) * Half >= 0 /\ x * (Half - y) >= 0
        BY <1>1
      <3>2. (Half - x) * Half = Half * Half - x * Half /\ x * (Half - y) = x * Half - x * y
        BY <1>1
      <3>3. x * Half \in Int /\ x * y \in Int /\ Half * Half \in Int
        BY <1>1
      <3> QED
        BY <3>1, <3>2, <3>3
    <2>3. \A x \in Nat, y \in Nat : x * y \in Nat
      OBVIOUS
    <2>4. Half * Half \in Nat
      BY <1>1
    <2>5. CASE a >= 0 /\ b >= 0
      BY <1>1, <2>1, <2>2, <2>3, <2>4, <2>5
    <2>6. CASE a >= 0 /\ b < 0
      <3>1. a \in Nat /\ -b \in Nat /\ a * b = -(a * (-b))
        BY <1>1, <2>6
      <3>2. a * (-b) <= Half * Half /\ a * (-b) \in Nat
        BY <1>1, <2>1, <2>2, <2>3, <3>1
      <3> QED
        BY <2>4, <3>1, <3>2
    <2>7. CASE a < 0 /\ b >= 0
      <3>1. -a \in Nat /\ b \in Nat /\ a * b = -((-a) * b)
        BY <1>1, <2>7
      <3>2. (-a) * b <= Half * Half /\ (-a) * b \in Nat
        BY <1>1, <2>1, <2>2, <2>3, <3>1
      <3> QED
        BY <2>4, <3>1, <3>2
    <2>8. CASE a < 0 /\ b < 0
      <3>1. -a \in Nat /\ -b \in Nat /\ a * b = (-a) * (-b)
        BY <1>1, <2>8
      <3>2. (-a) * (-b) <= Half * Half /\ (-a) * (-b) \in Nat
        BY <1>1, <2>1, <2>2, <2>3, <3>1
      <3> QED
        BY <2>4, <3>1, <3>2
    <2> QED
      BY <1>1, <2>5, <2>6, <2>7, <2>8
  <1> DEFINE h == (a * b) \div Modulus
             l == (a * b) % Modulus
  <1>3. h \in Int /\ l \in 0 .. Modulus - 1 /\ a * b = Modulus * h + l
    BY <1>1, DivMod, ModulusFacts
  <1>4. HighWord(a, b) = h
    BY DEF HighWord
  <1> HIDE DEF h, l
  <1>5. Modulus * h = 2 * (Half * h) /\ Half * h \in Int /\ Half * Half \in Int
    BY <1>1, <1>3, ModulusFacts
  <1>6. h < Half
    <2> SUFFICES ASSUME h >= Half PROVE FALSE
      BY <1>1, <1>3
    <2>1. Half * (h - Half) >= 0 /\ Half * (h - Half) = Half * h - Half * Half
      BY <1>1, <1>3
    <2>2. Half * Half >= 1
      BY <1>1
    <2> QED
      BY <1>1, <1>2, <1>3, <1>5, <2>1, <2>2
  <1>7. h >= -Half
    <2> SUFFICES ASSUME h < -Half PROVE FALSE
      BY <1>1, <1>3
    <2>1. Half * (-Half - 1 - h) >= 0
          /\ Half * (-Half - 1 - h) = -(Half * Half) - Half - Half * h
      BY <1>1, <1>3
    <2>2. Half * Half >= 1 /\ l < 2 * Half
      BY <1>1, <1>3, ModulusFacts
    <2> QED
      BY <1>1, <1>2, <1>3, <1>5, <2>1, <2>2
  <1> QED
    BY <1>1, <1>3, <1>4, <1>6, <1>7 DEF Int32

LEMMA LowWordType ==
  ASSUME NEW a \in Int32, NEW b \in Int32
  PROVE  LowWord(a, b) \in Int32
  <1>1. a * b \in Int
    BY IntIsInt
  <1> QED
    BY <1>1, AsIntType DEF LowWord

LEMMA QuotientType ==
  ASSUME NEW a \in Int32, NEW b \in Int32, DivisionDefined(a, b)
  PROVE  Quotient(a, b) \in Int32 /\ Remainder(a, b) \in Int32
  <1> DEFINE q == Magnitude(a) \div Magnitude(b)
             r == Magnitude(a) % Magnitude(b)
  <1>1. a \in Int /\ b \in Int /\ b # 0 /\ Half \in Int /\ Half >= 1
        /\ -Half <= a /\ a < Half /\ -Half <= b /\ b < Half
    BY IntIsInt, HalfAssumption DEF DivisionDefined, Int32
  <1>2. /\ Magnitude(a) \in Nat /\ Magnitude(b) \in Nat /\ Magnitude(b) > 0
        /\ Magnitude(a) <= Half /\ Magnitude(b) <= Half
    BY <1>1, MagnitudeFacts
  <1>3. q \in Int /\ r \in 0 .. Magnitude(b) - 1 /\ Magnitude(a) = Magnitude(b) * q + r
    BY <1>2, DivMod
  <1>4. Quotient(a, b) = IF (a < 0) = (b < 0) THEN q ELSE -q
    BY DEF Quotient
  <1>5. Remainder(a, b) = IF a < 0 THEN -r ELSE r
    BY MagnitudeFacts, <1>1 DEF Remainder
  <1> HIDE DEF q, r
  <1>6. q >= 0
    <2> SUFFICES ASSUME q <= -1 PROVE FALSE
      BY <1>3
    <2>1. Magnitude(b) * (-1 - q) >= 0
          /\ Magnitude(b) * (-1 - q) = -Magnitude(b) - Magnitude(b) * q
      BY <1>2, <1>3
    <2> QED
      BY <1>2, <1>3, <2>1
  <1>7. q <= Magnitude(a) /\ (Magnitude(b) >= 2 => 2 * q <= Magnitude(a))
    <2>1. (Magnitude(b) - 1) * q >= 0 /\ (Magnitude(b) - 1) * q = Magnitude(b) * q - q
      BY <1>2, <1>3, <1>6
    <2>2. Magnitude(b) >= 2 =>
            /\ (Magnitude(b) - 2) * q >= 0
            /\ (Magnitude(b) - 2) * q = Magnitude(b) * q - 2 * q
      BY <1>2, <1>3, <1>6
    <2>3. Magnitude(b) * q \in Int
      BY <1>2, <1>3
    <2> QED
      BY <1>2, <1>3, <2>1, <2>2, <2>3
  <1>8. q = Half => ~((a < 0) = (b < 0))
    <2> SUFFICES ASSUME q = Half, (a < 0) = (b < 0) PROVE FALSE
      OBVIOUS
    <2>1. Magnitude(a) = Half /\ Magnitude(b) = 1
      BY <1>1, <1>2, <1>7
    <2>2. a = -Half /\ b = -1
      BY <1>1, <2>1, MagnitudeFacts
    <2> QED
      BY <2>2 DEF DivisionDefined
  <1>9. q <= Half
    BY <1>1, <1>2, <1>3, <1>7
  <1>10. Quotient(a, b) \in Int32
    BY <1>1, <1>3, <1>4, <1>6, <1>8, <1>9 DEF Int32
  <1>11. Remainder(a, b) \in Int32
    BY <1>1, <1>2, <1>3, <1>5 DEF Int32
  <1> QED
    BY <1>10, <1>11

\* What the MDU returns is an int, or the trap of an undefined division.
LEMMA CalculateType ==
  ASSUME NEW addr, NEW a \in Int32, NEW b \in Int32
  PROVE  calculate(addr, a, b) \subseteq Int32 \cup {Trap}
  <1>1. 0 \in Int32
    BY HalfAssumption DEF Int32
  <1> QED
    BY <1>1, HighWordType, LowWordType, QuotientType DEF calculate, Undefined
===============================================================================
