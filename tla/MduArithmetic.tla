---------------------------- MODULE MduArithmetic ----------------------------
(***************************************************************************)
(* What the MDU computes (calculate in include/mdu.h): C arithmetic on int *)
(* operands of a word of 2 * Half values.                                  *)
(***************************************************************************)
EXTENDS Integers

CONSTANT Half       \* 2^31 in the code: ints go from -Half to Half - 1

ASSUME HalfAssumption == Half \in Nat /\ Half > 0

Modulus == 2 * Half
Int32 == -Half .. Half - 1

\* The two's complement int with the bits of a number.
AsInt(x) == IF x % Modulus < Half THEN x % Modulus ELSE (x % Modulus) - Modulus

\* The unsigned int with the bits of an int.
AsUnsigned(x) == IF x < 0 THEN x + Modulus ELSE x

\* (1ll * opA * opB) & 0xFFFFFFFF and (1ll * opA * opB) >> 32.  The mutants
\* keep the low word unsigned, and divide towards minus infinity.
LowWordUnsigned(a, b) == (a * b) % Modulus
LowWord(a, b) == AsInt(a * b)
HighWord(a, b) == (a * b) \div Modulus

Magnitude(x) == IF x < 0 THEN -x ELSE x

\* opA / opB and opA % opB: towards zero.
FloorQuotient(a, b) == IF b < 0 THEN (-a) \div (-b) ELSE a \div b
Quotient(a, b) ==
    IF (a < 0) = (b < 0) THEN Magnitude(a) \div Magnitude(b)
    ELSE -(Magnitude(a) \div Magnitude(b))
Remainder(a, b) ==
    IF a < 0 THEN -(Magnitude(a) % Magnitude(b)) ELSE a % Magnitude(b)

\* Division by zero, and of the least int by -1, are undefined in C++.
DivisionDefined(a, b) == b # 0 /\ ~(a = -Half /\ b = -1)
===============================================================================
