------------------------------ MODULE MduDirect ------------------------------
(***************************************************************************)
(* The other program of src/main.cpp: mdu_direct_master, which uses the    *)
(* direct interface of the bus and of the MDU.  Nothing waits in it, so    *)
(* one testcase is one step.                                               *)
(***************************************************************************)
EXTENDS Mdu

CONSTANT None

VARIABLES
    printed,        \* the lines of the last testcase, or None
    crashed         \* an undefined division ended the program

direct_vars == <<mdu_vars, printed, crashed>>

\* direct_read and direct_write of the bus find the MDU.
DirectReached(addr) == addr % 4 = 0 /\ StartAddr <= addr /\ addr <= EndAddr

\* The register after direct_write(&value, addr); result is ignored.
direct_write(reg, old, addr, value) ==
    IF DirectReached(addr) /\ addr = reg THEN value ELSE old

direct_read(addr, a, b) == calculate(addr, a, b)

DirectInit == MduInit /\ printed = None /\ crashed = FALSE

\* ((long long)MHigh << 32) + (unsigned int)MLow.  The mutant forgets the cast.
JoinSigned(high, low) == high * Modulus + low
Join(high, low) == high * Modulus + AsUnsigned(low)

do_testcase(a, b) ==
    /\ ~crashed
    /\ opA' = direct_write(OpA, opA, OpA, a)
    /\ opB' = direct_write(OpB, opB, OpB, b)
    /\ UNCHANGED wait_left
    /\ \E high \in direct_read(MHigh, opA', opB'), low \in direct_read(MLow, opA', opB'),
          div \in direct_read(Div, opA', opB'), mod \in direct_read(Mod, opA', opB') :
          /\ printed' = [a |-> a, b |-> b, high |-> high, low |-> low,
                         joined |-> Join(high, low), div |-> div, mod |-> mod]
          /\ crashed' = (Trap \in {div, mod})

DirectNext == \E a, b \in Int32 : do_testcase(a, b)
DirectSpec == DirectInit /\ [][DirectNext]_direct_vars

\* The two halves of a product read separately are the whole product, for
\* operands of any sign (mdu_direct_master.h:28-31).
JoinedProduct == printed # None => printed.joined = printed.a * printed.b

\* Quotient and remainder belong together: they give back the dividend, the
\* remainder is smaller than the divisor and has the sign of the dividend.
DivisionLaws ==
    printed # None /\ DivisionDefined(printed.a, printed.b) =>
       /\ printed.div * printed.b + printed.mod = printed.a
       /\ Magnitude(printed.mod) < Magnitude(printed.b)
       /\ printed.mod < 0 => printed.a < 0
       /\ printed.mod > 0 => printed.a > 0

\* What the MDU returns fits in the int it is returned in.
DirectTypeOK ==
    /\ MduTypeOK /\ crashed \in BOOLEAN
    /\ printed # None =>
          /\ printed.high \in Int32 /\ printed.low \in Int32
          /\ {printed.div, printed.mod} \subseteq Undefined
          /\ ~crashed => {printed.div, printed.mod} \subseteq Int32
===============================================================================
