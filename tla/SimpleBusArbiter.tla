--------------------------- MODULE SimpleBusArbiter ---------------------------
(***************************************************************************)
(* The arbiter of the bus (src/simple_bus_arbiter.cpp): which of the        *)
(* pending request forms is served next, and what being chosen does to the *)
(* lock of that form.  A form is identified by its priority; the lower the *)
(* number the more urgent the form.  Q is the set of pending forms, status *)
(* and lock are functions from forms to their fields.                       *)
(***************************************************************************)
EXTENDS Naturals

Status == {"OK", "REQUEST", "WAIT", "ERROR"}
LockStatus == {"NO", "SET", "GRANTED"}

\* Rule 1: a burst whose lock is set and that has been served at least once.
LockedBurst(Q, status, lock) ==
    {p \in Q : status[p] = "WAIT" /\ lock[p] = "SET"}

\* Rule 2: forms whose lock was granted, i.e. set at the previous call too.
LockGranted(Q, lock) == {p \in Q : lock[p] = "GRANTED"}

\* Rule 3: the lowest number wins; in the mutant the highest.
LeastUrgent(Q) == {p \in Q : \A q \in Q : p >= q}
MostUrgent(Q) == {p \in Q : \A q \in Q : p <= q}

\* The rules in order.  A rule with several forms returns the first one of
\* the scan; the order of the scan is left open, and the bus module shows
\* that no rule ever sees two forms.  In the mutant rule 2 comes too late.
ArbitrateWithoutRule2(Q, status, lock) ==
    IF LockedBurst(Q, status, lock) # {} THEN LockedBurst(Q, status, lock)
    ELSE MostUrgent(Q)
Arbitrate(Q, status, lock) ==
    IF LockedBurst(Q, status, lock) # {} THEN LockedBurst(Q, status, lock)
    ELSE IF LockGranted(Q, lock) # {} THEN LockGranted(Q, lock)
    ELSE MostUrgent(Q)

\* The lock of the chosen form p: rule 3 upgrades a lock that is set.  The
\* mutant upgrades every form chosen by rules 2 and 3.
LockAfterAlways(p, Q, status, lock) ==
    IF LockedBurst(Q, status, lock) = {} THEN "GRANTED" ELSE lock[p]
LockAfter(p, Q, status, lock) ==
    IF /\ LockedBurst(Q, status, lock) = {}
       /\ LockGranted(Q, lock) = {}
       /\ lock[p] # "NO"
    THEN "GRANTED" ELSE lock[p]
===============================================================================
