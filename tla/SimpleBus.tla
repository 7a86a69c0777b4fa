------------------------------ MODULE SimpleBus ------------------------------
(***************************************************************************)
(* The bus (src/simple_bus.cpp, simple_bus_headers/simple_bus.h) between   *)
(* any masters and any slaves.  Masters fill request forms, one form per   *)
(* priority; the bus serves one word of one form at each falling edge of   *)
(* the clock; blocking callers sleep until the bus notifies them and then  *)
(* return at the next rising edge.  What a slave answers is left open.     *)
(*                                                                         *)
(* Pointers into a caller's buffer are word offsets.  A form is created by *)
(* the first call in the code; here every form exists from the start with  *)
(* the values of its constructor, which no other form can tell.            *)
(***************************************************************************)
EXTENDS Integers, FiniteSets, SimpleBusArbiter

CONSTANTS
    Master,         \* the threads that use the bus
    Blocking,       \* those that call burst_read and burst_write; the others
                    \* call read and write and then poll get_status
    PriorityOf,     \* unique_priority of a master
    LockFlags,      \* the lock arguments a master uses
    Calls,          \* the [do_write, address, length] a master may ask for
    Slave,          \* what is bound to slave_port
    StartAddress,   \* start_address() of a slave
    EndAddress,     \* end_address() of a slave
    AddressSpace,   \* 2^32 in the code: addresses are unsigned int
    None            \* the null pointer

Word == 0 .. AddressSpace - 1
Priority == {PriorityOf[m] : m \in Master}
Call == [do_write : BOOLEAN, address : Word, length : Nat]

ASSUME SpaceAssumption == AddressSpace \in Nat /\ AddressSpace > 0

\* A read or write of one word is a call of length 1.
ASSUME MasterAssumption ==
    /\ Blocking \subseteq Master
    /\ PriorityOf \in [Master -> Nat]
    /\ LockFlags \in [Master -> SUBSET BOOLEAN]
    /\ \A m \in Master : \A c \in Calls[m] :
          c \in Call /\ (m \in Blocking \/ c.length = 1)
    /\ None \notin Nat

\* Slaves are never rebound, and end_of_elaboration() ends the program when
\* the areas of two of them overlap.
ASSUME SlaveAssumption ==
    /\ StartAddress \in [Slave -> Word] /\ EndAddress \in [Slave -> Word]
    /\ \A s, t \in Slave : s # t => \/ EndAddress[s] < StartAddress[t]
                                    \/ StartAddress[s] > EndAddress[t]

VARIABLES
    clk,                \* "high" after a rising edge, "low" after a falling one
    pc,                 \* where a master is, see PcValues
    status, lock, do_write, address, end_address,
    data,               \* the fields of the request forms, per priority
    m_current_request,  \* the form a slave makes wait, or None
    aborted,            \* an sc_assert failed: the simulation is over
    asked,              \* history: lock and length of the form's last call
    served              \* history: the form handled at the last falling edge

form == <<do_write, end_address, asked>>
vars == <<clk, pc, status, lock, address, data, m_current_request, aborted,
          form, served>>

\* idle: in its own code; transfer: wait(transfer_done); edge: waiting for the
\* rising edge; ready: woken, about to return; poll: between read/write and
\* the get_status that sees the end.
PcValues == {"idle", "transfer", "edge", "ready", "poll"}
Pending == {p \in Priority : status[p] \in {"REQUEST", "WAIT"}}
Final == {"OK", "ERROR"}

Init ==
    /\ clk = "low" /\ pc = [m \in Master |-> "idle"]
    /\ status = [p \in Priority |-> "OK"] /\ lock = [p \in Priority |-> "NO"]
    /\ do_write = [p \in Priority |-> FALSE]
    /\ address = [p \in Priority |-> 0] /\ end_address = [p \in Priority |-> 0]
    /\ data = [p \in Priority |-> 0]
    /\ m_current_request = None /\ aborted = FALSE
    /\ asked = [p \in Priority |-> [lock |-> FALSE, length |-> 0]]
    /\ served = None

-------------------------------------------------------------------------------
(* The calls of the masters. *)

\* The last address of a burst, in unsigned arithmetic; the mutant counts one
\* word too many.
EndOfBurstPlusOne(c) == (c.address + c.length * 4) % AddressSpace
EndOfBurst(c) == (c.address + (c.length - 1) * 4) % AddressSpace

\* A lock that is still set from the previous call is granted; a call without
\* the flag leaves it as it is.  The mutant grants it to any next call.
AskLockAnyway(l, flag) ==
    IF l = "SET" THEN "GRANTED" ELSE IF flag THEN "SET" ELSE l
AskLock(l, flag) ==
    IF flag THEN (IF l = "SET" THEN "GRANTED" ELSE "SET") ELSE l

\* The assignments the four calls have in common.
Fill(p, c, flag) ==
    /\ do_write' = [do_write EXCEPT ![p] = c.do_write]
    /\ address' = [address EXCEPT ![p] = c.address]
    /\ end_address' = [end_address EXCEPT ![p] = EndOfBurst(c)]
    /\ data' = [data EXCEPT ![p] = 0]
    /\ lock' = [lock EXCEPT ![p] = AskLock(@, flag)]
    /\ status' = [status EXCEPT ![p] = "REQUEST"]
    /\ asked' = [asked EXCEPT ![p] = [lock |-> flag, length |-> c.length]]

\* burst_read, burst_write up to wait(transfer_done).
BurstCall(m, c, flag) ==
    /\ ~aborted /\ m \in Blocking /\ pc[m] = "idle"
    /\ Fill(PriorityOf[m], c, flag)
    /\ pc' = [pc EXCEPT ![m] = "transfer"]
    /\ UNCHANGED <<clk, m_current_request, aborted, served>>

\* read, write: the assertion first, then the form.
SingleCall(m, c, flag) ==
    /\ ~aborted /\ m \notin Blocking /\ pc[m] = "idle"
    /\ aborted' = (status[PriorityOf[m]] \notin Final)
    /\ IF aborted' THEN UNCHANGED <<status, lock, address, data, form>>
                   ELSE Fill(PriorityOf[m], c, flag)
    /\ pc' = [pc EXCEPT ![m] = "poll"]
    /\ UNCHANGED <<clk, m_current_request, served>>

\* The master sees the end of its read or write with get_status; the mutant
\* stops polling as soon as the bus serves the request.
GetStatusEarly(m) ==
    /\ ~aborted /\ pc[m] = "poll" /\ status[PriorityOf[m]] # "REQUEST"
    /\ pc' = [pc EXCEPT ![m] = "idle"]
    /\ UNCHANGED <<clk, status, lock, address, data, m_current_request,
                   aborted, form, served>>
GetStatus(m) ==
    /\ ~aborted /\ pc[m] = "poll" /\ status[PriorityOf[m]] \in Final
    /\ pc' = [pc EXCEPT ![m] = "idle"]
    /\ UNCHANGED <<clk, status, lock, address, data, m_current_request,
                   aborted, form, served>>

\* The rest of burst_read and burst_write after the rising edge.
Return(m) ==
    /\ ~aborted /\ pc[m] = "ready"
    /\ pc' = [pc EXCEPT ![m] = "idle"]
    /\ UNCHANGED <<clk, status, lock, address, data, m_current_request,
                   aborted, form, served>>

\* The rising edge wakes the callers whose transfer is done.
PosEdge ==
    /\ ~aborted /\ clk = "low" /\ clk' = "high"
    /\ pc' = [m \in Master |-> IF pc[m] = "edge" THEN "ready" ELSE pc[m]]
    /\ UNCHANGED <<status, lock, address, data, m_current_request, aborted,
                   form, served>>

-------------------------------------------------------------------------------
(* main_action, at the falling edge. *)

get_slave(a) == {s \in Slave : StartAddress[s] <= a /\ a <= EndAddress[s]}
Reached(p) == address[p] % 4 = 0 /\ get_slave(address[p]) # {}

\* The form to handle: the waiting one, else the arbiter's choice.  The mutant
\* asks the arbiter even while a slave makes the current request wait.
ToHandleAlwaysNew == Arbitrate(Pending, status, lock)
ToHandle == IF m_current_request # None THEN {m_current_request}
            ELSE Arbitrate(Pending, status, lock)
LockTaken(p) ==
    IF m_current_request # None THEN lock
    ELSE [lock EXCEPT ![p] = LockAfter(p, Pending, status, lock)]

\* clear_locks; the mutant only downgrades what was granted.
KeptLocks(l) == [p \in Priority |-> IF l[p] = "NO" THEN "NO" ELSE "SET"]
clear_locks(l) == [p \in Priority |-> IF l[p] = "GRANTED" THEN "SET" ELSE "NO"]

\* transfer_done.notify(): only a caller that waits at this moment hears it.
\* The mutant forgets to notify.
Unnotified(p) == pc
Notified(p) == [m \in Master |->
    IF PriorityOf[m] = p /\ pc[m] = "transfer" THEN "edge" ELSE pc[m]]

\* No edge comes while a woken master still has to run.
FallingEdge ==
    /\ ~aborted /\ clk = "high" /\ clk' = "low"
    /\ \A m \in Master : pc[m] # "ready"
    /\ UNCHANGED <<aborted, form>>

NothingPending ==
    /\ FallingEdge /\ ToHandle = {}
    /\ served' = None
    /\ lock' = clear_locks(lock)
    /\ UNCHANGED <<pc, status, address, data, m_current_request>>

\* handle_request, an address that is not aligned or has no slave: an error,
\* and nobody is notified.
Reject(p) ==
    /\ FallingEdge /\ p \in ToHandle /\ ~Reached(p)
    /\ served' = p
    /\ status' = [status EXCEPT ![p] = "ERROR"]
    /\ m_current_request' = None
    /\ lock' = clear_locks(LockTaken(p))
    /\ UNCHANGED <<pc, address, data>>

\* The mutant moves the data pointer before it looks at the slave's answer.
SlaveErrorAfterMove(p) ==
    /\ FallingEdge /\ p \in ToHandle /\ Reached(p)
    /\ served' = p
    /\ status' = [status EXCEPT ![p] = "ERROR"]
    /\ data' = [data EXCEPT ![p] = @ + 1]
    /\ pc' = Notified(p)
    /\ m_current_request' = None
    /\ lock' = clear_locks(LockTaken(p))
    /\ UNCHANGED address
SlaveError(p) ==
    /\ FallingEdge /\ p \in ToHandle /\ Reached(p)
    /\ served' = p
    /\ status' = [status EXCEPT ![p] = "ERROR"]
    /\ pc' = Notified(p)
    /\ m_current_request' = None
    /\ lock' = clear_locks(LockTaken(p))
    /\ UNCHANGED <<address, data>>

\* One word is done; the last one ends the call.  The mutants move the data
\* pointer the wrong way, and stop one word early.
PointerBack(p) == data[p] - 1
NextPointer(p) == data[p] + 1
DoneEarly(p) == (address[p] + 4) % AddressSpace >= end_address[p]
Done(p) == (address[p] + 4) % AddressSpace > end_address[p]
SlaveOK(p) ==
    /\ FallingEdge /\ p \in ToHandle /\ Reached(p)
    /\ served' = p
    /\ address' = [address EXCEPT ![p] = (@ + 4) % AddressSpace]
    /\ data' = [data EXCEPT ![p] = NextPointer(p)]
    /\ status' = [status EXCEPT ![p] = IF Done(p) THEN "OK" ELSE "WAIT"]
    /\ pc' = IF Done(p) THEN Notified(p) ELSE pc
    /\ m_current_request' = None
    /\ lock' = clear_locks(LockTaken(p))

\* The slave is busy: the request stays current and the locks as they are.
SlaveWait(p) ==
    /\ FallingEdge /\ p \in ToHandle /\ Reached(p)
    /\ served' = p
    /\ status' = [status EXCEPT ![p] = "WAIT"]
    /\ m_current_request' = p
    /\ lock' = LockTaken(p)
    /\ UNCHANGED <<pc, address, data>>

\* handle_request when the slave, if there is one, gives this answer; a slave
\* may give any.
HandleAnswer(p, answer) ==
    \/ Reject(p)
    \/ answer = "ERROR" /\ SlaveError(p)
    \/ answer = "OK" /\ SlaveOK(p)
    \/ answer = "WAIT" /\ SlaveWait(p)
HandleRequest(p) == \E answer \in {"OK", "WAIT", "ERROR"} : HandleAnswer(p, answer)
NegEdge == NothingPending \/ \E p \in Priority : HandleRequest(p)

MasterStep(m) ==
    \/ \E c \in Calls[m], flag \in LockFlags[m] :
          BurstCall(m, c, flag) \/ SingleCall(m, c, flag)
    \/ GetStatus(m)
    \/ Return(m)

Next == PosEdge \/ NegEdge \/ \E m \in Master : MasterStep(m)
Spec == Init /\ [][Next]_vars

\* The kernel of SystemC always runs a woken thread and always reaches the
\* next edge of the clock.  Nothing makes a master call or a slave answer.
FairSpec ==
    /\ Spec /\ WF_vars(PosEdge) /\ WF_vars(NegEdge)
    /\ \A m \in Master : WF_vars(Return(m))

-------------------------------------------------------------------------------
(* Properties. *)

TypeOK ==
    /\ clk \in {"high", "low"} /\ pc \in [Master -> PcValues]
    /\ status \in [Priority -> Status] /\ lock \in [Priority -> LockStatus]
    /\ do_write \in [Priority -> BOOLEAN]
    /\ address \in [Priority -> Word] /\ end_address \in [Priority -> Word]
    /\ data \in [Priority -> Nat]
    /\ m_current_request \in Priority \cup {None} /\ aborted \in BOOLEAN
    /\ asked \in [Priority -> [lock : BOOLEAN, length : Nat]]
    /\ served \in Priority \cup {None}

\* What the code needs of its users: no two masters with one priority, ...
UniquePriorities ==
    \A m, n \in Master : PriorityOf[m] = PriorityOf[n] => m = n

\* ... bursts of at least one word that do not reach the last word of the
\* address space, where address + 4 wraps to 0, ...
BurstsFit ==
    \A m \in Master : \A c \in Calls[m] :
       c.length > 0 /\ c.address + c.length * 4 < AddressSpace

\* ... and blocking calls whose every word is aligned and has a slave.
Mapped(c) ==
    /\ c.address % 4 = 0
    /\ \A i \in 0 .. c.length - 1 : get_slave(c.address + 4 * i) # {}
BlockingCallsMapped ==
    \A m \in Blocking : \A c \in Calls[m] : Mapped(c)

\* A caller that is not inside a call, or is about to return from one, finds
\* its form finished: no call ever returns REQUEST or WAIT, and no new call
\* overwrites a form that the bus still works on (simple_bus.cpp:237, 264).
ReturnsFinal ==
    \A m \in Master : pc[m] \in {"idle", "edge", "ready"} =>
       status[PriorityOf[m]] \in Final

\* The current request is always the one a slave is working on.
CurrentWaits ==
    m_current_request # None => status[m_current_request] = "WAIT"

\* The forms that carry a lock which the bus has honoured.
Holder == {p \in Priority :
    lock[p] = "GRANTED" \/ (lock[p] = "SET" /\ status[p] # "REQUEST")}

\* The bus is never promised to two masters: when no slave is working there
\* is at most one form with an honoured lock, and while one is working no
\* other form has been granted one except by asking again in the meantime.
LockInv ==
    /\ \A p \in Priority : lock[p] = "GRANTED" /\ p # m_current_request
          => status[p] = "REQUEST"
    /\ m_current_request = None => \A p, q \in Holder : p = q

\* The arbiter never has a choice: whatever the order of the forms in
\* m_requests, "the first one found" is the only one its rules allow.
OneWinner == \A p, q \in ToHandle : p = q

\* A word is never lost: a caller that sleeps in wait(transfer_done) has a
\* pending form, so a notification is still to come (simple_bus.cpp:235, 262).
NoLostWakeup ==
    \A m \in Master : pc[m] = "transfer" => PriorityOf[m] \in Pending

\* The assertions of read and write (simple_bus.cpp:162, 188) never fail for
\* masters that poll as the interface asks.
NeverAborts == ~aborted

\* A call that ended with OK has moved exactly the words it was asked to
\* move, however often other requests broke into it (simple_bus.cpp:321-332).
OKMeansAllWords ==
    \A p \in Priority : status[p] = "OK" => data[p] = asked[p].length

\* A pending form still has to go exactly from its address to end_address.
PendingProgress ==
    \A p \in Pending :
       /\ data[p] < asked[p].length
       /\ address[p] + 4 * (asked[p].length - data[p]) = end_address[p] + 4

\* A burst that fails in the middle keeps its form as it was before the word
\* that failed: that word is not counted, none after it is moved, and no call
\* that has all its words ends with ERROR (simple_bus.cpp:316, README:172-174).
ErrorKeepsRest ==
    \A p \in Priority : status[p] = "ERROR" =>
       /\ data[p] < asked[p].length
       /\ address[p] + 4 * (asked[p].length - data[p]) = end_address[p] + 4

\* The pending form whose lock is honoured, by rule 1 or by rule 2.
HoldsBus(p) == p \in Pending /\ p \in Holder

\* When the bus is free, a pending form with an honoured lock is served next:
\* no form of whatever priority comes in between (README rules 1 and 2).
HolderServedNext ==
    [][\A p \in Priority :
          m_current_request = None /\ HoldsBus(p) /\ NegEdge
          => served' = p]_vars

\* A form whose masters set the lock flag in some of their calls.
UsesLocks(p) == \E m \in Master : PriorityOf[m] = p /\ TRUE \in LockFlags[m]

\* What an unlocked call may pass.  A call without the lock leaves the lock of
\* the call before it in the form (simple_bus.cpp:170, 196, 228, 255).  All the
\* same its first word is never served before a more urgent request, and a
\* master that never asks for the lock passes nobody, whatever locks the others
\* take.  Later words of an unlocked burst may pass: rule 3 grants the leftover
\* lock with the first word (simple_bus_arbiter.cpp:95), and rule 1 honours it.
UnlockedKeepTheirTurn ==
    [][\A p, q \in Pending :
          q < p /\ NegEdge /\ served' = p /\ m_current_request = None
          => asked[p].lock \/ (data[p] > 0 /\ UsesLocks(p))]_vars

\* Only more urgent masters, or locks, starve a request: if slaves go on
\* answering and a form is pending for ever, calls that are more urgent, or that
\* ask for the lock, are served again and again.  (They may come for ever: the
\* arbiter is not fair, simple_bus_arbiter.cpp:87.)
StarvesOnlyBehindThem ==
    \A p \in Priority :
       []<>(m_current_request = None) /\ <>[](p \in Pending)
       => []<>(\E q \in Priority \ {p} : served = q /\ (q < p \/ asked[q].lock))

-------------------------------------------------------------------------------
(* What the repository says and the code does not do. *)

\* README:169-170, simple_bus_arbiter.cpp:70: a locked burst that has been
\* started cannot be interrupted.
LockedBurstNotInterrupted ==
    [][\A p \in Priority : asked[p].lock /\ status[p] = "WAIT" /\ NegEdge
          => served' = p]_vars

\* README 1.4.1: a blocking call returns at the first rising edge after the
\* request is completed; one for an address without a slave is completed with
\* ERROR.
BlockingCallReturns ==
    \A m \in Master :
       (pc[m] = "transfer" /\ ~Reached(PriorityOf[m])) ~> pc[m] = "idle"

\* README:328-330: two requests with one priority abort the simulation.
DuplicatesAbort ==
    \A m, n \in Master :
       /\ m # n /\ PriorityOf[m] = PriorityOf[n]
       /\ pc[m] = "edge" /\ pc[n] = "edge"
       => aborted
===============================================================================
