--------------------------- MODULE SimpleBusProofs ---------------------------
(***************************************************************************)
(* The bus keeps its promises for any masters, slaves, calls and address   *)
(* space.                                                                  *)
(***************************************************************************)
EXTENDS SimpleBus, TLAPS

-------------------------------------------------------------------------------
(* Types *)

\* Unsigned arithmetic stays in the address space.
LEMMA ModIsWord == \A a \in Int : a % AddressSpace \in Word
  BY SpaceAssumption DEF Word

LEMMA PriorityIsNat == Priority \subseteq Nat /\ None \notin Priority
  BY MasterAssumption DEF Priority

LEMMA PriorityInPriority == \A m \in Master : PriorityOf[m] \in Priority
  BY DEF Priority

\* The locks stay lock values whatever the bus does with them.
LEMMA LockTypes ==
  ASSUME TypeOK, NEW p \in Priority
  PROVE  /\ LockTaken(p) \in [Priority -> LockStatus]
         /\ clear_locks(LockTaken(p)) \in [Priority -> LockStatus]
         /\ clear_locks(lock) \in [Priority -> LockStatus]
  BY DEF TypeOK, LockTaken, LockAfter, clear_locks, LockStatus

LEMMA NotifiedType ==
  ASSUME TypeOK, NEW p \in Priority
  PROVE  Notified(p) \in [Master -> PcValues]
  BY DEF TypeOK, Notified, PcValues

\* What a call writes into its form has the right types.
LEMMA FillType ==
  ASSUME TypeOK, NEW m \in Master, NEW c \in Calls[m],
         NEW flag \in LockFlags[m], Fill(PriorityOf[m], c, flag)
  PROVE  /\ do_write' \in [Priority -> BOOLEAN]
         /\ address' \in [Priority -> Word] /\ end_address' \in [Priority -> Word]
         /\ data' \in [Priority -> Nat]
         /\ lock' \in [Priority -> LockStatus] /\ status' \in [Priority -> Status]
         /\ asked' \in [Priority -> [lock : BOOLEAN, length : Nat]]
  <1>1. c.do_write \in BOOLEAN /\ c.address \in Word /\ c.length \in Nat
    BY MasterAssumption DEF Call
  <1>2. flag \in BOOLEAN
    BY MasterAssumption
  <1>3. EndOfBurst(c) \in Word
    BY <1>1, ModIsWord, SpaceAssumption DEF EndOfBurst, Word
  <1>4. AskLock(lock[PriorityOf[m]], flag) \in LockStatus
    BY PriorityInPriority DEF TypeOK, AskLock, LockStatus
  <1>5. [lock |-> flag, length |-> c.length] \in [lock : BOOLEAN, length : Nat]
    BY <1>1, <1>2
  <1> QED
    BY <1>1, <1>3, <1>4, <1>5 DEF Fill, TypeOK, Status

LEMMA TypeStep == TypeOK /\ [Next]_vars => TypeOK'
  <1> SUFFICES ASSUME TypeOK, [Next]_vars PROVE TypeOK'
    OBVIOUS
  <1> USE PriorityIsNat, PriorityInPriority
  <1>1. CASE PosEdge
    BY <1>1 DEF PosEdge, TypeOK, PcValues, form
  <1>2. CASE NothingPending
    BY <1>2, LockTypes DEF NothingPending, FallingEdge, TypeOK, form, clear_locks,
      LockStatus
  <1>3. ASSUME NEW p \in Priority, Reject(p) PROVE TypeOK'
    BY <1>3, LockTypes DEF Reject, FallingEdge, TypeOK, form, Status
  <1>4. ASSUME NEW p \in Priority, SlaveError(p) PROVE TypeOK'
    BY <1>4, LockTypes, NotifiedType DEF SlaveError, FallingEdge, TypeOK, form, Status
  <1>5. ASSUME NEW p \in Priority, SlaveOK(p) PROVE TypeOK'
    <2>1. (address[p] + 4) % AddressSpace \in Word
      BY ModIsWord, SpaceAssumption DEF TypeOK, Word
    <2>2. NextPointer(p) \in Nat
      BY DEF TypeOK, NextPointer
    <2>3. address' \in [Priority -> Word]
      BY <1>5, <2>1 DEF SlaveOK, TypeOK
    <2>4. data' \in [Priority -> Nat]
      BY <1>5, <2>2 DEF SlaveOK, TypeOK
    <2>5. status' \in [Priority -> Status]
      BY <1>5 DEF SlaveOK, TypeOK, Status
    <2>6. pc' \in [Master -> PcValues]
      BY <1>5, NotifiedType DEF SlaveOK, TypeOK
    <2> QED
      BY <1>5, <2>3, <2>4, <2>5, <2>6, LockTypes DEF SlaveOK, FallingEdge, TypeOK, form
  <1>6. ASSUME NEW p \in Priority, SlaveWait(p) PROVE TypeOK'
    BY <1>6, LockTypes DEF SlaveWait, FallingEdge, TypeOK, form, Status
  <1>7. ASSUME NEW m \in Master, NEW c \in Calls[m], NEW flag \in LockFlags[m],
               BurstCall(m, c, flag)
        PROVE TypeOK'
    BY <1>7, FillType DEF BurstCall, TypeOK, PcValues
  <1>8. ASSUME NEW m \in Master, NEW c \in Calls[m], NEW flag \in LockFlags[m],
               SingleCall(m, c, flag)
        PROVE TypeOK'
    BY <1>8, FillType DEF SingleCall, TypeOK, PcValues, form
  <1>9. ASSUME NEW m \in Master, GetStatus(m) PROVE TypeOK'
    BY <1>9 DEF GetStatus, TypeOK, PcValues, form
  <1>10. ASSUME NEW m \in Master, Return(m) PROVE TypeOK'
    BY <1>10 DEF Return, TypeOK, PcValues, form
  <1>11. CASE UNCHANGED vars
    BY <1>11 DEF vars, form, TypeOK
  <1> QED
    BY <1>1, <1>2, <1>3, <1>4, <1>5, <1>6, <1>7, <1>8, <1>9, <1>10, <1>11
    DEF Next, NegEdge, HandleRequest, HandleAnswer, MasterStep

LEMMA TypeInit == Init => TypeOK
  <1> SUFFICES ASSUME Init PROVE TypeOK
    OBVIOUS
  <1>1. 0 \in Word
    BY SpaceAssumption DEF Word
  <1>2. [lock |-> FALSE, length |-> 0] \in [lock : BOOLEAN, length : Nat]
    OBVIOUS
  <1>3. asked \in [Priority -> [lock : BOOLEAN, length : Nat]]
    BY <1>2 DEF Init
  <1> QED
    BY <1>1, <1>3 DEF Init, TypeOK, PcValues, Status, LockStatus

\* Every field of every form, of the clock and of the callers keeps its type.
THEOREM TypeCorrect == Spec => []TypeOK
  BY TypeInit, TypeStep, PTL DEF Spec

-------------------------------------------------------------------------------
(* The locks.  LockInv alone is not inductive: it needs that no call touches *)
(* a form the bus works on, which ReturnsFinal and CurrentWaits say.         *)

BusInv == TypeOK /\ NeverAborts /\ ReturnsFinal /\ CurrentWaits /\ LockInv

LEMMA BusInit == Init => BusInv
  <1> SUFFICES ASSUME Init PROVE BusInv
    OBVIOUS
  <1>1. TypeOK
    BY TypeInit
  <1>2. NeverAborts /\ ReturnsFinal /\ CurrentWaits
    BY PriorityInPriority DEF Init, NeverAborts, ReturnsFinal, CurrentWaits, Final
  <1>3. LockInv
    BY DEF Init, LockInv, Holder
  <1> QED
    BY <1>1, <1>2, <1>3 DEF BusInv

\* The form to handle is pending.
LEMMA HandledIsPending ==
  ASSUME TypeOK, CurrentWaits
  PROVE  ToHandle \subseteq Pending
  BY PriorityIsNat DEF ToHandle, Arbitrate, LockedBurst, LockGranted, MostUrgent, Pending, TypeOK,
     CurrentWaits

\* Only the form to handle can have its lock changed before clear_locks.
LEMMA LockTakenElsewhere ==
  ASSUME TypeOK, NEW p \in Priority, NEW q \in Priority, q # p
  PROVE  LockTaken(p)[q] = lock[q]
  BY DEF TypeOK, LockTaken

\* A call by a master that is not inside one finds its form finished, so the
\* form is not the current one; filling it keeps the invariant.
LEMMA FillKeepsLocks ==
  ASSUME BusInv, NEW m \in Master, NEW c \in Calls[m],
         NEW flag \in LockFlags[m], pc[m] = "idle",
         Fill(PriorityOf[m], c, flag), UNCHANGED m_current_request
  PROVE  LockInv' /\ CurrentWaits'
  <1> DEFINE p == PriorityOf[m]
  <1>1. p \in Priority
    BY PriorityInPriority
  <1>2. status[p] \in Final /\ p # m_current_request
    BY <1>1, PriorityIsNat DEF BusInv, ReturnsFinal, CurrentWaits, Final
  <1>3. /\ status'[p] = "REQUEST" /\ \A q \in Priority : q # p => status'[q] = status[q]
        /\ lock'[p] = AskLock(lock[p], flag)
        /\ \A q \in Priority : q # p => lock'[q] = lock[q]
    BY <1>1 DEF Fill, BusInv, TypeOK
  <1>4. lock'[p] = "GRANTED" => lock[p] \in {"SET", "GRANTED"}
    BY <1>1, <1>3 DEF AskLock
  <1>5. Holder' \subseteq Holder
    BY <1>1, <1>2, <1>3, <1>4 DEF Holder, Final
  <1>6. CurrentWaits'
    BY <1>2, <1>3, PriorityIsNat DEF BusInv, TypeOK, CurrentWaits
  <1> QED
    BY <1>3, <1>5, <1>6 DEF BusInv, LockInv

\* clear_locks after a word: only the handled form can still have its lock.
LEMMA ClearKeepsLocks ==
  ASSUME BusInv, NEW p \in Priority, p \in ToHandle, m_current_request' = None,
         lock' = clear_locks(LockTaken(p)),
         \A q \in Priority : q # p => status'[q] = status[q]
  PROVE  LockInv'
  <1>1. \A q \in Priority : q # p /\ lock[q] = "GRANTED" => status[q] = "REQUEST"
    <2> SUFFICES ASSUME NEW q \in Priority, q # p, lock[q] = "GRANTED"
                 PROVE  status[q] = "REQUEST"
      OBVIOUS
    <2>1. q # m_current_request
      BY PriorityIsNat DEF ToHandle
    <2> QED
      BY <2>1 DEF BusInv, LockInv
  <1>2. \A q \in Priority : lock'[q] # "GRANTED"
    BY DEF clear_locks
  <1>3. \A q \in Priority : q # p /\ lock'[q] = "SET" => status'[q] = "REQUEST"
    BY <1>1, LockTakenElsewhere DEF clear_locks, BusInv
  <1>4. Holder' \subseteq {p}
    BY <1>2, <1>3 DEF Holder
  <1> QED
    BY <1>2, <1>4 DEF LockInv

LEMMA BusStep == UniquePriorities /\ BusInv /\ [Next]_vars => BusInv'
  <1> SUFFICES ASSUME UniquePriorities, BusInv, [Next]_vars PROVE BusInv'
    OBVIOUS
  <1> USE PriorityIsNat, PriorityInPriority
  <1>t. TypeOK /\ TypeOK'
    BY TypeStep DEF BusInv
  <1>1. CASE PosEdge
    BY <1>t, <1>1 DEF PosEdge, BusInv, NeverAborts, ReturnsFinal, CurrentWaits, LockInv,
      Holder, TypeOK
  <1>2. CASE NothingPending
    <2>1. m_current_request = None /\ m_current_request' = None
      BY <1>2 DEF NothingPending, ToHandle
    <2>2. \A q \in Priority : lock[q] = "GRANTED" => status[q] = "REQUEST"
      BY <2>1 DEF BusInv, LockInv
    <2>3. Holder' = {}
      BY <1>2, <2>2 DEF NothingPending, Holder, clear_locks
    <2>4. LockInv'
      BY <1>2, <2>1, <2>3 DEF LockInv, NothingPending, clear_locks
    <2> QED
      BY <1>t, <1>2, <2>1, <2>4 DEF NothingPending, FallingEdge, BusInv, NeverAborts,
        ReturnsFinal, CurrentWaits
  <1>3. ASSUME NEW p \in Priority, HandleRequest(p) PROVE BusInv'
    <2>1. p \in ToHandle /\ p \in Pending /\ aborted' = aborted
      BY <1>t, <1>3, HandledIsPending DEF HandleRequest, HandleAnswer, Reject, SlaveError, SlaveOK,
        SlaveWait, FallingEdge, BusInv
    <2>2. \A q \in Priority : q # p => status'[q] = status[q]
      BY <1>t, <1>3 DEF HandleRequest, HandleAnswer, Reject, SlaveError, SlaveOK, SlaveWait, TypeOK
    <2>3. \A m \in Master : PriorityOf[m] = p => pc[m] \in {"transfer", "poll"}
      BY <1>t, <2>1 DEF BusInv, ReturnsFinal, Pending, Final, TypeOK, PcValues
    <2>4. \A m \in Master : PriorityOf[m] = p /\ pc'[m] \in {"idle", "edge", "ready"}
             => status'[p] \in Final
      BY <1>t, <1>3, <2>3 DEF HandleRequest, HandleAnswer, Reject, SlaveError, SlaveOK, SlaveWait,
        TypeOK, Notified, Final
    <2>5. \A m \in Master : PriorityOf[m] # p => pc'[m] = pc[m]
      BY <1>t, <1>3 DEF HandleRequest, HandleAnswer, Reject, SlaveError, SlaveOK, SlaveWait, TypeOK,
        Notified
    <2>6. ReturnsFinal'
      BY <2>2, <2>4, <2>5 DEF BusInv, ReturnsFinal
    <2>7. CASE SlaveWait(p)
      <3>1. status'[p] = "WAIT" /\ m_current_request' = p /\ lock' = LockTaken(p)
        BY <1>t, <2>7 DEF SlaveWait, TypeOK
      <3>2. \A q \in Priority : q # p => q # m_current_request
        BY <2>1 DEF ToHandle
      <3>3. \A q \in Priority : q # p /\ lock'[q] = "GRANTED" => status'[q] = "REQUEST"
        BY <1>t, <2>2, <3>1, <3>2, LockTakenElsewhere DEF BusInv, LockInv
      <3> QED
        BY <1>t, <2>1, <2>6, <3>1, <3>3 DEF BusInv, NeverAborts, CurrentWaits, LockInv
    <2>8. CASE Reject(p) \/ SlaveError(p) \/ SlaveOK(p)
      <3>1. m_current_request' = None /\ lock' = clear_locks(LockTaken(p))
        BY <2>8 DEF Reject, SlaveError, SlaveOK
      <3>2. LockInv'
        BY <2>1, <2>2, <3>1, ClearKeepsLocks
      <3> QED
        BY <1>t, <2>1, <2>6, <3>1, <3>2 DEF BusInv, NeverAborts, CurrentWaits
    <2> QED
      BY <1>3, <2>7, <2>8 DEF HandleRequest, HandleAnswer
  <1>4. ASSUME NEW m \in Master, NEW c \in Calls[m], NEW flag \in LockFlags[m],
               BurstCall(m, c, flag)
        PROVE BusInv'
    <2>1. LockInv' /\ CurrentWaits'
      BY <1>4, FillKeepsLocks DEF BurstCall
    <2>2. \A n \in Master : n # m => /\ pc'[n] = pc[n]
                                   /\ status'[PriorityOf[n]] = status[PriorityOf[n]]
      BY <1>t, <1>4 DEF BurstCall, Fill, TypeOK, UniquePriorities
    <2>3. ReturnsFinal'
      BY <1>t, <1>4, <2>2 DEF BurstCall, BusInv, ReturnsFinal, TypeOK
    <2> QED
      BY <1>t, <1>4, <2>1, <2>3 DEF BurstCall, BusInv, NeverAborts
  <1>5. ASSUME NEW m \in Master, NEW c \in Calls[m], NEW flag \in LockFlags[m],
               SingleCall(m, c, flag)
        PROVE BusInv'
    <2>1. ~aborted' /\ Fill(PriorityOf[m], c, flag)
      BY <1>5 DEF SingleCall, BusInv, ReturnsFinal
    <2>2. LockInv' /\ CurrentWaits'
      BY <1>5, <2>1, FillKeepsLocks DEF SingleCall
    <2>3. \A n \in Master : n # m => /\ pc'[n] = pc[n]
                                   /\ status'[PriorityOf[n]] = status[PriorityOf[n]]
      BY <1>t, <1>5, <2>1 DEF SingleCall, Fill, TypeOK, UniquePriorities
    <2>4. ReturnsFinal'
      BY <1>t, <1>5, <2>3 DEF SingleCall, BusInv, ReturnsFinal, TypeOK
    <2> QED
      BY <1>t, <2>1, <2>2, <2>4 DEF BusInv, NeverAborts
  <1>6. ASSUME NEW m \in Master, GetStatus(m) \/ Return(m) PROVE BusInv'
    BY <1>t, <1>6 DEF GetStatus, Return, BusInv, NeverAborts, ReturnsFinal, CurrentWaits,
      LockInv, Holder, TypeOK
  <1>7. CASE UNCHANGED vars
    BY <1>t, <1>7 DEF vars, BusInv, NeverAborts, ReturnsFinal, CurrentWaits, LockInv, Holder
  <1> QED
    BY <1>1, <1>2, <1>3, <1>4, <1>5, <1>6, <1>7 DEF Next, NegEdge, MasterStep

\* With unique priorities, and whatever the masters ask for and the slaves
\* answer, the bus is promised to one master at a time, no call returns
\* before its request is finished and no assertion fails.
THEOREM BusSafety == UniquePriorities => (Spec => []BusInv)
  <1> SUFFICES ASSUME UniquePriorities PROVE Spec => []BusInv
    OBVIOUS
  <1>1. BusInv /\ [Next]_vars => BusInv'
    BY BusStep
  <1> QED
    BY BusInit, <1>1, PTL DEF Spec

\* No call ever returns an unfinished status, and none overwrites a form the bus
\* still works on.
COROLLARY CallsReturnFinal == UniquePriorities => (Spec => []ReturnsFinal)
  BY BusSafety, PTL DEF BusInv

\* The bus is promised to at most one master at a time.
COROLLARY OnePromise == UniquePriorities => (Spec => []LockInv)
  BY BusSafety, PTL DEF BusInv

\* The assertions of read and write never fail.
COROLLARY AssertionsHold == UniquePriorities => (Spec => []NeverAborts)
  BY BusSafety, PTL DEF BusInv

-------------------------------------------------------------------------------
(* The arbiter *)

\* Rules 1 and 2 select only forms whose lock is honoured.
LEMMA LockedFormsHold ==
  ASSUME TypeOK
  PROVE  /\ LockedBurst(Pending, status, lock) \subseteq Holder
         /\ LockGranted(Pending, lock) \subseteq Holder
  BY DEF LockedBurst, LockGranted, Pending, Holder

LEMMA WinnerIsUnique == BusInv => OneWinner
  <1> SUFFICES ASSUME BusInv, NEW p \in ToHandle, NEW q \in ToHandle PROVE p = q
    BY DEF OneWinner
  <1>1. CASE m_current_request # None
    BY <1>1 DEF ToHandle
  <1>2. CASE m_current_request = None
    <2>1. \A r, t \in Holder : r = t
      BY <1>2 DEF BusInv, LockInv
    <2>2. \A r, t \in MostUrgent(Pending) : r = t
      BY PriorityIsNat DEF MostUrgent, Pending
    <2> QED
      BY <1>2, <2>1, <2>2, LockedFormsHold DEF BusInv, ToHandle, Arbitrate
  <1> QED
    BY <1>1, <1>2

\* The order in which the forms were created never decides an arbitration.
THEOREM ArbitrationIsDeterministic == UniquePriorities => (Spec => []OneWinner)
  <1> SUFFICES ASSUME UniquePriorities PROVE Spec => []OneWinner
    OBVIOUS
  <1>1. Spec => []BusInv
    BY BusSafety
  <1> QED
    BY <1>1, WinnerIsUnique, PTL

\* What a falling edge serves is a member of ToHandle.
LEMMA ServedIsHandled ==
  ASSUME NegEdge
  PROVE  \/ ToHandle = {} /\ served' = None
         \/ served' \in ToHandle /\ served' \in Priority
  BY DEF NegEdge, NothingPending, HandleRequest, HandleAnswer, Reject, SlaveError, SlaveOK, SlaveWait

\* A pending form with an honoured lock is served at the next falling edge at
\* which the bus is free, against requests of any priority (rules 1 and 2).
THEOREM HolderIsServedNext == UniquePriorities => (Spec => HolderServedNext)
  <1> SUFFICES ASSUME UniquePriorities PROVE Spec => HolderServedNext
    OBVIOUS
  <1> DEFINE Promise == \A p \in Priority :
        m_current_request = None /\ HoldsBus(p) /\ NegEdge => served' = p
  <1>1. BusInv /\ [Next]_vars => [Promise]_vars
    <2> SUFFICES ASSUME BusInv, NEW p \in Priority, m_current_request = None,
                        HoldsBus(p), NegEdge
                 PROVE  served' = p
      OBVIOUS
    <2>1. p \in LockedBurst(Pending, status, lock) \cup LockGranted(Pending, lock)
      BY DEF HoldsBus, Holder, Pending, LockedBurst, LockGranted
    <2>2. ToHandle # {} /\ ToHandle \subseteq Holder
      BY <2>1, LockedFormsHold DEF ToHandle, Arbitrate, BusInv
    <2>3. p \in Holder /\ \A q \in Holder : q = p
      BY DEF HoldsBus, BusInv, LockInv
    <2> QED
      BY <2>2, <2>3, ServedIsHandled
  <1>2. Spec => []BusInv
    BY BusSafety
  <1> QED
    BY <1>1, <1>2, PTL DEF Spec, HolderServedNext

\* Whose lock a form carries: one granted to a request was asked for by the
\* call that made it, a burst has moved a word before it is left waiting for
\* its turn, and forms of masters that never lock carry none.
LockAsked ==
    /\ \A p \in Priority : lock[p] = "GRANTED" /\ status[p] = "REQUEST" => asked[p].lock
    /\ \A p \in Priority : status[p] = "WAIT" /\ p # m_current_request => data[p] > 0
    /\ \A p \in Priority : ~UsesLocks(p) => lock[p] = "NO"

\* Serving a word never puts a lock on a form that has none.
LEMMA NoNewLock ==
  ASSUME TypeOK, NEW p \in Priority, NEW q \in Priority, lock[q] = "NO"
  PROVE  /\ LockTaken(p)[q] = "NO" /\ clear_locks(LockTaken(p))[q] = "NO"
         /\ clear_locks(lock)[q] = "NO"
  BY DEF TypeOK, LockTaken, LockAfter, clear_locks

\* A call without the lock takes none over that was granted: the bus has
\* downgraded the lock of every form it is done with.
LEMMA FillKeepsLockAsked ==
  ASSUME BusInv, LockAsked, NEW m \in Master, NEW c \in Calls[m],
         NEW flag \in LockFlags[m], status[PriorityOf[m]] \in Final,
         Fill(PriorityOf[m], c, flag), UNCHANGED m_current_request
  PROVE  LockAsked'
  <1> DEFINE p == PriorityOf[m]
  <1>1. p \in Priority /\ TypeOK /\ flag \in BOOLEAN
    BY PriorityInPriority, MasterAssumption DEF BusInv
  <1>2. /\ lock'[p] = AskLock(lock[p], flag) /\ asked'[p].lock = flag
        /\ status'[p] = "REQUEST"
    BY <1>1 DEF Fill, TypeOK
  <1>3. \A q \in Priority : q # p =>
          /\ lock'[q] = lock[q] /\ asked'[q] = asked[q] /\ status'[q] = status[q]
          /\ data'[q] = data[q]
    BY <1>1 DEF Fill, TypeOK
  <1>4. lock[p] # "GRANTED"
    <2>1. status[p] # "REQUEST" /\ status[p] # "WAIT"
      BY DEF Final
    <2>2. p # None
      BY <1>1, PriorityIsNat
    <2> QED
      BY <1>1, <2>1, <2>2 DEF BusInv, CurrentWaits, LockInv
  <1>5. lock'[p] = "GRANTED" => flag
    BY <1>1, <1>2, <1>4 DEF AskLock
  <1>6. ~UsesLocks(p) => lock'[p] = "NO"
    <2>1. ~UsesLocks(p) => flag = FALSE
      BY <1>1 DEF UsesLocks
    <2> QED
      BY <1>1, <1>2, <2>1 DEF LockAsked, AskLock
  <1> QED
    BY <1>2, <1>3, <1>5, <1>6 DEF LockAsked, UsesLocks

\* Serving a word grants no lock to a form that still waits for its turn.
LEMMA NegEdgeKeepsLockAsked ==
  ASSUME BusInv, LockAsked, NegEdge
  PROVE  LockAsked'
  <1>t. TypeOK /\ ToHandle \subseteq Pending /\ None \notin Priority
    BY HandledIsPending, PriorityIsNat DEF BusInv
  <1>1. \A q \in Priority : lock[q] = "NO" => lock'[q] = "NO"
    BY <1>t, NoNewLock DEF NegEdge, NothingPending, HandleRequest, HandleAnswer, Reject,
      SlaveError, SlaveOK, SlaveWait
  <1>2. asked' = asked
    BY DEF NegEdge, NothingPending, HandleRequest, HandleAnswer, Reject, SlaveError, SlaveOK,
      SlaveWait, FallingEdge, form
  <1>3. \A q \in Priority : ~UsesLocks(q)' => lock'[q] = "NO"
    BY <1>1 DEF LockAsked, UsesLocks
  <1>4. CASE NothingPending
    <2>1. /\ \A q \in Priority : lock'[q] # "GRANTED"
          /\ UNCHANGED <<status, data, m_current_request>>
      BY <1>4 DEF NothingPending, clear_locks
    <2> QED
      BY <1>2, <1>3, <2>1 DEF LockAsked
  <1>5. ASSUME NEW p \in Priority, HandleRequest(p) PROVE LockAsked'
    <2>1. /\ p \in ToHandle
          /\ m_current_request = None \/ m_current_request = p
      BY <1>5 DEF HandleRequest, HandleAnswer, Reject, SlaveError, SlaveOK, SlaveWait, ToHandle
    <2>2. \A q \in Priority : q # p => status'[q] = status[q] /\ data'[q] = data[q]
      BY <1>t, <1>5 DEF HandleRequest, HandleAnswer, Reject, SlaveError, SlaveOK, SlaveWait,
        TypeOK
    <2>3. status'[p] = "WAIT" /\ p # m_current_request' => data'[p] > 0
      <3>1. SlaveOK(p) => data'[p] > 0
        BY <1>t DEF SlaveOK, TypeOK, NextPointer
      <3>2. SlaveWait(p) => m_current_request' = p
        BY DEF SlaveWait
      <3>3. Reject(p) \/ SlaveError(p) => status'[p] # "WAIT"
        BY <1>t DEF Reject, SlaveError, TypeOK
      <3> QED
        BY <1>5, <3>1, <3>2, <3>3 DEF HandleRequest, HandleAnswer
    <2>4. status'[p] # "REQUEST"
      BY <1>t, <1>5 DEF HandleRequest, HandleAnswer, Reject, SlaveError, SlaveOK, SlaveWait,
        TypeOK
    <2>5. \A q \in Priority : q # p /\ lock'[q] = "GRANTED" => lock[q] = "GRANTED"
      BY <1>t, <1>5 DEF HandleRequest, HandleAnswer, Reject, SlaveError, SlaveOK, SlaveWait,
        TypeOK, LockTaken, clear_locks
    <2>6. \A q \in Priority : lock'[q] = "GRANTED" /\ status'[q] = "REQUEST" => asked'[q].lock
      BY <1>2, <2>2, <2>4, <2>5 DEF LockAsked
    <2>7. \A q \in Priority : status'[q] = "WAIT" /\ q # m_current_request' => data'[q] > 0
      BY <1>t, <2>1, <2>2, <2>3 DEF LockAsked
    <2> QED
      BY <1>3, <2>6, <2>7 DEF LockAsked
  <1> QED
    BY <1>4, <1>5 DEF NegEdge

LEMMA LockAskedStep ==
  ASSUME BusInv, LockAsked, [Next]_vars
  PROVE  LockAsked'
  <1>1. ASSUME UNCHANGED <<status, lock, asked, data, m_current_request>> PROVE LockAsked'
    BY <1>1 DEF LockAsked, UsesLocks
  <1>2. ASSUME NEW m \in Master, MasterStep(m) PROVE LockAsked'
    <2>1. CASE \E c \in Calls[m], flag \in LockFlags[m] :
                 /\ Fill(PriorityOf[m], c, flag) /\ status[PriorityOf[m]] \in Final
                 /\ UNCHANGED m_current_request
      BY <2>1, FillKeepsLockAsked
    <2>2. CASE UNCHANGED <<status, lock, asked, data, m_current_request>>
      BY <1>1, <2>2
    <2>3. ASSUME NEW c \in Calls[m], NEW flag \in LockFlags[m], BurstCall(m, c, flag)
          PROVE  LockAsked'
      BY <2>1, <2>3 DEF BurstCall, BusInv, ReturnsFinal
    <2>4. ASSUME NEW c \in Calls[m], NEW flag \in LockFlags[m], SingleCall(m, c, flag)
          PROVE  LockAsked'
      BY <2>1, <2>2, <2>4 DEF SingleCall, form
    <2>5. GetStatus(m) \/ Return(m) => LockAsked'
      BY <2>2 DEF GetStatus, Return, form
    <2> QED
      BY <1>2, <2>3, <2>4, <2>5 DEF MasterStep
  <1>3. CASE PosEdge \/ UNCHANGED vars
    BY <1>1, <1>3 DEF PosEdge, vars, form
  <1> QED
    BY <1>2, <1>3, NegEdgeKeepsLockAsked DEF Next

LEMMA LockAskedInit == Init => LockAsked
  BY DEF Init, LockAsked

\* A form passes a more urgent pending one only if its call asked for the lock,
\* or after the first word of a call of a master that does so in other calls.
THEOREM UnlockedCallsWait == UniquePriorities => (Spec => UnlockedKeepTheirTurn)
  <1> SUFFICES ASSUME UniquePriorities PROVE Spec => UnlockedKeepTheirTurn
    OBVIOUS
  <1> DEFINE Fair == \A p, q \in Pending :
        q < p /\ NegEdge /\ served' = p /\ m_current_request = None
        => asked[p].lock \/ (data[p] > 0 /\ UsesLocks(p))
  <1>1. BusInv /\ LockAsked /\ [Next]_vars => [Fair]_vars
    <2> SUFFICES ASSUME BusInv, LockAsked, NEW p \in Pending, NEW q \in Pending, q < p,
                        NegEdge, served' = p, m_current_request = None
                 PROVE  asked[p].lock \/ (data[p] > 0 /\ UsesLocks(p))
      OBVIOUS
    <2>1. p \in Priority /\ q \in Priority /\ p \in Nat /\ q \in Nat /\ p # None
      BY PriorityIsNat DEF Pending
    <2>2. p \in Arbitrate(Pending, status, lock)
      BY <2>1, ServedIsHandled DEF ToHandle
    <2>3. p \notin MostUrgent(Pending)
      BY <2>1 DEF MostUrgent
    <2>4. CASE p \in LockedBurst(Pending, status, lock)
      BY <2>1, <2>4 DEF LockedBurst, LockAsked
    <2>5. CASE p \in LockGranted(Pending, lock)
      BY <2>1, <2>5 DEF LockGranted, BusInv, LockInv, LockAsked
    <2> QED
      BY <2>2, <2>3, <2>4, <2>5 DEF Arbitrate
  <1>2. Spec => []BusInv
    BY BusSafety
  <1>3. BusInv /\ LockAsked /\ [Next]_vars => LockAsked'
    BY LockAskedStep
  <1>4. Spec => []LockAsked
    BY <1>2, <1>3, LockAskedInit, PTL DEF Spec
  <1> QED
    BY <1>1, <1>2, <1>4, PTL DEF Spec, UnlockedKeepTheirTurn

-------------------------------------------------------------------------------
(* The words of a call *)

\* PendingProgress is inductive once the addresses are known not to wrap.
PendingFits == \A p \in Pending : end_address[p] + 4 < AddressSpace
WordsInv == PendingProgress /\ PendingFits /\ OKMeansAllWords

LEMMA ModOfWord ==
  ASSUME NEW a \in Nat, a < AddressSpace
  PROVE  a % AddressSpace = a
  BY SpaceAssumption

\* A call that fits starts with all its words before it.
LEMMA FillStartsWords ==
  ASSUME BurstsFit, TypeOK, WordsInv, NEW m \in Master, NEW c \in Calls[m],
         NEW flag \in LockFlags[m], Fill(PriorityOf[m], c, flag)
  PROVE  WordsInv'
  <1> DEFINE p == PriorityOf[m]
  <1>1. p \in Priority
    BY PriorityInPriority
  <1>2. /\ c.address \in Nat /\ c.length \in Nat
        /\ c.length > 0 /\ c.address + c.length * 4 < AddressSpace
    BY MasterAssumption, SpaceAssumption DEF BurstsFit, Call, Word
  <1>3. /\ c.address + (c.length - 1) * 4 \in Nat
        /\ c.address + (c.length - 1) * 4 < AddressSpace
    BY <1>2, SpaceAssumption
  <1>4. EndOfBurst(c) = c.address + (c.length - 1) * 4
    BY <1>3, ModOfWord DEF EndOfBurst
  <1>5. /\ status'[p] = "REQUEST" /\ data'[p] = 0 /\ address'[p] = c.address
        /\ end_address'[p] = EndOfBurst(c) /\ asked'[p].length = c.length
    BY <1>1 DEF Fill, TypeOK
  <1>6. \A q \in Priority : q # p =>
          /\ status'[q] = status[q] /\ data'[q] = data[q] /\ address'[q] = address[q]
          /\ end_address'[q] = end_address[q] /\ asked'[q] = asked[q]
    BY <1>1 DEF Fill, TypeOK
  <1>7. /\ data'[p] < asked'[p].length
        /\ address'[p] + 4 * (asked'[p].length - data'[p]) = end_address'[p] + 4
        /\ end_address'[p] + 4 < AddressSpace
    BY <1>2, <1>4, <1>5, SpaceAssumption
  <1>8. PendingProgress'
    BY <1>6, <1>7 DEF WordsInv, PendingProgress, Pending
  <1>9. PendingFits'
    BY <1>6, <1>7 DEF WordsInv, PendingFits, Pending
  <1>10. OKMeansAllWords'
    BY <1>5, <1>6 DEF WordsInv, OKMeansAllWords
  <1> QED
    BY <1>8, <1>9, <1>10 DEF WordsInv

\* The word a slave has done is one of those the call still had to move, and
\* the call ends with the last one.
LEMMA SlaveOKMovesWord ==
  ASSUME TypeOK, WordsInv, NEW p \in Pending, SlaveOK(p)
  PROVE  WordsInv'
  <1>1. /\ p \in Priority /\ address[p] \in Nat /\ end_address[p] \in Nat
        /\ data[p] \in Nat /\ asked[p].length \in Nat
    BY SpaceAssumption DEF Pending, TypeOK, Word
  <1>2. /\ data[p] < asked[p].length
        /\ address[p] + 4 * (asked[p].length - data[p]) = end_address[p] + 4
        /\ end_address[p] + 4 < AddressSpace
    BY DEF WordsInv, PendingProgress, PendingFits
  <1>3. address[p] + 4 <= end_address[p] + 4
    BY <1>1, <1>2
  <1>4. (address[p] + 4) % AddressSpace = address[p] + 4
    BY <1>1, <1>2, <1>3, ModOfWord, SpaceAssumption
  <1>5. /\ address'[p] = address[p] + 4 /\ data'[p] = data[p] + 1
        /\ status'[p] = IF Done(p) THEN "OK" ELSE "WAIT"
        /\ end_address' = end_address /\ asked' = asked
    BY <1>1, <1>4 DEF SlaveOK, FallingEdge, form, TypeOK, NextPointer
  <1>6. \A q \in Priority : q # p =>
          status'[q] = status[q] /\ data'[q] = data[q] /\ address'[q] = address[q]
    BY <1>1 DEF SlaveOK, TypeOK
  <1>7. Done(p) <=> address[p] + 4 > end_address[p]
    BY <1>4 DEF Done
  <1>8. Done(p) <=> data[p] + 1 = asked[p].length
    BY <1>1, <1>2, <1>7
  <1>9. PendingProgress'
    <2>1. ~Done(p) => /\ data'[p] < asked'[p].length
                      /\ address'[p] + 4 * (asked'[p].length - data'[p])
                           = end_address'[p] + 4
      <3> SUFFICES ASSUME ~Done(p)
                   PROVE  /\ data[p] + 1 < asked[p].length
                          /\ address[p] + 4 + 4 * (asked[p].length - (data[p] + 1))
                               = end_address[p] + 4
        BY <1>5
      <3>1. data[p] + 1 # asked[p].length
        BY <1>8
      <3> QED
        BY <1>1, <1>2, <3>1
    <2>2. \A q \in Pending' : q # p => q \in Pending
      BY <1>6 DEF Pending
    <2>3. p \in Pending' => ~Done(p)
      BY <1>5 DEF Pending
    <2>4. \A q \in Pending' : q \in Priority
      BY DEF Pending
    <2> SUFFICES ASSUME NEW q \in Pending'
                 PROVE  /\ data'[q] < asked'[q].length
                        /\ address'[q] + 4 * (asked'[q].length - data'[q])
                             = end_address'[q] + 4
      BY DEF PendingProgress
    <2>5. CASE q = p
      BY <2>1, <2>3, <2>5
    <2>6. CASE q # p
      BY <1>5, <1>6, <2>2, <2>4, <2>6 DEF WordsInv, PendingProgress
    <2> QED
      BY <2>5, <2>6
  <1>10. PendingFits'
    BY <1>2, <1>5, <1>6 DEF WordsInv, PendingFits, Pending
  <1>11. OKMeansAllWords'
    BY <1>5, <1>6, <1>8 DEF WordsInv, OKMeansAllWords
  <1> QED
    BY <1>9, <1>10, <1>11 DEF WordsInv

\* No other step starts, moves or completes a call.
LEMMA OtherStepsKeepWords ==
  ASSUME WordsInv, UNCHANGED <<address, end_address, data, asked>>,
         Pending' \subseteq Pending,
         \A q \in Priority : status'[q] = "OK" => status[q] = "OK"
  PROVE  WordsInv'
  BY DEF WordsInv, PendingProgress, PendingFits, OKMeansAllWords

LEMMA WordsStep ==
  ASSUME BurstsFit, BusInv, WordsInv, [Next]_vars
  PROVE  WordsInv'
  <1>t. TypeOK /\ ToHandle \subseteq Pending
    BY HandledIsPending DEF BusInv
  <1>1. ASSUME UNCHANGED <<status, address, data, form>> PROVE WordsInv'
    BY <1>1, OtherStepsKeepWords DEF form, Pending
  <1>2. ASSUME NEW p \in Priority, Reject(p) \/ SlaveError(p) \/ SlaveWait(p)
        PROVE  WordsInv'
    BY <1>t, <1>2, OtherStepsKeepWords DEF Reject, SlaveError, SlaveWait, FallingEdge,
      form, Pending, TypeOK
  <1>3. ASSUME NEW p \in Priority, SlaveOK(p) PROVE WordsInv'
    BY <1>t, <1>3, SlaveOKMovesWord DEF SlaveOK
  <1>4. ASSUME NEW m \in Master, MasterStep(m) PROVE WordsInv'
    <2>1. \/ UNCHANGED <<status, address, data, form>>
          \/ \E c \in Calls[m], flag \in LockFlags[m] : Fill(PriorityOf[m], c, flag)
      BY <1>4 DEF MasterStep, BurstCall, SingleCall, GetStatus, Return
    <2> QED
      BY <1>t, <1>1, <2>1, FillStartsWords
  <1>5. CASE PosEdge \/ NothingPending \/ UNCHANGED vars
    BY <1>1, <1>5 DEF PosEdge, NothingPending, FallingEdge, vars
  <1> QED
    BY <1>2, <1>3, <1>4, <1>5 DEF Next, NegEdge, HandleRequest, HandleAnswer

LEMMA WordsInit == Init => WordsInv
  BY DEF Init, WordsInv, PendingProgress, PendingFits, OKMeansAllWords, Pending

\* If bursts fit in the address space, a call that ends with OK has moved
\* exactly its words, and a pending call has exactly the rest before it.
THEOREM WholeTransfers ==
  UniquePriorities /\ BurstsFit => (Spec => [](OKMeansAllWords /\ PendingProgress))
  <1> SUFFICES ASSUME UniquePriorities, BurstsFit
               PROVE  Spec => [](OKMeansAllWords /\ PendingProgress)
    OBVIOUS
  <1>1. Spec => []BusInv
    BY BusSafety
  <1>2. BusInv /\ WordsInv /\ [Next]_vars => WordsInv'
    BY WordsStep
  <1>3. WordsInv => OKMeansAllWords /\ PendingProgress
    BY DEF WordsInv
  <1> QED
    BY <1>1, <1>2, <1>3, WordsInit, PTL DEF Spec

\* A pending call always has exactly the rest of its words before it.
COROLLARY RestIsPending ==
  UniquePriorities /\ BurstsFit => (Spec => []PendingProgress)
  BY WholeTransfers, PTL

\* A form only comes to ERROR from a pending state, in a step that moves no
\* word, and nothing touches it until the next call fills it.
LEMMA ErrorStep ==
  ASSUME BusInv, WordsInv, ErrorKeepsRest, [Next]_vars
  PROVE  ErrorKeepsRest'
  <1>t. TypeOK /\ ToHandle \subseteq Pending
    BY HandledIsPending DEF BusInv
  <1>1. ASSUME UNCHANGED <<status, address, data, form>> PROVE ErrorKeepsRest'
    BY <1>1 DEF ErrorKeepsRest, form
  <1>2. ASSUME NEW p \in Priority, Reject(p) \/ SlaveError(p) \/ SlaveWait(p)
        PROVE  ErrorKeepsRest'
    <2>1. /\ UNCHANGED <<address, data, end_address, asked>> /\ p \in Pending
          /\ \A q \in Priority : q # p => status'[q] = status[q]
      BY <1>t, <1>2 DEF Reject, SlaveError, SlaveWait, FallingEdge, form, TypeOK
    <2> QED
      BY <2>1 DEF WordsInv, PendingProgress, ErrorKeepsRest
  <1>3. ASSUME NEW p \in Priority, SlaveOK(p) PROVE ErrorKeepsRest'
    <2>1. /\ UNCHANGED <<end_address, asked>> /\ status'[p] # "ERROR"
          /\ \A q \in Priority : q # p => /\ status'[q] = status[q] /\ data'[q] = data[q]
                                          /\ address'[q] = address[q]
      BY <1>t, <1>3 DEF SlaveOK, FallingEdge, form, TypeOK
    <2> QED
      BY <2>1 DEF ErrorKeepsRest
  <1>4. ASSUME NEW m \in Master, NEW c \in Calls[m], NEW flag \in LockFlags[m],
               Fill(PriorityOf[m], c, flag)
        PROVE  ErrorKeepsRest'
    <2>1. /\ PriorityOf[m] \in Priority /\ status'[PriorityOf[m]] = "REQUEST"
          /\ \A q \in Priority : q # PriorityOf[m] =>
               /\ status'[q] = status[q] /\ data'[q] = data[q] /\ address'[q] = address[q]
               /\ end_address'[q] = end_address[q] /\ asked'[q] = asked[q]
      BY <1>t, <1>4, PriorityInPriority DEF Fill, TypeOK
    <2> QED
      BY <2>1 DEF ErrorKeepsRest
  <1>5. ASSUME NEW m \in Master, MasterStep(m) PROVE ErrorKeepsRest'
    <2>1. \/ UNCHANGED <<status, address, data, form>>
          \/ \E c \in Calls[m], flag \in LockFlags[m] : Fill(PriorityOf[m], c, flag)
      BY <1>5 DEF MasterStep, BurstCall, SingleCall, GetStatus, Return
    <2> QED
      BY <1>1, <1>4, <2>1
  <1>6. CASE PosEdge \/ NothingPending \/ UNCHANGED vars
    BY <1>1, <1>6 DEF PosEdge, NothingPending, FallingEdge, vars
  <1> QED
    BY <1>2, <1>3, <1>5, <1>6 DEF Next, NegEdge, HandleRequest, HandleAnswer

\* A call that fails has moved the words before the failing one, each once, and
\* its form still has exactly the others before it.
THEOREM FailedCallsStop ==
  UniquePriorities /\ BurstsFit => (Spec => []ErrorKeepsRest)
  <1> SUFFICES ASSUME UniquePriorities, BurstsFit PROVE Spec => []ErrorKeepsRest
    OBVIOUS
  <1>1. Spec => []BusInv
    BY BusSafety
  <1>2. BusInv /\ WordsInv /\ [Next]_vars => WordsInv'
    BY WordsStep
  <1>3. BusInv /\ WordsInv /\ ErrorKeepsRest /\ [Next]_vars => ErrorKeepsRest'
    BY ErrorStep
  <1>4. Init => ErrorKeepsRest
    BY DEF Init, ErrorKeepsRest
  <1> QED
    BY <1>1, <1>2, <1>3, <1>4, WordsInit, PTL DEF Spec

-------------------------------------------------------------------------------
(* Wake-ups *)

\* A form has only mapped words before it, ...
RestMapped(a, n) ==
    a % 4 = 0 /\ \A i \in 0 .. n - 1 : get_slave(a + 4 * i) # {}

\* ... so the bus never rejects the request of a sleeping caller.
WakeInv ==
    /\ NoLostWakeup
    /\ \A m \in Master : pc[m] = "transfer" => m \in Blocking
    /\ \A m \in Blocking : PriorityOf[m] \in Pending =>
          RestMapped(address[PriorityOf[m]],
                     asked[PriorityOf[m]].length - data[PriorityOf[m]])

LEMMA RestOfRest ==
  ASSUME NEW a \in Nat, NEW n \in Nat, n > 0, RestMapped(a, n)
  PROVE  RestMapped(a + 4, n - 1) /\ get_slave(a) # {}
  <1>1. (a + 4) % 4 = 0
    BY DEF RestMapped
  <1>2. \A i \in 0 .. n - 2 : get_slave(a + 4 + 4 * i) # {}
    <2> SUFFICES ASSUME NEW i \in 0 .. n - 2 PROVE get_slave(a + 4 + 4 * i) # {}
      OBVIOUS
    <2>1. i + 1 \in 0 .. n - 1 /\ a + 4 * (i + 1) = a + 4 + 4 * i
      OBVIOUS
    <2>2. get_slave(a + 4 * (i + 1)) # {}
      BY <2>1 DEF RestMapped
    <2> QED
      BY <2>1, <2>2
  <1>3. 0 \in 0 .. n - 1 /\ a + 4 * 0 = a
    OBVIOUS
  <1>4. get_slave(a + 4 * 0) # {}
    BY <1>3 DEF RestMapped
  <1>5. n - 1 - 1 = n - 2
    OBVIOUS
  <1> QED
    BY <1>1, <1>2, <1>3, <1>4, <1>5 DEF RestMapped

LEMMA FillKeepsWake ==
  ASSUME UniquePriorities, BlockingCallsMapped, TypeOK, WakeInv,
         NEW m \in Master, NEW c \in Calls[m], NEW flag \in LockFlags[m],
         Fill(PriorityOf[m], c, flag), pc' \in [Master -> PcValues],
         \A n \in Master : n # m => pc'[n] = pc[n],
         pc'[m] = "transfer" => m \in Blocking
  PROVE  WakeInv'
  <1> USE PriorityInPriority
  <1>0. Blocking \subseteq Master /\ c.length \in Nat
    BY MasterAssumption DEF Call
  <1>1. /\ status'[PriorityOf[m]] = "REQUEST" /\ data'[PriorityOf[m]] = 0
        /\ address'[PriorityOf[m]] = c.address
        /\ asked'[PriorityOf[m]].length = c.length
    BY DEF Fill, TypeOK
  <1>2. \A n \in Master : n # m =>
          /\ status'[PriorityOf[n]] = status[PriorityOf[n]]
          /\ data'[PriorityOf[n]] = data[PriorityOf[n]]
          /\ address'[PriorityOf[n]] = address[PriorityOf[n]]
          /\ asked'[PriorityOf[n]] = asked[PriorityOf[n]]
    BY DEF Fill, TypeOK, UniquePriorities
  <1>3. NoLostWakeup'
    BY <1>1, <1>2 DEF WakeInv, NoLostWakeup, Pending
  <1>4. m \in Blocking => RestMapped(c.address, c.length)
    BY DEF BlockingCallsMapped, Mapped, RestMapped
  <1>5. c.length - 0 = c.length
    BY <1>0
  <1>6. \A n \in Blocking : PriorityOf[n] \in Pending' =>
          RestMapped(address'[PriorityOf[n]],
                     asked'[PriorityOf[n]].length - data'[PriorityOf[n]])
    <2> SUFFICES ASSUME NEW n \in Blocking, PriorityOf[n] \in Pending'
                 PROVE  RestMapped(address'[PriorityOf[n]],
                          asked'[PriorityOf[n]].length - data'[PriorityOf[n]])
      OBVIOUS
    <2>1. CASE n = m
      BY <1>1, <1>4, <1>5, <2>1
    <2>2. CASE n # m
      <3>1. n \in Master /\ PriorityOf[n] \in Pending
        BY <1>0, <1>2, <2>2 DEF Pending
      <3> QED
        BY <1>2, <2>2, <3>1 DEF WakeInv
    <2> QED
      BY <2>1, <2>2
  <1> QED
    BY <1>3, <1>6 DEF WakeInv, RestMapped, get_slave

\* A falling edge never takes a request away from a caller that still sleeps.
LEMMA HandlingKeepsWake ==
  ASSUME UniquePriorities, BusInv, WordsInv, WakeInv, NEW p \in Priority, HandleRequest(p)
  PROVE  WakeInv'
  <1>t. TypeOK /\ p \in Pending /\ Blocking \subseteq Master
    BY HandledIsPending, MasterAssumption DEF BusInv, HandleRequest, HandleAnswer, Reject, SlaveError,
      SlaveOK, SlaveWait
  <1>1. /\ data[p] < asked[p].length /\ address[p] \in Nat
        /\ asked[p].length \in Nat /\ data[p] \in Nat
        /\ address[p] + 4 * (asked[p].length - data[p]) = end_address[p] + 4
        /\ end_address[p] + 4 < AddressSpace
    BY <1>t DEF WordsInv, PendingProgress, PendingFits, TypeOK, Word
  <1>2. asked[p].length - data[p] \in Nat /\ asked[p].length - data[p] > 0
    BY <1>1
  <1>3. \A m \in Blocking : PriorityOf[m] = p =>
          /\ Reached(p)
          /\ RestMapped(address[p] + 4, asked[p].length - data[p] - 1)
    <2> SUFFICES ASSUME NEW m \in Blocking, PriorityOf[m] = p
                 PROVE  /\ Reached(p)
                        /\ RestMapped(address[p] + 4, asked[p].length - data[p] - 1)
      OBVIOUS
    <2>1. RestMapped(address[p], asked[p].length - data[p])
      BY <1>t DEF WakeInv
    <2>2. RestMapped(address[p] + 4, asked[p].length - data[p] - 1)
          /\ get_slave(address[p]) # {}
      BY <1>1, <1>2, <2>1, RestOfRest
    <2> QED
      BY <2>1, <2>2 DEF Reached, RestMapped
  <1>4. (address[p] + 4) % AddressSpace = address[p] + 4
    BY <1>1, ModOfWord, SpaceAssumption
  <1>5. \A q \in Priority : q # p =>
          status'[q] = status[q] /\ data'[q] = data[q] /\ address'[q] = address[q]
    BY <1>t DEF HandleRequest, HandleAnswer, Reject, SlaveError, SlaveOK, SlaveWait, TypeOK
  <1>6. asked' = asked
    BY DEF HandleRequest, HandleAnswer, Reject, SlaveError, SlaveOK, SlaveWait, FallingEdge, form
  <1>7. \A m \in Master : pc'[m] = "transfer" =>
          pc[m] = "transfer" /\ (PriorityOf[m] = p => status'[p] = "WAIT")
    <2> SUFFICES ASSUME NEW m \in Master, pc'[m] = "transfer"
                 PROVE  pc[m] = "transfer" /\ (PriorityOf[m] = p => status'[p] = "WAIT")
      OBVIOUS
    <2>1. CASE Reject(p)
      <3>1. pc[m] = "transfer" /\ PriorityOf[m] # p
        BY <1>3, <2>1 DEF Reject, WakeInv
      <3> QED
        BY <3>1
    <2>2. CASE SlaveError(p)
      BY <2>2 DEF SlaveError, Notified
    <2>3. CASE SlaveOK(p)
      BY <1>t, <2>3 DEF SlaveOK, Notified, TypeOK
    <2>4. CASE SlaveWait(p)
      BY <1>t, <2>4 DEF SlaveWait, TypeOK
    <2> QED
      BY <2>1, <2>2, <2>3, <2>4 DEF HandleRequest, HandleAnswer
  <1>8. NoLostWakeup'
    BY <1>5, <1>7, PriorityInPriority DEF WakeInv, NoLostWakeup, Pending
  <1>9. \/ address'[p] = address[p] /\ data'[p] = data[p]
        \/ address'[p] = address[p] + 4 /\ data'[p] = data[p] + 1
    BY <1>t, <1>4 DEF HandleRequest, HandleAnswer, Reject, SlaveError, SlaveOK, SlaveWait, TypeOK,
      NextPointer
  <1>10. asked[p].length - data[p] - 1 = asked[p].length - (data[p] + 1)
    BY <1>1
  <1>11. \A m \in Blocking : PriorityOf[m] \in Pending' =>
           RestMapped(address'[PriorityOf[m]],
                      asked'[PriorityOf[m]].length - data'[PriorityOf[m]])
    <2> SUFFICES ASSUME NEW m \in Blocking, PriorityOf[m] \in Pending'
                 PROVE  RestMapped(address'[PriorityOf[m]],
                          asked'[PriorityOf[m]].length - data'[PriorityOf[m]])
      OBVIOUS
    <2>1. CASE PriorityOf[m] = p
      BY <1>t, <1>3, <1>6, <1>9, <1>10, <2>1 DEF WakeInv
    <2>2. CASE PriorityOf[m] # p
      <3>1. PriorityOf[m] \in Priority /\ PriorityOf[m] \in Pending
        BY <1>t, <1>5, <2>2, PriorityInPriority DEF Pending
      <3> QED
        BY <1>5, <1>6, <2>2, <3>1 DEF WakeInv
    <2> QED
      BY <2>1, <2>2
  <1> QED
    BY <1>7, <1>8, <1>11 DEF WakeInv, RestMapped, get_slave

LEMMA WakeStep ==
  ASSUME UniquePriorities, BurstsFit, BlockingCallsMapped, BusInv, WordsInv, WakeInv,
         [Next]_vars
  PROVE  WakeInv'
  <1>t. TypeOK /\ TypeOK'
    BY TypeStep DEF BusInv
  <1>1. ASSUME UNCHANGED <<status, address, data, form>>,
               \A m \in Master : pc'[m] = "transfer" => pc[m] = "transfer"
        PROVE  WakeInv'
    BY <1>1 DEF form, WakeInv, NoLostWakeup, Pending, RestMapped, get_slave
  <1>2. ASSUME NEW p \in Priority, HandleRequest(p) PROVE WakeInv'
    BY <1>2, HandlingKeepsWake
  <1>3. ASSUME NEW m \in Master, NEW c \in Calls[m], NEW flag \in LockFlags[m],
               BurstCall(m, c, flag)
        PROVE WakeInv'
    BY <1>t, <1>3, FillKeepsWake DEF BurstCall, TypeOK
  <1>4. ASSUME NEW m \in Master, NEW c \in Calls[m], NEW flag \in LockFlags[m],
               SingleCall(m, c, flag)
        PROVE WakeInv'
    <2>1. ~aborted'
      BY <1>4 DEF SingleCall, BusInv, ReturnsFinal
    <2> QED
      BY <1>t, <1>4, <2>1, FillKeepsWake DEF SingleCall, TypeOK
  <1>5. ASSUME NEW m \in Master, GetStatus(m) \/ Return(m) PROVE WakeInv'
    BY <1>t, <1>1, <1>5 DEF GetStatus, Return, TypeOK
  <1>6. CASE PosEdge \/ NothingPending \/ UNCHANGED vars
    BY <1>1, <1>6 DEF PosEdge, NothingPending, FallingEdge, vars
  <1> QED
    BY <1>2, <1>3, <1>4, <1>5, <1>6 DEF Next, NegEdge, MasterStep

LEMMA WakeInit == Init => WakeInv
  <1> SUFFICES ASSUME Init PROVE WakeInv
    OBVIOUS
  <1>1. Pending = {}
    BY DEF Init, Pending
  <1>2. \A m \in Master : pc[m] = "idle"
    BY DEF Init
  <1> QED
    BY <1>1, <1>2 DEF WakeInv, NoLostWakeup

\* A caller asleep in wait(transfer_done) always has a pending request, as
\* long as every word of every blocking call is aligned and has a slave.
THEOREM SleepersAreServed ==
  UniquePriorities /\ BurstsFit /\ BlockingCallsMapped => (Spec => []NoLostWakeup)
  <1> SUFFICES ASSUME UniquePriorities, BurstsFit, BlockingCallsMapped
               PROVE  Spec => []NoLostWakeup
    OBVIOUS
  <1>1. Spec => []BusInv
    BY BusSafety
  <1>2. BusInv /\ WordsInv /\ [Next]_vars => WordsInv'
    BY WordsStep
  <1>3. BusInv /\ WordsInv /\ WakeInv /\ [Next]_vars => WakeInv'
    BY WakeStep
  <1>4. WakeInv => NoLostWakeup
    BY DEF WakeInv
  <1> QED
    BY <1>1, <1>2, <1>3, <1>4, WordsInit, WakeInit, PTL DEF Spec
===============================================================================
