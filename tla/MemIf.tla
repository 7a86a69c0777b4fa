-------------------------------- MODULE MemIf --------------------------------
(***************************************************************************)
(* What the processor may assume of its memory (include/mem_if.h): each    *)
(* load or store it calls takes effect once, at one moment between the     *)
(* call and the return, and returns.                                       *)
(***************************************************************************)

CONSTANTS
    Requests,           \* the calls
    Replies(_, _),      \* what a call may return on a memory,
    Effect(_, _),       \* the memory it leaves,
    Fails(_),           \* and whether it ends the program instead
    Nothing             \* no reply

VARIABLES
    memory,
    phase,              \* "idle", "busy" or "done" with a call, or "exited"
    request,            \* the last call
    reply               \* what it is about to return

vars == <<memory, phase, request, reply>>

Init == phase = "idle" /\ reply = Nothing

Call ==
    /\ phase = "idle" /\ phase' = "busy"
    /\ request' \in Requests
    /\ UNCHANGED <<memory, reply>>

Perform ==
    /\ phase = "busy" /\ ~Fails(request)
    /\ phase' = "done"
    /\ reply' \in Replies(memory, request)
    /\ memory' = Effect(memory, request)
    /\ UNCHANGED request
Exit ==
    /\ phase = "busy" /\ Fails(request) /\ phase' = "exited"
    /\ UNCHANGED <<memory, request, reply>>
Return ==
    /\ phase = "done" /\ phase' = "idle" /\ reply' = Nothing
    /\ UNCHANGED <<memory, request>>

Answer == Perform \/ Exit \/ Return
Next == Call \/ Answer
Spec == Init /\ [][Next]_vars /\ WF_vars(Answer)
===============================================================================
