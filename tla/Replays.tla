-------------------------------- MODULE Replays --------------------------------
(***************************************************************************)
(* What the operator backend is promised of the replays it asks for, seen  *)
(* from their operation records (docs/operator_worker.md): a request is    *)
(* run at most once, never after its record has ended, one at a time in    *)
(* the slot of a plain lane; one lost to a crash stays RUNNING and is not  *)
(* run again.                                                              *)
(***************************************************************************)
CONSTANTS
    Request,   \* replays
    Slot       \* plain lanes: each has one child at a time

VARIABLES
    record,    \* of each request: the status of its operation record
    running,   \* <<slot, request>> whose child runs
    lost       \* requests a crash lost

vars == <<record, running, lost>>

Init ==
    /\ record = [r \in Request |-> "none"]
    /\ running = {} /\ lost = {}

Moves(r, from, to) == record[r] = from /\ record' = [record EXCEPT ![r] = to]
Idle(r) == r \notin lost /\ \A s \in Slot : <<s, r>> \notin running

Ask(r) == Moves(r, "none", "QUEUED") /\ UNCHANGED <<running, lost>>
Take(r) == Moves(r, "QUEUED", "RUNNING") /\ UNCHANGED <<running, lost>>

Refuse(r) ==
    /\ Idle(r)
    /\ Moves(r, "QUEUED", "FAILED") \/ Moves(r, "RUNNING", "FAILED")
    /\ UNCHANGED <<running, lost>>

Start(r, s) ==
    /\ record[r] = "RUNNING" /\ Idle(r)
    /\ \A q \in Request : <<s, q>> \notin running
    /\ running' = running \cup {<<s, r>>}
    /\ UNCHANGED <<record, lost>>

End(r, s) ==
    /\ <<s, r>> \in running /\ running' = running \ {<<s, r>>}
    /\ Moves(r, "RUNNING", "DONE") \/ Moves(r, "RUNNING", "FAILED")
    /\ UNCHANGED lost

Crash ==
    /\ lost' = {r \in Request : record[r] = "RUNNING"} /\ running' = {}
    /\ UNCHANGED record

Next ==
    \/ \E r \in Request : Ask(r) \/ Take(r) \/ Refuse(r)
    \/ \E r \in Request, s \in Slot : Start(r, s) \/ End(r, s)
    \/ Crash

Spec == Init /\ [][Next]_vars
=============================================================================
