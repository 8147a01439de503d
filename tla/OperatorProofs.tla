---------------------------- MODULE OperatorProofs ----------------------------
(***************************************************************************)
(* Proofs about Operator for any number of requests and checks, whatever   *)
(* the index may say, the policy of the vault denies, and the bounds: its  *)
(* typing, the slots, what a child runs, the refusal of checks, and that   *)
(* it implements Replays.                                                  *)
(***************************************************************************)
EXTENDS Operator, TLAPS

\* A slot has a lane exactly while that lane is past its wait, and is its own.
SlotIsMine ==
    /\ \A l \in AnyLane : pc[l] \in Holding => slots[l.slot] = l
    /\ \A s \in LANES \cup {"single"} :
           slots[s] # None => slots[s].slot = s /\ pc[slots[s]] \in Holding

\* A request waits in at most one queue, or is served by at most one lane, and its record
\* says which.
ServedOnce ==
    /\ \A l \in AnyLane : job[l] = None <=> pc[l] = "idle"
    /\ \A l \in AnyLane : job[l] # None => record[job[l]] = "RUNNING"
    /\ \A l, m \in AnyLane : job[l] # None /\ job[l] = job[m] => l = m
    /\ \A l \in AnyLane : \A r \in queue[l] : record[r] = "QUEUED"
    /\ \A l, m \in AnyLane : queue[l] \cap queue[m] # {} => l = m

\* What has been established of the copy, at each step of a preparation.
CopyIsFit(l) ==
    LET b == body[job[l]] IN
    /\ pc[l] # "idle" => ~Refuses(l, b)
    /\ pc[l] \in {"customize", "archive", "ready", "child"} =>
           copy[l] # None /\ ~copy[l].conf.skipped
    /\ pc[l] = "customize" => b.form = "custom"
    /\ pc[l] \in {"archive", "ready", "child"} => (copy[l].custom <=> b.form = "custom")
    /\ pc[l] = "archive" => b.form = "custom"
    /\ pc[l] \in {"archive", "ready", "child"} /\ b.form = "custom" => copy[l].conf.enabled = 1
    /\ pc[l] \in {"ready", "child"} /\ b.form = "custom" /\ b.part.archive # None =>
           copy[l].conf.backups > 0
CopiesAreFit == \A l \in AnyLane : CopyIsFit(l)

\* The checker reads what its own load left.
LoadIsRead ==
    \A c \in Check :
        check[c] = "loaded" => unreadable["checker"] = {"interface"} \cap Denied

IInv == TypeOK /\ SlotIsMine /\ ServedOnce /\ CopiesAreFit

----------------------------------------------------------------------------
(* Lanes.                                                                   *)

LEMMA LaneType == \A l \in AnyLane : SlotOf(l) \in LANES \cup {"single"} /\ l # None
  BY OperatorAssumption DEF AnyLane, SlotOf

LEMMA LanesAreLanes == Lanes \subseteq AnyLane
  BY DEF Lanes, AnyLane, LANES

LEMMA OneIsBound ==
    \A key \in Keys : \A l, m \in AnyLane : l \in Bound(key) /\ m \in Bound(key) => l = m
  <1> SUFFICES ASSUME NEW key \in Keys, NEW l \in Bound(key), NEW m \in Bound(key)
               PROVE  l = m
    OBVIOUS
  <1>1. CASE single
    <2>1. \A n \in Bound(key) : n = [slot |-> "single", custom |-> FALSE]
      <3>2. ASSUME NEW n \in [slot : {"single"}, custom : {FALSE}]
            PROVE  n = [slot |-> "single", custom |-> FALSE]
        <4>1. n = [slot |-> n.slot, custom |-> n.custom]
          OBVIOUS
        <4>2. n.slot = "single" /\ n.custom = FALSE
          BY Zenon
        <4> QED
          BY <4>1, <4>2, Zenon
      <3> QED
        BY <1>1, <3>2 DEF Bound, Lanes
    <2> QED
      BY <2>1
  <1>2. CASE ~single
    BY <1>2 DEF Bound
  <1> QED
    BY <1>1, <1>2

LEMMA RequestIsSome == \A r \in Request : r # None
  BY OperatorAssumption

----------------------------------------------------------------------------
(* Typing.                                                                  *)

LEMMA AbandonType ==
    ASSUME TypeOK, NEW l \in AnyLane, job[l] \in Request, Abandon(l)
    PROVE  /\ pc' \in [AnyLane -> PC] /\ job' \in [AnyLane -> Request \cup {None}]
           /\ class' \in [AnyLane -> Class \cup {None}]
           /\ copy' \in [AnyLane -> Copy \cup {None}]
           /\ slots' \in [LANES \cup {"single"} -> AnyLane \cup {None}]
           /\ record' \in [Request -> {"none", "QUEUED", "RUNNING", "DONE", "FAILED"}]
           /\ \A k \in AnyLane : pc'[k] \in {"idle", "waiting"} => copy'[k] = None
  BY LaneType DEF TypeOK, Abandon, AbandonSlot, Release, Remove, Fails, Idle, PC

LEMMA InitIsTyped == Init => TypeOK
  <1> SUFFICES ASSUME Init
               PROVE  TypeOK
    OBVIOUS
  <1>1. NoBody \in Body
    BY DEF NoBody, Body
  <1>2. body \in [Request -> Body]
    BY <1>1 DEF Init
  <1>3. changes \in 0..MaxChanges /\ faults \in 0..MaxFaults
    BY OperatorAssumption DEF Init
  <1>4. /\ queue \in [AnyLane -> SUBSET Request]
        /\ slots \in [LANES \cup {"single"} -> AnyLane \cup {None}]
        /\ unreadable \in [{"handler", "checker"} -> SUBSET Name]
    BY DEF Init
  <1> QED
    BY <1>2, <1>3, <1>4 DEF Init, TypeOK, PC

LEMMA StepIsTyped ==
    ASSUME TypeOK, ServedOnce, CopiesAreFit, [Next]_vars
    PROVE  TypeOK'
  <1> USE DEF index, lanes, checks
  <1> DEFINE Rest == /\ single' \in BOOLEAN /\ conf' \in Conf
                     /\ queue' \in [AnyLane -> SUBSET Request]
                     /\ body' \in [Request -> Body]
                     /\ unreadable' \in [{"handler", "checker"} -> SUBSET Name]
                     /\ check' \in [Check -> {"queued", "taken", "loaded", "denied", "query",
                                              "reply", "answered", "dropped"}]
                     /\ stopping' \in BOOLEAN /\ changes' \in 0..MaxChanges
                     /\ faults' \in 0..MaxFaults
             OfLanes == /\ pc' \in [AnyLane -> PC] /\ job' \in [AnyLane -> Request \cup {None}]
                        /\ class' \in [AnyLane -> Class \cup {None}]
                        /\ copy' \in [AnyLane -> Copy \cup {None}]
                        /\ slots' \in [LANES \cup {"single"} -> AnyLane \cup {None}]
                        /\ record' \in [Request -> {"none", "QUEUED", "RUNNING", "DONE", "FAILED"}]
                        /\ \A k \in AnyLane : pc'[k] \in {"idle", "waiting"} => copy'[k] = None
  <1>0. Rest /\ OfLanes => TypeOK'
    BY DEF TypeOK
  <1> HIDE DEF Rest, OfLanes
  <1>1. CASE UNCHANGED vars
    <2>1. Rest
      BY <1>1 DEF vars, TypeOK, Rest
    <2>2. OfLanes
      BY <1>1 DEF vars, TypeOK, OfLanes
    <2> QED
      BY <1>0, <2>1, <2>2
  <1>2. ASSUME NEW r \in Request, NEW b \in Body, NEW key \in Keys, Publish(r, b, key)
        PROVE  TypeOK'
    <2>1. Rest
      BY <1>2 DEF Publish, TypeOK, Rest
    <2>2. OfLanes
      BY <1>2 DEF Publish, TypeOK, OfLanes
    <2> QED
      BY <1>0, <2>1, <2>2
  <1>3. ASSUME NEW c \in Conf, Change(c)
        PROVE  TypeOK'
    <2>1. Rest
      BY <1>3, OperatorAssumption DEF Change, TypeOK, Rest
    <2>2. OfLanes
      BY <1>3 DEF Change, TypeOK, OfLanes
    <2> QED
      BY <1>0, <2>1, <2>2
  <1>4. ASSUME NEW l \in AnyLane, NEW r \in Request, Take(l, r)
        PROVE  TypeOK'
    <2>1. Rest
      BY <1>4 DEF Take, TypeOK, Rest
    <2>2. OfLanes
      BY <1>4 DEF Take, Fails, TypeOK, OfLanes, PC
    <2> QED
      BY <1>0, <2>1, <2>2
  <1>5. ASSUME NEW l \in AnyLane, Step(l) \/ PrepareError(l)
        PROVE  TypeOK'
    <2>1. job[l] \in Request
      BY <1>5 DEF Step, PrepareError, Acquire, FindEntry, SyncConfigs, Customize, ResolveBackup,
                  Start, ChildEnds, TypeOK, ServedOnce
    <2>2. CASE Acquire(l)
      <3>1. Rest
        BY <2>2 DEF Acquire, TypeOK, Rest
      <3>2. OfLanes
        BY <2>2, LaneType DEF Acquire, TypeOK, OfLanes, PC
      <3> QED
        BY <1>0, <3>1, <3>2
    <2>3. CASE FindEntry(l)
      <3>1. Rest
        BY <2>3 DEF FindEntry, TypeOK, Rest
      <3>2. CASE Abandon(l)
        BY <1>0, <2>1, <3>1, <3>2, AbandonType DEF OfLanes
      <3>3. CASE Goes(l, "copy") /\ class' = [class EXCEPT ![l] = conf.class] /\ UNCHANGED copy
        <4>1. OfLanes
          BY <3>3, OperatorAssumption DEF Goes, TypeOK, OfLanes, PC, ConfType
        <4> QED
          BY <1>0, <3>1, <4>1
      <3> QED
        BY <2>3, <3>2, <3>3 DEF FindEntry
    <2>4. CASE SyncConfigs(l)
      <3>1. Rest
        BY <2>4 DEF SyncConfigs, TypeOK, Rest
      <3>2. CASE Abandon(l)
        BY <1>0, <2>1, <3>1, <3>2, AbandonType DEF OfLanes
      <3>3. CASE ~Abandon(l)
        <4>1. [conf |-> conf, custom |-> FALSE] \in Copy
          BY DEF TypeOK, Copy
        <4>2. OfLanes
          BY <2>4, <3>3, <4>1 DEF SyncConfigs, Goes, TypeOK, OfLanes, PC
        <4> QED
          BY <1>0, <3>1, <4>2
      <3> QED
        BY <3>2, <3>3
    <2>5. CASE Customize(l)
      <3>1. Rest
        BY <2>5 DEF Customize, Load, ProviderOf, Name, TypeOK, Rest
      <3>2. CASE Abandon(l)
        BY <1>0, <2>1, <3>1, <3>2, AbandonType DEF OfLanes
      <3>3. CASE ~Abandon(l)
        <4>1. copy[l] \in Copy
          BY <2>5 DEF Customize, CopiesAreFit, CopyIsFit, TypeOK
        <4>2. [copy[l] EXCEPT !.custom = TRUE] \in Copy
          BY <4>1 DEF Copy
        <4>3. /\ \E to \in {"ready", "archive"} : Goes(l, to)
              /\ copy' = [copy EXCEPT ![l].custom = TRUE] /\ UNCHANGED class
          BY <2>5, <3>3 DEF Customize
        <4>4. /\ pc' = [pc EXCEPT ![l] = pc'[l]] /\ pc'[l] \in {"ready", "archive"}
              /\ copy' = [copy EXCEPT ![l] = [copy[l] EXCEPT !.custom = TRUE]]
              /\ UNCHANGED <<job, class, slots, record>>
          BY <4>3 DEF Goes, TypeOK
        <4>5. OfLanes
          BY <4>2, <4>4 DEF TypeOK, OfLanes, PC
        <4> QED
          BY <1>0, <3>1, <4>5
      <3> QED
        BY <3>2, <3>3
    <2>6. CASE ResolveBackup(l)
      <3>1. Rest
        BY <2>6 DEF ResolveBackup, TypeOK, Rest
      <3>2. CASE Abandon(l)
        BY <1>0, <2>1, <3>1, <3>2, AbandonType DEF OfLanes
      <3>3. CASE ~Abandon(l)
        <4>1. OfLanes
          BY <2>6, <3>3 DEF ResolveBackup, Goes, TypeOK, OfLanes, PC
        <4> QED
          BY <1>0, <3>1, <4>1
      <3> QED
        BY <3>2, <3>3
    <2>7. CASE Start(l)
      <3>1. Rest
        BY <2>7 DEF Start, TypeOK, Rest
      <3>2. OfLanes
        BY <2>1, <2>7, LaneType
           DEF Start, Fails, Idle, Cleanup, Remove, Release, Goes, TypeOK, OfLanes, PC
      <3> QED
        BY <1>0, <3>1, <3>2
    <2>8. CASE \E status \in {"DONE", "FAILED"} : ChildEnds(l, status)
      <3>1. Rest
        BY <2>8 DEF ChildEnds, TypeOK, Rest
      <3>2. OfLanes
        BY <2>1, <2>8, LaneType
           DEF ChildEnds, Idle, Cleanup, Remove, Release, TypeOK, OfLanes, PC
      <3> QED
        BY <1>0, <3>1, <3>2
    <2>9. CASE PrepareError(l)
      <3>1. Rest
        BY <2>9, OperatorAssumption DEF PrepareError, Fault, TypeOK, Rest
      <3> QED
        BY <1>0, <2>1, <2>9, <3>1, AbandonType DEF PrepareError, OfLanes
    <2> QED
      BY <1>5, <2>2, <2>3, <2>4, <2>5, <2>6, <2>7, <2>8, <2>9 DEF Step
  <1>6. ASSUME NEW c \in Check, CheckStep(c) \/ ReplyError(c)
        PROVE  TypeOK'
    <2>1. Rest
      <3>1. CASE CheckConfig(c)
        <4>1. {"interface"} \cap Denied \in SUBSET Name
          BY DEF Name
        <4> QED
          BY <3>1, <4>1 DEF CheckConfig, Checks, Load, ProviderOf, TypeOK, Rest
      <3>2. CASE ReplyError(c)
        BY <3>2, OperatorAssumption DEF ReplyError, Checks, Fault, TypeOK, Rest
      <3>3. CASE CheckStep(c) /\ ~CheckConfig(c)
        <4>1. /\ UNCHANGED <<single, index, queue, body, unreadable, stopping, faults>>
              /\ \E to \in {"taken", "reply", "dropped", "denied", "query", "answered"} :
                     check' = [check EXCEPT ![c] = to]
          BY <3>3 DEF CheckStep, TakeCheck, SetCredentials, QueryRemote, Reply, Checks
        <4> QED
          BY <4>1 DEF TypeOK, Rest
      <3> QED
        BY <1>6, <3>1, <3>2, <3>3
    <2>2. UNCHANGED <<record, lanes>>
      BY <1>6 DEF CheckStep, ReplyError, TakeCheck, CheckConfig, SetCredentials, QueryRemote, Reply
    <2>3. OfLanes
      BY <2>2 DEF TypeOK, OfLanes
    <2> QED
      BY <1>0, <2>1, <2>3
  <1>7. CASE Stop \/ Crash
    <2>1. Rest
      <3>1. CASE Stop
        BY <3>1 DEF Stop, TypeOK, Rest
      <3>2. CASE Crash
        <4>1. /\ check' \in [Check -> {"queued", "taken", "loaded", "denied", "query",
                                       "reply", "answered", "dropped"}]
              /\ unreadable' \in [{"handler", "checker"} -> SUBSET Name]
          BY <3>2 DEF Crash, TypeOK
        <4>2. faults' \in 0..MaxFaults
          BY <3>2, OperatorAssumption DEF Crash, Fault, TypeOK
        <4> QED
          BY <3>2, <4>1, <4>2 DEF Crash, TypeOK, Rest
      <3> QED
        BY <1>7, <3>1, <3>2
    <2>2. OfLanes
      BY <1>7 DEF Stop, Crash, TypeOK, OfLanes, PC
    <2> QED
      BY <1>0, <2>1, <2>2
  <1> QED
    BY <1>1, <1>2, <1>3, <1>4, <1>5, <1>6, <1>7 DEF Next

----------------------------------------------------------------------------
(* Slots.                                                                   *)

\* Whatever gives the slot of a lane back, and takes it out of Holding.
LEMMA ReleaseKeeps ==
    ASSUME TypeOK, SlotIsMine, NEW l \in AnyLane, pc[l] \in Holding, Release(l), Idle(l)
    PROVE  SlotIsMine'
  BY LaneType DEF TypeOK, SlotIsMine, Release, Idle, Holding, SlotOf

\* Whatever leaves a lane in Holding, or out of it.
LEMMA StaysInSlot ==
    ASSUME TypeOK, SlotIsMine, NEW l \in AnyLane, NEW to \in PC,
           UNCHANGED slots, pc' = [pc EXCEPT ![l] = to], pc[l] \in Holding <=> to \in Holding
    PROVE  SlotIsMine'
  BY DEF TypeOK, SlotIsMine

LEMMA StepKeepsSlots ==
    ASSUME TypeOK, SlotIsMine, [Next]_vars
    PROVE  SlotIsMine'
  <1> USE DEF index, lanes, checks
  <1>1. CASE UNCHANGED <<pc, slots>>
    BY <1>1 DEF SlotIsMine
  <1>2. ASSUME NEW l \in AnyLane, NEW r \in Request, Take(l, r)
        PROVE  SlotIsMine'
    <2>1. CASE UNCHANGED <<pc, slots>>
      BY <2>1, <1>1
    <2>2. CASE pc' = [pc EXCEPT ![l] = "waiting"] /\ UNCHANGED slots
      BY <1>2, <2>2, StaysInSlot DEF Take, Holding, PC
    <2> QED
      BY <1>2, <2>1, <2>2 DEF Take
  <1>3. ASSUME NEW l \in AnyLane, Step(l) \/ PrepareError(l)
        PROVE  SlotIsMine'
    <2>1. CASE Acquire(l)
      BY <2>1, LaneType DEF Acquire, TypeOK, SlotIsMine, SlotOf, Holding
    <2>2. CASE FindEntry(l)
      <3>1. CASE Abandon(l)
        BY <2>2, <3>1, ReleaseKeeps DEF FindEntry, Abandon, AbandonSlot, Holding
      <3>2. CASE Goes(l, "copy")
        BY <2>2, <3>2, StaysInSlot DEF FindEntry, Goes, Holding, PC
      <3> QED
        BY <2>2, <3>1, <3>2 DEF FindEntry
    <2>3. CASE SyncConfigs(l)
      <3>1. CASE Abandon(l)
        BY <2>3, <3>1, ReleaseKeeps DEF SyncConfigs, Abandon, AbandonSlot, Holding
      <3>2. CASE \E to \in {"customize", "ready"} : Goes(l, to)
        BY <2>3, <3>2, StaysInSlot DEF SyncConfigs, Goes, Holding, PC
      <3> QED
        BY <2>3, <3>1, <3>2 DEF SyncConfigs
    <2>4. CASE Customize(l)
      <3>1. CASE Abandon(l)
        BY <2>4, <3>1, ReleaseKeeps DEF Customize, Abandon, AbandonSlot, Holding
      <3>2. CASE \E to \in {"archive", "ready"} : Goes(l, to)
        BY <2>4, <3>2, StaysInSlot DEF Customize, Goes, Holding, PC
      <3> QED
        BY <2>4, <3>1, <3>2 DEF Customize
    <2>5. CASE ResolveBackup(l)
      <3>1. CASE Abandon(l)
        BY <2>5, <3>1, ReleaseKeeps DEF ResolveBackup, Abandon, AbandonSlot, Holding
      <3>2. CASE Goes(l, "ready")
        BY <2>5, <3>2, StaysInSlot DEF ResolveBackup, Goes, Holding, PC
      <3> QED
        BY <2>5, <3>1, <3>2 DEF ResolveBackup
    <2>6. CASE Start(l)
      <3>1. CASE stopping
        BY <2>6, <3>1, ReleaseKeeps DEF Start, Cleanup, Holding
      <3>2. CASE ~stopping
        BY <2>6, <3>2, StaysInSlot DEF Start, Goes, Holding, PC
      <3> QED
        BY <3>1, <3>2
    <2>7. CASE \E status \in {"DONE", "FAILED"} : ChildEnds(l, status)
      BY <2>7, ReleaseKeeps DEF ChildEnds, Cleanup, Holding
    <2>8. CASE PrepareError(l)
      BY <2>8, ReleaseKeeps DEF PrepareError, Abandon, AbandonSlot, Holding
    <2> QED
      BY <1>3, <2>1, <2>2, <2>3, <2>4, <2>5, <2>6, <2>7, <2>8 DEF Step
  <1>4. ASSUME NEW c \in Check, CheckStep(c) \/ ReplyError(c)
        PROVE  SlotIsMine'
    BY <1>1, <1>4
       DEF CheckStep, ReplyError, TakeCheck, CheckConfig, SetCredentials, QueryRemote, Reply
  <1>5. CASE Crash
    BY <1>5 DEF Crash, SlotIsMine, Holding, TypeOK
  <1>6. ASSUME NEW r \in Request, NEW b \in Body, NEW key \in Keys, Publish(r, b, key)
        PROVE  SlotIsMine'
    BY <1>1, <1>6 DEF Publish
  <1>7. CASE Stop \/ \E c \in Conf : Change(c)
    BY <1>1, <1>7 DEF Stop, Change
  <1>8. CASE UNCHANGED vars
    BY <1>1, <1>8 DEF vars
  <1> QED
    BY <1>2, <1>3, <1>4, <1>5, <1>6, <1>7, <1>8 DEF Next

----------------------------------------------------------------------------
(* A request and its record.                                                *)

\* A lane drops its request, whose record ends.
LEMMA EndKeepsOthers ==
    ASSUME TypeOK, ServedOnce, NEW l \in AnyLane, job[l] \in Request, UNCHANGED queue,
           NEW s \in {"DONE", "FAILED"}, record' = [record EXCEPT ![job[l]] = s], Idle(l)
    PROVE  ServedOnce'
  <1>1. pc' = [pc EXCEPT ![l] = "idle"] /\ job' = [job EXCEPT ![l] = None]
    BY DEF Idle
  <1>2. \A k \in AnyLane : k # l => job'[k] = job[k] /\ pc'[k] = pc[k]
    BY <1>1 DEF TypeOK
  <1>3. job'[l] = None /\ pc'[l] = "idle"
    BY <1>1 DEF TypeOK
  <1>4. \A r \in Request : r # job[l] => record'[r] = record[r]
    BY DEF TypeOK
  <1>5. record[job[l]] = "RUNNING" /\ job[l] # None
    BY RequestIsSome DEF ServedOnce
  <1>6. \A k \in AnyLane : job'[k] # None => k # l /\ job[k] # job[l] /\ job[k] \in Request
    BY <1>2, <1>3, <1>5 DEF ServedOnce, TypeOK
  <1>7. \A k \in AnyLane : \A r \in queue[k] : r # job[l] /\ r \in Request
    BY <1>5 DEF ServedOnce, TypeOK
  <1> QED
    BY <1>2, <1>3, <1>4, <1>6, <1>7 DEF ServedOnce

\* A lane goes on with its request.
LEMMA GoingKeeps ==
    ASSUME TypeOK, ServedOnce, NEW l \in AnyLane, NEW to \in PC \ {"idle"}, pc[l] # "idle",
           UNCHANGED <<queue, record, job>>, pc' = [pc EXCEPT ![l] = to]
    PROVE  ServedOnce'
  BY DEF ServedOnce, TypeOK

LEMMA StepServesOnce ==
    ASSUME TypeOK, ServedOnce, [Next]_vars
    PROVE  ServedOnce'
  <1> USE DEF index, lanes, checks
  <1>1. CASE UNCHANGED <<pc, job, record, queue>>
    BY <1>1 DEF ServedOnce
  <1>2. ASSUME NEW r \in Request, NEW b \in Body, NEW key \in Keys, Publish(r, b, key)
        PROVE  ServedOnce'
    <2>1. \A l \in AnyLane : job[l] # r
      BY <1>2, RequestIsSome DEF Publish, ServedOnce
    <2>2. \A l \in AnyLane : r \notin queue[l]
      BY <1>2 DEF Publish, ServedOnce
    <2>3. \A l \in AnyLane : queue'[l] \subseteq queue[l] \cup {r}
      BY <1>2 DEF Publish, TypeOK
    <2>4. record'[r] = "QUEUED" /\ \A q \in Request : q # r => record'[q] = record[q]
      BY <1>2 DEF Publish, TypeOK
    <2>5. \A l \in AnyLane : job[l] # None => record'[job[l]] = record[job[l]]
      BY <2>1, <2>4 DEF TypeOK
    <2>6. \A l \in AnyLane : \A q \in queue'[l] : record'[q] = "QUEUED"
      BY <2>2, <2>3, <2>4 DEF TypeOK, ServedOnce
    <2>7. \A l, m \in AnyLane : queue'[l] \cap queue'[m] # {} => l = m
      <3> SUFFICES ASSUME NEW l \in AnyLane, NEW m \in AnyLane, NEW q \in queue'[l] \cap queue'[m]
                   PROVE  l = m
        OBVIOUS
      <3>1. CASE q = r
        BY <1>2, <2>2, <3>1, OneIsBound DEF Publish, TypeOK
      <3>2. CASE q # r
        BY <2>3, <3>2 DEF ServedOnce
      <3> QED
        BY <3>1, <3>2
    <2> QED
      BY <1>2, <2>5, <2>6, <2>7 DEF Publish, ServedOnce
  <1>3. ASSUME NEW l \in AnyLane, NEW r \in Request, Take(l, r)
        PROVE  ServedOnce'
    <2>1. record[r] = "QUEUED" /\ pc[l] = "idle" /\ job[l] = None
      BY <1>3 DEF Take, ServedOnce
    <2>2. \A k \in AnyLane : job[k] # r
      BY <2>1, RequestIsSome DEF ServedOnce
    <2>3. /\ \A k \in AnyLane : queue'[k] \subseteq queue[k]
          /\ \A k \in AnyLane : r \notin queue'[k]
      BY <1>3 DEF Take, TypeOK, ServedOnce
    <2>4. \A q \in Request : q # r => record'[q] = record[q]
      BY <1>3 DEF Take, Fails, TypeOK
    <2>5. \A k \in AnyLane : \A q \in queue'[k] : record'[q] = "QUEUED"
      BY <2>3, <2>4 DEF ServedOnce, TypeOK
    <2>6. \A k, m \in AnyLane : queue'[k] \cap queue'[m] # {} => k = m
      BY <2>3 DEF ServedOnce
    <2>7. \A k \in AnyLane : job[k] # None => record'[job[k]] = "RUNNING"
      BY <2>2, <2>4 DEF ServedOnce, TypeOK
    <2>8. CASE UNCHANGED lanes
      BY <2>5, <2>6, <2>7, <2>8 DEF ServedOnce
    <2>9. CASE /\ pc' = [pc EXCEPT ![l] = "waiting"] /\ job' = [job EXCEPT ![l] = r]
               /\ record' = [record EXCEPT ![r] = "RUNNING"]
      <3>1. job'[l] = r /\ pc'[l] = "waiting" /\ record'[r] = "RUNNING"
        BY <2>9 DEF TypeOK
      <3>2. \A k \in AnyLane : k # l => job'[k] = job[k] /\ pc'[k] = pc[k]
        BY <2>9 DEF TypeOK
      <3>3. \A k \in AnyLane : job'[k] = None <=> pc'[k] = "idle"
        BY <3>1, <3>2, RequestIsSome DEF ServedOnce
      <3>4. \A k \in AnyLane : job'[k] # None => record'[job'[k]] = "RUNNING"
        BY <2>7, <3>1, <3>2
      <3>5. \A k, m \in AnyLane : job'[k] # None /\ job'[k] = job'[m] => k = m
        BY <2>2, <3>1, <3>2 DEF ServedOnce
      <3> QED
        BY <2>5, <2>6, <3>3, <3>4, <3>5 DEF ServedOnce
    <2> QED
      BY <1>3, <2>8, <2>9 DEF Take
  <1>4. ASSUME NEW l \in AnyLane, Step(l) \/ PrepareError(l)
        PROVE  ServedOnce'
    <2>1. job[l] \in Request
      BY <1>4 DEF Step, PrepareError, Acquire, FindEntry, SyncConfigs, Customize, ResolveBackup,
                  Start, ChildEnds, TypeOK, ServedOnce
    <2>2. UNCHANGED queue
      BY <1>4 DEF Step, PrepareError, Acquire, FindEntry, SyncConfigs, Customize, ResolveBackup,
                  Start, ChildEnds
    <2>3. CASE Abandon(l)
      BY <2>1, <2>2, <2>3, EndKeepsOthers DEF Abandon, Fails
    <2>4. CASE Acquire(l)
      BY <2>4, GoingKeeps DEF Acquire, PC
    <2>5. ASSUME NEW to \in PC \ {"idle"}, Goes(l, to), pc[l] # "idle"
          PROVE  ServedOnce'
      BY <2>2, <2>5, GoingKeeps DEF Goes
    <2>6. CASE FindEntry(l)
      BY <2>3, <2>5, <2>6 DEF FindEntry, PC
    <2>7. CASE SyncConfigs(l)
      BY <2>3, <2>5, <2>7 DEF SyncConfigs, PC
    <2>8. CASE Customize(l)
      BY <2>3, <2>5, <2>8 DEF Customize, PC
    <2>9. CASE ResolveBackup(l)
      BY <2>3, <2>5, <2>9 DEF ResolveBackup, PC
    <2>10. CASE Start(l)
      <3>1. CASE stopping
        BY <2>1, <2>2, <2>10, <3>1, EndKeepsOthers DEF Start, Fails
      <3>2. CASE ~stopping
        BY <2>5, <2>10, <3>2 DEF Start, PC
      <3> QED
        BY <3>1, <3>2
    <2>11. CASE \E status \in {"DONE", "FAILED"} : ChildEnds(l, status)
      BY <2>1, <2>2, <2>11, EndKeepsOthers DEF ChildEnds
    <2>12. CASE PrepareError(l)
      BY <2>3, <2>12 DEF PrepareError
    <2> QED
      BY <1>4, <2>4, <2>6, <2>7, <2>8, <2>9, <2>10, <2>11, <2>12 DEF Step
  <1>5. ASSUME NEW c \in Check, CheckStep(c) \/ ReplyError(c)
        PROVE  ServedOnce'
    BY <1>1, <1>5
       DEF CheckStep, ReplyError, TakeCheck, CheckConfig, SetCredentials, QueryRemote, Reply
  <1>6. CASE Crash
    BY <1>6 DEF Crash, ServedOnce
  <1>7. CASE Stop \/ \E c \in Conf : Change(c)
    BY <1>1, <1>7 DEF Stop, Change
  <1>8. CASE UNCHANGED vars
    BY <1>1, <1>8 DEF vars
  <1> QED
    BY <1>2, <1>3, <1>4, <1>5, <1>6, <1>7, <1>8 DEF Next

----------------------------------------------------------------------------
(* What is known of a copy.                                                 *)

\* Another lane, whose request, place and copy are the same.
LEMMA OtherCopies ==
    ASSUME TypeOK, NEW k \in AnyLane, CopyIsFit(k), UNCHANGED <<pc[k], job[k], copy[k]>>,
           pc[k] # "idle" => UNCHANGED body[job[k]]
    PROVE  CopyIsFit(k)'
  BY DEF CopyIsFit, Refuses, AcceptsCustom

LEMMA IdleCopy ==
    ASSUME NEW k \in AnyLane, pc'[k] = "idle"
    PROVE  CopyIsFit(k)'
  BY DEF CopyIsFit

\* A step of one lane, that leaves what requests ask.
LEMMA OneLane ==
    ASSUME TypeOK, CopiesAreFit, NEW l \in AnyLane, UNCHANGED body,
           NEW to, pc' = [pc EXCEPT ![l] = to],
           NEW j, job' = [job EXCEPT ![l] = j],
           NEW c, copy' = [copy EXCEPT ![l] = c],
           CopyIsFit(l)'
    PROVE  CopiesAreFit'
  <1> SUFFICES ASSUME NEW k \in AnyLane, k # l
               PROVE  CopyIsFit(k)'
    BY DEF CopiesAreFit
  <1>1. UNCHANGED <<pc[k], job[k], copy[k]>>
    BY DEF TypeOK
  <1> QED
    BY <1>1, OtherCopies DEF CopiesAreFit

LEMMA StepKeepsCopies ==
    ASSUME TypeOK, ServedOnce, CopiesAreFit, [Next]_vars
    PROVE  CopiesAreFit'
  <1> USE DEF index, lanes, checks
  <1>1. CASE UNCHANGED <<pc, job, copy, body>>
    BY <1>1, OtherCopies DEF CopiesAreFit
  <1>2. ASSUME NEW r \in Request, NEW b \in Body, NEW key \in Keys, Publish(r, b, key)
        PROVE  CopiesAreFit'
    <2>1. \A k \in AnyLane : pc[k] # "idle" => job[k] # r
      BY <1>2 DEF Publish, ServedOnce
    <2>2. \A k \in AnyLane : pc[k] # "idle" => body'[job[k]] = body[job[k]]
      BY <1>2, <2>1 DEF Publish, ServedOnce, TypeOK
    <2> QED
      BY <1>2, <2>2, OtherCopies DEF Publish, CopiesAreFit
  <1>3. ASSUME NEW l \in AnyLane, NEW r \in Request, Take(l, r)
        PROVE  CopiesAreFit'
    <2>1. CASE UNCHANGED lanes
      BY <1>1, <1>3, <2>1 DEF Take
    <2>2. CASE /\ ~Refuses(l, body[r]) /\ UNCHANGED copy
               /\ pc' = [pc EXCEPT ![l] = "waiting"] /\ job' = [job EXCEPT ![l] = r]
      <3>1. CopyIsFit(l)'
        BY <1>3, <2>2 DEF Take, TypeOK, CopyIsFit, Refuses, AcceptsCustom
      <3>2. copy' = [copy EXCEPT ![l] = copy[l]]
        BY <2>2 DEF TypeOK
      <3> QED
        BY <1>3, <2>2, <3>1, <3>2, OneLane DEF Take
    <2> QED
      BY <1>3, <2>1, <2>2 DEF Take
  <1>4. ASSUME NEW l \in AnyLane, Step(l) \/ PrepareError(l)
        PROVE  CopiesAreFit'
    <2>1. job[l] \in Request /\ ~Refuses(l, body[job[l]])
      BY <1>4 DEF Step, PrepareError, Acquire, FindEntry, SyncConfigs, Customize, ResolveBackup,
                  Start, ChildEnds, TypeOK, ServedOnce, CopiesAreFit, CopyIsFit
    <2>2. UNCHANGED body
      BY <1>4 DEF Step, PrepareError, Acquire, FindEntry, SyncConfigs, Customize, ResolveBackup,
                  Start, ChildEnds
    <2>3. CASE Idle(l) /\ Remove(l)
      <3>1. pc'[l] = "idle"
        BY <2>3 DEF Idle, TypeOK
      <3> QED
        BY <2>2, <2>3, <3>1, IdleCopy, OneLane DEF Idle, Remove
    <2>4. CASE Abandon(l)
      BY <2>3, <2>4 DEF Abandon
    <2>5. ASSUME NEW to \in PC \ {"idle"}, Goes(l, to), UNCHANGED copy, CopyIsFit(l)'
          PROVE  CopiesAreFit'
      <3>1. copy' = [copy EXCEPT ![l] = copy[l]] /\ job' = [job EXCEPT ![l] = job[l]]
        BY <2>5 DEF Goes, TypeOK
      <3> QED
        BY <2>2, <2>5, <3>1, OneLane DEF Goes
    <2>6. ASSUME NEW to \in PC \ {"idle"}, pc' = [pc EXCEPT ![l] = to], UNCHANGED job
          PROVE  pc'[l] = to /\ ~Refuses(l, body'[job'[l]])
      BY <2>1, <2>2, <2>6 DEF TypeOK
    <2>7. CASE Acquire(l)
      <3>1. CopyIsFit(l)'
        BY <2>6, <2>7 DEF Acquire, CopyIsFit, PC, Refuses, AcceptsCustom
      <3>2. copy' = [copy EXCEPT ![l] = copy[l]] /\ job' = [job EXCEPT ![l] = job[l]]
        BY <2>7 DEF Acquire, TypeOK
      <3> QED
        BY <2>2, <2>7, <3>1, <3>2, OneLane DEF Acquire
    <2>8. CASE FindEntry(l)
      <3>1. CASE Goes(l, "copy") /\ UNCHANGED copy
        <4>1. CopyIsFit(l)'
          BY <2>6, <3>1 DEF Goes, CopyIsFit, PC, Refuses, AcceptsCustom
        <4> QED
          BY <2>5, <3>1, <4>1 DEF PC
      <3> QED
        BY <2>4, <2>8, <3>1 DEF FindEntry
    <2>9. CASE SyncConfigs(l)
      <3>1. ASSUME NEW to \in {"customize", "ready"}, Goes(l, to), Whole(conf),
                   to = (IF IsCustom(job[l]) THEN "customize" ELSE "ready"),
                   copy' = [copy EXCEPT ![l] = [conf |-> conf, custom |-> FALSE]]
            PROVE  CopiesAreFit'
        <4>1. copy'[l] = [conf |-> conf, custom |-> FALSE] /\ copy'[l] # None
          <5>1. [conf |-> conf, custom |-> FALSE] \in [conf : Conf, custom : BOOLEAN]
            BY DEF TypeOK
          <5>2. [conf |-> conf, custom |-> FALSE] # None
            BY <5>1, OperatorAssumption
          <5>3. copy'[l] = [conf |-> conf, custom |-> FALSE]
            BY <3>1 DEF TypeOK
          <5> QED
            BY <5>2, <5>3
        <4>2. pc'[l] = to /\ ~Refuses(l, body'[job'[l]])
          BY <2>6, <3>1 DEF Goes, PC
        <4>3. CopyIsFit(l)'
          BY <2>2, <3>1, <4>1, <4>2
             DEF Goes, CopyIsFit, Whole, IsCustom, Refuses, AcceptsCustom
        <4>4. job' = [job EXCEPT ![l] = job[l]]
          BY <3>1 DEF Goes, TypeOK
        <4> QED
          BY <2>2, <3>1, <4>3, <4>4, OneLane DEF Goes
      <3> QED
        BY <2>4, <2>9, <3>1 DEF SyncConfigs
    <2>10. CASE Customize(l)
      <3>1. ASSUME NEW to \in {"archive", "ready"}, Goes(l, to), copy[l].conf.enabled = 1,
                   to = (IF body[job[l]].part.archive = None THEN "ready" ELSE "archive"),
                   copy' = [copy EXCEPT ![l].custom = TRUE]
            PROVE  CopiesAreFit'
        <4>1. /\ copy[l] # None /\ ~copy[l].conf.skipped /\ body[job[l]].form = "custom"
              /\ copy[l] \in Copy
          BY <2>10 DEF Customize, CopiesAreFit, CopyIsFit, TypeOK
        <4>2. copy'[l] = [copy[l] EXCEPT !.custom = TRUE] /\ copy'[l] \in Copy
          BY <3>1, <4>1 DEF TypeOK, Copy
        <4>3. copy'[l].conf = copy[l].conf /\ copy'[l].custom /\ copy'[l] # None
          BY <4>1, <4>2, OperatorAssumption DEF Copy
        <4>4. pc'[l] = to /\ ~Refuses(l, body'[job'[l]])
          BY <2>6, <3>1 DEF Goes, PC
        <4>5. CopyIsFit(l)'
          BY <2>2, <3>1, <4>1, <4>3, <4>4 DEF Goes, CopyIsFit, Refuses, AcceptsCustom
        <4>6. /\ job' = [job EXCEPT ![l] = job[l]]
              /\ copy' = [copy EXCEPT ![l] = [copy[l] EXCEPT !.custom = TRUE]]
          BY <3>1 DEF Goes, TypeOK
        <4> QED
          BY <2>2, <3>1, <4>5, <4>6, OneLane DEF Goes
      <3> QED
        BY <2>4, <2>10, <3>1 DEF Customize
    <2>11. CASE ResolveBackup(l)
      <3>1. CASE Goes(l, "ready") /\ UNCHANGED copy /\ copy[l].conf.backups > 0
        <4>1. CopyIsFit(l)'
          BY <2>2, <2>6, <2>11, <3>1
             DEF ResolveBackup, Goes, CopiesAreFit, CopyIsFit, PC, Refuses, AcceptsCustom
        <4> QED
          BY <2>5, <3>1, <4>1 DEF PC
      <3> QED
        BY <2>4, <2>11, <3>1 DEF ResolveBackup
    <2>12. CASE Start(l)
      <3>1. CASE stopping
        BY <2>3, <2>12, <3>1 DEF Start, Cleanup
      <3>2. CASE ~stopping
        <4>1. CopyIsFit(l)'
          BY <2>2, <2>6, <2>12, <3>2
             DEF Start, Goes, CopiesAreFit, CopyIsFit, PC, Refuses, AcceptsCustom
        <4> QED
          BY <2>5, <2>12, <3>2, <4>1 DEF Start, PC
      <3> QED
        BY <3>1, <3>2
    <2>13. CASE \E status \in {"DONE", "FAILED"} : ChildEnds(l, status)
      BY <2>3, <2>13 DEF ChildEnds, Cleanup
    <2>14. CASE PrepareError(l)
      BY <2>4, <2>14 DEF PrepareError
    <2> QED
      BY <1>4, <2>7, <2>8, <2>9, <2>10, <2>11, <2>12, <2>13, <2>14 DEF Step
  <1>5. ASSUME NEW c \in Check, CheckStep(c) \/ ReplyError(c)
        PROVE  CopiesAreFit'
    BY <1>1, <1>5
       DEF CheckStep, ReplyError, TakeCheck, CheckConfig, SetCredentials, QueryRemote, Reply
  <1>6. CASE Crash
    BY <1>6, IdleCopy DEF Crash, CopiesAreFit
  <1>7. CASE Stop \/ \E c \in Conf : Change(c)
    BY <1>1, <1>7 DEF Stop, Change
  <1>8. CASE UNCHANGED vars
    BY <1>1, <1>8 DEF vars
  <1> QED
    BY <1>2, <1>3, <1>4, <1>5, <1>6, <1>7, <1>8 DEF Next
----------------------------------------------------------------------------
(* Checks.                                                                  *)

LEMMA StepReadsLoad ==
    ASSUME TypeOK, LoadIsRead, [Next]_vars
    PROVE  LoadIsRead'
  <1> USE DEF index, lanes, checks
  <1>1. CASE UNCHANGED checks
    BY <1>1 DEF LoadIsRead
  <1>2. ASSUME NEW l \in AnyLane, Step(l) \/ PrepareError(l)
        PROVE  LoadIsRead'
    <2>1. UNCHANGED check
      BY <1>2 DEF Step, PrepareError, Acquire, FindEntry, SyncConfigs, Customize, ResolveBackup,
                  Start, ChildEnds
    <2>2. CASE UNCHANGED unreadable
      BY <2>1, <2>2 DEF LoadIsRead
    <2>3. CASE Customize(l)
      BY <2>1, <2>3 DEF Customize, Load, ProviderOf, LoadIsRead, TypeOK
    <2> QED
      BY <1>2, <2>2, <2>3
         DEF Step, PrepareError, Acquire, FindEntry, SyncConfigs, ResolveBackup, Start, ChildEnds
  <1>3. ASSUME NEW c \in Check, CheckConfig(c)
        PROVE  LoadIsRead'
    <2>1. CASE check' = [check EXCEPT ![c] = "reply"] /\ UNCHANGED unreadable
      BY <2>1 DEF LoadIsRead, TypeOK
    <2>2. CASE Load("checker", {"interface"})
      BY <2>2 DEF Load, ProviderOf, LoadIsRead, TypeOK
    <2> QED
      BY <1>3, <2>1, <2>2 DEF CheckConfig, Checks
  <1>4. ASSUME NEW c \in Check, ReplyError(c) \/ (CheckStep(c) /\ ~CheckConfig(c))
        PROVE  LoadIsRead'
    BY <1>4
       DEF CheckStep, ReplyError, TakeCheck, SetCredentials, QueryRemote, Reply, Checks,
           LoadIsRead, TypeOK
  <1>5. CASE Crash
    BY <1>5 DEF Crash, Checking, LoadIsRead
  <1>6. CASE UNCHANGED vars \/ Stop \/ \E c \in Conf : Change(c)
    BY <1>1, <1>6 DEF Stop, Change, vars
  <1>7. ASSUME NEW r \in Request, NEW b \in Body, NEW key \in Keys, Publish(r, b, key)
        PROVE  LoadIsRead'
    BY <1>1, <1>7 DEF Publish
  <1>8. ASSUME NEW l \in AnyLane, NEW r \in Request, Take(l, r)
        PROVE  LoadIsRead'
    BY <1>1, <1>8 DEF Take
  <1> QED
    BY <1>2, <1>3, <1>4, <1>5, <1>6, <1>7, <1>8 DEF Next

LEMMA StepDeniesRightly ==
    ASSUME TypeOK, LoadIsRead, DeniedIsRefused, [Next]_vars
    PROVE  DeniedIsRefused'
  <1> USE DEF index, lanes, checks
  <1>1. CASE UNCHANGED check
    BY <1>1 DEF DeniedIsRefused
  <1>2. ASSUME NEW c \in Check, SetCredentials(c)
        PROVE  DeniedIsRefused'
    <2>1. unreadable["checker"] = {"interface"} \cap Denied
      BY <1>2 DEF SetCredentials, Checks, LoadIsRead
    <2>2. check' = [check EXCEPT ![c] = IF "interface" \in Denied THEN "denied" ELSE "query"]
      BY <1>2, <2>1 DEF SetCredentials, Checks
    <2> QED
      BY <2>2 DEF DeniedIsRefused, TypeOK
  <1>3. ASSUME NEW c \in Check, ReplyError(c) \/ (CheckStep(c) /\ ~SetCredentials(c))
        PROVE  DeniedIsRefused'
    BY <1>3
       DEF CheckStep, ReplyError, TakeCheck, CheckConfig, QueryRemote, Reply, Checks,
           DeniedIsRefused, TypeOK
  <1>4. CASE Crash
    BY <1>4 DEF Crash, Checking, DeniedIsRefused
  <1>5. ASSUME NEW l \in AnyLane, Step(l) \/ PrepareError(l)
        PROVE  DeniedIsRefused'
    BY <1>1, <1>5
       DEF Step, PrepareError, Acquire, FindEntry, SyncConfigs, Customize, ResolveBackup,
           Start, ChildEnds
  <1>6. CASE UNCHANGED vars \/ Stop \/ \E c \in Conf : Change(c)
    BY <1>1, <1>6 DEF Stop, Change, vars
  <1>7. ASSUME NEW r \in Request, NEW b \in Body, NEW key \in Keys, Publish(r, b, key)
        PROVE  DeniedIsRefused'
    BY <1>1, <1>7 DEF Publish
  <1>8. ASSUME NEW l \in AnyLane, NEW r \in Request, Take(l, r)
        PROVE  DeniedIsRefused'
    BY <1>1, <1>8 DEF Take
  <1> QED
    BY <1>2, <1>3, <1>4, <1>5, <1>6, <1>7, <1>8 DEF Next

----------------------------------------------------------------------------
(* The theorems.                                                            *)

LEMMA InitIsFit == Init => IInv /\ LoadIsRead /\ DeniedIsRefused
  <1> SUFFICES ASSUME Init
               PROVE  IInv /\ LoadIsRead /\ DeniedIsRefused
    OBVIOUS
  <1>1. TypeOK
    BY InitIsTyped
  <1>2. SlotIsMine
    BY DEF Init, SlotIsMine, Holding, AnyLane
  <1>3. ServedOnce
    BY DEF Init, ServedOnce
  <1>4. CopiesAreFit
    BY DEF Init, CopiesAreFit, CopyIsFit
  <1>5. LoadIsRead /\ DeniedIsRefused
    BY DEF Init, LoadIsRead, DeniedIsRefused
  <1> QED
    BY <1>1, <1>2, <1>3, <1>4, <1>5 DEF IInv

LEMMA StepIsFit == IInv /\ [Next]_vars => IInv'
  BY StepIsTyped, StepKeepsSlots, StepServesOnce, StepKeepsCopies DEF IInv

LEMMA Fit == Spec => []IInv
  <1>1. Init => IInv
    BY InitIsFit
  <1> QED
    BY <1>1, StepIsFit, PTL DEF Spec

\* The variables of Operator have their types, and no copy of the configuration is left
\* behind by a preparation that failed or a replay that ended.
THEOREM Typing == Spec => []TypeOK
  <1>1. IInv => TypeOK
    BY DEF IInv
  <1> QED
    BY Fit, <1>1, PTL

\* A plain lane and the custom lane beside it never both have a replay past its wait.
THEOREM Slots == Spec => []SlotsAreHeld
  <1>1. IInv => SlotsAreHeld
    <2> SUFFICES ASSUME IInv, NEW s \in LANES \cup {"single"}
                 PROVE  InSlot(s) = IF slots[s] = None THEN {} ELSE {slots[s]}
      BY DEF SlotsAreHeld
    <2>1. \A l \in AnyLane : l \in InSlot(s) <=> slots[s] = l
      BY LaneType DEF IInv, SlotIsMine, InSlot
    <2>2. slots[s] \in AnyLane \cup {None} /\ InSlot(s) \subseteq AnyLane
      BY DEF IInv, TypeOK, InSlot
    <2> QED
      BY <2>1, <2>2, LaneType
  <1> QED
    BY Fit, <1>1, PTL

\* A child runs on the copy its request is for.
THEOREM Runs == Spec => []RunsWhatIsAsked
  <1>1. IInv => RunsWhatIsAsked
    <2> SUFFICES ASSUME IInv, NEW l \in AnyLane, pc[l] = "child"
                 PROVE  LET part == body[job[l]].part IN
                        /\ ~copy[l].conf.skipped
                        /\ copy[l].custom <=> part # None
                        /\ part # None => /\ AcceptsCustom(l) /\ copy[l].conf.enabled = 1
                                          /\ part.archive # None => copy[l].conf.backups > 0
      BY DEF RunsWhatIsAsked
    <2>1. CopyIsFit(l) /\ job[l] \in Request
      BY DEF IInv, CopiesAreFit, ServedOnce, TypeOK
    <2>2. body[job[l]].part # None <=> body[job[l]].form = "custom"
      BY <2>1, OperatorAssumption DEF IInv, TypeOK, Body
    <2> QED
      BY <2>1, <2>2 DEF CopyIsFit, Refuses
  <1> QED
    BY Fit, <1>1, PTL

\* The answer of a check does not depend on what replays load meanwhile.
THEOREM Policy == Spec => []DeniedIsRefused
  <1>1. IInv /\ LoadIsRead /\ DeniedIsRefused /\ [Next]_vars =>
            LoadIsRead' /\ DeniedIsRefused'
    BY StepReadsLoad, StepDeniesRightly DEF IInv
  <1>2. Init => LoadIsRead /\ DeniedIsRefused
    BY InitIsFit
  <1> QED
    BY Fit, <1>1, <1>2, PTL DEF Spec

----------------------------------------------------------------------------
(* The refinement.                                                          *)

RunningBar == {<<l.slot, job[l]>> : l \in {k \in AnyLane : pc[k] = "child"}}
LostBar == {r \in Request : record[r] = "RUNNING" /\ \A l \in AnyLane : job[l] # r}

LEMMA InitImplements == Init => AsReplays!Init
  <1> SUFFICES ASSUME Init
               PROVE  AsReplays!Init
    OBVIOUS
  <1>1. RunningBar = {} /\ LostBar = {}
    BY DEF Init, RunningBar, LostBar
  <1> QED
    BY <1>1 DEF Init, AsReplays!Init, RunningBar, LostBar

\* The children that run, of two states whose lanes differ in one.
LEMMA RunningIs ==
    ASSUME TypeOK, NEW l \in AnyLane, NEW to \in PC, pc' = [pc EXCEPT ![l] = to],
           NEW j, job' = [job EXCEPT ![l] = j]
    PROVE  /\ pc[l] # "child" /\ to # "child" => RunningBar' = RunningBar
           /\ pc[l] # "child" /\ to = "child" => RunningBar' = RunningBar \cup {<<l.slot, j>>}
  <1>1. pc'[l] = to /\ job'[l] = j
    BY DEF TypeOK
  <1>2. \A k \in AnyLane : k # l => pc'[k] = pc[k] /\ job'[k] = job[k]
    BY DEF TypeOK
  <1> QED
    BY <1>1, <1>2 DEF RunningBar

\* The child of a lane is the child of its slot, and of its request.
LEMMA RunningOnce ==
    ASSUME IInv, NEW l \in AnyLane, pc[l] = "child"
    PROVE  /\ \A k \in AnyLane : pc[k] = "child" /\ k.slot = l.slot => k = l
           /\ <<l.slot, job[l]>> \in RunningBar
  BY DEF IInv, SlotIsMine, Holding, RunningBar

\* A request no lane runs a child for.
LEMMA NotRunning ==
    ASSUME IInv, NEW r \in Request,
           \A l \in AnyLane : job[l] = r => pc[l] # "child"
    PROVE  \A s : <<s, r>> \notin RunningBar
  BY DEF RunningBar

\* The lost requests do not change when the record of one that a lane serves, or that does
\* not run, does, unless it then runs without a lane.
LEMMA LostIs ==
    ASSUME IInv, NEW r \in Request, NEW s, record' = [record EXCEPT ![r] = s],
           r \notin LostBar,
           s = "RUNNING" => \E l \in AnyLane : job'[l] = r,
           \A l \in AnyLane : job'[l] = job[l] \/ (job[l] \in {r, None} /\ job'[l] \in {r, None})
    PROVE  LostBar' = LostBar
  <1>1. record'[r] = s /\ \A q \in Request : q # r => record'[q] = record[q]
    BY DEF IInv, TypeOK
  <1>2. r \notin LostBar'
    BY <1>1 DEF LostBar
  <1>3. \A q \in Request : q # r => (q \in LostBar' <=> q \in LostBar)
    BY <1>1, RequestIsSome DEF LostBar
  <1> QED
    BY <1>2, <1>3 DEF LostBar

\* A request that is refused, by a lane that leaves it.
LEMMA RefusalImplements ==
    ASSUME IInv, NEW l \in AnyLane, job[l] \in Request, pc[l] # "child",
           Fails(job[l]), Idle(l)
    PROVE  AsReplays!Next
  <1> DEFINE r == job[l]
  <1>1. record[r] = "RUNNING" /\ r # None
    BY RequestIsSome DEF IInv, ServedOnce
  <1>2. \A s : <<s, r>> \notin RunningBar
    BY <1>1, NotRunning DEF IInv, ServedOnce
  <1>3. r \notin LostBar
    BY DEF LostBar
  <1>4. RunningBar' = RunningBar
    BY RunningIs DEF IInv, Idle, PC
  <1>5. LostBar' = LostBar
    <2>1. \A k \in AnyLane : job'[k] = job[k] \/ (job[k] = r /\ job'[k] = None)
      BY DEF Idle, IInv, TypeOK
    <2>2. record' = [record EXCEPT ![r] = "FAILED"] /\ r \in Request
      BY DEF Fails
    <2> HIDE DEF r
    <2> QED
      BY <1>3, <2>1, <2>2, LostIs
  <1>6. AsReplays!Refuse(r)
    BY <1>1, <1>2, <1>3, <1>4, <1>5
       DEF Fails, AsReplays!Refuse, AsReplays!Idle, AsReplays!Moves, RunningBar, LostBar
  <1> QED
    BY <1>6 DEF AsReplays!Next

\* A step that leaves the records, and what the lanes run and serve.
LEMMA StutterImplements ==
    ASSUME UNCHANGED record, RunningBar' = RunningBar, LostBar' = LostBar
    PROVE  UNCHANGED AsReplays!vars
  BY DEF AsReplays!vars, RunningBar, LostBar

LEMMA GoingImplements ==
    ASSUME IInv, NEW l \in AnyLane, NEW to \in PC, pc[l] # "child", to # "child",
           pc' = [pc EXCEPT ![l] = to], UNCHANGED <<record, job>>
    PROVE  UNCHANGED AsReplays!vars
  <1>1. job' = [job EXCEPT ![l] = job[l]]
    BY DEF IInv, TypeOK
  <1>2. RunningBar' = RunningBar
    BY <1>1, RunningIs DEF IInv
  <1>3. LostBar' = LostBar
    BY DEF LostBar
  <1> QED
    BY <1>2, <1>3, StutterImplements

LEMMA LaneImplements ==
    ASSUME IInv, NEW l \in AnyLane, Step(l) \/ PrepareError(l)
    PROVE  [AsReplays!Next]_AsReplays!vars
  <1>1. job[l] \in Request
    BY DEF Step, PrepareError, Acquire, FindEntry, SyncConfigs, Customize, ResolveBackup,
           Start, ChildEnds, TypeOK, ServedOnce, IInv
  <1>2. ASSUME Abandon(l), pc[l] # "child"
        PROVE  AsReplays!Next
    BY <1>1, <1>2, RefusalImplements DEF Abandon
  <1>3. ASSUME NEW to \in PC \ {"child"}, Goes(l, to), pc[l] # "child"
        PROVE  UNCHANGED AsReplays!vars
    BY <1>3, GoingImplements DEF Goes
  <1>4. CASE Acquire(l)
    BY <1>4, GoingImplements DEF Acquire, PC
  <1>5. CASE FindEntry(l)
    BY <1>2, <1>3, <1>5 DEF FindEntry, PC
  <1>6. CASE SyncConfigs(l)
    BY <1>2, <1>3, <1>6 DEF SyncConfigs, PC
  <1>7. CASE Customize(l)
    BY <1>2, <1>3, <1>7 DEF Customize, PC
  <1>8. CASE ResolveBackup(l)
    BY <1>2, <1>3, <1>8 DEF ResolveBackup, PC
  <1>9. CASE PrepareError(l)
    BY <1>2, <1>9 DEF PrepareError
  <1>10. CASE Start(l)
    <2>1. CASE stopping
      BY <1>1, <1>10, <2>1, RefusalImplements DEF Start
    <2>2. CASE ~stopping
      <3> DEFINE r == job[l]
      <3>1. /\ pc[l] = "ready" /\ pc' = [pc EXCEPT ![l] = "child"]
            /\ job' = [job EXCEPT ![l] = r] /\ UNCHANGED <<record, job>>
        BY <1>10, <2>2 DEF Start, Goes, IInv, TypeOK
      <3>2. record[r] = "RUNNING" /\ r # None
        BY <1>1, RequestIsSome DEF IInv, ServedOnce
      <3>3. r \notin LostBar /\ LostBar' = LostBar
        BY <3>1 DEF LostBar
      <3>4. \A s : <<s, r>> \notin RunningBar
        BY <1>1, <3>1, <3>2, NotRunning DEF IInv, ServedOnce
      <3>5. \A q : <<l.slot, q>> \notin RunningBar
        <4>1. \A k \in AnyLane : k.slot = l.slot /\ pc[k] = "child" => k = l
          BY <3>1 DEF IInv, SlotIsMine, Holding
        <4> QED
          BY <3>1, <4>1 DEF RunningBar
      <3>6. RunningBar' = RunningBar \cup {<<l.slot, r>>}
        BY <3>1, RunningIs DEF IInv, PC
      <3>7. l.slot \in LANES \cup {"single"}
        BY LaneType DEF SlotOf
      <3> HIDE DEF r
      <3>8. AsReplays!Start(r, l.slot)
        BY <3>1, <3>2, <3>3, <3>4, <3>5, <3>6
           DEF AsReplays!Start, AsReplays!Idle, RunningBar, LostBar
      <3>9. r \in Request
        BY <1>1 DEF r
      <3> QED
        BY <3>7, <3>8, <3>9 DEF AsReplays!Next
    <2> QED
      BY <2>1, <2>2
  <1>11. ASSUME NEW status \in {"DONE", "FAILED"}, ChildEnds(l, status)
         PROVE  AsReplays!Next
    <2> DEFINE r == job[l]
    <2>1. /\ pc[l] = "child" /\ pc' = [pc EXCEPT ![l] = "idle"]
          /\ job' = [job EXCEPT ![l] = None] /\ record' = [record EXCEPT ![r] = status]
      BY <1>11 DEF ChildEnds, Idle
    <2>2. record[r] = "RUNNING" /\ r # None
      BY <1>1, RequestIsSome DEF IInv, ServedOnce
    <2>3. r \notin LostBar
      BY DEF LostBar
    <2>4. LostBar' = LostBar
      <3>1. \A k \in AnyLane : job'[k] = job[k] \/ (job[k] = r /\ job'[k] = None)
        BY <2>1 DEF IInv, TypeOK
      <3> HIDE DEF r
      <3>2. r \in Request
        BY <1>1 DEF r
      <3> QED
        BY <2>1, <2>3, <3>1, <3>2, LostIs
    <2>5. <<l.slot, r>> \in RunningBar
      BY <2>1 DEF RunningBar
    <2>6. RunningBar' = RunningBar \ {<<l.slot, r>>}
      <3>1. pc'[l] = "idle" /\ \A k \in AnyLane : k # l => pc'[k] = pc[k] /\ job'[k] = job[k]
        BY <2>1 DEF IInv, TypeOK
      <3>2. \A k \in AnyLane : k # l => job[k] # r
        BY <2>2 DEF IInv, ServedOnce
      <3> QED
        BY <2>1, <3>1, <3>2 DEF RunningBar
    <2>7. l.slot \in LANES \cup {"single"}
      BY LaneType DEF SlotOf
    <2> HIDE DEF r
    <2>8. AsReplays!End(r, l.slot)
      BY <2>1, <2>2, <2>4, <2>5, <2>6
         DEF AsReplays!End, AsReplays!Moves, RunningBar, LostBar
    <2>9. r \in Request
      BY <1>1 DEF r
    <2> QED
      BY <2>7, <2>8, <2>9 DEF AsReplays!Next
  <1> QED
    BY <1>4, <1>5, <1>6, <1>7, <1>8, <1>9, <1>10, <1>11 DEF Step

LEMMA StepImplements ==
    ASSUME IInv, [Next]_vars
    PROVE  [AsReplays!Next]_AsReplays!vars
  <1> USE DEF index, lanes, checks
  <1>1. CASE UNCHANGED <<record, pc, job>>
    <2>1. RunningBar' = RunningBar /\ LostBar' = LostBar
      BY <1>1 DEF RunningBar, LostBar
    <2> QED
      BY <1>1, <2>1, StutterImplements
  <1>2. ASSUME NEW r \in Request, NEW b \in Body, NEW key \in Keys, Publish(r, b, key)
        PROVE  AsReplays!Next
    <2>1. record[r] = "none" /\ record' = [record EXCEPT ![r] = "QUEUED"] /\ UNCHANGED <<pc, job>>
      BY <1>2 DEF Publish
    <2>2. RunningBar' = RunningBar
      BY <2>1 DEF RunningBar
    <2>3. r \notin LostBar
      BY <2>1 DEF LostBar
    <2>4. LostBar' = LostBar
      BY <2>1, <2>3, LostIs
    <2>5. AsReplays!Ask(r)
      BY <2>1, <2>2, <2>4 DEF AsReplays!Ask, AsReplays!Moves, RunningBar, LostBar
    <2> QED
      BY <2>5 DEF AsReplays!Next
  <1>3. ASSUME NEW l \in AnyLane, NEW r \in Request, Take(l, r)
        PROVE  AsReplays!Next
    <2>1. record[r] = "QUEUED" /\ pc[l] = "idle" /\ job[l] = None
      BY <1>3 DEF Take, IInv, ServedOnce
    <2>2. r \notin LostBar
      BY <2>1 DEF LostBar
    <2>3. \A k \in AnyLane : job[k] # r
      BY <2>1, RequestIsSome DEF IInv, ServedOnce
    <2>4. \A s : <<s, r>> \notin RunningBar
      BY <2>3, NotRunning
    <2>5. CASE Fails(r) /\ UNCHANGED lanes
      <3>1. RunningBar' = RunningBar
        BY <2>5 DEF RunningBar
      <3>2. LostBar' = LostBar
        <4>1. record' = [record EXCEPT ![r] = "FAILED"] /\ UNCHANGED job
          BY <2>5 DEF Fails
        <4> QED
          BY <2>2, <4>1, LostIs
      <3>3. AsReplays!Refuse(r)
        BY <2>1, <2>2, <2>4, <2>5, <3>1, <3>2
           DEF Fails, AsReplays!Refuse, AsReplays!Idle, AsReplays!Moves, RunningBar, LostBar
      <3> QED
        BY <3>3 DEF AsReplays!Next
    <2>6. CASE /\ record' = [record EXCEPT ![r] = "RUNNING"]
               /\ pc' = [pc EXCEPT ![l] = "waiting"] /\ job' = [job EXCEPT ![l] = r]
      <3>1. RunningBar' = RunningBar
        BY <2>1, <2>6, RunningIs DEF IInv, PC
      <3>2. /\ job'[l] = r
            /\ \A k \in AnyLane : job'[k] = job[k] \/ (job[k] = None /\ job'[k] = r)
        BY <2>1, <2>6 DEF IInv, TypeOK
      <3>3. LostBar' = LostBar
        BY <2>2, <2>6, <3>2, LostIs
      <3>4. AsReplays!Take(r)
        BY <2>1, <2>6, <3>1, <3>3 DEF AsReplays!Take, AsReplays!Moves, RunningBar, LostBar
      <3> QED
        BY <3>4 DEF AsReplays!Next
    <2> QED
      BY <1>3, <2>5, <2>6 DEF Take
  <1>4. CASE Crash
    <2>1. RunningBar' = {}
      BY <1>4 DEF Crash, RunningBar
    <2>2. LostBar' = {r \in Request : record[r] = "RUNNING"}
      BY <1>4, RequestIsSome DEF Crash, LostBar
    <2>3. AsReplays!Crash
      BY <1>4, <2>1, <2>2 DEF Crash, AsReplays!Crash, RunningBar, LostBar
    <2> QED
      BY <2>3 DEF AsReplays!Next
  <1>5. ASSUME NEW c \in Check, CheckStep(c) \/ ReplyError(c)
        PROVE  [AsReplays!Next]_AsReplays!vars
    BY <1>1, <1>5
       DEF CheckStep, ReplyError, TakeCheck, CheckConfig, SetCredentials, QueryRemote, Reply
  <1>6. CASE UNCHANGED vars \/ Stop \/ \E c \in Conf : Change(c)
    BY <1>1, <1>6 DEF Stop, Change, vars
  <1> QED
    BY <1>2, <1>3, <1>4, <1>5, <1>6, LaneImplements DEF Next

\* A request runs at most once, never after its record has ended, one at a time in a slot.
THEOREM Refinement == Spec => ImplementsReplays
  <1>1. Init => AsReplays!Init
    BY InitImplements
  <1>2. IInv /\ [Next]_vars => [AsReplays!Next]_AsReplays!vars
    BY StepImplements
  <1> QED
    BY <1>1, <1>2, Fit, PTL DEF Spec, ImplementsReplays, AsReplays!Spec
=============================================================================
