---------------------------- MODULE JournalProofs ----------------------------
(***************************************************************************)
(* Proofs about Journal for any number of collectors, any timeout, refresh *)
(* interval and bounds: its typing, mutual exclusion while ticks are fresh, *)
(* and the fencing of superseded collectors.                               *)
(***************************************************************************)
EXTENDS Journal, TLAPS

\* The strengthening of ExclusiveWhileFresh: what holds of the collectors whose
\* document has the sequence number of the store.
NeverCreated == exists /\ \A p \in Collector : pc[p] \notin {"peekNew", "loadNew"}

TickIsSaved ==
    \A p \in Collector :
        pc[p] \in {"body", "ticked", "keep"} => copy[p].tick = held[p]

LoadedIsStored ==
    \A p \in current : pc[p] \in {"check", "complete"} => copy[p].tick = journal.tick

ClaimIsFree == \A p \in current : pc[p] = "enterTick" => ~Fresh(journal.tick)

OwnerIsAlone ==
    \A p \in current, q \in Collector :
        p # q /\ InBody(p) /\ InBody(q) => ~Fresh(held[q]) /\ q \notin current

Visible ==
    \A p \in Collector : InBody(p) /\ Fresh(held[p]) => journal.tick = held[p]

Lock ==
    /\ NeverCreated /\ TickIsSaved /\ LoadedIsStored /\ ClaimIsFree
    /\ OwnerIsAlone /\ Visible /\ MutualExclusion

IInv == TypeOK /\ (mode.existed => Lock)

----------------------------------------------------------------------------
(* Helpers on ages.                                                         *)

LEMMA OlderType ==
    ASSUME NEW bound \in Nat, NEW t \in Stamp(bound)
    PROVE  Older(t, bound) \in Stamp(bound)
  BY DEF Older, Stamp, NoTime

LEMMA OlderStart ==
    ASSUME NEW bound \in Nat, NEW t \in 0 .. bound
    PROVE  Older(t, bound) \in 0 .. bound
  BY DEF Older, NoTime

\* Ageing never makes a tick fresh.
LEMMA OlderFresh ==
    ASSUME NEW t \in Stamp(Timeout), Fresh(Older(t, Timeout))
    PROVE  Fresh(t)
  BY JournalAssumption DEF Older, Stamp, NoTime, Fresh

----------------------------------------------------------------------------
(* Typing.                                                                  *)

LEMMA NewIsTyped == NewDocument \in Document /\ NewPass \in Pass
  BY JournalAssumption
     DEF NewDocument, NewPass, Document, Pass, Stamp, Date, NoTime

LEMMA EndType ==
    ASSUME TypeOK, NEW p \in Collector, NEW o \in Outcome, End(p, o)
    PROVE  /\ pc' \in [Collector -> PC] /\ copy' \in [Collector -> Document]
           /\ held' \in [Collector -> Stamp(Timeout)]
           /\ pass' \in [Collector -> Pass]
           /\ outcome' \in [Collector -> Outcome]
  <1>1. [NewPass EXCEPT !.covered = mode.replay /\ pass[p].covered] \in Pass
    BY NewIsTyped DEF TypeOK, Pass, NewPass
  <1> QED
    BY <1>1, NewIsTyped DEF TypeOK, End, PC, Stamp

LEMMA LeaveType ==
    ASSUME TypeOK, NEW p \in Collector, NEW r \in {"none", "failed", "completed", "crashed"},
           Leave(p, r)
    PROVE  /\ pc' \in [Collector -> PC] /\ copy' \in [Collector -> Document]
           /\ held' \in [Collector -> Stamp(Timeout)]
           /\ pass' \in [Collector -> Pass]
           /\ outcome' \in [Collector -> Outcome]
  <1>1. [outcome[p] EXCEPT !.result = IF mode.replay THEN r ELSE "none"] \in Outcome
    BY DEF TypeOK, Outcome
  <1> QED
    BY <1>1, EndType DEF Leave

LEMMA RaiseType ==
    ASSUME TypeOK, NEW p \in Collector, Raise(p)
    PROVE  /\ pc' \in [Collector -> PC] /\ copy' \in [Collector -> Document]
           /\ held' \in [Collector -> Stamp(Timeout)]
           /\ pass' \in [Collector -> Pass]
           /\ outcome' \in [Collector -> Outcome]
  <1>1. CASE mode.replay /\ outcome[p].retries < Retry
    <2>1. [outcome[p] EXCEPT !.retries = @ + 1] \in Outcome
      BY <1>1, JournalAssumption DEF TypeOK, Outcome
    <2> QED
      BY <1>1, <2>1, EndType DEF Raise
  <1>2. CASE ~(mode.replay /\ outcome[p].retries < Retry)
    BY <1>2, LeaveType DEF Raise
  <1> QED
    BY <1>1, <1>2

LEMMA ExitType ==
    ASSUME TypeOK, NEW p \in Collector, NEW s \in Pass, NEW raised \in BOOLEAN,
           Exit(p, s, raised)
    PROVE  /\ pc' \in [Collector -> PC] /\ copy' \in [Collector -> Document]
           /\ pass' \in [Collector -> Pass]
  <1> DEFINE doi == IF raised /\ ~mode.replay THEN 0 ELSE s.maxDate
  <1>1. doi \in Date /\ s.start \in Stamp(Refresh) /\ NoTime \in Stamp(Timeout)
    BY JournalAssumption DEF Pass, Date, Stamp, NoTime
  <1>2. [s EXCEPT !.failing = raised, !.maxDate = doi] \in Pass
    BY <1>1 DEF Pass
  <1>3. [copy[p] EXCEPT !.lastDate = IF doi # 0 THEN doi ELSE @,
                        !.lastCollect = s.start, !.tick = NoTime] \in Document
    BY <1>1 DEF TypeOK, Document
  <1>4. /\ pass' = [pass EXCEPT ![p] = [s EXCEPT !.failing = raised, !.maxDate = doi]]
        /\ copy' = [copy EXCEPT ![p] =
                [copy[p] EXCEPT !.lastDate = IF doi # 0 THEN doi ELSE @,
                                !.lastCollect = s.start, !.tick = NoTime]]
    BY DEF Exit, TypeOK, Document
  <1> QED
    BY <1>2, <1>3, <1>4 DEF TypeOK, Exit, PC, Body

LEMMA StampTickType ==
    ASSUME TypeOK, NEW p \in Collector, NEW l \in PC, NEW d \in Date,
           StampTick(p, l, d)
    PROVE  pc' \in [Collector -> PC] /\ copy' \in [Collector -> Document]
  <1>1. 0 \in Stamp(Timeout)
    BY JournalAssumption DEF Stamp
  <1> QED
    BY <1>1 DEF TypeOK, StampTick, Document

LEMMA LoadedType ==
    ASSUME TypeOK, NEW p \in Collector, NEW d \in Document, Loaded(p, d)
    PROVE  /\ pc' \in [Collector -> PC] /\ copy' \in [Collector -> Document]
           /\ pass' \in [Collector -> Pass]
  BY JournalAssumption DEF TypeOK, Loaded, PC, Body, Pass

LEMMA SaveType ==
    ASSUME TypeOK, NEW p \in Collector, Save(p) \/ Conflict(p)
    PROVE  journal' \in Document /\ current' \in SUBSET Collector
  BY DEF TypeOK, Save, Conflict, Sequenced

LEMMA StepType ==
    ASSUME TypeOK, NEW p \in Collector, Step(p)
    PROVE  TypeOK'
  <1> USE DEF TypeOK
  <1> DEFINE Local == /\ pc' \in [Collector -> PC] /\ copy' \in [Collector -> Document]
                      /\ held' \in [Collector -> Stamp(Timeout)]
                      /\ pass' \in [Collector -> Pass]
                      /\ outcome' \in [Collector -> Outcome]
             Store == journal' \in Document /\ current' \in SUBSET Collector
  <1>1. CASE Begin(p)
    BY <1>1, NewIsTyped DEF Begin, PC, Body
  <1>2. CASE Load(p)
    <2>1. CASE exists
      BY <1>2, <2>1, LoadedType DEF Load
    <2>2. CASE ~exists
      BY <1>2, <2>2 DEF Load, PC
    <2> QED BY <2>1, <2>2
  <1>3. CASE CreateJournal(p)
    BY <1>3, LoadedType, NewIsTyped DEF CreateJournal
  <1>4. CASE Enter(p)
    <2>1. CASE Leave(p, "none")
      BY <1>4, <2>1, LeaveType DEF Enter, Sequenced
    <2>2. CASE SkipLoaded(p)
      <3>1. CASE mode.replay
        <4>1. /\ UNCHANGED <<exists, journal, faults, mode>>
              /\ current' \in SUBSET Collector
          BY <1>4 DEF Enter, Sequenced
        <4>2. /\ pc' = [pc EXCEPT ![p] = "complete"]
              /\ copy' = [copy EXCEPT ![p].completed = TRUE]
              /\ UNCHANGED <<held, pass, outcome>>
          BY <2>2, <3>1 DEF SkipLoaded
        <4>3. copy' \in [Collector -> Document]
          BY <4>2 DEF Document
        <4> QED BY <4>1, <4>2, <4>3 DEF PC
      <3>2. CASE ~mode.replay
        BY <1>4, <2>2, <3>2, LeaveType DEF Enter, SkipLoaded, Sequenced
      <3> QED BY <3>1, <3>2
    <2>3. CASE StampTick(p, "enterTick", 0) /\ UNCHANGED <<held, pass, outcome>>
      <3>1. "enterTick" \in PC /\ 0 \in Date
        BY JournalAssumption DEF PC, Date
      <3> QED
        BY <1>4, <2>3, <3>1, StampTickType DEF Enter, Sequenced
    <2> QED BY <1>4, <2>1, <2>2, <2>3 DEF Enter
  <1>5. CASE SaveTick(p)
    <2>1. Store
      BY <1>5, SaveType DEF SaveTick
    <2>2. Local
      <3>1. CASE SkipDismissed(p)
        BY <3>1, LeaveType DEF SkipDismissed
      <3>2. CASE Raise(p)
        BY <3>2, RaiseType
      <3>3. CASE /\ pc' = [pc EXCEPT ![p] = IF @ = "enterTick" THEN "body" ELSE "ticked"]
                 /\ held' = [held EXCEPT ![p] = copy[p].tick]
                 /\ UNCHANGED <<copy, pass, outcome>>
        BY <3>3 DEF PC, Body, Document
      <3> QED BY <1>5, <3>1, <3>2, <3>3 DEF SaveTick
    <2> QED BY <1>5, <2>1, <2>2 DEF SaveTick
  <1>6. CASE Page(p)
    <2>1. PICK d \in pass[p].maxDate .. MaxDate :
              /\ pass' = [pass EXCEPT ![p].maxDate = d, ![p].pages = @ + 1]
              /\ StampTick(p, "pageTick", d)
      BY <1>6 DEF Page
    <2>2. d \in Date /\ pass[p].pages + 1 \in 0 .. MaxPages /\ "pageTick" \in PC
      BY <1>6, JournalAssumption DEF Page, Pass, Date, PC, Body
    <2>3. pass' \in [Collector -> Pass]
      BY <2>1, <2>2 DEF Pass
    <2> QED BY <1>6, <2>1, <2>2, <2>3, StampTickType DEF Page
  <1>7. CASE KeepWindow(p)
    BY <1>7, JournalAssumption DEF KeepWindow, Document, Date, PC, Body
  <1>8. CASE SaveWindow(p)
    <2>1. CASE pc' = [pc EXCEPT ![p] = "body"] /\ Save(p) /\ UNCHANGED <<copy, pass>>
      BY <1>8, <2>1, SaveType DEF SaveWindow, PC, Body
    <2>2. CASE Exit(p, pass[p], TRUE) /\ Conflict(p)
      BY <1>8, <2>2, SaveType, ExitType DEF SaveWindow
    <2> QED BY <1>8, <2>1, <2>2 DEF SaveWindow
  <1>9. CASE Finish(p)
    <2>1. [pass[p] EXCEPT !.covered = TRUE] \in Pass
      BY DEF Pass
    <2> QED BY <1>9, <2>1, ExitType DEF Finish
  <1>10. CASE BreakOff(p)
    <2>1. PICK d \in pass[p].maxDate .. MaxDate :
              Exit(p, [pass[p] EXCEPT !.maxDate = d], FALSE)
      BY <1>10 DEF BreakOff
    <2>2. [pass[p] EXCEPT !.maxDate = d] \in Pass
      BY JournalAssumption DEF Pass, Date
    <2> QED BY <1>10, <2>1, <2>2, ExitType DEF BreakOff
  <1>11. CASE QueryError(p)
    BY <1>11, ExitType DEF QueryError
  <1>12. CASE Write(p)
    <2>1. Store
      BY <1>12, SaveType DEF Write
    <2>2. Local
      <3>1. CASE Raise(p)
        BY <3>1, RaiseType
      <3>2. CASE Leave(p, "none")
        BY <3>2, LeaveType
      <3>3. CASE /\ pc' = [pc EXCEPT ![p] = "complete"]
                 /\ copy' = [copy EXCEPT ![p].completed = TRUE]
                 /\ held' = [held EXCEPT ![p] = NoTime]
                 /\ UNCHANGED <<pass, outcome>>
        BY <3>3 DEF PC, Document, Stamp
      <3> QED BY <1>12, <3>1, <3>2, <3>3 DEF Write
    <2> QED BY <1>12, <2>1, <2>2 DEF Write
  <1>13. CASE Complete(p)
    BY <1>13, SaveType, LeaveType DEF Complete
  <1> QED
    BY <1>1, <1>2, <1>3, <1>4, <1>5, <1>6, <1>7, <1>8, <1>9, <1>10, <1>11,
       <1>12, <1>13 DEF Step

LEMMA FaultType ==
    ASSUME TypeOK, NEW p \in Collector, Crash(p) \/ SaveError(p) \/ LostAnswer(p)
    PROVE  TypeOK'
  <1> USE DEF TypeOK
  <1>0. faults' \in 0 .. MaxFaults /\ UNCHANGED <<exists, mode>>
    <2>1. Fault
      BY DEF Crash, SaveError, LostAnswer
    <2>2. MaxFaults \in Nat
      BY JournalAssumption
    <2> QED BY <2>1, <2>2 DEF Fault
  <1>1. journal' \in Document /\ current' \in SUBSET Collector
    BY DEF Crash, SaveError, LostAnswer, Sequenced
  <1>2. CASE \E r \in {"none", "failed", "completed", "crashed"} : Leave(p, r)
    BY <1>0, <1>1, <1>2, LeaveType
  <1>3. CASE Raise(p)
    BY <1>0, <1>1, <1>3, RaiseType
  <1>4. CASE Exit(p, pass[p], TRUE) /\ UNCHANGED <<held, outcome>>
    BY <1>0, <1>1, <1>4, ExitType
  <1> QED
    BY <1>2, <1>3, <1>4 DEF Crash, SaveError, LostAnswer, SkipDismissed

LEMMA AdvanceType ==
    ASSUME TypeOK, Advance
    PROVE  TypeOK'
  <1> USE DEF TypeOK
  <1>1. \A d \in Document : OlderDocument(d) \in Document
    BY JournalAssumption, OlderType DEF Document, OlderDocument
  <1>2. \A s \in Pass : [s EXCEPT !.start = Older(@, Refresh)] \in Pass
    BY JournalAssumption, OlderStart DEF Pass
  <1>3. \A t \in Stamp(Timeout) : Older(t, Timeout) \in Stamp(Timeout)
    BY JournalAssumption, OlderType
  <1>4. pass' \in [Collector -> Pass]
    BY <1>2 DEF Advance
  <1> QED
    BY <1>1, <1>3, <1>4 DEF Advance

LEMMA InitType == Init => TypeOK
  <1> SUFFICES ASSUME Init PROVE TypeOK
    OBVIOUS
  <1>1. [retries |-> 0, result |-> "none"] \in Outcome
    BY JournalAssumption DEF Outcome
  <1> QED
    BY <1>1, NewIsTyped, JournalAssumption DEF Init, TypeOK, PC, Stamp, Mode

\* Every state of Journal has its type (journal.py, httpcollector.py).
THEOREM Typing == Spec => []TypeOK
  <1>1. Init => TypeOK
    BY InitType
  <1>2. TypeOK /\ [Next]_vars => TypeOK'
    <2> SUFFICES ASSUME TypeOK, [Next]_vars PROVE TypeOK'
      OBVIOUS
    <2>1. CASE UNCHANGED vars
      BY <2>1 DEF vars, TypeOK
    <2> QED
      BY <2>1, StepType, FaultType, AdvanceType DEF Next
  <1> QED
    BY <1>1, <1>2, PTL DEF Spec

----------------------------------------------------------------------------
(* Mutual exclusion.  Every step belongs to one of five kinds, told apart   *)
(* by what it does to the lock; the lemmas below treat the kinds, and the   *)
(* theorems put each action in its kind.                                    *)

\* p ends its pass, or moves, without saving and without gaining the sequence.
Moves(p) ==
    /\ journal' = journal
    /\ current' \subseteq current
    /\ \A q \in Collector : q # p =>
           pc'[q] = pc[q] /\ copy'[q] = copy[q] /\ held'[q] = held[q]

LEMMA EndMoves ==
    ASSUME TypeOK, NEW p \in Collector, NEW o, End(p, o)
    PROVE  /\ pc'[p] = "idle"
           /\ \A q \in Collector : q # p =>
                  pc'[q] = pc[q] /\ copy'[q] = copy[q] /\ held'[q] = held[q]
  BY DEF TypeOK, End

LEMMA RaiseEnds ==
    ASSUME NEW p \in Collector, Raise(p)
    PROVE  \E o : End(p, o)
  BY DEF Raise, Leave

\* A step that leaves the body, or stays out of it, and does not save.
LEMMA IdleKeepsLock ==
    ASSUME TypeOK, Lock, NEW p \in Collector, Moves(p), exists' = exists,
           pc'[p] \in {"idle", "load"}
    PROVE  Lock'
  <1> USE DEF Lock, Moves, TypeOK, InBody, Body
  <1>1. NeverCreated' /\ TickIsSaved'
    BY DEF NeverCreated, TickIsSaved
  <1>2. LoadedIsStored' /\ ClaimIsFree'
    BY DEF LoadedIsStored, ClaimIsFree
  <1>3. OwnerIsAlone' /\ Visible' /\ MutualExclusion'
    BY DEF OwnerIsAlone, Visible, MutualExclusion, Fresh
  <1> QED BY <1>1, <1>2, <1>3

\* A step inside the body that does not save.
LEMMA BodyKeepsLock ==
    ASSUME TypeOK, Lock, NEW p \in Collector, Moves(p), exists' = exists,
           InBody(p), held' = held,
           \/ pc'[p] \in {"pageTick", "write"}
           \/ pc[p] = "ticked" /\ pc'[p] = "keep" /\ copy'[p].tick = copy[p].tick
    PROVE  Lock'
  <1> USE DEF Lock, Moves, TypeOK, InBody, Body
  <1>1. NeverCreated' /\ TickIsSaved'
    BY DEF NeverCreated, TickIsSaved
  <1>2. LoadedIsStored' /\ ClaimIsFree'
    BY DEF LoadedIsStored, ClaimIsFree
  <1>3. OwnerIsAlone' /\ Visible' /\ MutualExclusion'
    BY DEF OwnerIsAlone, Visible, MutualExclusion, Fresh
  <1> QED BY <1>1, <1>2, <1>3

\* What p relies on when it saves: nobody else is inside with a fresh tick.
LEMMA SaverIsAlone ==
    ASSUME TypeOK, Lock, NEW p \in current,
           InBody(p) \/ pc[p] = "enterTick", NEW q \in Collector, q # p, InBody(q)
    PROVE  ~Fresh(held[q])
  BY DEF TypeOK, Lock, OwnerIsAlone, ClaimIsFree, Visible, InBody

\* A tick, a window start or the end of a pass is saved.
LEMMA SaveKeepsLock ==
    ASSUME TypeOK, Lock, NEW p \in current, exists' = exists,
           InBody(p) \/ pc[p] = "enterTick",
           journal' = copy[p], current' \subseteq {p},
           \A q \in Collector : q # p =>
               pc'[q] = pc[q] /\ copy'[q] = copy[q] /\ held'[q] = held[q],
           \/ pc'[p] = "idle"
           \/ pc'[p] = "complete" /\ copy'[p].tick = copy[p].tick
           \/ pc'[p] = "write" /\ held'[p] = copy[p].tick
           \/ /\ pc'[p] \in {"body", "ticked"} /\ copy'[p].tick = copy[p].tick
              /\ held'[p] = copy[p].tick
    PROVE  Lock'
  <1> USE DEF TypeOK, InBody, Body
  <1>0. \A q \in Collector : q # p /\ InBody(q) => ~Fresh(held[q])
    BY SaverIsAlone
  <1>1. NeverCreated' /\ TickIsSaved'
    BY DEF NeverCreated, TickIsSaved, Lock
  <1>2. LoadedIsStored' /\ ClaimIsFree'
    BY DEF LoadedIsStored, ClaimIsFree
  <1>3. OwnerIsAlone' /\ Visible' /\ MutualExclusion'
    BY <1>0 DEF OwnerIsAlone, Visible, MutualExclusion, Fresh
  <1> QED BY <1>1, <1>2, <1>3 DEF Lock

\* A replay that skipped, or ended, saves the completed document: the tick stays.
LEMMA CompleteKeepsLock ==
    ASSUME TypeOK, Lock, NEW p \in current, exists' = exists,
           pc[p] = "complete", pc'[p] = "idle",
           journal' = copy[p], current' \subseteq {p},
           \A q \in Collector : q # p =>
               pc'[q] = pc[q] /\ copy'[q] = copy[q] /\ held'[q] = held[q]
    PROVE  Lock'
  <1> USE DEF TypeOK, InBody, Body
  <1>0. journal'.tick = journal.tick
    BY DEF Lock, LoadedIsStored
  <1>1. NeverCreated' /\ TickIsSaved'
    BY DEF NeverCreated, TickIsSaved, Lock
  <1>2. LoadedIsStored' /\ ClaimIsFree'
    BY DEF LoadedIsStored, ClaimIsFree
  <1>3. OwnerIsAlone' /\ Visible' /\ MutualExclusion'
    BY <1>0 DEF Lock, OwnerIsAlone, Visible, MutualExclusion, Fresh
  <1> QED BY <1>1, <1>2, <1>3 DEF Lock

LEMMA LoadKeepsLock ==
    ASSUME TypeOK, Lock, NEW p \in Collector, Load(p)
    PROVE  Lock'
  <1> USE DEF TypeOK, InBody, Body
  <1>0. /\ copy' = [copy EXCEPT ![p] = journal] /\ current' = current \cup {p}
        /\ pc' = [pc EXCEPT ![p] = IF @ = "peek" THEN "load" ELSE "check"]
        /\ UNCHANGED <<exists, journal, held>>
        /\ pc[p] \in {"peek", "load"}
    BY DEF Lock, NeverCreated, Load, Loaded
  <1>1. NeverCreated' /\ TickIsSaved'
    BY <1>0 DEF NeverCreated, TickIsSaved, Lock
  <1>2. LoadedIsStored' /\ ClaimIsFree'
    BY <1>0 DEF LoadedIsStored, ClaimIsFree, Lock
  <1>3. OwnerIsAlone' /\ Visible' /\ MutualExclusion'
    BY <1>0 DEF Lock, OwnerIsAlone, Visible, MutualExclusion, Fresh
  <1> QED BY <1>1, <1>2, <1>3 DEF Lock

LEMMA EnterKeepsLock ==
    ASSUME TypeOK, Lock, NEW p \in Collector, Enter(p)
    PROVE  Lock'
  <1> USE DEF TypeOK, InBody, Body
  <1>0. /\ UNCHANGED <<exists, journal>> /\ current' \subseteq current
        /\ pc[p] = "check"
    BY DEF Enter, Sequenced
  <1>1. CASE Leave(p, "none")
    BY <1>0, <1>1, EndMoves, IdleKeepsLock DEF Leave, Moves
  <1>2. CASE SkipLoaded(p) /\ mode.replay
    <2>0. /\ pc' = [pc EXCEPT ![p] = "complete"]
          /\ copy' = [copy EXCEPT ![p].completed = TRUE] /\ held' = held
      BY <1>2 DEF SkipLoaded
    <2>1. \A q \in Collector : copy'[q].tick = copy[q].tick
      BY <2>0 DEF Document
    <2>2. NeverCreated' /\ TickIsSaved'
      BY <1>0, <2>0, <2>1 DEF NeverCreated, TickIsSaved, Lock
    <2>3. LoadedIsStored' /\ ClaimIsFree'
      BY <1>0, <2>0, <2>1 DEF LoadedIsStored, ClaimIsFree, Lock
    <2>4. OwnerIsAlone' /\ Visible' /\ MutualExclusion'
      BY <1>0, <2>0 DEF Lock, OwnerIsAlone, Visible, MutualExclusion, Fresh
    <2> QED BY <2>2, <2>3, <2>4 DEF Lock
  <1>3. CASE /\ ~InProgress(p) /\ StampTick(p, "enterTick", 0)
             /\ UNCHANGED <<held, pass, outcome>>
    <2>0. /\ pc' = [pc EXCEPT ![p] = "enterTick"] /\ held' = held
          /\ \A q \in Collector : q # p => copy'[q] = copy[q]
      BY <1>3 DEF StampTick
    <2>1. p \in current => ~Fresh(journal.tick)
      BY <1>0, <1>3 DEF InProgress, Lock, LoadedIsStored
    <2>2. NeverCreated' /\ TickIsSaved'
      BY <1>0, <2>0 DEF NeverCreated, TickIsSaved, Lock
    <2>3. LoadedIsStored' /\ ClaimIsFree'
      BY <1>0, <2>0, <2>1 DEF LoadedIsStored, ClaimIsFree, Lock, Fresh
    <2>4. OwnerIsAlone' /\ Visible' /\ MutualExclusion'
      BY <1>0, <2>0 DEF Lock, OwnerIsAlone, Visible, MutualExclusion, Fresh
    <2> QED BY <2>2, <2>3, <2>4 DEF Lock
  <1> QED
    BY <1>1, <1>2, <1>3 DEF Enter, SkipLoaded

LEMMA AdvanceKeepsLock ==
    ASSUME TypeOK, Lock, Advance
    PROVE  Lock'
  <1> USE DEF TypeOK, InBody
  <1>0. UNCHANGED <<exists, current, pc>>
    BY DEF Advance
  <1>1. \A d \in Document : OlderDocument(d).tick = Older(d.tick, Timeout)
    BY DEF OlderDocument, Document
  <1>2. /\ journal'.tick = Older(journal.tick, Timeout)
        /\ \A q \in Collector : /\ copy'[q].tick = Older(copy[q].tick, Timeout)
                                /\ held'[q] = Older(held[q], Timeout)
    BY <1>1 DEF Advance
  <1>3. /\ Fresh(journal'.tick) => Fresh(journal.tick)
        /\ \A q \in Collector : Fresh(held'[q]) => Fresh(held[q])
    BY <1>2, OlderFresh DEF Document
  <1>4. NeverCreated' /\ TickIsSaved'
    BY <1>0, <1>2 DEF NeverCreated, TickIsSaved, Lock
  <1>5. LoadedIsStored' /\ ClaimIsFree'
    <2>1. ClaimIsFree'
      <3>1. ~Fresh(journal.tick) => ~Fresh(journal.tick)'
        BY <1>3 DEF Fresh
      <3> QED BY <1>0, <3>1 DEF ClaimIsFree, Lock
    <2> QED BY <1>0, <1>2, <2>1 DEF LoadedIsStored, Lock
  <1>6. OwnerIsAlone' /\ Visible' /\ MutualExclusion'
    <2>1. \A q \in Collector : Fresh(held[q])' => Fresh(held[q])
      BY <1>3 DEF Fresh
    <2>2. OwnerIsAlone' /\ MutualExclusion'
      BY <1>0, <2>1 DEF Lock, OwnerIsAlone, MutualExclusion
    <2>3. Visible'
      BY <1>0, <1>2, <2>1 DEF Lock, Visible
    <2> QED BY <2>2, <2>3
  <1> QED BY <1>4, <1>5, <1>6 DEF Lock

LEMMA StepKeepsLock ==
    ASSUME TypeOK, Lock, mode.existed, NEW p \in Collector, Step(p)
    PROVE  Lock'
  <1> USE DEF InBody, Body
  <1>1. CASE Begin(p)
    <2>1. /\ Moves(p) /\ exists' = exists /\ pc'[p] \in {"idle", "load", "peek"}
          /\ pc[p] = "idle" /\ held' = held /\ copy' = copy
      BY <1>1 DEF Begin, Moves, TypeOK
    <2> QED
      BY <2>1 DEF TypeOK, Moves, Lock, NeverCreated, TickIsSaved, LoadedIsStored,
                  ClaimIsFree, OwnerIsAlone, Visible, MutualExclusion, Fresh
  <1>2. CASE Load(p)
    BY <1>2, LoadKeepsLock
  <1>3. CASE CreateJournal(p)
    BY <1>3 DEF CreateJournal, Lock, NeverCreated
  <1>4. CASE Enter(p)
    BY <1>4, EnterKeepsLock
  <1>5. CASE SaveTick(p)
    <2>1. CASE Conflict(p) /\ \E o : End(p, o)
      BY <1>5, <2>1, EndMoves, IdleKeepsLock DEF SaveTick, Moves, Conflict, Sequenced
    <2>2. CASE /\ pc' = [pc EXCEPT ![p] = IF @ = "enterTick" THEN "body" ELSE "ticked"]
               /\ Save(p) /\ held' = [held EXCEPT ![p] = copy[p].tick]
               /\ copy' = copy
      <3>1. /\ p \in current /\ journal' = copy[p] /\ current' \subseteq {p}
            /\ exists' = exists /\ (InBody(p) \/ pc[p] = "enterTick")
        BY <1>5, <2>2 DEF SaveTick, Save, CanSave, Sequenced
      <3>2. /\ pc'[p] \in {"body", "ticked"} /\ held'[p] = copy[p].tick
            /\ \A q \in Collector : q # p => pc'[q] = pc[q] /\ held'[q] = held[q]
        BY <2>2 DEF TypeOK
      <3> QED
        BY <2>2, <3>1, <3>2, SaveKeepsLock
    <2> QED
      BY <1>5, <2>1, <2>2, RaiseEnds DEF SaveTick, SkipDismissed, Leave
  <1>6. CASE Page(p)
    <2>1. /\ Moves(p) /\ exists' = exists /\ held' = held /\ InBody(p)
          /\ pc'[p] = "pageTick"
      BY <1>6 DEF Page, StampTick, Moves, TypeOK
    <2> QED BY <2>1, BodyKeepsLock
  <1>7. CASE KeepWindow(p)
    <2>1. /\ Moves(p) /\ exists' = exists /\ held' = held /\ InBody(p)
          /\ pc[p] = "ticked" /\ pc'[p] = "keep" /\ copy'[p].tick = copy[p].tick
      BY <1>7 DEF KeepWindow, Moves, TypeOK, Document
    <2> QED BY <2>1, BodyKeepsLock
  <1>8. CASE SaveWindow(p)
    <2>1. CASE pc' = [pc EXCEPT ![p] = "body"] /\ Save(p) /\ copy' = copy
      <3>1. /\ p \in current /\ journal' = copy[p] /\ current' \subseteq {p}
            /\ exists' = exists /\ InBody(p) /\ pc'[p] = "body"
            /\ held' = held /\ held[p] = copy[p].tick
            /\ \A q \in Collector : q # p => pc'[q] = pc[q]
        BY <1>8, <2>1 DEF SaveWindow, Save, CanSave, Sequenced, TypeOK, Lock, TickIsSaved
      <3> QED BY <2>1, <3>1, SaveKeepsLock
    <2>2. CASE Exit(p, pass[p], TRUE) /\ Conflict(p)
      <3>1. /\ Moves(p) /\ exists' = exists /\ held' = held /\ InBody(p)
            /\ pc'[p] = "write"
        BY <1>8, <2>2 DEF SaveWindow, Exit, Conflict, Sequenced, Moves, TypeOK
      <3> QED BY <3>1, BodyKeepsLock
    <2> QED BY <1>8, <2>1, <2>2 DEF SaveWindow
  <1>9. CASE Finish(p) \/ BreakOff(p) \/ QueryError(p)
    <2>1. \E s, raised : Exit(p, s, raised)
      BY <1>9 DEF Finish, BreakOff, QueryError
    <2>2. /\ UNCHANGED <<exists, journal, current, held>> /\ InBody(p)
      BY <1>9 DEF Finish, BreakOff, QueryError
    <2>3. Moves(p) /\ pc'[p] = "write"
      BY <2>1, <2>2 DEF Exit, Moves, TypeOK
    <2> QED BY <2>2, <2>3, BodyKeepsLock
  <1>10. CASE Write(p)
    <2>1. CASE Conflict(p) /\ \E o : End(p, o)
      BY <1>10, <2>1, EndMoves, IdleKeepsLock DEF Write, Moves, Conflict, Sequenced
    <2>2. CASE Save(p)
      <3>1. /\ p \in current /\ journal' = copy[p] /\ current' \subseteq {p}
            /\ exists' = exists /\ InBody(p)
        BY <1>10, <2>2 DEF Write, Save, CanSave, Sequenced
      <3>2. CASE \E o : End(p, o)
        BY <3>1, <3>2, EndMoves, SaveKeepsLock
      <3>3. CASE /\ pc' = [pc EXCEPT ![p] = "complete"]
                 /\ copy' = [copy EXCEPT ![p].completed = TRUE]
                 /\ held' = [held EXCEPT ![p] = NoTime]
        <4>1. /\ pc'[p] = "complete" /\ copy'[p].tick = copy[p].tick
              /\ \A q \in Collector : q # p =>
                     pc'[q] = pc[q] /\ copy'[q] = copy[q] /\ held'[q] = held[q]
          BY <3>3 DEF TypeOK, Document
        <4> QED BY <3>1, <4>1, SaveKeepsLock
      <3> QED BY <1>10, <2>2, <3>2, <3>3, RaiseEnds DEF Write, Leave, Conflict, Save
    <2> QED BY <1>10, <2>1, <2>2, RaiseEnds DEF Write
  <1>11. CASE Complete(p)
    <2>1. /\ \E o : End(p, o)
          /\ exists' = exists /\ pc[p] = "complete"
      BY <1>11 DEF Complete, Leave
    <2>2. CASE Save(p)
      BY <2>1, <2>2, EndMoves, CompleteKeepsLock DEF Save, CanSave, Sequenced
    <2>3. CASE Conflict(p)
      BY <2>1, <2>3, EndMoves, IdleKeepsLock DEF Moves, Conflict, Sequenced
    <2> QED BY <1>11, <2>2, <2>3 DEF Complete
  <1> QED
    BY <1>1, <1>2, <1>3, <1>4, <1>5, <1>6, <1>7, <1>8, <1>9, <1>10, <1>11 DEF Step

LEMMA FaultKeepsLock ==
    ASSUME TypeOK, Lock, NEW p \in Collector,
           Crash(p) \/ SaveError(p) \/ LostAnswer(p)
    PROVE  Lock'
  <1> USE DEF InBody, Body
  <1>0. exists' = exists
    BY DEF Crash, SaveError, LostAnswer, Fault
  <1>1. CASE /\ \E o : End(p, o)
             /\ journal' = journal /\ Sequenced(current)
    BY <1>0, <1>1, EndMoves, IdleKeepsLock DEF Moves, Sequenced
  <1>2. CASE /\ Exit(p, pass[p], TRUE) /\ held' = held
             /\ pc[p] \in {"pageTick", "keep"}
             /\ journal' = journal /\ Sequenced(current)
    <2>1. Moves(p) /\ pc'[p] = "write"
      BY <1>2 DEF Exit, Moves, TypeOK, Sequenced
    <2> QED BY <1>0, <1>2, <2>1, BodyKeepsLock
  <1>3. CASE LostAnswer(p)
    <2>0. /\ p \in current /\ journal' = copy[p] /\ current' \subseteq {p}
          /\ InBody(p) \/ pc[p] \in {"enterTick", "complete"}
      BY <1>3 DEF LostAnswer, CanSave
    <2>1. CASE \E o : End(p, o)
      BY <1>0, <2>0, <2>1, EndMoves, SaveKeepsLock, CompleteKeepsLock
    <2>2. CASE pc[p] = "keep" /\ Exit(p, pass[p], TRUE) /\ held' = held
      <3>1. /\ pc'[p] = "write" /\ held'[p] = copy[p].tick
            /\ \A q \in Collector : q # p =>
                   pc'[q] = pc[q] /\ copy'[q] = copy[q] /\ held'[q] = held[q]
        BY <2>2 DEF TypeOK, Exit, Lock, TickIsSaved
      <3> QED BY <1>0, <2>0, <2>2, <3>1, SaveKeepsLock
    <2>3. CASE Raise(p) \/ SkipDismissed(p) \/ Leave(p, "completed")
      <3>1. \E o : End(p, o)
        BY <2>3, RaiseEnds DEF SkipDismissed, Leave
      <3> QED BY <2>1, <3>1
    <2> QED BY <1>3, <2>2, <2>3 DEF LostAnswer
  <1> QED
    BY <1>1, <1>2, <1>3, RaiseEnds DEF Crash, SaveError, Leave

LEMMA LockInvariant == Spec => []IInv
  <1>1. Init => IInv
    <2> SUFFICES ASSUME Init PROVE mode.existed => Lock
      BY InitType DEF IInv
    <2> QED
      BY DEF Init, Lock, NeverCreated, TickIsSaved, LoadedIsStored, ClaimIsFree,
             OwnerIsAlone, Visible, MutualExclusion, InBody, Body
  <1>2. TypeOK /\ TypeOK' /\ IInv /\ [Next]_vars => IInv'
    <2> SUFFICES ASSUME TypeOK, TypeOK', IInv, [Next]_vars, mode'.existed
                 PROVE  Lock'
      BY DEF IInv
    <2>1. mode' = mode
      BY DEF Next, Step, Begin, Load, CreateJournal, Enter, SaveTick, Page,
             KeepWindow, SaveWindow, Finish, BreakOff, QueryError, Write, Complete,
             Crash, SaveError, LostAnswer, Fault, Advance, vars
    <2>2. Lock
      BY <2>1 DEF IInv
    <2>3. CASE UNCHANGED vars
      BY <2>2, <2>3 DEF vars, Lock, NeverCreated, TickIsSaved, LoadedIsStored,
             ClaimIsFree, OwnerIsAlone, Visible, MutualExclusion, InBody, Fresh
    <2> QED
      BY <2>1, <2>2, <2>3, StepKeepsLock, FaultKeepsLock, AdvanceKeepsLock DEF Next
  <1> QED
    BY <1>1, <1>2, Typing, PTL DEF Spec

\* "to provide mutual exclusion" (CollectorJournal): once the document exists, no
\* two collectors are inside `with journal' with ticks younger than the timeout.
THEOREM Exclusion == Spec => []ExclusiveWhileFresh
  <1>1. IInv => ExclusiveWhileFresh
    BY DEF IInv, Lock, ExclusiveWhileFresh
  <1> QED
    BY <1>1, LockInvariant, PTL

\* A live collector's tick is the one __enter__ of any other reads.
THEOREM Visibility == Spec => []FreshTickIsVisible
  <1>1. IInv => FreshTickIsVisible
    BY DEF IInv, Lock, Visible, FreshTickIsVisible
  <1> QED
    BY <1>1, LockInvariant, PTL

\* The sequence number belongs to one of the collectors inside, whether the
\* document was there or not and whatever the timeouts.
Fence == \A p, q \in Collector :
             p # q /\ InBody(p) /\ InBody(q) => ~(p \in current /\ q \in current)

\* A step of p either adds nobody inside with the sequence number, or takes the
\* number for p alone.
LEMMA StepFence ==
    ASSUME TypeOK, NEW p \in Collector,
           Step(p) \/ Crash(p) \/ SaveError(p) \/ LostAnswer(p)
    PROVE  \/ current' \subseteq {p}
           \/ \A q \in Collector : q \in current' /\ InBody(q)' => q \in current /\ InBody(q)
  <1> USE DEF InBody, Body, TypeOK
  <1>1. CASE Begin(p)
    BY <1>1 DEF Begin
  <1>2. CASE Load(p)
    BY <1>2 DEF Load, Loaded
  <1>3. CASE CreateJournal(p)
    BY <1>3 DEF CreateJournal
  <1>4. CASE Enter(p)
    BY <1>4 DEF Enter, Leave, End, SkipLoaded, StampTick, Sequenced
  <1>5. CASE SaveTick(p)
    BY <1>5 DEF SaveTick, SkipDismissed, Raise, Leave, End, Save, Conflict, Sequenced
  <1>6. CASE Page(p)
    BY <1>6 DEF Page, StampTick
  <1>7. CASE KeepWindow(p)
    BY <1>7 DEF KeepWindow
  <1>8. CASE SaveWindow(p)
    BY <1>8 DEF SaveWindow, Save, Conflict, Sequenced, Exit
  <1>9. CASE Finish(p) \/ BreakOff(p) \/ QueryError(p)
    BY <1>9 DEF Finish, BreakOff, QueryError, Exit
  <1>10. CASE Write(p)
    BY <1>10 DEF Write, Raise, Leave, End, Save, Conflict, Sequenced
  <1>11. CASE Complete(p)
    BY <1>11 DEF Complete, Leave, End, Save, Conflict, Sequenced
  <1>12. CASE Crash(p)
    BY <1>12 DEF Crash, Leave, End, Sequenced
  <1>13. CASE SaveError(p)
    BY <1>13 DEF SaveError, Raise, Leave, End, Exit, Sequenced
  <1>14. CASE LostAnswer(p)
    BY <1>14 DEF LostAnswer
  <1> QED
    BY <1>1, <1>2, <1>3, <1>4, <1>5, <1>6, <1>7, <1>8, <1>9, <1>10, <1>11,
       <1>12, <1>13, <1>14 DEF Step

LEMMA FenceInvariant == Spec => []Fence
  <1>1. Init => Fence
    BY DEF Init, Fence
  <1>2. TypeOK /\ Fence /\ [Next]_vars => Fence'
    <2> SUFFICES ASSUME TypeOK, Fence, [Next]_vars PROVE Fence'
      OBVIOUS
    <2>1. CASE UNCHANGED vars \/ Advance
      BY <2>1 DEF vars, Advance, Fence, InBody
    <2>2. ASSUME NEW p \in Collector,
                 Step(p) \/ Crash(p) \/ SaveError(p) \/ LostAnswer(p)
          PROVE  Fence'
      <3>1. CASE current' \subseteq {p}
        BY <3>1 DEF Fence
      <3>2. CASE \A q \in Collector :
                     q \in current' /\ InBody(q)' => q \in current /\ InBody(q)
        BY <3>2 DEF Fence
      <3> QED BY <2>2, <3>1, <3>2, StepFence
    <2> QED BY <2>1, <2>2 DEF Next
  <1> QED
    BY <1>1, <1>2, Typing, PTL DEF Spec

\* A step of a collector without the sequence number changes nothing in the
\* journal, and only its own place.
LEMMA OutsiderStep ==
    ASSUME TypeOK, NEW p \in Collector, p \notin current, InBody(p),
           Step(p) \/ Crash(p) \/ SaveError(p) \/ LostAnswer(p)
    PROVE  journal' = journal
  BY DEF InBody, Body, Step, Begin, Load, CreateJournal, Enter, SaveTick, Page,
         KeepWindow, SaveWindow, Finish, BreakOff, QueryError, Write, Complete,
         Crash, SaveError, LostAnswer, Save, CanSave, Conflict

LEMMA StepIsLocal ==
    ASSUME TypeOK, NEW p \in Collector, NEW q \in Collector, q # p,
           Step(p) \/ Crash(p) \/ SaveError(p) \/ LostAnswer(p)
    PROVE  pc'[q] = pc[q]
  BY DEF TypeOK, Step, Begin, Load, Loaded, CreateJournal, Enter, SaveTick, Page,
         StampTick, SkipLoaded, SkipDismissed, KeepWindow, SaveWindow, Finish,
         BreakOff, QueryError, Exit, Write, Complete, Crash, SaveError, LostAnswer,
         Raise, Leave, End

\* Fencing (if_seq_no): once another collector took the journal over, no tick, no
\* window start and no end of pass of the first one gets into it, even when the
\* two started by creating it.
THEOREM Fencing == Spec => SupersededNeverWrites
  <1> DEFINE A == \A p, q \in Collector :
                      /\ p # q /\ InBody(p) /\ InBody(q) /\ q \in current
                      /\ pc'[p] # pc[p]
                      => journal' = journal
  <1>1. TypeOK /\ Fence /\ [Next]_vars => [A]_vars
    <2> SUFFICES ASSUME TypeOK, Fence, Next,
                        NEW p \in Collector, NEW q \in Collector, p # q,
                        InBody(p), InBody(q), q \in current, pc'[p] # pc[p]
                 PROVE  journal' = journal
      OBVIOUS
    <2>1. p \notin current
      BY DEF Fence
    <2>2. ~Advance
      BY DEF Advance
    <2>3. Step(p) \/ Crash(p) \/ SaveError(p) \/ LostAnswer(p)
      BY <2>2, StepIsLocal DEF Next
    <2> QED
      BY <2>1, <2>3, OutsiderStep
  <1> QED
    BY <1>1, Typing, FenceInvariant, PTL DEF SupersededNeverWrites, Spec
=============================================================================
