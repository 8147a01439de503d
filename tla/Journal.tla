------------------------------- MODULE Journal -------------------------------
(***************************************************************************)
(* The journal of one interface, rawdata/collector/journal.py: one         *)
(* document of the database that carries a pass's progress (last_date) and *)
(* keeps two collectors from collecting the interface together (the tick). *)
(* The collectors are processes or pods; the document is saved whole,      *)
(* under optimistic concurrency (if_seq_no), except when it is created.    *)
(*                                                                         *)
(* Times are ages: a date of the code is the time elapsed since then, and  *)
(* Advance ages every date at once, so the clocks of the pods agree.  A    *)
(* sequence number is only ever compared with the store's, so `current' is *)
(* the set of collectors whose loaded document still has the store's one.  *)
(***************************************************************************)
EXTENDS Integers

CONSTANTS
    Collector,  \* the processes that collect, or replay, the interface
    Timeout,    \* CollectorJournal.timeout
    Refresh,    \* refresh_interval of the interface
    MaxDate,    \* bound: dates of interest are 1 .. MaxDate, 0 is None
    MaxPages,   \* bound: pages of one pass
    MaxFaults,  \* bound: crashes, failed saves and lost answers
    Retry       \* --replay-retry

ASSUME JournalAssumption ==
    /\ Timeout \in Nat \ {0} /\ Refresh \in Nat \ {0}
    /\ MaxDate \in Nat /\ MaxPages \in Nat /\ MaxFaults \in Nat /\ Retry \in Nat

VARIABLES
    exists,   \* the journal document is in the database
    journal,  \* ... and its content
    current,  \* collectors whose copy has the sequence number of the store
    pc,       \* where each collector stands
    copy,     \* CollectorJournal.document of each collector
    held,     \* age of the last tick the collector saved, while in its body
    pass,     \* the rest of its CollectorJournal and of its query
    outcome,  \* how its replay ended, and the retries before that
    faults,   \* crashes, errors and lost answers so far
    mode      \* replay: the collectors are replays of one identifier;
              \* existed: the document was there at the start;
              \* slow: a page may take longer than the timeout

vars == <<exists, journal, current, pc, copy, held, pass, outcome, faults, mode>>

NoTime == -1
Stamp(bound) == {NoTime} \cup 0 .. bound
Date == 0 .. MaxDate
Document == [tick : Stamp(Timeout), lastCollect : Stamp(Refresh), lastDate : Date,
             completed : BOOLEAN]
Pass == [start : 0 .. Refresh, maxDate : Date, failing : BOOLEAN,
         pages : 0 .. MaxPages, covered : BOOLEAN]
Outcome == [retries : 0 .. Retry,
            result : {"none", "failed", "completed", "crashed"}]
Mode == [replay : BOOLEAN, existed : BOOLEAN, slow : BOOLEAN]

NewDocument == [tick |-> NoTime, lastCollect |-> NoTime, lastDate |-> 0,
                completed |-> FALSE]
NewPass == [start |-> 0, maxDate |-> 0, failing |-> FALSE, pages |-> 0,
            covered |-> FALSE]

\* inside `with journal', from the tick of __enter__ to the end of __exit__
Body == {"body", "ticked", "pageTick", "keep", "write"}
PC == Body \cup {"idle", "peek", "peekNew", "load", "loadNew", "check",
                 "enterTick", "complete"}

Fresh(t) == t # NoTime /\ t < Timeout

Init ==
    /\ mode \in Mode
    /\ exists = mode.existed
    /\ journal = NewDocument
    /\ current = {}
    /\ pc = [p \in Collector |-> "idle"]
    /\ copy = [p \in Collector |-> NewDocument]
    /\ held = [p \in Collector |-> NoTime]
    /\ pass = [p \in Collector |-> NewPass]
    /\ outcome = [p \in Collector |-> [retries |-> 0, result |-> "none"]]
    /\ faults = 0

----------------------------------------------------------------------------
(* The end of a pass: the loop of ingest_all_interfaces goes on whatever    *)
(* happened; the loop of ingest_replay retries what raised and ends after   *)
(* what did not, CollectingInProgressError included.                        *)

\* The CollectorJournal is dropped, and a new one made for the next pass.
End(p, o) ==
    /\ pc' = [pc EXCEPT ![p] = "idle"]
    /\ held' = [held EXCEPT ![p] = NoTime]
    /\ copy' = [copy EXCEPT ![p] = NewDocument]
    /\ pass' = [pass EXCEPT ![p] = [NewPass EXCEPT
                                       !.covered = mode.replay /\ pass[p].covered]]
    /\ outcome' = [outcome EXCEPT ![p] = o]

Leave(p, r) ==
    End(p, [outcome[p] EXCEPT !.result = IF mode.replay THEN r ELSE "none"])

Raise(p) ==
    IF mode.replay /\ outcome[p].retries < Retry
    THEN End(p, [outcome[p] EXCEPT !.retries = @ + 1])
    ELSE Leave(p, "failed")

\* Mutant: the skipped replay clears the tick, as write() does.
SkipLoadedClears(p) ==
    IF mode.replay
    THEN /\ pc' = [pc EXCEPT ![p] = "complete"]
         /\ copy' = [copy EXCEPT ![p].completed = TRUE, ![p].tick = NoTime]
         /\ UNCHANGED <<held, pass, outcome>>
    ELSE Leave(p, "none")

\* CollectingInProgressError of __enter__, the document loaded: a replay goes on
\* with complete().
SkipLoaded(p) ==
    IF mode.replay
    THEN /\ pc' = [pc EXCEPT ![p] = "complete"]
         /\ copy' = [copy EXCEPT ![p].completed = TRUE]
         /\ UNCHANGED <<held, pass, outcome>>
    ELSE Leave(p, "none")

\* CollectingInProgressError of the tick, the document dismissed: complete()
\* raises on None, after finished_without_errors was set.
SkipDismissed(p) == Leave(p, "completed")

----------------------------------------------------------------------------
(* Database operations.                                                     *)

\* Mutant: the document is saved whatever the store has become.
SaveAnyway(p) == TRUE

\* The document has the sequence number of the store: if_seq_no accepts it.
CanSave(p) == p \in current

\* A collector that ended its pass has no document.
Sequenced(S) == current' = {q \in S : pc'[q] # "idle"}

Save(p) ==
    /\ CanSave(p)
    /\ journal' = copy[p]
    /\ Sequenced({p})

Conflict(p) == ~CanSave(p) /\ UNCHANGED journal /\ Sequenced(current)

----------------------------------------------------------------------------
(* __enter__, and the journal.last_date a replay reads before it.           *)

Begin(p) ==
    /\ pc[p] = "idle"
    /\ mode.replay => outcome[p].result = "none"
    /\ pc' = [pc EXCEPT ![p] = IF mode.replay THEN "peek" ELSE "load"]
    /\ pass' = [pass EXCEPT ![p] = NewPass]
    /\ UNCHANGED <<exists, journal, current, copy, held, outcome, faults, mode>>

Loaded(p, d) ==
    /\ copy' = [copy EXCEPT ![p] = d]
    /\ pc' = [pc EXCEPT ![p] = IF @ \in {"peek", "peekNew"} THEN "load" ELSE "check"]
    /\ pass' = [pass EXCEPT ![p].start = IF pc[p] \in {"peek", "peekNew"}
                                         THEN 0 ELSE @]

Load(p) ==
    /\ pc[p] \in {"peek", "load"}
    /\ IF exists
       THEN Loaded(p, journal) /\ current' = current \cup {p}
       ELSE /\ pc' = [pc EXCEPT ![p] = IF @ = "peek" THEN "peekNew" ELSE "loadNew"]
            /\ UNCHANGED <<copy, pass, current>>
    /\ UNCHANGED <<exists, journal, held, outcome, faults, mode>>

\* The new document has no sequence number: this save never conflicts.
CreateJournal(p) ==
    /\ pc[p] \in {"peekNew", "loadNew"}
    /\ exists' = TRUE
    /\ journal' = NewDocument
    /\ current' = {p}
    /\ Loaded(p, NewDocument)
    /\ UNCHANGED <<held, outcome, faults, mode>>

NeedsRefresh(p) ==
    \/ mode.replay
    \/ copy[p].lastCollect = NoTime
    \/ copy[p].lastCollect >= Refresh

\* Mutants: the tick is not looked at; it never times out.
NeverInProgress(p) == FALSE
InProgressForEver(p) == copy[p].tick # NoTime

InProgress(p) == Fresh(copy[p].tick)

\* tick() up to the save, with the date of interest d.
StampTick(p, label, d) ==
    /\ pc' = [pc EXCEPT ![p] = label]
    /\ copy' = [copy EXCEPT ![p].tick = 0,
                            ![p].lastDate = IF d # 0 THEN d ELSE @]

Enter(p) ==
    /\ pc[p] = "check"
    /\ \/ ~NeedsRefresh(p) /\ Leave(p, "none")
       \/ NeedsRefresh(p) /\ InProgress(p) /\ SkipLoaded(p)
       \/ /\ NeedsRefresh(p) /\ ~InProgress(p)
          /\ StampTick(p, "enterTick", 0)
          /\ UNCHANGED <<held, pass, outcome>>
    /\ Sequenced(current)
    /\ UNCHANGED <<exists, journal, faults, mode>>

\* The save of tick(), at the beginning and after each page.
SaveTick(p) ==
    /\ pc[p] \in {"enterTick", "pageTick"}
    /\ \/ /\ pc' = [pc EXCEPT ![p] = IF @ = "enterTick" THEN "body" ELSE "ticked"]
          /\ Save(p)
          /\ held' = [held EXCEPT ![p] = copy[p].tick]
          /\ UNCHANGED <<copy, pass, outcome>>
       \/ pc[p] = "enterTick" /\ SkipDismissed(p) /\ Conflict(p)
       \/ pc[p] = "pageTick" /\ Raise(p) /\ Conflict(p)  \* write() saves None
    /\ UNCHANGED <<exists, faults, mode>>

----------------------------------------------------------------------------
(* The body of the with statement, ingest_http.                             *)

\* __exit__ up to the save: the date of interest is not stored on an error.
Exit(p, pageState, raised) ==
    LET doi == IF raised /\ ~mode.replay THEN 0 ELSE pageState.maxDate IN
    /\ pass' = [pass EXCEPT ![p] = [pageState EXCEPT !.failing = raised,
                                                     !.maxDate = doi]]
    /\ copy' = [copy EXCEPT ![p].lastDate = IF doi # 0 THEN doi ELSE @,
                            ![p].lastCollect = pageState.start,
                            ![p].tick = NoTime]
    /\ pc' = [pc EXCEPT ![p] = "write"]

\* A page is fetched, extracted and ticked.
Page(p) ==
    /\ pc[p] \in {"body", "ticked"}
    /\ pass[p].pages < MaxPages
    /\ \E d \in pass[p].maxDate .. MaxDate :
           /\ pass' = [pass EXCEPT ![p].maxDate = d, ![p].pages = @ + 1]
           /\ StampTick(p, "pageTick", d)
    /\ UNCHANGED <<exists, journal, current, held, outcome, faults, mode>>

\* An odata query keeps the start of its time window in the journal.
KeepWindow(p) ==
    /\ pc[p] = "ticked"
    /\ \E d \in 1 .. MaxDate : copy' = [copy EXCEPT ![p].lastDate = d]
    /\ pc' = [pc EXCEPT ![p] = "keep"]
    /\ UNCHANGED <<exists, journal, current, held, pass, outcome, faults, mode>>

SaveWindow(p) ==
    /\ pc[p] = "keep"
    /\ \/ /\ pc' = [pc EXCEPT ![p] = "body"]
          /\ Save(p)
          /\ UNCHANGED <<copy, pass>>
       \/ Exit(p, pass[p], TRUE) /\ Conflict(p)
    /\ UNCHANGED <<exists, held, outcome, faults, mode>>

\* The query is exhausted.
Finish(p) ==
    /\ pc[p] \in {"body", "ticked"}
    /\ Exit(p, [pass[p] EXCEPT !.covered = TRUE], FALSE)
    /\ UNCHANGED <<exists, journal, current, held, outcome, faults, mode>>

\* A stop, or a page that cannot be extracted, breaks the loop without an error;
\* part of the page may have been ingested.
BreakOff(p) ==
    /\ pc[p] \in {"body", "ticked"}
    /\ \E d \in pass[p].maxDate .. MaxDate :
           Exit(p, [pass[p] EXCEPT !.maxDate = d], FALSE)
    /\ UNCHANGED <<exists, journal, current, held, outcome, faults, mode>>

\* The query raises.
QueryError(p) ==
    /\ pc[p] \in {"body", "ticked"}
    /\ Exit(p, pass[p], TRUE)
    /\ UNCHANGED <<exists, journal, current, held, outcome, faults, mode>>

\* The save of write(); a replay that did not raise is then completed.
Write(p) ==
    /\ pc[p] = "write"
    /\ \/ pass[p].failing /\ Raise(p) /\ Save(p)
       \/ /\ ~pass[p].failing
          /\ IF mode.replay
             THEN /\ pc' = [pc EXCEPT ![p] = "complete"]
                  /\ copy' = [copy EXCEPT ![p].completed = TRUE]
                  /\ held' = [held EXCEPT ![p] = NoTime]
                  /\ UNCHANGED <<pass, outcome>>
             ELSE Leave(p, "none")
          /\ Save(p)
       \/ Raise(p) /\ Conflict(p)
    /\ UNCHANGED <<exists, faults, mode>>

\* complete(): a conflict is caught, the loop has already ended.
Complete(p) ==
    /\ pc[p] = "complete"
    /\ Leave(p, "completed")
    /\ Save(p) \/ Conflict(p)
    /\ UNCHANGED <<exists, faults, mode>>

----------------------------------------------------------------------------
(* What the environment does.                                               *)

Fault == faults < MaxFaults /\ faults' = faults + 1 /\ UNCHANGED <<exists, mode>>

Crash(p) ==
    /\ Fault
    /\ pc[p] # "idle"
    /\ Leave(p, "crashed")
    /\ Sequenced(current)
    /\ UNCHANGED journal

\* A save that fails, the document unchanged.
SaveError(p) ==
    /\ Fault
    /\ \/ pc[p] \in {"enterTick", "write"} /\ Raise(p)
       \/ pc[p] \in {"pageTick", "keep"} /\ Exit(p, pass[p], TRUE)
          /\ UNCHANGED <<held, outcome>>
       \/ pc[p] = "complete" /\ Leave(p, "completed")
    /\ Sequenced(current)
    /\ UNCHANGED journal

\* A save whose answer is lost: the client sends it again (retry_on_timeout) and
\* conflicts with itself.
LostAnswer(p) ==
    /\ Fault
    /\ CanSave(p) /\ pc[p] \in {"enterTick", "pageTick", "keep", "write", "complete"}
    /\ journal' = copy[p]
    /\ current' = {}
    /\ \/ pc[p] = "enterTick" /\ SkipDismissed(p)
       \/ pc[p] \in {"pageTick", "write"} /\ Raise(p)
       \/ pc[p] = "keep" /\ Exit(p, pass[p], TRUE) /\ UNCHANGED <<held, outcome>>
       \/ pc[p] = "complete" /\ Leave(p, "completed")

\* Ages are not told apart beyond what they are compared with.
Older(t, bound) == IF t = NoTime \/ t = bound THEN t ELSE t + 1
OlderDocument(d) ==
    [d EXCEPT !.tick = Older(@, Timeout), !.lastCollect = Older(@, Refresh)]

\* Unless mode.slow, a collector saves its tick again before it times out.
InTime(p) ==
    /\ pc[p] \in Body => held[p] < Timeout - 1
    /\ pc[p] \in {"enterTick", "pageTick"} => copy[p].tick < Timeout - 1

Advance ==
    /\ mode.slow \/ \A p \in Collector : InTime(p)
    /\ journal' = OlderDocument(journal)
    /\ copy' = [p \in Collector |-> OlderDocument(copy[p])]
    /\ held' = [p \in Collector |-> Older(held[p], Timeout)]
    /\ pass' = [p \in Collector |->
                    IF pc[p] = "idle" THEN pass[p]
                    ELSE [pass[p] EXCEPT !.start = Older(@, Refresh)]]
    /\ UNCHANGED <<exists, current, pc, outcome, faults, mode>>

Step(p) ==
    \/ Begin(p) \/ Load(p) \/ CreateJournal(p) \/ Enter(p) \/ SaveTick(p)
    \/ Page(p) \/ KeepWindow(p) \/ SaveWindow(p)
    \/ Finish(p) \/ BreakOff(p) \/ QueryError(p) \/ Write(p) \/ Complete(p)

Next ==
    \/ \E p \in Collector : Step(p) \/ Crash(p) \/ SaveError(p) \/ LostAnswer(p)
    \/ Advance

\* The loop of a collector never blocks, and time passes.
Fairness == (\A p \in Collector : WF_vars(Step(p))) /\ WF_vars(Advance)

Spec == Init /\ [][Next]_vars
FairSpec == Spec /\ Fairness

----------------------------------------------------------------------------
\* Every variable has its type: the retries of a replay stay within --replay-retry.
TypeOK ==
    /\ exists \in BOOLEAN
    /\ journal \in Document
    /\ current \in SUBSET Collector
    /\ pc \in [Collector -> PC]
    /\ copy \in [Collector -> Document]
    /\ held \in [Collector -> Stamp(Timeout)]
    /\ pass \in [Collector -> Pass]
    /\ outcome \in [Collector -> Outcome]
    /\ faults \in 0 .. MaxFaults
    /\ mode \in Mode

InBody(p) == pc[p] \in Body

\* Two collectors are never both inside `with journal' with a tick younger than
\* the timeout: the journal "provides mutual exclusion" but for takeovers.
MutualExclusion ==
    \A p, q \in Collector :
        p # q /\ InBody(p) /\ InBody(q) => ~Fresh(held[p]) \/ ~Fresh(held[q])

\* ... once the document exists: its creation is not guarded (load()).
ExclusiveWhileFresh == mode.existed => MutualExclusion

\* While a collector is inside with a fresh tick, that tick is what the others
\* read in the journal, whatever a superseded or a skipping one saved since.
FreshTickIsVisible ==
    mode.existed =>
        \A p \in Collector : InBody(p) /\ Fresh(held[p]) => journal.tick = held[p]

\* A collector another one has superseded gets nothing more into the journal,
\* neither its date of interest nor the end of its pass (_fill_journal).
SupersededNeverWrites ==
    [][ \A p, q \in Collector :
            /\ p # q /\ InBody(p) /\ InBody(q) /\ q \in current
            /\ pc'[p] # pc[p]
            => journal' = journal ]_vars

\* A tick left by a crash, a failed save or a lost answer does not block the
\* interface: provided pages take less than the timeout, it is cleared in the end.
AbandonedIsRecovered ==
    (~mode.slow /\ ~mode.replay /\ journal.tick # NoTime) ~> (journal.tick = NoTime)

\* A replay reported as completed has collected its whole window.
CompletedIsCollected ==
    \A p \in Collector : outcome[p].result = "completed" => pass[p].covered
=============================================================================
