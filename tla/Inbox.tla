--------------------------------- MODULE Inbox ---------------------------------
(***************************************************************************)
(* Collectors that share the inbox of an SFTP server:                      *)
(* rawdata/collector/sftpcollector.py over rawdata/collector/filecollector *)
(* .py.  The server is the only thing they share: a collector claims a     *)
(* file by renaming it to a name of its own, and moves it once its         *)
(* messages are sent; a claim that is too old is taken back.               *)
(*                                                                         *)
(* Each call to the server is a step.  A file has one name: what it        *)
(* replaces is itself, moved by another collector.  Directories by date    *)
(* and sidecars are left out.                                              *)
(***************************************************************************)
EXTENDS Integers, FiniteSets, Sequences

CONSTANTS
    File,          \* files that are put into the inbox
    Collector,     \* processes
    Configs,       \* of each file: the configurations that match its name
    None,          \* no claim
    MaxTakeovers,  \* bound: claims taken back from a collector that is still at work
    Scenario       \* bound: files that come, with the faults (errors, signals, deaths)

ASSUME InboxAssumption ==
    /\ \A f \in File : IsFiniteSet(Configs[f]) /\ Configs[f] # {}
    /\ None \notin File \X Nat
    /\ MaxTakeovers \in Nat /\ Scenario \subseteq [files : SUBSET File, faults : Nat]

VARIABLES
    place,     \* of each file: where it is on the server
    claim,     \* ... how often it was claimed: the name of a claim is unique
    old,       \* ... its access time is older than age_limit
    pc,        \* of each collector: where it stands
    aged,      \* ... claims it found too old
    todo,      \* ... files it listed, with the name they had
    current,   \* ... its claim on the file it ingests
    left,      \* ... configurations that are still to extract it
    failed,    \* ... one of them did not
    moves,     \* ... files to move after the next flush
    cleared,   \* ... the target of the first one is free
    unsent,    \* ... documents in its message groups
    stopping,  \* ... it caught a signal
    sent,      \* <<file, configuration>> whose documents are indexed and in a message
    twice,     \* files that two configurations refused under one claim
    overtaken, \* files taken back from a collector at work
    faults     \* faults that may still happen

server == <<place, claim, old>>
work == <<current, left, failed>>
flushing == <<moves, cleared, unsent>>
history == <<sent, twice, overtaken>>
vars == <<server, pc, aged, todo, work, flushing, stopping, history, faults>>

Claims == File \X Nat
Pairs == UNION {{f} \X Configs[f] : f \in File}
Name == File \X {"inbox", "forced"}
PC == {"idle", "aging", "files", "download", "extract", "reject", "rejecting",
       "flush", "moves"}

\* The variables have their types, a collector holds a claim exactly while it ingests, and
\* has no file left of its list when it lists again.
TypeOK ==
    /\ place \in [File -> {"elsewhere", "coming", "inbox", "claimed", "forced", "ingested", "rejected", "removed"}]
    /\ claim \in [File -> Nat] /\ old \in [File -> BOOLEAN]
    /\ pc \in [Collector -> PC]
    /\ aged \in [Collector -> SUBSET Claims] /\ todo \in [Collector -> SUBSET Name]
    /\ current \in [Collector -> Claims \cup {None}] /\ moves \in [Collector -> Seq(Claims)]
    /\ left \in [Collector -> SUBSET UNION {Configs[f] : f \in File}]
    /\ unsent \in [Collector -> SUBSET Pairs]
    /\ \A c \in Collector :
           /\ pc[c] = "idle" => todo[c] = {}
           /\ current[c] = None <=> pc[c] \in {"idle", "aging", "files", "flush", "moves"}
           /\ left[c] # {} => current[c] # None /\ left[c] \subseteq Configs[current[c][1]]
    /\ failed \in [Collector -> BOOLEAN] /\ cleared \in [Collector -> BOOLEAN]
    /\ stopping \in [Collector -> BOOLEAN]
    /\ sent \subseteq Pairs /\ twice \subseteq File /\ overtaken \subseteq File
    /\ faults \in Nat

Empty == [c \in Collector |-> {}]

Init ==
    /\ \E s \in Scenario :
           /\ place = [f \in File |-> IF f \in s.files THEN "coming" ELSE "elsewhere"]
           /\ faults = s.faults
    /\ claim = [f \in File |-> 0]
    /\ old = [f \in File |-> FALSE]
    /\ pc = [c \in Collector |-> "idle"] /\ aged = Empty /\ todo = Empty
    /\ current = [c \in Collector |-> None] /\ left = Empty
    /\ failed = [c \in Collector |-> FALSE]
    /\ moves = [c \in Collector |-> <<>>] /\ cleared = [c \in Collector |-> FALSE]
    /\ unsent = Empty /\ stopping = [c \in Collector |-> FALSE]
    /\ sent = {} /\ twice = {} /\ overtaken = {}

Goto(c, to) == pc' = [pc EXCEPT ![c] = to]
Place(f, to) == place' = [place EXCEPT ![f] = to]
Fault == faults > 0 /\ faults' = faults - 1

\* The source of a rename is there: nobody renamed the claim.
IsThere(held) == place[held[1]] = "claimed" /\ claim[held[1]] = held[2]
IsMove(held, c) == \E i \in DOMAIN moves[c] : moves[c][i] = held
Held(held) == \E c \in Collector : current[c] = held \/ IsMove(held, c)

----------------------------------------------------------------------------
(* The server.                                                              *)

Deliver(f) ==
    /\ place[f] = "coming" /\ Place(f, "inbox")
    /\ UNCHANGED <<claim, old, pc, aged, todo, work, flushing, stopping, history, faults>>

\* A rename keeps the access time.
Age(f) ==
    /\ place[f] \in {"inbox", "forced", "claimed"} /\ ~old[f]
    /\ old' = [old EXCEPT ![f] = TRUE]
    /\ UNCHANGED <<place, claim, pc, aged, todo, work, flushing, stopping, history, faults>>

----------------------------------------------------------------------------
(* get_remote_file_list.                                                    *)

\* Mutant: claims are left to their owners.
NeverTooOld == {f \in File : FALSE}
TooOld == {f \in File : place[f] = "claimed" /\ old[f]}

List(c) ==
    /\ pc[c] = "idle" /\ ~stopping[c]
    /\ aged' = [aged EXCEPT ![c] = {<<f, claim[f]>> : f \in TooOld}]
    /\ todo' = [todo EXCEPT ![c] = {n \in Name : place[n[1]] = n[2]}]
    /\ Goto(c, IF TooOld = {} THEN "files" ELSE "aging")
    /\ UNCHANGED <<server, work, flushing, stopping, history, faults>>

\* Renamed to a forced name, and listed under it, unless somebody was first.
HandleTooOld(c, held) ==
    LET f == held[1]
        takeover == Held(held) IN
    /\ pc[c] = "aging" /\ held \in aged[c]
    /\ aged' = [aged EXCEPT ![c] = @ \ {held}]
    /\ Goto(c, IF aged[c] = {held} THEN "files" ELSE "aging")
    /\ IF IsThere(held) /\ (takeover => Cardinality(overtaken) < MaxTakeovers)
       THEN /\ Place(f, "forced")
            /\ todo' = [todo EXCEPT ![c] = @ \cup {<<f, "forced">>}]
            /\ overtaken' = IF takeover THEN overtaken \cup {f} ELSE overtaken
       ELSE UNCHANGED <<place, todo, overtaken>>
    /\ UNCHANGED <<claim, old, work, flushing, stopping, sent, twice, faults>>

----------------------------------------------------------------------------
(* ingest_sftp_file.  A stop does not end the loop over the files.          *)

\* Mutant: a name that was listed is taken as still there.
AsListed(n) == place[n[1]] \in {n[2], "claimed"}
StillThere(n) == place[n[1]] = n[2]

Claim(c, n) ==
    LET f == n[1] IN
    /\ pc[c] = "files" /\ n \in todo[c]
    /\ todo' = [todo EXCEPT ![c] = @ \ {n}]
    /\ IF StillThere(n)
       THEN /\ Place(f, "claimed") /\ claim' = [claim EXCEPT ![f] = @ + 1]
            /\ current' = [current EXCEPT ![c] = <<f, claim[f] + 1>>]
            /\ Goto(c, "download")
       ELSE UNCHANGED <<place, claim, current, pc>>
    /\ UNCHANGED <<old, aged, left, failed, flushing, stopping, history, faults>>

\* The file is given up: whatever was raised is logged.  A claim stays on the server.
GiveUp(c) ==
    /\ current' = [current EXCEPT ![c] = None] /\ left' = [left EXCEPT ![c] = {}]
    /\ failed' = [failed EXCEPT ![c] = FALSE] /\ Goto(c, "files")

\* Reading a file may refresh its access time.  A stopped collector extracts nothing.
Download(c) ==
    LET f == current[c][1] IN
    /\ pc[c] = "download"
    /\ IF IsThere(current[c])
       THEN /\ \E atime \in {FALSE, old[f]} : old' = [old EXCEPT ![f] = atime]
            /\ IF stopping[c]
               THEN GiveUp(c)
               ELSE /\ Goto(c, "extract") /\ left' = [left EXCEPT ![c] = Configs[f]]
                    /\ UNCHANGED <<current, failed>>
       ELSE GiveUp(c) /\ UNCHANGED old
    /\ UNCHANGED <<place, claim, aged, todo, flushing, stopping, history, faults>>

\* The documents of a forced file are indexed and notified again.  A signal cuts the
\* extraction it finds short, without an error.
Extract(c, config) ==
    LET f == current[c][1] IN
    /\ pc[c] = "extract" /\ config \in left[c]
    /\ left' = [left EXCEPT ![c] = @ \ {config}]
    /\ \/ /\ unsent' = [unsent EXCEPT ![c] = @ \cup {<<f, config>>}]
          /\ UNCHANGED <<twice, pc>>
       \/ stopping[c] /\ UNCHANGED <<unsent, twice, pc>>
       \/ /\ Goto(c, "reject") /\ UNCHANGED unsent
          /\ twice' = IF failed[c] THEN twice \cup {f} ELSE twice
    /\ UNCHANGED <<server, aged, todo, current, failed, moves, cleared, stopping, sent, overtaken, faults>>

\* on_ingest_error: a file of that name is removed, then the claim takes its place.
Clear(f, target) ==
    IF place[f] = target THEN Place(f, "removed") ELSE UNCHANGED place

Reject(c) ==
    /\ pc[c] = "reject" /\ Clear(current[c][1], "rejected") /\ Goto(c, "rejecting")
    /\ UNCHANGED <<claim, old, aged, todo, work, flushing, stopping, history, faults>>

Rejected(c) ==
    /\ pc[c] = "rejecting"
    /\ IF IsThere(current[c])
       THEN /\ Place(current[c][1], "rejected") /\ Goto(c, "extract")
            /\ failed' = [failed EXCEPT ![c] = TRUE] /\ UNCHANGED <<current, left>>
       ELSE GiveUp(c) /\ UNCHANGED place
    /\ UNCHANGED <<claim, old, aged, todo, flushing, stopping, history, faults>>

\* on_ingest_finish, unless stopped.  When the loop lasts, it flushes at once.
Finish(c) ==
    /\ pc[c] = "extract" /\ left[c] = {}
    /\ IF ~stopping[c] /\ ~failed[c]
       THEN moves' = [moves EXCEPT ![c] = Append(@, current[c])]
       ELSE UNCHANGED moves
    /\ \E early \in BOOLEAN :
           /\ early => ~stopping[c]
           /\ Goto(c, IF early THEN "flush" ELSE "files")
    /\ current' = [current EXCEPT ![c] = None] /\ failed' = [failed EXCEPT ![c] = FALSE]
    /\ UNCHANGED <<server, aged, todo, left, cleared, unsent, stopping, history, faults>>

----------------------------------------------------------------------------
(* The flush, and the moves it allows.                                      *)

\* After the last file, or early.
Flushes(c) == pc[c] = "flush" \/ (pc[c] = "files" /\ todo[c] = {})
Send(c) == sent' = sent \cup unsent[c] /\ unsent' = [unsent EXCEPT ![c] = {}]
Back(c) == IF todo[c] = {} THEN "idle" ELSE "files"

Flush(c) ==
    /\ Flushes(c) /\ Send(c) /\ Goto(c, IF moves[c] = <<>> THEN Back(c) ELSE "moves")
    /\ UNCHANGED <<server, aged, todo, work, moves, cleared, stopping, twice, overtaken, faults>>

\* Mutant: the moves are made all the same.
MovesAnyway(c) == "moves"
AfterError(c) == Back(c)

\* What is not sent, and the moves, wait for the next flush.
FlushError(c) ==
    /\ Flushes(c) /\ Fault /\ Goto(c, AfterError(c))
    /\ UNCHANGED <<server, aged, todo, work, flushing, stopping, history>>

\* The handler of a signal flushes and moves too, anywhere in the loop.
Moving(c) == moves[c] # <<>> /\ (pc[c] = "moves" \/ stopping[c])

\* Mutant: a move stays in the list.
Peek(list) == list
Pop(list) == Tail(list)

ClearTarget(c) ==
    /\ Moving(c) /\ ~cleared[c]
    /\ Clear(Head(moves[c])[1], "ingested") /\ cleared' = [cleared EXCEPT ![c] = TRUE]
    /\ UNCHANGED <<claim, old, pc, aged, todo, work, moves, unsent, stopping, history, faults>>

\* A source that is gone is logged.
Move(c) ==
    LET held == Head(moves[c]) IN
    /\ Moving(c) /\ cleared[c]
    /\ IF IsThere(held) THEN Place(held[1], "ingested") ELSE UNCHANGED place
    /\ moves' = [moves EXCEPT ![c] = Pop(@)] /\ cleared' = [cleared EXCEPT ![c] = FALSE]
    /\ UNCHANGED <<claim, old, pc, aged, todo, work, unsent, stopping, history, faults>>

\* Another error ends the moves; the one it met is in the list no more.
MoveError(c) ==
    /\ pc[c] = "moves" /\ moves[c] # <<>> /\ Fault
    /\ moves' = [moves EXCEPT ![c] = Tail(@)] /\ cleared' = [cleared EXCEPT ![c] = FALSE]
    /\ Goto(c, Back(c))
    /\ UNCHANGED <<server, aged, todo, work, unsent, stopping, history>>

EndFlush(c) ==
    /\ pc[c] = "moves" /\ moves[c] = <<>> /\ Goto(c, Back(c))
    /\ UNCHANGED <<server, aged, todo, work, flushing, stopping, history, faults>>

----------------------------------------------------------------------------
\* The server refuses a call for another reason, or is gone.
ServerError(c) ==
    /\ pc[c] \in {"download", "reject", "rejecting"} \/ (pc[c] = "extract" /\ left[c] = {})
    /\ Fault /\ GiveUp(c)
    /\ UNCHANGED <<server, aged, todo, flushing, stopping, history>>

\* The handler sends what is grouped.
Stop(c) ==
    /\ ~stopping[c] /\ Fault /\ stopping' = [stopping EXCEPT ![c] = TRUE] /\ Send(c)
    /\ UNCHANGED <<server, pc, aged, todo, work, moves, cleared, twice, overtaken>>

\* A new process has none of what the old one knew.
Restart(c) ==
    /\ Goto(c, "idle") /\ stopping' = [stopping EXCEPT ![c] = FALSE]
    /\ aged' = [aged EXCEPT ![c] = {}] /\ todo' = [todo EXCEPT ![c] = {}]
    /\ current' = [current EXCEPT ![c] = None] /\ left' = [left EXCEPT ![c] = {}]
    /\ failed' = [failed EXCEPT ![c] = FALSE] /\ cleared' = [cleared EXCEPT ![c] = FALSE]
    /\ moves' = [moves EXCEPT ![c] = <<>>] /\ unsent' = [unsent EXCEPT ![c] = {}]
    /\ UNCHANGED <<server, history>>

Exit(c) == stopping[c] /\ pc[c] = "idle" /\ moves[c] = <<>> /\ Restart(c) /\ UNCHANGED faults
Crash(c) == Fault /\ Restart(c)

Step(c) ==
    \/ List(c) \/ Download(c) \/ Reject(c) \/ Rejected(c) \/ Finish(c)
    \/ Flush(c) \/ ClearTarget(c) \/ Move(c) \/ EndFlush(c) \/ Exit(c)
    \/ \E held \in aged[c] : HandleTooOld(c, held)
    \/ \E n \in todo[c] : Claim(c, n)
    \/ \E config \in left[c] : Extract(c, config)

Next ==
    \/ \E f \in File : Deliver(f) \/ Age(f)
    \/ \E c \in Collector :
           Step(c) \/ FlushError(c) \/ MoveError(c) \/ ServerError(c) \/ Stop(c) \/ Crash(c)

\* A collector goes on, and time passes.
Fairness ==
    /\ \A c \in Collector : WF_vars(Step(c))
    /\ \A f \in File : WF_vars(Age(f))

Spec == Init /\ [][Next]_vars
FairSpec == Spec /\ Fairness

----------------------------------------------------------------------------
\* Two collectors ingest a file at a time only after the claim of one was taken back while
\* it was at work: lists may be as stale as they like, the rename tells.
OneAtATime ==
    \A c, d \in Collector :
        c # d /\ current[c] # None /\ current[d] # None /\ current[c][1] = current[d][1]
            => current[c][1] \in overtaken

\* A file is in the directory of the ingested ones only when every configuration that
\* matches it has its documents in the database and in a message, whoever ingested it, cut
\* short, twice or after an error.
MovedIsDone ==
    \A f \in File : place[f] = "ingested" =>
        {f} \X Configs[f] \subseteq sent

\* A file leaves the server only if it was taken back from a collector at work, or if two
\* configurations refused it.
LostOnlyByTakeover ==
    \A f \in File : place[f] = "removed" =>
        f \in overtaken \cup twice

\* Every file that is delivered leaves the inbox in the end: a claim whose collector died,
\* stopped or gave up is taken back.
Settled == \A f \in File : place[f] \notin {"inbox", "claimed", "forced"}
EventuallySettled == <>[]Settled
=============================================================================
