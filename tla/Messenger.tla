------------------------------ MODULE Messenger ------------------------------
(***************************************************************************)
(* The notification of indexed documents, rawdata/messenger.py: document   *)
(* identifiers are grouped by destination (exchange, routing key) and sent *)
(* by chunks, the rest when the collector flushes the groups.  The flushes *)
(* are those of the loop of rawdata/collector/filecollector.py, and of its *)
(* signal handler, which Python runs between two steps of the loop.        *)
(*                                                                         *)
(* A destination carries one model here.  A message is only its effect: who *)
(* it names, and whether it names their index.  A publish that raises is   *)
(* taken as not delivered.                                                 *)
(***************************************************************************)
EXTENDS Integers, Sequences, SequencesExt

CONSTANTS
    Document,       \* identifiers of the documents indexed, each once
    NoDocument,     \* ... and none of them
    Destination,    \* (exchange, routing key) of the configurations
    Index,          \* names of database indices
    DestinationOf,  \* the destination of a document
    IndexOf,        \* the partition of a document
    Chunk,          \* chunk_config: the chunk size of a destination, 0 for none
    MaxFailures,    \* bound: publishes that raise
    MaxSignals      \* bound: SIGINT or SIGTERM received

ASSUME MessengerAssumption ==
    /\ NoDocument \notin Document
    /\ DestinationOf \in [Document -> Destination]
    /\ IndexOf \in [Document -> Index]
    /\ Chunk \in [Destination -> Nat]
    /\ MaxFailures \in Nat /\ MaxSignals \in Nat

VARIABLES
    groups,      \* message_groups: the lists of a destination
    registered,  \* keys of message_groups
    loose,       \* lists the loop still holds though a signal cleared the groups
    attached,    \* what the loop holds is still in message_groups
    at,          \* where handle_message, or flush_message_groups, stands
    doc,         \* the document being handled
    toVisit,     \* destinations the flush has not visited
    phase,       \* where run() stands: the body of its loop, then its flushes
    stop,        \* should_stop_loop
    handled,     \* documents handle_message was called for
    named,       \* messages that named the document: none, one or several
    unindexed,   \* documents named by a message without their index
    notSent,     \* ungrouped documents whose publish raised: only logged
    caught,      \* documents in hand when a signal came
    failures,    \* publishes that raised
    signals      \* signals received

queues == <<groups, registered, loose, attached>>
results == <<named, unindexed, notSent, failures>>
control == <<at, doc, toVisit, phase>>
messenger == <<queues, results, control, stop, handled, caught, signals>>

NoLists == [ids |-> <<>>, indices |-> <<>>]
Position == {"idle", "found", "loop", "sent", "trimmed", "flush"}
Phase == {"collect", "post", "loop", "final", "over"}

MessengerInit ==
    /\ groups = [g \in Destination |-> NoLists]
    /\ registered = {}
    /\ loose = NoLists
    /\ attached = TRUE
    /\ at = "idle" /\ doc = NoDocument /\ toVisit = {} /\ phase = "collect"
    /\ stop = FALSE /\ handled = {}
    /\ named = [d \in Document |-> 0]
    /\ unindexed = {} /\ notSent = {} /\ caught = {}
    /\ failures = 0 /\ signals = 0

----------------------------------------------------------------------------
(* send_to_queue.                                                           *)

\* The messages of the lists, one for each element of the set, are published.
Publish(messages) ==
    LET naming(d) == {m \in messages : d \in ToSet(m.ids)} IN
    /\ named' = [d \in Document |->
                    IF naming(d) = {} THEN named[d] ELSE IF named[d] = 0 THEN 1 ELSE 2]
    /\ unindexed' = unindexed \cup
           {d \in Document : \E m \in naming(d) : IndexOf[d] \notin ToSet(m.indices)}

Failure == failures < MaxFailures /\ failures' = failures + 1

\* The error of the first flush leaves the body of the loop, that of post_loop is
\* logged, that of the loop ends run().
AfterFlush(raised) ==
    CASE phase = "collect" -> {"collect"}
      [] phase = "post"    -> {"loop"}
      [] phase = "loop"    -> IF raised \/ stop THEN {"final"} ELSE {"collect", "final"}
      [] phase = "final"   -> {"over"}

\* What was being done ends, with an exception or not.
Done(raised) ==
    /\ IF at = "flush" THEN phase' \in AfterFlush(raised) ELSE UNCHANGED phase
    /\ at' = "idle" /\ doc' = NoDocument /\ toVisit' = {}

\* Lists that handle_message works on.
InHand == IF attached THEN groups[DestinationOf[doc]] ELSE loose
SetInHand(l) ==
    IF attached
    THEN groups' = [groups EXCEPT ![DestinationOf[doc]] = l] /\ UNCHANGED loose
    ELSE loose' = l /\ UNCHANGED groups

\* `del list[:n]', whatever the length.
Drop(s, n) == IF n >= Len(s) THEN <<>> ELSE SubSeq(s, n + 1, Len(s))
Take(s, n) == IF n >= Len(s) THEN s ELSE SubSeq(s, 1, n)

----------------------------------------------------------------------------
(* handle_message.                                                          *)

Single(d) == {[ids |-> <<d>>, indices |-> <<IndexOf[d]>>]}

\* Without a chunk size the document is sent at once.
HandleSingle(d) ==
    /\ at = "idle" /\ phase = "collect"
    /\ d \notin handled /\ Chunk[DestinationOf[d]] = 0
    /\ handled' = handled \cup {d}
    /\ \/ Publish(Single(d)) /\ UNCHANGED <<notSent, failures>>
       \/ Failure /\ notSent' = notSent \cup {d} /\ UNCHANGED <<named, unindexed>>
    /\ UNCHANGED <<queues, control, stop, caught, signals>>

\* The lists of the destination are looked up, or made.
Handle(d) ==
    /\ at = "idle" /\ phase = "collect"
    /\ d \notin handled /\ Chunk[DestinationOf[d]] > 0
    /\ handled' = handled \cup {d}
    /\ registered' = registered \cup {DestinationOf[d]}
    /\ at' = "found" /\ doc' = d /\ attached' = TRUE /\ loose' = NoLists
    /\ UNCHANGED <<groups, toVisit, phase, results, stop, caught, signals>>

\* Mutant: only the first index is appended.
AppendFirst(s, i) == IF s # <<>> THEN s ELSE Append(s, i)

AppendNew(s, i) == IF i \in ToSet(s) THEN s ELSE Append(s, i)

Group ==
    /\ at = "found"
    /\ SetInHand([ids |-> Append(InHand.ids, doc),
                  indices |-> AppendNew(InHand.indices, IndexOf[doc])])
    /\ at' = "loop"
    /\ UNCHANGED <<registered, attached, doc, toVisit, phase, results, stop, handled,
                   caught, signals>>

ChunkSize == Chunk[DestinationOf[doc]]
Full == Len(InHand.ids) >= ChunkSize

SendChunk ==
    /\ at = "loop" /\ Full
    /\ \/ /\ Publish({[ids |-> Take(InHand.ids, ChunkSize),
                       indices |-> Take(InHand.indices, ChunkSize)]})
          /\ at' = "sent"
          /\ UNCHANGED <<doc, toVisit, phase, failures>>
       \/ Failure /\ Done(TRUE) /\ UNCHANGED <<named, unindexed>>
    /\ UNCHANGED <<queues, notSent, stop, handled, caught, signals>>

\* Mutant: the list is emptied.
EmptyIds == [InHand EXCEPT !.ids = <<>>]

TrimIds == [InHand EXCEPT !.ids = Drop(@, ChunkSize)]

TrimChunk ==
    /\ \/ at = "sent" /\ SetInHand(TrimIds) /\ at' = "trimmed"
       \/ at = "trimmed" /\ at' = "loop"
          /\ SetInHand([InHand EXCEPT !.indices = Drop(@, ChunkSize)])
    /\ UNCHANGED <<registered, attached, doc, toVisit, phase, results, stop, handled,
                   caught, signals>>

Handled ==
    /\ at = "loop" /\ ~Full
    /\ Done(FALSE)
    /\ UNCHANGED <<queues, results, stop, handled, caught, signals>>

----------------------------------------------------------------------------
(* flush_message_groups, called by the loop.                                *)

StartFlush(p) ==
    /\ phase' = p /\ at' = "flush" /\ toVisit' = registered /\ attached' = TRUE
    /\ UNCHANGED <<groups, registered, loose, doc, results, stop, handled, caught, signals>>

\* Between two interfaces.
FlushInterface == at = "idle" /\ phase = "collect" /\ StartFlush("collect")

\* The body of the loop is over: post_loop.
EndBody == at = "idle" /\ phase = "collect" /\ StartFlush("post")

FlushAgain == at = "idle" /\ phase \in {"loop", "final"} /\ StartFlush(phase)

\* Mutant: a flush leaves the chunks that are not full.
HasChunk(g) == Len(groups[g].ids) >= Chunk[g]

HasIds(g) == groups[g].ids # <<>>

FlushOne ==
    /\ at = "flush" /\ attached
    /\ \E g \in toVisit :
           \/ /\ IF HasIds(g) THEN Publish({groups[g]})
                 ELSE UNCHANGED <<named, unindexed>>
              /\ toVisit' = toVisit \ {g}
              /\ UNCHANGED <<at, doc, phase, failures>>
           \/ /\ HasIds(g) /\ Failure /\ Done(TRUE)
              /\ UNCHANGED <<named, unindexed>>
    /\ UNCHANGED <<queues, notSent, stop, handled, caught, signals>>

ClearGroups ==
    /\ groups' = [g \in Destination |-> NoLists]
    /\ registered' = {}

EndOfFlush ==
    /\ at = "flush" /\ attached /\ toVisit = {}
    /\ ClearGroups
    /\ Done(FALSE)
    /\ UNCHANGED <<loose, attached, results, stop, handled, caught, signals>>

\* The groups were cleared while the flush iterated over them: RuntimeError.
FlushDisturbed ==
    /\ at = "flush" /\ ~attached
    /\ Done(TRUE)
    /\ UNCHANGED <<queues, results, stop, handled, caught, signals>>

----------------------------------------------------------------------------
(* exit_gracefully: the handler of a signal runs in the thread of the loop. *)

Pending == {g \in registered : HasIds(g)}

Catch ==
    /\ phase # "over" /\ signals < MaxSignals
    /\ signals' = signals + 1
    /\ stop' = TRUE
    /\ caught' = caught \cup (IF at = "found" THEN {doc} ELSE {})

\* The handler flushes everything under the feet of the loop.
Signal ==
    /\ Catch
    /\ Publish({groups[g] : g \in Pending})
    /\ ClearGroups
    /\ attached' = (attached /\ registered = {})
    /\ loose' = IF at \in {"found", "loop", "sent", "trimmed"} THEN InHand ELSE loose
    /\ UNCHANGED <<control, notSent, failures, handled>>

\* A publish of the handler raises, in the loop.
SignalRaises ==
    /\ Catch
    /\ Failure
    /\ \E S \in SUBSET Pending :
           S # Pending /\ Publish({groups[g] : g \in S})
    /\ Done(TRUE)
    /\ UNCHANGED <<queues, notSent, handled>>

Loop ==
    \/ Group \/ SendChunk \/ TrimChunk \/ Handled
    \/ FlushAgain \/ FlushOne \/ EndOfFlush \/ FlushDisturbed

MessengerNext ==
    \/ \E d \in Document : HandleSingle(d) \/ Handle(d)
    \/ FlushInterface \/ EndBody \/ Loop
    \/ Signal \/ SignalRaises

\* run() never blocks, and the body of its loop ends.
MessengerFairness == WF_messenger(Loop) /\ SF_messenger(EndBody)

MessengerSpec == MessengerInit /\ [][MessengerNext]_messenger
FairMessengerSpec == MessengerSpec /\ MessengerFairness

----------------------------------------------------------------------------
Lists == {l \in [ids : Seq(Document), indices : Seq(Index)] : IsInjective(l.indices)}

\* Every variable has its type; the indices of a destination are unique.
MessengerTypeOK ==
    /\ groups \in [Destination -> Lists]
    /\ registered \in SUBSET Destination
    /\ loose \in Lists
    /\ attached \in BOOLEAN
    /\ at \in Position /\ phase \in Phase
    /\ doc \in Document \cup {NoDocument}
    /\ toVisit \in SUBSET Destination
    /\ stop \in BOOLEAN
    /\ handled \in SUBSET Document
    /\ named \in [Document -> 0 .. 2]
    /\ unindexed \in SUBSET Document
    /\ notSent \in SUBSET Document /\ caught \in SUBSET Document
    /\ failures \in 0 .. MaxFailures /\ signals \in 0 .. MaxSignals

Grouped(d) == \E g \in registered : d \in ToSet(groups[g].ids)
Kept(d) == phase # "over" /\ (Grouped(d) \/ (at \in {"found", "loop"} /\ doc = d))

\* A document handed to the messenger is sent, or waits in the groups for the
\* next flush, unless its own publish raised or the collector exits in an outage
\* that defeats its last three flushes; but for the document in hand when a signal is
\* caught: the handler clears the groups, and the lists it is appended to are no longer
\* in them.
OnlyCaughtIsDropped ==
    \A d \in handled \ (notSent \cup caught) :
        named[d] > 0 \/ Kept(d) \/ (phase = "over" /\ failures >= 3)

\* The consumer finds each document in one of the indices its message names: the
\* lists, of which only the indices are unique, are cut in step unless a publish
\* raised (signals included).
IndexIsNamed == unindexed # {} => failures > 0

\* What is handed over is sent in the end, by the flushes at the latest.
Delivered == \A d \in handled \ notSent : named[d] > 0 \/ d \in caught \/ phase = "over"
EventuallySent == <>[]Delivered
=============================================================================
