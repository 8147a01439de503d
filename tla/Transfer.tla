------------------------------- MODULE Transfer -------------------------------
(***************************************************************************)
(* The archive: the requester that turns indexed documents into transfer   *)
(* requests, the broker's queue, and the stages (replicas of one service)  *)
(* that transfer the products of a request into the destinations of a      *)
(* backup: rawdata/transfer/.                                              *)
(*                                                                         *)
(* One interface, one backup, whose objects are filed by name.  A document *)
(* describes a product; others may describe it too, with other bytes.  A   *)
(* checksum, or an MD5, is the bytes it is of.  REPLACED reports are OK    *)
(* ones.  A request that names several documents has them in any order.    *)
(***************************************************************************)
EXTENDS Integers, FiniteSets, Sequences, SequencesExt

CONSTANTS
    Document,     \* documents of the raw index
    Product,      \* product names
    Bytes,        \* contents of files
    ProductOf,    \* the product a document describes
    BytesOf,      \* what the catalogue serves for it
    Announced,    \* documents that give the checksum
    Batch,        \* documents one request may name: at most REQUEST_BATCH_SIZE
    Destination,  \* destinations of the backup
    Stage,        \* replicas of the transfer stage
    Operation,    \* replays asked by an operator
    Live,         \* no operation
    MaxPending,   \* MAX_PENDING_REQUESTS
    StateSize,    \* STATE_SIZE
    MaxRequests,  \* bound: requests made
    MaxFaults     \* bound: errors, stops and crashes

Nothing == "nothing"   \* no object
Broken == "broken"     \* part of an object
NoDestination == "none"

ASSUME TransferAssumption ==
    /\ ProductOf \in [Document -> Product] /\ BytesOf \in [Document -> Bytes]
    /\ Announced \subseteq Document /\ Batch \subseteq (SUBSET Document) \ {{}}
    /\ Document # {} /\ Destination # {} /\ IsFiniteSet(Destination)
    /\ Live \notin Operation /\ Nothing \notin Bytes /\ NoDestination \notin Destination
    /\ MaxPending \in Nat /\ StateSize \in Nat
    /\ MaxRequests \in Nat /\ MaxFaults \in Nat

VARIABLES
    pending,    \* live requests the broker refused
    queue,      \* requests in the broker
    pc,         \* where each stage stands
    work,       \* the request it serves
    objects,    \* what each destination holds of each product
    reports,    \* archive reports of each product that count, in order
    conflicts,  \* open conflicts
    rule,       \* duplicates of the archive rule, for live requests (operations force)
    requested,  \* products requested, live or by an operation (REQUESTED reports)
    answered,   \* ... whose transfer has ended, with the reports it calls for
    lost,       \* origins of the requests, or reports, an error or a crash lost
    disturbed,  \* products written without a report, or by two stages at once
    requests,   \* requests made so far
    faults      \* errors, stops and crashes so far

broker == <<pending, queue>>
archive == <<objects, reports, conflicts>>
history == <<requested, answered, lost, disturbed>>
vars == <<broker, pc, work, archive, rule, history, requests, faults>>

Choice == {"skip", "replace_if_changed", "force"}
Origin == Operation \cup {Live}
PC == {"idle", "next", "download", "conflict", "upload", "store"}

Request == [documents : (SUBSET Document) \ {{}}, choice : Choice, operation : Origin]
Report == [destination : Destination \cup {NoDestination}, ok : BOOLEAN, md5 : Bytes,
           announced : BOOLEAN]
Result == [destination : Destination \cup {NoDestination}, status : {"OK", "KO", "SKIPPED"}]
Work == [request : Request, left : SUBSET Document, seen : SUBSET Product,
         refused : BOOLEAN, document : Document, todo : SUBSET Destination,
         skip : SUBSET Destination, same : Bytes \cup {Nothing}, results : SUBSET Result]

AnyDocument == CHOOSE d \in Document : TRUE
NoWork ==
    [request |-> [documents |-> {AnyDocument}, choice |-> "skip", operation |-> Live],
     left |-> {}, seen |-> {}, refused |-> FALSE, document |-> AnyDocument,
     todo |-> {}, skip |-> {}, same |-> Nothing, results |-> {}]

\* What earlier transfers left, before the services were started: of each product, the
\* objects and the reports of one document, in some destinations or none.
Archive(first, kept) ==
    /\ objects = [n \in Product |-> [d \in Destination |->
                       IF d \in kept[n] THEN BytesOf[first[n]] ELSE Nothing]]
    /\ reports = [n \in Product |-> SetToSeq(
           {[destination |-> d, ok |-> TRUE, md5 |-> BytesOf[first[n]],
             announced |-> first[n] \in Announced] : d \in kept[n]})]

Init ==
    /\ pending = <<>> /\ queue = <<>>
    /\ pc = [s \in Stage |-> "idle"] /\ work = [s \in Stage |-> NoWork]
    /\ \E first \in [Product -> Document], kept \in [Product -> SUBSET Destination] :
           /\ \A n \in Product : ProductOf[first[n]] = n
           /\ Archive(first, kept)
    /\ conflicts = {}
    /\ rule \in {"skip", "replace_if_changed"}
    /\ requested = {} /\ answered = {} /\ lost = {} /\ disturbed = {}
    /\ requests = 0 /\ faults = 0

Fault == faults < MaxFaults /\ faults' = faults + 1
Products(documents) == {ProductOf[d] : d \in documents}
Asked(o, documents) == {<<o, n>> : n \in Products(documents)}

----------------------------------------------------------------------------
(* The requester.                                                           *)

Make(o, documents) ==
    /\ requests < MaxRequests /\ requests' = requests + 1
    /\ requested' = requested \cup Asked(o, documents)
    /\ answered' = answered \ Asked(o, documents)

\* The oldest requests are dropped.
KeepNewest(q) == IF Len(q) > MaxPending THEN Tail(q) ELSE q

\* The documents a file created or updated: the broker takes their request, or it
\* is kept for the next loop.
RequestLive(documents) ==
    LET r == [documents |-> documents, choice |-> rule, operation |-> Live]
        kept == KeepNewest(Append(pending, r)) IN
    /\ Make(Live, documents)
    /\ \/ queue' = Append(queue, r) /\ UNCHANGED <<pending, lost>>
       \/ /\ pending' = kept
          /\ lost' = IF Len(kept) > Len(pending) THEN lost ELSE lost \cup {Live}
          /\ UNCHANGED queue
    /\ UNCHANGED <<pc, work, archive, rule, disturbed, faults>>

\* retry_pending, at each loop of the collector.
RetryPending ==
    /\ pending # <<>>
    /\ queue' = Append(queue, Head(pending))
    /\ pending' = Tail(pending)
    /\ UNCHANGED <<pc, work, archive, history, requests, faults, rule>>

\* The documents a replay extracted: REQUESTED reports, then the request, which is
\* never retried.  Bound: an operation asks for a product once.
RequestOperation(documents, choice, o) ==
    /\ Make(o, documents)
    /\ Asked(o, documents) \cap requested = {}
    /\ \/ /\ queue' = Append(queue, [documents |-> documents, choice |-> choice,
                                     operation |-> o])
          /\ UNCHANGED lost
       \/ lost' = lost \cup {o} /\ UNCHANGED queue
    /\ UNCHANGED <<pending, pc, work, archive, rule, disturbed, faults>>

\* The collector dies.
LosePending ==
    /\ Fault
    /\ pending # <<>>
    /\ pending' = <<>>
    /\ lost' = lost \cup {Live}
    /\ UNCHANGED <<queue, pc, work, archive, rule, requested, answered, disturbed,
                   requests>>

----------------------------------------------------------------------------
(* A stage gives back what it cannot serve now.                             *)

Goto(s, label) == pc' = [pc EXCEPT ![s] = label]
End(s) == Goto(s, "idle") /\ work' = [work EXCEPT ![s] = NoWork]

\* Mutant: the product in hand is forgotten.
LeftAfter(s) ==
    IF pc[s] = "download" THEN work[s].left \ {work[s].document} ELSE work[s].left

\* The documents of the products not transferred yet.
Left(s) == work[s].left

Again(s) == [work[s].request EXCEPT !.documents = Left(s)]

Lose(s) == lost' = lost \cup {work[s].request.operation}

\* The index does not answer when the backup or the documents are looked up; or the
\* stage stops, between two products or while it downloads.
Leaves(s) == pc[s] \in {"next", "download"} /\ Left(s) # {}

GiveBack(s) ==
    /\ Fault
    /\ Leaves(s)
    /\ queue' = Append(queue, Again(s))
    /\ End(s)
    /\ UNCHANGED <<pending, archive, history, requests, rule>>

\* ... and the broker does not take it back.
LoseLeft(s) ==
    /\ Fault
    /\ Leaves(s)
    /\ Lose(s)
    /\ End(s)
    /\ UNCHANGED <<broker, archive, requested, answered, disturbed, requests, rule>>

----------------------------------------------------------------------------
(* A stage takes a request.                                                 *)

\* The documents the index does not have, or refuses to give, end KO: the reports
\* name them, for lack of their products.
Missing(r, documents) ==
    /\ answered' = answered \cup Asked(r.operation, documents)
    /\ queue' = Tail(queue)

\* A request is acknowledged when it is taken.  It is refused for its interface or its
\* backup; its documents are read.
Take(s) ==
    /\ pc[s] = "idle" /\ queue # <<>>
    /\ LET r == Head(queue) IN
       \E missing \in SUBSET r.documents, refused \in BOOLEAN :
           /\ Missing(r, missing)
           /\ work' = [work EXCEPT ![s] = [NoWork EXCEPT !.request = r, !.refused = refused,
                                                         !.left = r.documents \ missing]]
    /\ Goto(s, "next")
    /\ UNCHANGED <<pending, archive, requested, lost, disturbed, requests, faults, rule>>

Done(s) ==
    /\ pc[s] = "next" /\ Left(s) = {}
    /\ End(s)
    /\ UNCHANGED <<broker, archive, history, requests, faults, rule>>

----------------------------------------------------------------------------
(* The decision on a product.                                               *)

\* archived_state: the last report of a destination, among the last ones of the
\* product.
Window(n) == LET r == reports[n] IN
    {i \in DOMAIN r : i > Len(r) - StateSize}
LastOf(n, d, among) ==
    LET found == {i \in among : reports[n][i].destination = d} IN
    IF found = {} THEN 0 ELSE CHOOSE i \in found : \A j \in found : j <= i
State(n) == {LastOf(n, d, Window(n)) : d \in Destination} \ {0}

\* The last reports of the destinations that are archived.
Archived(n) == {i \in State(n) : reports[n][i].ok}
ArchivedIn(n) == {reports[n][i].destination : i \in Archived(n)}

\* The archived report compared with.
Reference(n) == reports[n][CHOOSE i \in Archived(n) : \A j \in Archived(n) : j <= i]

Changed(d) ==
    LET n == ProductOf[d] IN
    /\ d \in Announced /\ Reference(n).announced
    /\ BytesOf[d] # Reference(n).md5

ResultsOf(destinations, status) ==
    {[destination |-> d, status |-> status] : d \in destinations}

\* The skips of an operation are reported, live ones are not.
Skipped(s, destinations) ==
    IF work[s].request.operation = Live THEN {} ELSE ResultsOf(destinations, "SKIPPED")

Serving(s, n) == /\ pc[s] \in {"download", "upload", "store"}
                 /\ ProductOf[work[s].document] = n

\* Mutant: the mirrors that are archived are written too.
MissingToo(n) == Destination

MissingIn(n) == Destination \ ArchivedIn(n)

\* decide(): what to write, and with which bytes.
Transfer(s, d, destinations, same) ==
    /\ Goto(s, "download")
    /\ work' = [work EXCEPT ![s].document = d, ![s].todo = destinations,
                            ![s].skip = Destination \ destinations, ![s].same = same]

Conflict(s, d) ==
    /\ Goto(s, "conflict")
    /\ work' = [work EXCEPT ![s].document = d,
                            ![s].results = Skipped(s, Destination)]

Store(s, d, results) ==
    /\ Goto(s, "store")
    /\ work' = [work EXCEPT ![s].document = d, ![s].results = results]

Decide(s, d) ==
    LET n == ProductOf[d]
        choice == work[s].request.choice
        archived == ArchivedIn(n) # {} IN
    \/ /\ choice = "force" \/ ~archived
       /\ Transfer(s, d, Destination, Nothing)
    \/ /\ choice # "force" /\ archived /\ Changed(d)
       /\ IF choice = "replace_if_changed" THEN Transfer(s, d, Destination, Nothing)
          ELSE Conflict(s, d)
    \/ /\ choice # "force" /\ archived /\ ~Changed(d)
       /\ IF MissingIn(n) = {} THEN Store(s, d, Skipped(s, Destination))
          ELSE Transfer(s, d, MissingIn(n), Reference(n).md5)

\* The next document: one transfer for a product several of them describe.
Serve(s) ==
    /\ pc[s] = "next"
    /\ \E d \in Left(s) :
           LET n == ProductOf[d] IN
           \/ /\ n \in work[s].seen
              /\ work' = [work EXCEPT ![s].left = @ \ {d}]
              /\ UNCHANGED <<pc, disturbed>>
           \/ /\ n \notin work[s].seen /\ work[s].refused
              /\ Store(s, d, ResultsOf({NoDestination}, "KO"))
              /\ UNCHANGED disturbed
           \/ /\ n \notin work[s].seen /\ ~work[s].refused
              /\ Decide(s, d)
              /\ disturbed' = IF \E t \in Stage : Serving(t, n) THEN disturbed \cup {n}
                              ELSE disturbed
    /\ UNCHANGED <<broker, archive, requested, answered, lost, requests, faults, rule>>

----------------------------------------------------------------------------
(* The transfer of a product.                                               *)

Doc(s) == work[s].document
Name(s) == ProductOf[Doc(s)]

\* Mutant: a missing mirror is filled with whatever was downloaded.
AnyBytes(s) == TRUE

SameBytes(s) == work[s].same \in {Nothing, BytesOf[Doc(s)]}

Download(s) ==
    /\ pc[s] = "download"
    /\ \/ SameBytes(s) /\ Goto(s, "upload") /\ UNCHANGED work
       \/ /\ ~SameBytes(s)
          /\ Goto(s, "conflict")
          /\ work' = [work EXCEPT ![s].results = Skipped(s, Destination)]
    /\ UNCHANGED <<broker, archive, history, requests, faults, rule>>

\* The attempts are used up, or the product cannot be fetched or filed.
DownloadError(s) ==
    /\ Fault
    /\ pc[s] = "download"
    /\ Store(s, Doc(s), ResultsOf(work[s].todo, "KO"))
    /\ UNCHANGED <<broker, archive, history, requests, rule>>

OpenConflict(s) ==
    /\ pc[s] = "conflict"
    /\ conflicts' = conflicts \cup {Name(s)}
    /\ Goto(s, "store")
    /\ UNCHANGED <<broker, work, objects, reports, history, requests, faults, rule>>

Put(s, d, content) == objects' = [objects EXCEPT ![Name(s)][d] = content]

Uploaded(s, d, status) ==
    /\ pc[s] = "upload" /\ d \in work[s].todo
    /\ work' = [work EXCEPT ![s].todo = @ \ {d},
                            ![s].results = @ \cup ResultsOf({d}, status)]
    /\ UNCHANGED <<broker, pc, reports, conflicts, history, requests, rule>>

Upload(s, d) ==
    /\ Uploaded(s, d, "OK")
    /\ Put(s, d, BytesOf[Doc(s)])
    /\ UNCHANGED faults

\* The attempts are used up: the object may be there, or part of it.
UploadError(s, d) ==
    /\ Fault
    /\ Uploaded(s, d, "KO")
    /\ \E content \in {objects[Name(s)][d], Broken, BytesOf[Doc(s)]} : Put(s, d, content)

\* Mutant: one destination is enough.
AnyWritten(s) == \E r \in work[s].results : r.status # "KO"

AllWritten(s) == \A r \in work[s].results : r.status # "KO"

\* resolve_conflict, when every destination was written.
Finish(s) ==
    /\ pc[s] = "upload" /\ work[s].todo = {}
    /\ conflicts' = IF AllWritten(s) THEN conflicts \ {Name(s)} ELSE conflicts
    /\ Store(s, Doc(s), work[s].results \cup Skipped(s, work[s].skip))
    /\ UNCHANGED <<broker, objects, reports, history, requests, faults, rule>>

\* The index fails in the search of the reports, or in a conflict: every destination
\* gets a KO, those that were just written too.
IndexError(s) ==
    /\ Fault
    /\ \/ /\ pc[s] = "next" /\ ~work[s].refused
          /\ \E d \in Left(s) :
                 /\ ProductOf[d] \notin work[s].seen
                 /\ Store(s, d, ResultsOf(Destination, "KO"))
       \/ /\ pc[s] = "conflict" \/ (pc[s] = "upload" /\ work[s].todo = {})
          /\ Store(s, Doc(s), ResultsOf(Destination, "KO"))
    /\ UNCHANGED <<broker, archive, history, requests, rule>>

\* Mutant: a destination that could not be written is left out.
CountedWritten(s, results) ==
    {[destination |-> r.destination, ok |-> TRUE, md5 |-> BytesOf[Doc(s)],
      announced |-> Doc(s) \in Announced] : r \in {q \in results : q.status = "OK"}}

\* The reports that archived_state searches: not those of skips.
Counted(s, results) ==
    {[destination |-> r.destination, ok |-> r.status = "OK", md5 |-> BytesOf[Doc(s)],
      announced |-> Doc(s) \in Announced] :
         r \in {q \in results : q.status # "SKIPPED"}}

Stored(s, results) ==
    /\ reports' = [reports EXCEPT ![Name(s)] = @ \o SetToSeq(Counted(s, results))]
    /\ answered' = answered \cup {<<work[s].request.operation, Name(s)>>}

NextProduct(s) ==
    /\ Goto(s, "next")
    /\ work' = [work EXCEPT ![s].left = @ \ {Doc(s)}, ![s].seen = @ \cup {Name(s)},
                            ![s].todo = {}, ![s].skip = {}, ![s].same = Nothing,
                            ![s].results = {}]

StoreReports(s) ==
    /\ pc[s] = "store"
    /\ Stored(s, work[s].results)
    /\ NextProduct(s)
    /\ UNCHANGED <<broker, objects, conflicts, requested, lost, disturbed,
                   requests, faults, rule>>

\* The attempts to store them are used up: some, or none, were.
StoreError(s) ==
    /\ Fault
    /\ pc[s] = "store" /\ work[s].results # {}
    /\ \E some \in SUBSET work[s].results :
           some # work[s].results /\ Stored(s, some)
    /\ NextProduct(s)
    /\ Lose(s)
    /\ disturbed' = disturbed \cup {Name(s)}
    /\ UNCHANGED <<broker, objects, conflicts, requested, requests, rule>>

\* The stage dies: its request was acknowledged.
Crash(s) ==
    /\ Fault
    /\ pc[s] # "idle"
    /\ Lose(s)
    /\ disturbed' = IF pc[s] \in {"upload", "store"}
                    THEN disturbed \cup {Name(s)} ELSE disturbed
    /\ End(s)
    /\ UNCHANGED <<broker, archive, requested, answered, requests, rule>>

Step(s) ==
    \/ Take(s) \/ Done(s) \/ Serve(s)
    \/ Download(s) \/ OpenConflict(s) \/ \E d \in Destination : Upload(s, d)
    \/ Finish(s) \/ StoreReports(s)

Failure(s) ==
    \/ GiveBack(s) \/ LoseLeft(s) \/ IndexError(s) \/ DownloadError(s)
    \/ \E d \in Destination : UploadError(s, d)
    \/ StoreError(s) \/ Crash(s)

Next ==
    \/ \E documents \in Batch :
           \/ RequestLive(documents)
           \/ \E choice \in Choice, o \in Operation : RequestOperation(documents, choice, o)
    \/ RetryPending \/ LosePending
    \/ \E s \in Stage : Step(s) \/ Failure(s)

Spec == Init /\ [][Next]_vars

----------------------------------------------------------------------------
\* Every variable has its type; pending requests are bounded.
TypeOK ==
    /\ pending \in Seq(Request) /\ Len(pending) <= MaxPending
    /\ queue \in Seq(Request)
    /\ pc \in [Stage -> PC] /\ work \in [Stage -> Work]
    /\ objects \in [Product -> [Destination -> Bytes \cup {Nothing, Broken}]]
    /\ reports \in [Product -> Seq(Report)]
    /\ conflicts \in SUBSET Product /\ disturbed \in SUBSET Product
    /\ rule \in Choice /\ lost \in SUBSET Origin
    /\ requested \in SUBSET (Origin \X Product)
    /\ answered \in SUBSET (Origin \X Product)
    /\ requests \in 0 .. MaxRequests /\ faults \in 0 .. MaxFaults

\* The last report of each destination that has one OK, whatever a search shows.
ArchivedReports(n) ==
    {reports[n][i] : i \in {LastOf(n, d, DOMAIN reports[n]) : d \in Destination} \ {0}}
        \cap [destination : Destination, ok : {TRUE}, md5 : Bytes, announced : BOOLEAN]

Writing(n) == \E s \in Stage : pc[s] \in {"upload", "store"} /\ Name(s) = n

\* The destinations a product is archived in hold the bytes their reports give, the
\* same in all of them, through failed uploads, mirrors filled later, replacements and
\* index errors; unless a stage died, or could not report, after it wrote, or two of
\* them served the product at once (decide(), download_and_upload()).
MirrorsAgree ==
    \A n \in Product \ disturbed : \A r, t \in ArchivedReports(n) :
        /\ r.md5 = t.md5
        /\ Writing(n) \/ objects[n][r.destination] = r.md5

\* What is archived is written over by a forced transfer, or by replace_if_changed
\* with other bytes, and by nothing else, with the same exceptions.
ArchivedIsKept ==
    [][\A s \in Stage : LET w == work[s] IN
           /\ pc[s] = "upload" /\ work'[s] # w
           /\ w.request.choice # "force" /\ Name(s) \notin disturbed
           => \A r \in ArchivedReports(Name(s)) :
                  \/ objects'[Name(s)][r.destination] = objects[Name(s)][r.destination]
                  \/ /\ w.request.choice = "replace_if_changed"
                     /\ r.md5 # BytesOf[Doc(s)]]_vars

\* A conflict is closed once all the destinations hold the same bytes.
ResolvedIsComplete ==
    [][\A n \in conflicts \ disturbed :
           n \notin conflicts'
           => \E b \in Bytes : \A d \in Destination : objects[n][d] = b]_vars

Waiting(o, n) ==
    \/ \E r \in ToSet(pending \o queue) : r.operation = o /\ n \in Products(r.documents)
    \/ \E s \in Stage : work[s].request.operation = o /\ n \in Products(Left(s))

\* "a stop publishes the documents it left again, so nothing is lost", and "an operation
\* never stays pending": what is requested waits, or ends as the requester was told it
\* would, unless its request, what was left of it, or a report was lost.
NothingIsForgotten ==
    \A a \in requested : a \in answered \/ Waiting(a[1], a[2]) \/ a[1] \in lost

\* What the archive promises: the module Mirrors.  A wish is open as long as a request,
\* or what a stage has left of it, names its product; what a product's reports tell is
\* not known once it is disturbed.
Wants(r, documents) == {r.operation} \X {r.choice} \X Products(documents)
Open ==
    (UNION {Wants(r, r.documents) : r \in ToSet(pending \o queue)})
        \cup (UNION {Wants(work[s].request, Left(s)) : s \in Stage})
Told(n) == {<<r.destination, r.md5>> : r \in ArchivedReports(n)}
Recorded == [n \in Product |-> IF n \in disturbed THEN {} ELSE Told(n)]

AsMirrors == INSTANCE Mirrors WITH
    open <- Open, archived <- Recorded, unknown <- disturbed

\* A wish ends answered, lost or joined with another one; what is archived changes by an
\* answer only: to the same bytes in more mirrors, as the wish allows to other bytes in all
\* that are left, or to nothing (what take() and store() do to requests and reports).
ImplementsMirrors == AsMirrors!Spec
=============================================================================
