----------------------------- MODULE ConfigStore -----------------------------
(***************************************************************************)
(* The configuration index, rawdata/configstore.py: the versions of each   *)
(* path, never modified but for their flag `latest', and the writers that  *)
(* publish, roll back and delete, from several shells or backends at once. *)
(*                                                                         *)
(* The database answers a search from what its last refresh made visible   *)
(* (the index has one shard), a get or a create from what is stored.  Of a *)
(* content, only the backups it defines and names are kept: report models  *)
(* are references checked the same way.                                    *)
(***************************************************************************)
EXTENDS Integers, Sequences

CONSTANTS
    Path,         \* configuration files
    Service,      \* collectors, by what they load
    Content,      \* contents that validate_config_sources accepts
    NoContent,    \* the content of a tombstone
    Name,         \* names of backups
    Destination,  \* what the destination keys of a backup say
    Defines,      \* the backups a content defines: name -> destination
    Uses,         \* the backups its entries and archive rules name
    Tags,         \* service lists the writers give
    Writer,       \* processes that write
    MaxRequests,  \* bound: publications, rollbacks and deletions asked for
    MaxFaults     \* bound: crashes and lost answers

Contents == Content \cup {NoContent}

ASSUME ConfigStoreAssumption ==
    /\ Path # {} /\ NoContent \notin Content
    /\ DOMAIN Defines = Contents /\ DOMAIN Uses = Contents
    /\ \A c \in Contents : /\ DOMAIN Defines[c] \subseteq Name
                           /\ \A n \in DOMAIN Defines[c] : Defines[c][n] \in Destination
                           /\ Uses[c] \subseteq Name
    /\ DOMAIN Defines[NoContent] = {} /\ Uses[NoContent] = {}
    /\ Tags \subseteq (SUBSET Service) \ {{}}
    /\ MaxRequests \in Nat /\ MaxFaults \in Nat

VARIABLES
    docs,      \* the versions of each path
    latest,    \* those flagged latest
    index,     \* what a search shows: how many versions, and which are flagged
    pc,        \* where each writer stands
    request,   \* what it publishes, and what it has read
    reports,   \* backups that have reports
    raced,     \* a version was written though another path had changed since its check
    requests,  \* asked for so far
    faults     \* crashes and lost answers so far

store == <<docs, latest, index>>
vars == <<store, pc, request, reports, raced, requests, faults>>

Document == [content : Contents, services : SUBSET Service, deleted : BOOLEAN]
View == [count : Nat, latest : SUBSET Nat]
PC == {"idle", "history", "destinations", "integrity", "create", "visible", "clear"}

NoBase == -1
Request == [path : Path, document : Document, base : Nat \cup {NoBase}, current : Nat,
            checked : [Path -> Nat], todo : SUBSET Nat, known : SUBSET Name]

NoDocument == [content |-> NoContent, services |-> {}, deleted |-> FALSE]
Nothing == [path |-> CHOOSE p \in Path : TRUE, document |-> NoDocument, base |-> NoBase,
            current |-> 0, checked |-> [p \in Path |-> 0], todo |-> {}, known |-> {}]

Init ==
    /\ docs = [p \in Path |-> <<>>]
    /\ latest = [p \in Path |-> {}]
    /\ index = [p \in Path |-> [count |-> 0, latest |-> {}]]
    /\ pc = [w \in Writer |-> "idle"]
    /\ request = [w \in Writer |-> Nothing]
    /\ reports = {} /\ raced = FALSE
    /\ requests = 0 /\ faults = 0

----------------------------------------------------------------------------
(* Reading.                                                                 *)

\* The version a search takes as current: the highest of those flagged.
Current(p) ==
    IF index[p].latest = {} THEN 0
    ELSE CHOOSE v \in index[p].latest : \A u \in index[p].latest : u <= v

\* A service loads version v of a path.
Loads(s, p, v) == v > 0 /\ ~docs[p][v].deleted /\ s \in docs[p][v].services

File(p, content) == [path |-> p, content |-> content]

\* What a service loads of some paths, given the version of each.
Files(s, paths, at) ==
    {File(p, docs[p][at[p]].content) : p \in {q \in paths : Loads(s, q, at[q])}}

Named(sources) == UNION {DOMAIN Defines[f.content] : f \in sources}

\* integrity_problems: every backup named is defined, by one file.
Sound(sources) ==
    /\ \A f \in sources : Uses[f.content] \subseteq Named(sources)
    /\ \A f, g \in sources :
           DOMAIN Defines[f.content] \cap DOMAIN Defines[g.content] # {} => f.path = g.path

----------------------------------------------------------------------------
(* A request: what publish, rollback and delete start from.                 *)

Ask(w, p, document, base) ==
    /\ pc[w] = "idle" /\ requests < MaxRequests
    /\ requests' = requests + 1
    /\ request' = [request EXCEPT ![w] = [Nothing EXCEPT !.path = p, !.document = document,
                                                         !.base = base, !.known = reports]]
    /\ pc' = [pc EXCEPT ![w] = "history"]
    /\ UNCHANGED <<store, reports, raced, faults>>

\* --base-version, if given: the version the user read last.
Base(p) == {NoBase, index[p].count}

Put(w) ==
    \E p \in Path, c \in Content, tags \in Tags : \E b \in Base(p) :
        Ask(w, p, [content |-> c, services |-> tags, deleted |-> FALSE], b)

\* The version rolled back to is read whatever the refresh.
Rollback(w) ==
    \E p \in Path : \E v \in DOMAIN docs[p], b \in Base(p) : Ask(w, p, docs[p][v], b)

Delete(w) ==
    \E p \in Path : \E b \in Base(p) :
        LET v == index[p].count IN
        /\ v > 0 /\ ~docs[p][v].deleted
        /\ Ask(w, p, [content |-> NoContent, services |-> docs[p][v].services,
                      deleted |-> TRUE], b)

----------------------------------------------------------------------------
(* publish.                                                                 *)

Refuse(w) ==
    /\ pc' = [pc EXCEPT ![w] = "idle"]
    /\ request' = [request EXCEPT ![w] = Nothing]

Goto(w, label) == pc' = [pc EXCEPT ![w] = label]

ReadHistory(w) ==
    LET r == request[w]
        current == index[r.path].count IN
    /\ pc[w] = "history"
    /\ \/ r.base \notin {NoBase, current} /\ Refuse(w)
       \/ /\ r.base \in {NoBase, current}
          /\ request' = [request EXCEPT ![w].current = current, ![w].base = NoBase]
          /\ Goto(w, IF r.document.deleted THEN "integrity" ELSE "destinations")
    /\ UNCHANGED <<store, reports, raced, requests, faults>>

\* The definitions of the last version, tombstones aside.
Previous(r) ==
    LET live == {v \in 1 .. r.current : ~docs[r.path][v].deleted} IN
    IF live = {} THEN Defines[NoContent]
    ELSE Defines[docs[r.path][CHOOSE v \in live : \A u \in live : u <= v].content]

\* Mutant: a name the previous version does not define is not looked up.
DestinationKeptIfPrevious(r) ==
    \A n \in DOMAIN Defines[r.document.content] \cap DOMAIN Previous(r) :
        n \in reports => Previous(r)[n] = Defines[r.document.content][n]

\* A backup that has reports keeps its destination and its path.
DestinationKept(r) ==
    \A n \in DOMAIN Defines[r.document.content] :
        n \in reports => /\ n \in DOMAIN Previous(r)
                         /\ Previous(r)[n] = Defines[r.document.content][n]

CheckDestinations(w) ==
    /\ pc[w] = "destinations"
    /\ \/ ~DestinationKept(request[w]) /\ Refuse(w)
       \/ DestinationKept(request[w]) /\ Goto(w, "integrity") /\ UNCHANGED request
    /\ UNCHANGED <<store, reports, raced, requests, faults>>

\* Mutant: the services that loaded the path are forgotten.
AffectedNew(r) == IF r.document.deleted THEN {} ELSE r.document.services

Affected(r) ==
    (IF r.document.deleted THEN {} ELSE r.document.services)
    \cup (IF r.current = 0 \/ docs[r.path][r.current].deleted THEN {}
          ELSE docs[r.path][r.current].services)

\* What a service would load with the write applied.
With(r, s) ==
    Files(s, Path \ {r.path}, [p \in Path |-> Current(p)])
    \cup (IF r.document.deleted \/ s \notin r.document.services THEN {}
          ELSE {File(r.path, r.document.content)})

CheckIntegrity(w) ==
    LET sound == \A s \in Affected(request[w]) : Sound(With(request[w], s)) IN
    /\ pc[w] = "integrity"
    /\ \/ ~sound /\ Refuse(w)
       \/ /\ sound
          /\ request' = [request EXCEPT ![w].checked = [p \in Path |-> index[p].count]]
          /\ Goto(w, "create")
    /\ UNCHANGED <<store, reports, raced, requests, faults>>

\* Mutant: the version is written over, without op_type=create.
Overwrite(p, v, document) == docs' = [docs EXCEPT ![p] = Append(SubSeq(@, 1, v - 1), document)]

Write(p, v, document) == v = Len(docs[p]) + 1 /\ docs' = [docs EXCEPT ![p] = Append(@, document)]

Create(w) ==
    LET r == request[w]
        version == r.current + 1 IN
    /\ Write(r.path, version, r.document)
    /\ latest' = [latest EXCEPT ![r.path] = @ \cup {version}]
    /\ raced' = (raced \/ \E p \in Path \ {r.path} : Len(docs[p]) # r.checked[p])

\* The version is written, and awaited; or another writer was first.
Publish(w) ==
    /\ pc[w] = "create"
    /\ \/ Create(w) /\ Goto(w, "visible") /\ UNCHANGED request
       \/ /\ Len(docs[request[w].path]) > request[w].current
          /\ Refuse(w)
          /\ UNCHANGED <<docs, latest, raced>>
    /\ UNCHANGED <<index, reports, requests, faults>>

\* Mutant: the flags of all the other versions are cleared.
Others(r) == index[r.path].latest \ {r.current + 1}

Lower(r) == {v \in index[r.path].latest : v <= r.current}

\* wait_for returns; _clear_latest searches.
ScanLatest(w) ==
    /\ pc[w] = "visible" /\ index[request[w].path].count > request[w].current
    /\ request' = [request EXCEPT ![w].todo = Lower(request[w])]
    /\ Goto(w, "clear")
    /\ UNCHANGED <<store, reports, raced, requests, faults>>

ClearOne(w) ==
    /\ pc[w] = "clear"
    /\ \E v \in request[w].todo :
           /\ latest' = [latest EXCEPT ![request[w].path] = @ \ {v}]
           /\ request' = [request EXCEPT ![w].todo = @ \ {v}]
    /\ UNCHANGED <<docs, index, pc, reports, raced, requests, faults>>

Published(w) ==
    /\ pc[w] = "clear" /\ request[w].todo = {}
    /\ Refuse(w)
    /\ UNCHANGED <<store, reports, raced, requests, faults>>

----------------------------------------------------------------------------
(* The database, the collectors and the failures.                           *)

Refresh ==
    /\ index' = [p \in Path |-> [count |-> Len(docs[p]), latest |-> latest[p]]]
    /\ index' # index
    /\ UNCHANGED <<docs, latest, pc, request, reports, raced, requests, faults>>

\* A collector backs a file up, and reports it: it may run an older version.
Report ==
    /\ \E p \in Path : \E v \in 1 .. index[p].count :
           \E n \in DOMAIN Defines[docs[p][v].content] \ reports :
               reports' = reports \cup {n}
    /\ UNCHANGED <<store, pc, request, raced, requests, faults>>

Fault == faults < MaxFaults /\ faults' = faults + 1

\* The writer dies, or one of its calls fails.
Crash(w) ==
    /\ Fault
    /\ pc[w] # "idle"
    /\ Refuse(w)
    /\ UNCHANGED <<store, reports, raced, requests>>

\* The answer of the create is lost, and the client sends it again: the writer is
\* told of a conflict with itself.
LostAnswer(w) ==
    /\ Fault
    /\ pc[w] = "create"
    /\ Create(w)
    /\ Refuse(w)
    /\ UNCHANGED <<index, reports, requests>>

Step(w) ==
    \/ ReadHistory(w) \/ CheckDestinations(w) \/ CheckIntegrity(w)
    \/ Publish(w) \/ ScanLatest(w) \/ ClearOne(w) \/ Published(w)

Next ==
    \/ \E w \in Writer : Put(w) \/ Rollback(w) \/ Delete(w) \/ Step(w)
    \/ \E w \in Writer : Crash(w) \/ LostAnswer(w)
    \/ Refresh \/ Report

Spec == Init /\ [][Next]_vars

----------------------------------------------------------------------------
\* Every variable has its type; what is visible was stored.
TypeOK ==
    /\ docs \in [Path -> Seq(Document)]
    /\ latest \in [Path -> SUBSET Nat]
    /\ index \in [Path -> View]
    /\ pc \in [Writer -> PC]
    /\ request \in [Writer -> Request]
    /\ reports \in SUBSET Name
    /\ raced \in BOOLEAN
    /\ requests \in 0 .. MaxRequests /\ faults \in 0 .. MaxFaults
    /\ \A p \in Path : /\ latest[p] \subseteq 1 .. Len(docs[p])
                       /\ index[p].latest \subseteq 1 .. index[p].count
                       /\ index[p].count <= Len(docs[p])

\* The last version of a path is flagged latest, for a search too, whatever writers
\* crashed or overtook one another while flags were cleared: no reader takes an
\* older version for the current one (_clear_latest).
HighestIsLatest ==
    \A p \in Path :
        /\ docs[p] # <<>> => Len(docs[p]) \in latest[p]
        /\ Current(p) = index[p].count

\* A version is never modified, by two writers of the same version in particular.
HistoryIsKept ==
    [][\A p \in Path : \A v \in DOMAIN docs[p] :
           v \in DOMAIN docs'[p] /\ docs'[p][v] = docs[p][v]]_vars

Stored(s) == Files(s, Path, [p \in Path |-> Len(docs[p])])

\* No entry of a service names a backup it does not load, after any sequence of
\* publications, rollbacks, deletions and changes of tags, crashes included
\* (_check_integrity).
NoDanglingReference == \A s \in Service : Sound(Stored(s))

\* ... unless another path was written between the check and the write.
IntegrityButRaces == raced \/ NoDanglingReference

\* Versions of a path that define a backup.
Defining(p, n) == {v \in DOMAIN docs[p] : n \in DOMAIN Defines[docs[p][v].content]}

\* Once a backup has reports, no version asked for afterwards gives it another
\* destination or another path, through deletions, rollbacks and contents that
\* stopped defining it (_check_destinations).
ReportedBackupStays ==
    [][\A w \in Writer : LET p == request[w].path IN
           pc[w] = "create" /\ pc'[w] # "create" /\ docs'[p] # docs[p]
           => \A n \in request[w].known :
                  n \in DOMAIN Defines[request[w].document.content]
                  => \E v \in Defining(p, n) :
                         /\ \A u \in Defining(p, n) : u <= v
                         /\ Defines[docs[p][v].content][n]
                            = Defines[request[w].document.content][n] ]_vars
=============================================================================
