----------------------------- MODULE ConfigProofs -----------------------------
(***************************************************************************)
(* Proofs about ConfigStore, for any paths, services, contents and         *)
(* writers: its typing, the flags that searches rely on, the history that  *)
(* is never modified, the references that do not dangle, the destinations  *)
(* of the backups that have reports.  Then about ConfigRefresh, for any    *)
(* services watched and faults: that what a collector reads in two         *)
(* searches was the configuration of its service.                          *)
(***************************************************************************)
EXTENDS ConfigRefresh, FiniteSetTheorems, WellFoundedInduction, TLAPS

\* A writer that waits for its version, or clears flags, has written it; it only
\* clears flags of lower versions.
WriterIsPast ==
    \A w \in Writer :
        LET r == request[w] IN
        /\ r.current <= Len(docs[r.path])
        /\ pc[w] \in {"visible", "clear"} => r.current < Len(docs[r.path])
        /\ pc[w] = "clear" => \A v \in r.todo : v <= r.current

\* What a service would load of the other paths at their checked versions, and of
\* the document asked for.
Checked(r, s) ==
    Files(s, Path \ {r.path}, r.checked)
    \cup (IF r.document.deleted \/ s \notin r.document.services THEN {}
          ELSE {File(r.path, r.document.content)})

\* A writer about to write has checked what the affected services would load.
WriterHasChecked ==
    \A w \in Writer :
        pc[w] = "create" =>
            /\ \A p \in Path : request[w].checked[p] <= Len(docs[p])
            /\ \A s \in Affected(request[w]) : Sound(Checked(request[w], s))

FlagsInv == TypeOK /\ HighestIsLatest /\ WriterIsPast
IInv == FlagsInv /\ WriterHasChecked /\ IntegrityButRaces

----------------------------------------------------------------------------
(* Typing.                                                                  *)

LEMMA NothingType == Nothing \in Request /\ Nothing.todo = {} /\ Nothing.current = 0
  <1>1. \E p \in Path : TRUE
    BY ConfigStoreAssumption
  <1>2. (CHOOSE p \in Path : TRUE) \in Path
    BY <1>1
  <1>3. NoDocument \in Document
    BY DEF NoDocument, Document, Contents
  <1> QED
    BY <1>2, <1>3 DEF Nothing, Request

LEMMA DocumentType ==
    ASSUME TypeOK, NEW p \in Path, NEW v \in 1 .. Len(docs[p])
    PROVE  docs[p][v] \in Document
  BY DEF TypeOK

LEMMA InitType == Init => TypeOK
  <1> SUFFICES ASSUME Init PROVE TypeOK
    OBVIOUS
  <1>1. docs \in [Path -> Seq(Document)] /\ \A p \in Path : docs[p] = << >>
    BY DEF Init
  <1>2. index \in [Path -> View]
    BY DEF Init, View
  <1>3. pc \in [Writer -> PC] /\ request \in [Writer -> Request]
    BY NothingType DEF Init, PC
  <1>4. \A p \in Path : latest[p] = {} /\ index[p].latest = {} /\ index[p].count = 0
    BY DEF Init
  <1>5. ASSUME NEW p \in Path
        PROVE  /\ latest[p] \subseteq 1 .. Len(docs[p])
               /\ index[p].latest \subseteq 1 .. index[p].count
               /\ index[p].count <= Len(docs[p])
    <2>1. docs[p] = << >> /\ latest[p] = {} /\ index[p].latest = {} /\ index[p].count = 0
      BY <1>1, <1>4
    <2> QED
      BY <2>1
  <1>6. latest \in [Path -> SUBSET Nat] /\ reports \in SUBSET Name
    BY DEF Init
  <1>7. raced \in BOOLEAN /\ requests = 0 /\ faults = 0
    BY DEF Init
  <1>8. requests \in 0 .. MaxRequests /\ faults \in 0 .. MaxFaults
    BY <1>7, ConfigStoreAssumption
  <1> QED
    BY <1>1, <1>2, <1>3, <1>5, <1>6, <1>7, <1>8 DEF TypeOK

\* A request asked for is one for its path and its document.
LEMMA AskType ==
    ASSUME TypeOK, NEW w \in Writer, NEW p \in Path, NEW d \in Document,
           NEW b \in Base(p), Ask(w, p, d, b)
    PROVE  TypeOK'
  <1>1. b \in Nat \cup {NoBase}
    BY DEF TypeOK, Base, View
  <1>2. [Nothing EXCEPT !.path = p, !.document = d, !.base = b, !.known = reports]
          \in Request
    BY <1>1, NothingType DEF TypeOK, Request
  <1> QED
    BY <1>2, ConfigStoreAssumption DEF TypeOK, Ask, store, PC

LEMMA TagsType ==
    ASSUME NEW c \in Contents, NEW tags \in SUBSET Service, NEW deleted \in BOOLEAN
    PROVE  [content |-> c, services |-> tags, deleted |-> deleted] \in Document
  BY DEF Document

LEMMA RequestsType ==
    ASSUME TypeOK, NEW w \in Writer, Put(w) \/ Rollback(w) \/ Delete(w)
    PROVE  TypeOK'
  <1>1. CASE Put(w)
    <2>1. PICK p \in Path, c \in Content, tags \in Tags : \E b \in Base(p) :
              Ask(w, p, [content |-> c, services |-> tags, deleted |-> FALSE], b)
      BY <1>1 DEF Put
    <2> QED
      BY <2>1, AskType, TagsType, ConfigStoreAssumption DEF Contents
  <1>2. CASE Rollback(w)
    <2>1. PICK p \in Path : \E v \in DOMAIN docs[p] : \E b \in Base(p) :
              Ask(w, p, docs[p][v], b)
      BY <1>2 DEF Rollback
    <2>2. DOMAIN docs[p] = 1 .. Len(docs[p])
      BY DEF TypeOK
    <2> QED
      BY <2>1, <2>2, AskType, DocumentType
  <1>3. CASE Delete(w)
    <2>1. PICK p \in Path : \E b \in Base(p) :
              /\ index[p].count > 0
              /\ Ask(w, p, [content |-> NoContent,
                            services |-> docs[p][index[p].count].services,
                            deleted |-> TRUE], b)
      BY <1>3 DEF Delete
    <2>2. index[p].count \in 1 .. Len(docs[p])
      BY <2>1 DEF TypeOK, View
    <2>3. docs[p][index[p].count].services \in SUBSET Service
      BY <2>2, DocumentType DEF Document
    <2> QED
      BY <2>1, <2>3, AskType, TagsType DEF Contents
  <1> QED
    BY <1>1, <1>2, <1>3

LEMMA RefuseType ==
    ASSUME TypeOK, NEW w \in Writer, Refuse(w)
    PROVE  pc' \in [Writer -> PC] /\ request' \in [Writer -> Request]
  BY NothingType DEF TypeOK, Refuse, PC

\* The write of a version, by a writer that got there first.
LEMMA CreateType ==
    ASSUME TypeOK, NEW w \in Writer, Create(w)
    PROVE  LET p == request[w].path IN
           /\ docs' = [docs EXCEPT ![p] = Append(@, request[w].document)]
           /\ docs' \in [Path -> Seq(Document)]
           /\ latest' \in [Path -> SUBSET Nat]
           /\ raced' \in BOOLEAN
           /\ Len(docs'[p]) = request[w].current + 1
           /\ request[w].current = Len(docs[p])
           /\ \A q \in Path : /\ latest'[q] \subseteq 1 .. Len(docs'[q])
                              /\ Len(docs[q]) <= Len(docs'[q])
  <1> DEFINE p == request[w].path
             d == request[w].document
             n == request[w].current
  <1>1. p \in Path /\ d \in Document /\ n \in Nat /\ docs[p] \in Seq(Document)
    BY DEF TypeOK, Request
  <1>2. docs' = [docs EXCEPT ![p] = Append(docs[p], d)] /\ n + 1 = Len(docs[p]) + 1
        /\ latest' = [latest EXCEPT ![p] = latest[p] \cup {n + 1}]
    BY DEF Create, Write
  <1>3. n = Len(docs[p]) /\ Append(docs[p], d) \in Seq(Document)
        /\ Len(Append(docs[p], d)) = n + 1
    BY <1>1, <1>2
  <1>4. docs' \in [Path -> Seq(Document)] /\ Len(docs'[p]) = n + 1
    BY <1>1, <1>2, <1>3 DEF TypeOK
  <1>5. latest' \in [Path -> SUBSET Nat]
    BY <1>1, <1>2 DEF TypeOK
  <1>6. ASSUME NEW q \in Path
        PROVE  latest'[q] \subseteq 1 .. Len(docs'[q]) /\ Len(docs[q]) <= Len(docs'[q])
    <2>0. Len(docs[q]) \in Nat
      BY DEF TypeOK
    <2>1. CASE q = p
      BY <1>1, <1>2, <1>3, <1>4, <2>1 DEF TypeOK
    <2>2. CASE q # p
      BY <1>1, <1>2, <2>0, <2>2 DEF TypeOK
    <2> QED
      BY <2>1, <2>2
  <1>7. raced' \in BOOLEAN
    BY DEF Create, TypeOK
  <1> QED
    BY <1>2, <1>3, <1>4, <1>5, <1>6, <1>7

LEMMA StepType ==
    ASSUME TypeOK, NEW w \in Writer, Step(w)
    PROVE  TypeOK'
  <1> DEFINE r == request[w]
  <1>0. r \in Request /\ r.path \in Path /\ index[r.path] \in View
    BY DEF TypeOK, Request
  <1>1. CASE ReadHistory(w)
    <2>1. [r EXCEPT !.current = index[r.path].count, !.base = NoBase] \in Request
      BY <1>0 DEF Request, View
    <2>2. pc' \in [Writer -> PC] /\ request' \in [Writer -> Request]
      <3>1. CASE Refuse(w)
        BY <3>1, RefuseType
      <3>2. CASE ~Refuse(w)
        <4>1. request' = [request EXCEPT ![w] = [r EXCEPT !.current = index[r.path].count,
                                                         !.base = NoBase]]
          BY <1>1, <3>2 DEF ReadHistory, TypeOK
        <4>2. Goto(w, IF r.document.deleted THEN "integrity" ELSE "destinations")
          BY <1>1, <3>2 DEF ReadHistory
        <4> HIDE DEF r
        <4>3. pc' \in [Writer -> PC]
          BY <4>2 DEF Goto, TypeOK, PC
        <4>4. request' \in [Writer -> Request]
          BY <2>1, <4>1 DEF TypeOK
        <4> QED
          BY <4>3, <4>4
      <3> QED
        BY <3>1, <3>2
    <2> QED
      BY <1>1, <2>2 DEF ReadHistory, store, TypeOK
  <1>2. CASE CheckDestinations(w)
    <2>2. pc' \in [Writer -> PC] /\ request' \in [Writer -> Request]
      BY <1>2, RefuseType DEF CheckDestinations, Goto, TypeOK, PC
    <2> QED
      BY <1>2, <2>2 DEF CheckDestinations, store, TypeOK
  <1>3. CASE CheckIntegrity(w)
    <2>1. [p \in Path |-> index[p].count] \in [Path -> Nat]
      BY DEF TypeOK, View
    <2>2. [r EXCEPT !.checked = [p \in Path |-> index[p].count]] \in Request
      BY <1>0, <2>1 DEF Request
    <2>3. pc' \in [Writer -> PC] /\ request' \in [Writer -> Request]
      BY <1>3, <2>2, RefuseType DEF CheckIntegrity, Goto, TypeOK, PC
    <2> QED
      BY <1>3, <2>3 DEF CheckIntegrity, store, TypeOK
  <1>4. CASE Publish(w)
    <2>1. CASE Create(w) /\ Goto(w, "visible") /\ UNCHANGED request
      <3>1. \A q \in Path : index[q].count <= Len(docs'[q])
        BY <2>1, CreateType DEF TypeOK, View
      <3>2. pc' \in [Writer -> PC]
        BY <2>1 DEF Goto, TypeOK, PC
      <3> QED
        BY <1>4, <2>1, <3>1, <3>2, CreateType DEF Publish, TypeOK
    <2>2. CASE Refuse(w) /\ UNCHANGED <<docs, latest, raced>>
      BY <1>4, <2>2, RefuseType DEF Publish, TypeOK
    <2> QED
      BY <1>4, <2>1, <2>2 DEF Publish
  <1>5. CASE ScanLatest(w)
    <2>1. Lower(r) \in SUBSET Nat
      BY <1>0 DEF Lower, View
    <2>2. [r EXCEPT !.todo = Lower(r)] \in Request
      BY <1>0, <2>1 DEF Request
    <2> QED
      BY <1>5, <2>2 DEF ScanLatest, Goto, store, TypeOK, PC
  <1>6. CASE ClearOne(w)
    <2>1. PICK v \in r.todo :
              /\ latest' = [latest EXCEPT ![r.path] = @ \ {v}]
              /\ request' = [request EXCEPT ![w].todo = @ \ {v}]
      BY <1>6 DEF ClearOne
    <2>2. [r EXCEPT !.todo = @ \ {v}] \in Request
      BY <1>0 DEF Request
    <2>3. request' \in [Writer -> Request] /\ latest' \in [Path -> SUBSET Nat]
      BY <1>0, <2>1, <2>2 DEF TypeOK
    <2>4. \A p \in Path : latest'[p] \subseteq latest[p]
      BY <1>0, <2>1 DEF TypeOK
    <2> QED
      BY <1>6, <2>3, <2>4 DEF ClearOne, TypeOK
  <1>7. CASE Published(w)
    BY <1>7, RefuseType DEF Published, store, TypeOK
  <1> QED
    BY <1>1, <1>2, <1>3, <1>4, <1>5, <1>6, <1>7 DEF Step

LEMMA FaultType ==
    ASSUME TypeOK, NEW w \in Writer, Crash(w) \/ LostAnswer(w)
    PROVE  TypeOK'
  <1>1. faults' \in 0 .. MaxFaults
    BY ConfigStoreAssumption DEF TypeOK, Crash, LostAnswer, Fault
  <1>2. CASE Crash(w)
    BY <1>1, <1>2, RefuseType DEF Crash, store, TypeOK
  <1>3. CASE LostAnswer(w)
    <2>1. \A q \in Path : index[q].count <= Len(docs'[q])
      BY <1>3, CreateType DEF TypeOK, View, LostAnswer
    <2> QED
      BY <1>1, <1>3, <2>1, CreateType, RefuseType DEF LostAnswer, TypeOK
  <1> QED
    BY <1>2, <1>3

LEMMA RefreshType ==
    ASSUME TypeOK, Refresh
    PROVE  TypeOK'
  <1>1. ASSUME NEW p \in Path PROVE Len(docs[p]) \in Nat /\ latest[p] \in SUBSET Nat
    <2>1. docs[p] \in Seq(Document) /\ latest[p] \in SUBSET Nat
      BY DEF TypeOK
    <2> QED
      BY <2>1
  <1>2. index' \in [Path -> View]
    BY <1>1 DEF Refresh, View
  <1> QED
    BY <1>1, <1>2 DEF TypeOK, Refresh

LEMMA NextType == TypeOK /\ [Next]_vars => TypeOK'
  <1> SUFFICES ASSUME TypeOK, [Next]_vars PROVE TypeOK'
    OBVIOUS
  <1>1. CASE UNCHANGED vars
    BY <1>1 DEF vars, store, TypeOK
  <1>2. CASE Report
    <2>0. PICK p \in Path : \E v \in 1 .. index[p].count :
              \E n \in DOMAIN Defines[docs[p][v].content] : reports' = reports \cup {n}
      BY <1>2 DEF Report
    <2>1. PICK v \in 1 .. index[p].count :
              \E n \in DOMAIN Defines[docs[p][v].content] : reports' = reports \cup {n}
      BY <2>0
    <2>2. v \in 1 .. Len(docs[p])
      BY <2>1 DEF TypeOK, View
    <2>3. docs[p][v].content \in Contents
      BY <2>2, DocumentType DEF Document
    <2>4. reports' \in SUBSET Name
      BY <2>1, <2>3, ConfigStoreAssumption DEF TypeOK
    <2> QED
      BY <1>2, <2>4 DEF Report, store, TypeOK
  <1> QED
    BY <1>1, <1>2, RequestsType, StepType, FaultType, RefreshType DEF Next

\* The variables of Spec keep their types.
THEOREM Typing == Spec => []TypeOK
  BY InitType, NextType, PTL DEF Spec

----------------------------------------------------------------------------
(* The history.                                                             *)

\* Only a create changes the documents.
LEMMA WritesAreCreates ==
    ASSUME TypeOK, [Next]_vars
    PROVE  \/ UNCHANGED <<docs, raced>>
           \/ \E w \in Writer : pc[w] = "create" /\ Create(w) /\ UNCHANGED index
  <1>1. CASE UNCHANGED vars \/ Refresh \/ Report
    BY <1>1 DEF vars, store, Refresh, Report
  <1>2. ASSUME NEW w \in Writer, Put(w) \/ Rollback(w) \/ Delete(w)
        PROVE  UNCHANGED <<docs, raced>>
    BY <1>2 DEF Put, Rollback, Delete, Ask, store
  <1>3. ASSUME NEW w \in Writer, Step(w) \/ Crash(w) \/ LostAnswer(w)
        PROVE  \/ UNCHANGED <<docs, raced>>
               \/ pc[w] = "create" /\ Create(w) /\ UNCHANGED index
    BY <1>3 DEF Step, ReadHistory, CheckDestinations, CheckIntegrity, Publish,
                ScanLatest, ClearOne, Published, Crash, LostAnswer, store
  <1> QED
    BY <1>1, <1>2, <1>3 DEF Next

\* Histories only grow.
LEMMA Growth ==
    ASSUME TypeOK, [Next]_vars, NEW p \in Path
    PROVE  /\ Len(docs[p]) <= Len(docs'[p])
           /\ \A v \in 1 .. Len(docs[p]) : docs'[p][v] = docs[p][v]
  <1>0. docs[p] \in Seq(Document) /\ Len(docs[p]) \in Nat
    BY DEF TypeOK
  <1>1. CASE docs' = docs
    BY <1>0, <1>1
  <1>2. ASSUME NEW w \in Writer, Create(w)
        PROVE  /\ Len(docs[p]) <= Len(docs'[p])
               /\ \A v \in 1 .. Len(docs[p]) : docs'[p][v] = docs[p][v]
    <2>1. docs' = [docs EXCEPT ![request[w].path] = Append(@, request[w].document)]
      BY <1>2, CreateType
    <2>2. request[w].document \in Document
      BY DEF TypeOK, Request
    <2>3. docs'[p] = docs[p] \/ docs'[p] = Append(docs[p], request[w].document)
      BY <2>1 DEF TypeOK
    <2> QED
      BY <1>0, <2>2, <2>3
  <1> QED
    BY <1>1, <1>2, WritesAreCreates

\* No version is ever modified.
THEOREM History == Spec => HistoryIsKept
  <1>1. ASSUME TypeOK, [Next]_vars
        PROVE  \A p \in Path : \A v \in DOMAIN docs[p] :
                   v \in DOMAIN docs'[p] /\ docs'[p][v] = docs[p][v]
    <2> SUFFICES ASSUME NEW p \in Path, NEW v \in DOMAIN docs[p]
                 PROVE  v \in DOMAIN docs'[p] /\ docs'[p][v] = docs[p][v]
      OBVIOUS
    <2>1. docs[p] \in Seq(Document) /\ docs'[p] \in Seq(Document)
      BY <1>1, NextType DEF TypeOK
    <2>2. DOMAIN docs[p] = 1 .. Len(docs[p]) /\ DOMAIN docs'[p] = 1 .. Len(docs'[p])
      BY <2>1
    <2>3. Len(docs[p]) \in Nat /\ Len(docs'[p]) \in Nat
      BY <2>1
    <2> QED
      BY <1>1, <2>2, <2>3, Growth
  <1> QED
    BY <1>1, Typing, PTL DEF Spec, HistoryIsKept

----------------------------------------------------------------------------
(* The flags.                                                               *)

\* A step of one writer leaves the others where they stand.
LEMMA OtherWriters ==
    ASSUME TypeOK, NEW w \in Writer, NEW u \in Writer, u # w,
           \/ Put(w) \/ Rollback(w) \/ Delete(w) \/ Step(w) \/ Crash(w) \/ LostAnswer(w)
    PROVE  pc'[u] = pc[u] /\ request'[u] = request[u]
  BY DEF TypeOK, Put, Rollback, Delete, Ask, Step, ReadHistory, CheckDestinations,
         CheckIntegrity, Publish, ScanLatest, ClearOne, Published, Crash, LostAnswer,
         Goto, Refuse

\* What a writer that has just acted has read of its path.
LEMMA PastAfterStep ==
    ASSUME TypeOK, WriterIsPast, NEW w \in Writer,
           \/ Put(w) \/ Rollback(w) \/ Delete(w) \/ Step(w) \/ Crash(w) \/ LostAnswer(w)
    PROVE  LET r == request'[w] IN
           /\ r.current <= Len(docs'[r.path])
           /\ pc'[w] \in {"visible", "clear"} => r.current < Len(docs'[r.path])
           /\ pc'[w] = "clear" => \A v \in r.todo : v <= r.current
  <1> DEFINE r == request[w]
  <1>0. /\ r \in Request /\ r.path \in Path /\ r.current \in Nat
        /\ index[r.path].count \in Nat /\ index[r.path].count <= Len(docs[r.path])
        /\ index[r.path].latest \in SUBSET Nat
        /\ \A p \in Path : Len(docs[p]) \in Nat
    <2>1. r \in Request /\ r.path \in Path /\ r.current \in Nat
      BY DEF TypeOK, Request
    <2>2. ASSUME NEW p \in Path PROVE Len(docs[p]) \in Nat
      BY DEF TypeOK
    <2> QED
      BY <2>1, <2>2 DEF TypeOK, View
  <1>1. CASE Refuse(w) /\ UNCHANGED docs
    <2>1. pc'[w] = "idle" /\ request'[w] = Nothing
      BY <1>1 DEF Refuse, TypeOK
    <2>2. Nothing.path \in Path /\ Nothing.current = 0
      BY NothingType DEF Request
    <2> QED
      BY <1>0, <1>1, <2>1, <2>2
  <1>2. CASE Put(w) \/ Rollback(w) \/ Delete(w)
    <2>0. ASSUME NEW p \in Path, NEW d, NEW b, Ask(w, p, d, b)
          PROVE  /\ pc' = [pc EXCEPT ![w] = "history"] /\ UNCHANGED docs
                 /\ request'[w].path = p /\ request'[w].current = 0
      BY <2>0 DEF Ask, Nothing, TypeOK, store
    <2>1. PICK p \in Path : /\ pc' = [pc EXCEPT ![w] = "history"] /\ UNCHANGED docs
                            /\ request'[w].path = p /\ request'[w].current = 0
      BY <1>2, <2>0 DEF Put, Rollback, Delete
    <2>2. pc'[w] = "history"
      BY <2>1 DEF TypeOK
    <2> QED
      BY <1>0, <2>1, <2>2
  <1>3. CASE ReadHistory(w) /\ ~Refuse(w)
    <2>1. /\ request'[w] = [r EXCEPT !.current = index[r.path].count, !.base = NoBase]
          /\ pc'[w] \in {"integrity", "destinations"} /\ UNCHANGED docs
      BY <1>3 DEF ReadHistory, Goto, TypeOK, store
    <2>2. request'[w].current = index[r.path].count /\ request'[w].path = r.path
      BY <1>0, <2>1 DEF Request
    <2> QED
      BY <1>0, <2>1, <2>2
  <1>4. CASE (CheckDestinations(w) \/ CheckIntegrity(w)) /\ ~Refuse(w)
    <2>1. /\ pc'[w] \in {"integrity", "create"} /\ UNCHANGED docs
          /\ request'[w].current = r.current /\ request'[w].path = r.path
      BY <1>0, <1>4 DEF CheckDestinations, CheckIntegrity, Goto, TypeOK, store, Request
    <2> QED
      BY <1>0, <2>1 DEF WriterIsPast
  <1>5. CASE Create(w) /\ UNCHANGED request /\ Goto(w, "visible")
    <2>1. pc'[w] = "visible"
      BY <1>5 DEF Goto, TypeOK
    <2> QED
      BY <1>0, <1>5, <2>1, CreateType
  <1>6. CASE LostAnswer(w)
    <2>1. pc'[w] = "idle" /\ request'[w] = Nothing
      BY <1>6 DEF LostAnswer, Refuse, TypeOK
    <2>2. Nothing.path \in Path /\ Nothing.current = 0
      BY NothingType DEF Request
    <2>3. docs' \in [Path -> Seq(Document)]
      BY <1>6, CreateType DEF LostAnswer
    <2> QED
      BY <2>1, <2>2, <2>3
  <1>7. CASE ScanLatest(w)
    <2>1. /\ pc'[w] = "clear" /\ UNCHANGED docs
          /\ request'[w] = [r EXCEPT !.todo = Lower(r)]
          /\ index[r.path].count > r.current
      BY <1>7 DEF ScanLatest, Goto, TypeOK, store
    <2>2. /\ request'[w].current = r.current /\ request'[w].path = r.path
          /\ request'[w].todo = Lower(r)
      BY <1>0, <2>1 DEF Request
    <2> QED
      BY <1>0, <2>1, <2>2 DEF Lower
  <1>8. CASE ClearOne(w)
    <2>1. PICK v \in r.todo : request' = [request EXCEPT ![w].todo = @ \ {v}]
      BY <1>8 DEF ClearOne
    <2>2. /\ request'[w].current = r.current /\ request'[w].path = r.path
          /\ request'[w].todo \subseteq r.todo
      BY <1>0, <2>1 DEF Request, TypeOK
    <2>3. pc'[w] = "clear" /\ pc[w] = "clear" /\ UNCHANGED docs
      BY <1>8 DEF ClearOne
    <2> QED
      BY <1>0, <2>2, <2>3 DEF WriterIsPast
  <1> QED
    BY <1>1, <1>2, <1>3, <1>4, <1>5, <1>6, <1>7, <1>8
       DEF Step, ReadHistory, CheckDestinations, CheckIntegrity, Publish, Published, Crash,
           store

LEMMA PastStep ==
    ASSUME TypeOK, WriterIsPast, [Next]_vars
    PROVE  WriterIsPast'
  <1> SUFFICES ASSUME NEW u \in Writer
               PROVE  LET r == request'[u] IN
                      /\ r.current <= Len(docs'[r.path])
                      /\ pc'[u] \in {"visible", "clear"} => r.current < Len(docs'[r.path])
                      /\ pc'[u] = "clear" => \A v \in r.todo : v <= r.current
    BY DEF WriterIsPast
  <1>1. CASE pc'[u] = pc[u] /\ request'[u] = request[u]
    <2>1. request[u].path \in Path /\ request[u].current \in Nat
      BY DEF TypeOK, Request
    <2>2. Len(docs[request[u].path]) \in Nat /\ Len(docs'[request[u].path]) \in Nat
      <3>1. docs[request[u].path] \in Seq(Document) /\ docs'[request[u].path] \in Seq(Document)
        BY <2>1, NextType DEF TypeOK
      <3> QED
        BY <3>1
    <2>3. Len(docs[request[u].path]) <= Len(docs'[request[u].path])
      BY <2>1, Growth
    <2> QED
      BY <1>1, <2>1, <2>2, <2>3 DEF WriterIsPast
  <1>2. CASE UNCHANGED vars \/ Refresh \/ Report
    BY <1>1, <1>2 DEF vars, Refresh, Report
  <1> QED
    BY <1>1, <1>2, OtherWriters, PastAfterStep DEF Next

\* The last version stays flagged.
LEMMA FlagStays ==
    ASSUME TypeOK, HighestIsLatest, WriterIsPast, [Next]_vars, NEW p \in Path,
           docs'[p] # << >>
    PROVE  Len(docs'[p]) \in latest'[p]
  <1>0. docs[p] \in Seq(Document) /\ Len(docs[p]) \in Nat
    BY DEF TypeOK
  <1>1. CASE UNCHANGED <<docs, latest>>
    BY <1>1 DEF HighestIsLatest
  <1>2. ASSUME NEW w \in Writer, Create(w)
        PROVE  Len(docs'[p]) \in latest'[p]
    <2>1. CASE p = request[w].path
      BY <1>2, <2>1, CreateType DEF Create, TypeOK
    <2>2. CASE p # request[w].path
      <3>1. docs'[p] = docs[p] /\ latest'[p] = latest[p]
        BY <1>2, <2>2, CreateType DEF Create, TypeOK
      <3> QED
        BY <3>1 DEF HighestIsLatest
    <2> QED
      BY <2>1, <2>2
  <1>3. ASSUME NEW w \in Writer, ClearOne(w)
        PROVE  Len(docs'[p]) \in latest'[p]
    <2>1. PICK v \in request[w].todo :
              latest' = [latest EXCEPT ![request[w].path] = @ \ {v}]
      BY <1>3 DEF ClearOne
    <2>2. docs' = docs /\ Len(docs[p]) \in latest[p]
      BY <1>3 DEF ClearOne, HighestIsLatest
    <2>3. request[w].path = p => v < Len(docs[p])
      <3>1. request[w].current \in Nat /\ v \in Nat
        BY DEF TypeOK, Request
      <3>2. request[w].current < Len(docs[request[w].path]) /\ v <= request[w].current
        BY <1>3 DEF ClearOne, WriterIsPast
      <3> QED
        BY <1>0, <3>1, <3>2
    <2>4. latest'[p] = IF request[w].path = p THEN latest[p] \ {v} ELSE latest[p]
      BY <2>1 DEF TypeOK
    <2> QED
      BY <1>0, <2>2, <2>3, <2>4
  <1>4. ASSUME NEW w \in Writer,
               Put(w) \/ Rollback(w) \/ Delete(w) \/ Step(w) \/ Crash(w) \/ LostAnswer(w)
        PROVE  UNCHANGED <<docs, latest>> \/ Create(w) \/ ClearOne(w)
    BY <1>4 DEF Put, Rollback, Delete, Ask, Step, ReadHistory, CheckDestinations,
                CheckIntegrity, Publish, ScanLatest, Published, Crash, LostAnswer, store
  <1>5. CASE UNCHANGED vars \/ Refresh \/ Report
    BY <1>1, <1>5 DEF vars, store, Refresh, Report
  <1> QED
    BY <1>1, <1>2, <1>3, <1>4, <1>5 DEF Next

\* A search for the versions flagged finds the last one.
LEMMA SearchFindsLast ==
    ASSUME NEW count \in Nat, NEW flagged \in SUBSET (1 .. count),
           count > 0 => count \in flagged
    PROVE  (IF flagged = {} THEN 0
            ELSE CHOOSE v \in flagged : \A u \in flagged : u <= v) = count
  <1>1. CASE count = 0
    BY <1>1
  <1>2. CASE count > 0
    <2>1. count \in flagged /\ \A u \in flagged : u <= count
      BY <1>2
    <2>2. \A v \in flagged : (\A u \in flagged : u <= v) => v = count
      BY <2>1
    <2> QED
      BY <2>1, <2>2
  <1> QED
    BY <1>1, <1>2

LEMMA FlagsStep ==
    ASSUME FlagsInv, [Next]_vars
    PROVE  FlagsInv'
  <1> USE DEF FlagsInv
  <1>1. TypeOK' /\ WriterIsPast'
    BY NextType, PastStep
  <1>2. CASE Refresh
    <2> SUFFICES ASSUME NEW p \in Path
                 PROVE  Current(p)' = index'[p].count
      BY <1>1, FlagStays DEF HighestIsLatest
    <2>1. index'[p].count = Len(docs[p]) /\ index'[p].latest = latest[p]
      BY <1>2 DEF Refresh
    <2>2. docs[p] \in Seq(Document) /\ latest[p] \in SUBSET (1 .. Len(docs[p]))
      BY DEF TypeOK
    <2>3. Len(docs[p]) \in Nat /\ (Len(docs[p]) > 0 => Len(docs[p]) \in latest[p])
      BY <2>2 DEF HighestIsLatest
    <2> QED
      BY <2>1, <2>2, <2>3, SearchFindsLast DEF Current
  <1>3. CASE UNCHANGED index
    <2>1. \A p \in Path : Current(p)' = index'[p].count
      BY <1>3 DEF HighestIsLatest, Current
    <2> QED
      BY <1>1, <2>1, FlagStays DEF HighestIsLatest
  <1>4. [Next]_vars => Refresh \/ UNCHANGED index
    BY DEF vars, Next, Report, Put, Rollback, Delete, Ask, Step, ReadHistory,
           CheckDestinations, CheckIntegrity, Publish, ScanLatest, ClearOne, Published,
           Crash, LostAnswer, store
  <1> QED
    BY <1>2, <1>3, <1>4

LEMMA FlagsInit == Init => FlagsInv
  <1> SUFFICES ASSUME Init PROVE FlagsInv
    OBVIOUS
  <1>1. HighestIsLatest
    BY DEF Init, HighestIsLatest, Current
  <1>2. WriterIsPast
    <2> SUFFICES ASSUME NEW w \in Writer
                 PROVE  /\ request[w].current <= Len(docs[request[w].path])
                        /\ pc[w] = "idle"
      BY DEF WriterIsPast
    <2>1. request[w] = Nothing /\ pc[w] = "idle" /\ docs = [p \in Path |-> << >>]
      BY DEF Init
    <2>2. Nothing.path \in Path /\ Nothing.current = 0
      BY NothingType DEF Request
    <2> QED
      BY <2>1, <2>2
  <1> QED
    BY <1>1, <1>2, InitType DEF FlagsInv

\* The version that searches take as current is the last one visible.
THEOREM Flags == Spec => []HighestIsLatest
  <1>1. FlagsInv => HighestIsLatest
    BY DEF FlagsInv
  <1> QED
    BY <1>1, FlagsInit, FlagsStep, PTL DEF Spec

----------------------------------------------------------------------------
(* The references.                                                          *)

\* What a service loads of a version does not change.
LEMMA FilesKept ==
    ASSUME TypeOK, [Next]_vars, NEW s, NEW P \in SUBSET Path, NEW at \in [Path -> Nat],
           \A p \in P : at[p] <= Len(docs[p])
    PROVE  {File(p, docs'[p][at[p]].content) : p \in {q \in P : Loads(s, q, at[q])'}}
           = Files(s, P, at)
  <1>1. ASSUME NEW p \in P, at[p] > 0
        PROVE  docs'[p][at[p]] = docs[p][at[p]]
    <2>1. at[p] \in 1 .. Len(docs[p])
      <3>1. docs[p] \in Seq(Document)
        BY DEF TypeOK
      <3>2. Len(docs[p]) \in Nat /\ at[p] \in Nat
        BY <3>1
      <3> QED
        BY <1>1, <3>2
    <2> QED
      BY <2>1, Growth
  <1>2. \A p \in P : Loads(s, p, at[p])' <=> Loads(s, p, at[p])
    BY <1>1 DEF Loads
  <1>3. \A p \in P : Loads(s, p, at[p]) => docs'[p][at[p]] = docs[p][at[p]]
    BY <1>1 DEF Loads
  <1> QED
    BY <1>2, <1>3 DEF Files, File

\* What is checked, and of whom, stays while a writer does not move.
LEMMA CheckedKept ==
    ASSUME TypeOK, WriterIsPast, [Next]_vars, NEW u \in Writer,
           request'[u] = request[u], NEW s,
           \A p \in Path : request[u].checked[p] <= Len(docs[p])
    PROVE  /\ Checked(request[u], s)' = Checked(request[u], s)
           /\ (s \in Affected(request[u]))' => s \in Affected(request[u])
  <1> DEFINE r == request[u]
  <1>1. r \in Request /\ r.path \in Path /\ r.current \in Nat /\ r.checked \in [Path -> Nat]
    BY DEF TypeOK, Request
  <1>2. {File(p, docs'[p][r.checked[p]].content) :
            p \in {q \in Path \ {r.path} : Loads(s, q, r.checked[q])'}}
        = Files(s, Path \ {r.path}, r.checked)
    BY <1>1, FilesKept
  <1>3. Checked(r, s)' = Checked(r, s)
    BY <1>2 DEF Checked, Files, File
  <1>4. docs[r.path] \in Seq(Document) /\ r.current <= Len(docs[r.path])
    BY <1>1 DEF TypeOK, WriterIsPast
  <1>5. r.current = 0 \/ r.current \in 1 .. Len(docs[r.path])
    BY <1>1, <1>4
  <1>6. r.current = 0 \/ docs'[r.path][r.current] = docs[r.path][r.current]
    BY <1>1, <1>5, Growth
  <1>7. (s \in Affected(r))' => s \in Affected(r)
    BY <1>6 DEF Affected
  <1> QED
    BY <1>3, <1>7

\* The check of a writer is of what its service would load of the versions visible.
LEMMA CheckIsMade ==
    ASSUME TypeOK, HighestIsLatest, NEW w \in Writer, CheckIntegrity(w), pc'[w] = "create"
    PROVE  /\ \A p \in Path : request'[w].checked[p] <= Len(docs'[p])
           /\ \A s \in Affected(request[w])' : Sound(Checked(request[w], s)')
  <1> DEFINE r == request[w]
             counts == [p \in Path |-> index[p].count]
  <1>1. r \in Request /\ docs' = docs
    BY DEF TypeOK, CheckIntegrity, store
  <1>2. /\ request' = [request EXCEPT ![w].checked = counts]
        /\ \A s \in Affected(r) : Sound(With(r, s))
    BY DEF CheckIntegrity, Refuse, TypeOK
  <1>3. /\ request'[w].checked = counts /\ request'[w].path = r.path
        /\ request'[w].document = r.document /\ request'[w].current = r.current
    BY <1>1, <1>2 DEF TypeOK, Request
  <1>4. \A p \in Path : Current(p) = counts[p]
    BY DEF HighestIsLatest
  <1>5. ASSUME NEW s
        PROVE  Checked(r, s)' = With(r, s)
    <2>1. Files(s, Path \ {r.path}, [p \in Path |-> Current(p)])
          = Files(s, Path \ {r.path}, counts)
      BY <1>4
    <2>2. Checked(r, s)' = Files(s, Path \ {r.path}, counts)
              \cup (IF r.document.deleted \/ s \notin r.document.services THEN {}
                    ELSE {File(r.path, r.document.content)})
      BY <1>1, <1>3 DEF Checked, Files, Loads, File
    <2> QED
      BY <2>1, <2>2 DEF With
  <1>6. Affected(r)' = Affected(r)
    BY <1>1, <1>3 DEF Affected
  <1>7. \A p \in Path : counts[p] <= Len(docs[p])
    BY DEF TypeOK
  <1> QED
    BY <1>1, <1>2, <1>3, <1>5, <1>6, <1>7

LEMMA WriterHasCheckedStep ==
    ASSUME FlagsInv, WriterHasChecked, [Next]_vars
    PROVE  WriterHasChecked'
  <1> USE DEF FlagsInv
  <1> SUFFICES ASSUME NEW u \in Writer, pc'[u] = "create"
               PROVE  /\ \A p \in Path : request'[u].checked[p] <= Len(docs'[p])
                      /\ \A s \in Affected(request[u])' : Sound(Checked(request[u], s)')
    BY DEF WriterHasChecked, Sound, Named
  <1>1. CASE pc'[u] = pc[u] /\ request'[u] = request[u]
    <2>1. /\ \A p \in Path : request[u].checked[p] <= Len(docs[p])
          /\ \A s \in Affected(request[u]) : Sound(Checked(request[u], s))
      BY <1>1 DEF WriterHasChecked
    <2>2. ASSUME NEW p \in Path PROVE request'[u].checked[p] <= Len(docs'[p])
      <3>1. docs[p] \in Seq(Document) /\ docs'[p] \in Seq(Document)
            /\ request[u].checked[p] \in Nat
        BY NextType DEF TypeOK, Request
      <3>2. Len(docs[p]) \in Nat /\ Len(docs'[p]) \in Nat
        BY <3>1
      <3> QED
        BY <1>1, <2>1, <3>1, <3>2, Growth
    <2>3. ASSUME NEW s \in Affected(request[u])'
          PROVE  Sound(Checked(request[u], s)')
      BY <1>1, <2>1, CheckedKept
    <2> QED
      BY <2>2, <2>3
  <1>2. CASE CheckIntegrity(u)
    BY <1>2, CheckIsMade
  <1>3. ASSUME NEW w \in Writer,
               Put(w) \/ Rollback(w) \/ Delete(w) \/ Step(w) \/ Crash(w) \/ LostAnswer(w)
        PROVE  CheckIntegrity(u) \/ (pc'[u] = pc[u] /\ request'[u] = request[u])
    <2>1. CASE w # u
      BY <1>3, <2>1, OtherWriters
    <2>2. CASE w = u
      BY <1>3, <2>2 DEF TypeOK, Put, Rollback, Delete, Ask, Step, ReadHistory,
           CheckDestinations, CheckIntegrity, Publish, ScanLatest, ClearOne, Published,
           Crash, LostAnswer, Goto, Refuse
    <2> QED
      BY <2>1, <2>2
  <1>4. CASE UNCHANGED vars \/ Refresh \/ Report
    BY <1>1, <1>4 DEF vars, Refresh, Report
  <1> QED
    BY <1>1, <1>2, <1>3, <1>4 DEF Next

LEMMA StoredFiles ==
    ASSUME NEW s
    PROVE  /\ Stored(s) = {File(p, docs[p][Len(docs[p])].content) :
                               p \in {q \in Path : Loads(s, q, Len(docs[q]))}}
           /\ Stored(s)' = {File(p, docs'[p][Len(docs'[p])].content) :
                               p \in {q \in Path : Loads(s, q, Len(docs[q]))'}}
  <1> DEFINE at == [p \in Path |-> Len(docs[p])]
  <1>1. Stored(s) = Files(s, Path, at) /\ Stored(s)' = Files(s, Path, at)'
    BY DEF Stored
  <1>2. \A p \in Path : at[p] = Len(docs[p]) /\ at'[p] = Len(docs'[p])
    OBVIOUS
  <1> HIDE DEF at
  <1> QED
    BY <1>1, <1>2 DEF Files, Loads

\* A version written while the other paths are as they were checked.
LEMMA CreateIsSound ==
    ASSUME IInv, NEW w \in Writer, pc[w] = "create", Create(w), ~raced', NEW s \in Service
    PROVE  Sound(Stored(s)')
  <1> USE DEF IInv, FlagsInv
  <1> DEFINE r == request[w]
             n == Len(docs[r.path])
  <1>1. /\ r \in Request /\ r.path \in Path /\ r.document \in Document
        /\ r.checked \in [Path -> Nat] /\ r.current \in Nat
    BY DEF TypeOK, Request
  <1>2. docs[r.path] \in Seq(Document) /\ n \in Nat
    BY <1>1 DEF TypeOK
  <1>3. /\ docs' = [docs EXCEPT ![r.path] = Append(@, r.document)]
        /\ Len(docs'[r.path]) = n + 1 /\ r.current = n
    BY CreateType
  <1>4. docs'[r.path][n + 1] = r.document /\ \A p \in Path \ {r.path} : docs'[p] = docs[p]
    BY <1>1, <1>2, <1>3 DEF TypeOK
  <1>5. ~raced /\ \A p \in Path \ {r.path} : Len(docs[p]) = r.checked[p]
    BY DEF Create
  <1>6. Stored(s)' = Files(s, Path \ {r.path}, r.checked)
            \cup (IF r.document.deleted \/ s \notin r.document.services THEN {}
                  ELSE {File(r.path, r.document.content)})
    <2>1. Stored(s)' = {File(p, docs'[p][Len(docs'[p])].content) :
              p \in {q \in Path : Loads(s, q, Len(docs[q]))'}}
      BY StoredFiles
    <2>2. ASSUME NEW p \in Path \ {r.path}
          PROVE  /\ docs'[p][Len(docs'[p])] = docs[p][r.checked[p]]
                 /\ Loads(s, p, Len(docs[p]))' <=> Loads(s, p, r.checked[p])
      BY <1>4, <1>5 DEF Loads
    <2>3. ASSUME NEW q, q = r.path
          PROVE  Loads(s, q, Len(docs[q]))'
                 <=> ~(r.document.deleted \/ s \notin r.document.services)
      <3>1. n + 1 > 0
        BY <1>2
      <3>2. Len(docs'[q]) = n + 1 /\ docs'[q][n + 1] = r.document
        BY <1>3, <1>4, <2>3
      <3> QED
        BY <3>1, <3>2 DEF Loads
    <2>4. docs'[r.path][Len(docs'[r.path])].content = r.document.content
      BY <1>3, <1>4
    <2> QED
      BY <1>1, <2>1, <2>2, <2>3, <2>4 DEF Files, File
  <1>7. CASE s \in Affected(r)
    BY <1>6, <1>7 DEF WriterHasChecked, Checked
  <1>8. CASE s \notin Affected(r)
    <2>1. r.document.deleted \/ s \notin r.document.services
      BY <1>8 DEF Affected
    <2>2. ~Loads(s, r.path, n)
      BY <1>3, <1>8 DEF Affected, Loads
    <2>3. Stored(s) = Files(s, Path \ {r.path}, r.checked)
      BY <1>1, <1>5, <2>2 DEF Stored, Files, File
    <2>4. Sound(Stored(s))
      BY <1>5 DEF IntegrityButRaces, NoDanglingReference
    <2> QED
      BY <1>6, <2>1, <2>3, <2>4
  <1> QED
    BY <1>7, <1>8

LEMMA IntegrityStep ==
    ASSUME IInv, [Next]_vars
    PROVE  IInv'
  <1> USE DEF IInv
  <1>1. FlagsInv' /\ WriterHasChecked'
    BY FlagsStep, WriterHasCheckedStep
  <1>2. CASE UNCHANGED <<docs, raced>>
    <2>1. ASSUME NEW s \in Service, Sound(Stored(s)) PROVE Sound(Stored(s))'
      <3>1. \A q \in Path : Loads(s, q, Len(docs[q]))' <=> Loads(s, q, Len(docs[q]))
        BY <1>2 DEF Loads
      <3>2. {q \in Path : Loads(s, q, Len(docs[q]))'} = {q \in Path : Loads(s, q, Len(docs[q]))}
        BY <3>1
      <3>3. docs' = docs
        BY <1>2
      <3>4. Stored(s)' = Stored(s)
        BY <3>2, <3>3, StoredFiles
      <3> QED
        BY <2>1, <3>4 DEF Sound, Named
    <2>2. NoDanglingReference => NoDanglingReference'
      BY <2>1 DEF NoDanglingReference
    <2> QED
      BY <1>1, <1>2, <2>2 DEF IntegrityButRaces
  <1>3. ASSUME NEW w \in Writer, pc[w] = "create", Create(w)
        PROVE  IntegrityButRaces'
    <2>1. ASSUME ~raced', NEW s \in Service PROVE Sound(Stored(s))'
      <3>1. Sound(Stored(s)')
        BY <1>3, <2>1, CreateIsSound
      <3> QED
        BY <3>1 DEF Sound, Named
    <2>2. CASE raced'
      BY <2>2 DEF IntegrityButRaces
    <2>3. CASE ~raced'
      <3>1. NoDanglingReference'
        BY <2>1, <2>3 DEF NoDanglingReference
      <3> QED
        BY <3>1 DEF IntegrityButRaces
    <2> QED
      BY <2>2, <2>3
  <1> QED
    BY <1>1, <1>2, <1>3, WritesAreCreates DEF FlagsInv

LEMMA IntegrityInit == Init => IInv
  <1> SUFFICES ASSUME Init PROVE IInv
    OBVIOUS
  <1>1. WriterHasChecked
    BY DEF Init, WriterHasChecked
  <1>2. ASSUME NEW s \in Service PROVE Sound(Stored(s))
    <2>1. ASSUME NEW p \in Path PROVE ~Loads(s, p, Len(docs[p]))
      <3>1. docs[p] = << >>
        BY DEF Init
      <3> QED
        BY <3>1 DEF Loads
    <2>2. Stored(s) = {}
      BY <2>1, StoredFiles
    <2> QED
      BY <2>2 DEF Sound
  <1> QED
    BY <1>1, <1>2, FlagsInit DEF IInv, IntegrityButRaces, NoDanglingReference

\* What every service loads is sound, unless another path was written between the
\* check of a writer and its write.
THEOREM Integrity == Spec => []IntegrityButRaces
  <1>1. IInv => IntegrityButRaces
    BY DEF IInv
  <1> QED
    BY <1>1, IntegrityInit, IntegrityStep, PTL DEF Spec

----------------------------------------------------------------------------
(* The destinations of the backups that have reports.                       *)

\* A tombstone has no content.
Emptied(d) == d.deleted => d.content = NoContent

TombstonesAreEmpty ==
    /\ \A p \in Path : \A v \in 1 .. Len(docs[p]) : Emptied(docs[p][v])
    /\ \A w \in Writer : Emptied(request[w].document)

\* A request has the destination of the version before for the backups it knows of.
KeepsDestinations(r) ==
    \A n \in DOMAIN Defines[r.document.content] :
        n \in r.known => /\ n \in DOMAIN Previous(r)
                         /\ Previous(r)[n] = Defines[r.document.content][n]

\* A writer past the check of the destinations keeps those of the reports of its start.
WriterKeepsDestinations ==
    \A w \in Writer :
        /\ request[w].known \subseteq reports
        /\ pc[w] \in {"integrity", "create"} => KeepsDestinations(request[w])

KeptInv == FlagsInv /\ TombstonesAreEmpty /\ WriterKeepsDestinations

\* A set of versions has a highest one.
LEMMA Highest ==
    ASSUME NEW k \in Nat, NEW S \in SUBSET (1 .. k), S # {}
    PROVE  \E m \in S : \A n \in S : n <= m
  <1> DEFINE above(n) == n + 1 .. k
             T == {above(n) : n \in S}
  <1>1. T \subseteq FiniteSubsetsOf(Nat) /\ T # {}
    <2>1. ASSUME NEW n \in S PROVE above(n) \in FiniteSubsetsOf(Nat)
      <3>1. IsFiniteSet(above(n))
        BY FS_Interval
      <3> QED
        BY <3>1 DEF FiniteSubsetsOf
    <2> QED
      BY <2>1
  <1>2. PICK I \in T : \A J \in T : <<J, I>> \notin StrictSubsetOrdering(Nat)
    <2>1. IsWellFoundedOn(StrictSubsetOrdering(Nat), FiniteSubsetsOf(Nat))
      BY FS_StrictSubsetOrderingWellFounded
    <2> QED
      BY <1>1, <2>1, WFMin
  <1>3. PICK m \in S : I = above(m)
    OBVIOUS
  <1>4. ASSUME NEW n \in S, m < n PROVE FALSE
    <2>1. above(n) \in T /\ above(n) \subseteq I /\ n \in I \ above(n)
      BY <1>3, <1>4
    <2>2. above(n) \in SUBSET Nat /\ I \in SUBSET Nat
      BY <1>3
    <2> QED
      BY <1>2, <2>1, <2>2 DEF StrictSubsetOrdering
  <1> QED
    BY <1>4

\* What a writer has read of its path stays.
LEMMA PreviousKept ==
    ASSUME TypeOK, WriterIsPast, [Next]_vars, NEW w \in Writer,
           request'[w].path = request[w].path, request'[w].current = request[w].current
    PROVE  Previous(request[w])' = Previous(request[w])
  <1> DEFINE r == request[w]
             live == {v \in 1 .. r.current : ~docs[r.path][v].deleted}
             top == CHOOSE v \in live : \A u \in live : u <= v
  <1>1. r.path \in Path /\ r.current \in Nat /\ r.current <= Len(docs[r.path])
        /\ Len(docs[r.path]) \in Nat
    <2>1. r.path \in Path /\ r.current \in Nat
      BY DEF TypeOK, Request
    <2>2. docs[r.path] \in Seq(Document)
      BY <2>1 DEF TypeOK
    <2> QED
      BY <2>1, <2>2 DEF WriterIsPast
  <1>2. \A v \in 1 .. r.current : docs'[r.path][v] = docs[r.path][v]
    BY <1>1, Growth
  <1>3. {v \in 1 .. r.current : ~docs'[r.path][v].deleted} = live
    BY <1>2
  <1>4. CASE live = {}
    BY <1>3, <1>4 DEF Previous
  <1>5. CASE live # {}
    <2>1. top \in live
      <3>1. \E v \in live : \A u \in live : u <= v
        BY <1>1, <1>5, Highest
      <3> QED
        BY <3>1
    <2>2. docs'[r.path][top] = docs[r.path][top]
      BY <1>2, <2>1
    <2>3. Previous(r) = Defines[docs[r.path][top].content]
      BY <1>5 DEF Previous
    <2>4. Previous(r)' = Defines[docs'[r.path][top].content]
      BY <1>3, <1>5 DEF Previous
    <2> QED
      BY <2>2, <2>3, <2>4
  <1> QED
    BY <1>4, <1>5

LEMMA TombstonesStep ==
    ASSUME TypeOK, TombstonesAreEmpty, [Next]_vars
    PROVE  TombstonesAreEmpty'
  <1>1. ASSUME NEW w \in Writer PROVE Emptied(request'[w].document)
    <2>0. request[w] \in Request /\ Emptied(request[w].document)
      BY DEF TypeOK, TombstonesAreEmpty
    <2>1. CASE request'[w].document = request[w].document
      BY <2>0, <2>1
    <2>2. CASE request'[w] = Nothing
      BY <2>2 DEF Nothing, NoDocument, Emptied
    <2>3. ASSUME NEW p \in Path, NEW d \in Document, NEW b \in Base(p), Emptied(d), Ask(w, p, d, b)
          PROVE  Emptied(request'[w].document)
      BY <2>3 DEF Ask, Nothing, TypeOK
    <2>4. CASE Put(w)
      <3>1. PICK p \in Path, c \in Content, tags \in Tags : \E b \in Base(p) :
                Ask(w, p, [content |-> c, services |-> tags, deleted |-> FALSE], b)
        BY <2>4 DEF Put
      <3>2. [content |-> c, services |-> tags, deleted |-> FALSE] \in Document
        BY ConfigStoreAssumption, TagsType DEF Contents
      <3> QED
        BY <2>3, <3>1, <3>2 DEF Emptied
    <2>5. CASE Rollback(w)
      <3>1. PICK p \in Path : \E v \in DOMAIN docs[p] : \E b \in Base(p) :
                Ask(w, p, docs[p][v], b)
        BY <2>5 DEF Rollback
      <3>2. DOMAIN docs[p] = 1 .. Len(docs[p])
        BY DEF TypeOK
      <3> QED
        BY <2>3, <3>1, <3>2, DocumentType DEF TombstonesAreEmpty
    <2>6. CASE Delete(w)
      <3>1. PICK p \in Path : \E b \in Base(p) :
                /\ index[p].count > 0
                /\ Ask(w, p, [content |-> NoContent,
                              services |-> docs[p][index[p].count].services,
                              deleted |-> TRUE], b)
        BY <2>6 DEF Delete
      <3>2. index[p].count \in 1 .. Len(docs[p])
        BY <3>1 DEF TypeOK, View
      <3>3. docs[p][index[p].count].services \in SUBSET Service
        BY <3>2, DocumentType DEF Document
      <3>4. [content |-> NoContent, services |-> docs[p][index[p].count].services,
             deleted |-> TRUE] \in Document
        BY <3>3, TagsType DEF Contents
      <3> QED
        BY <2>3, <3>1, <3>4 DEF Emptied
    <2>7. ASSUME NEW u \in Writer, Step(u) \/ Crash(u) \/ LostAnswer(u)
          PROVE  request'[w].document = request[w].document \/ request'[w] = Nothing
      <3>1. CASE u # w
        BY <2>7, <3>1, OtherWriters
      <3>2. CASE u = w /\ Step(w)
        <4>1. \/ UNCHANGED request \/ Refuse(w) \/ \E n, k :
                  \/ request' = [request EXCEPT ![w].current = n, ![w].base = k]
                  \/ request' = [request EXCEPT ![w].checked = n]
                  \/ request' = [request EXCEPT ![w].todo = n]
          BY <3>2 DEF Step, ReadHistory, CheckDestinations, CheckIntegrity, Publish,
               ScanLatest, ClearOne, Published
        <4>2. request \in [Writer -> Request]
          BY DEF TypeOK
        <4>3. CASE UNCHANGED request \/ Refuse(w)
          BY <4>2, <4>3 DEF Refuse
        <4>4. CASE \E n, k : request' = [request EXCEPT ![w].current = n, ![w].base = k]
          BY <2>0, <4>2, <4>4 DEF Request
        <4>5. CASE \E n : request' = [request EXCEPT ![w].checked = n]
          BY <2>0, <4>2, <4>5 DEF Request
        <4>6. CASE \E n : request' = [request EXCEPT ![w].todo = n]
          BY <2>0, <4>2, <4>6 DEF Request
        <4> QED
          BY <4>1, <4>3, <4>4, <4>5, <4>6
      <3>3. CASE u = w /\ (Crash(w) \/ LostAnswer(w))
        BY <3>3 DEF Crash, LostAnswer, Refuse, TypeOK
      <3> QED
        BY <2>7, <3>1, <3>2, <3>3
    <2>8. CASE UNCHANGED vars \/ Refresh \/ Report
      BY <2>1, <2>8 DEF vars, Refresh, Report
    <2>9. ASSUME NEW u \in Writer, u # w, Put(u) \/ Rollback(u) \/ Delete(u)
          PROVE  request'[w] = request[w]
      BY <2>9, OtherWriters
    <2> QED
      BY <2>1, <2>2, <2>4, <2>5, <2>6, <2>7, <2>8, <2>9 DEF Next
  <1>2. ASSUME NEW p \in Path, NEW v \in 1 .. Len(docs'[p])
        PROVE  Emptied(docs'[p][v])
    <2>1. CASE docs' = docs
      BY <2>1 DEF TombstonesAreEmpty
    <2>2. ASSUME NEW w \in Writer, Create(w)
          PROVE  Emptied(docs'[p][v])
      <3>1. /\ docs' = [docs EXCEPT ![request[w].path] = Append(@, request[w].document)]
            /\ docs[p] \in Seq(Document) /\ request[w].document \in Document
        BY <2>2, CreateType DEF TypeOK, Request
      <3>2. docs'[p] = docs[p] \/ docs'[p] = Append(docs[p], request[w].document)
        BY <3>1 DEF TypeOK
      <3>3. docs'[p][v] = request[w].document
            \/ (v \in 1 .. Len(docs[p]) /\ docs'[p][v] = docs[p][v])
        BY <3>1, <3>2
      <3> QED
        BY <3>3 DEF TombstonesAreEmpty
    <2> QED
      BY <2>1, <2>2, WritesAreCreates
  <1> QED
    BY <1>1, <1>2 DEF TombstonesAreEmpty

\* A writer that moves past the check of the destinations has made it, or deletes.
LEMMA DestinationsChecked ==
    ASSUME FlagsInv, TombstonesAreEmpty, WriterKeepsDestinations, NEW w \in Writer, Step(w),
           pc'[w] \in {"integrity", "create"}
    PROVE  KeepsDestinations(request[w])'
  <1> DEFINE r == request[w]
  <1>0. r \in Request /\ r.document \in Document
    BY DEF FlagsInv, TypeOK, Request
  <1>1. CASE CheckDestinations(w) /\ DestinationKept(r)
    <2>1. request' = request /\ docs' = docs
      BY <1>1 DEF CheckDestinations, Refuse, Goto, FlagsInv, TypeOK, store
    <2>2. KeepsDestinations(r)
      BY <1>1 DEF WriterKeepsDestinations, DestinationKept, KeepsDestinations
    <2> QED
      BY <2>1, <2>2 DEF KeepsDestinations, Previous
  <1>2. CASE ReadHistory(w)
    <2>1. /\ request'[w] = [r EXCEPT !.current = index[r.path].count, !.base = NoBase]
          /\ r.document.deleted
      BY <1>2 DEF ReadHistory, Goto, Refuse, FlagsInv, TypeOK
    <2>2. request'[w].document.content = NoContent
      BY <1>0, <2>1 DEF TombstonesAreEmpty, Emptied, Request
    <2> QED
      BY <2>2, ConfigStoreAssumption DEF KeepsDestinations
  <1>3. CASE CheckIntegrity(w)
    <2>1. /\ request'[w].path = r.path /\ request'[w].current = r.current
          /\ request'[w].document = r.document /\ request'[w].known = r.known
          /\ docs' = docs /\ pc[w] = "integrity"
      BY <1>0, <1>3 DEF CheckIntegrity, Goto, Refuse, FlagsInv, TypeOK, Request, store
    <2>2. Previous(r)' = Previous(r)
      BY <2>1 DEF Previous
    <2>3. KeepsDestinations(r)
      BY <2>1 DEF WriterKeepsDestinations
    <2> QED
      BY <2>1, <2>2, <2>3 DEF KeepsDestinations
  <1>4. CheckDestinations(w) => DestinationKept(r)
    BY DEF CheckDestinations, Refuse, FlagsInv, TypeOK
  <1> QED
    BY <1>1, <1>2, <1>3, <1>4 DEF Step, Publish, ScanLatest, ClearOne, Published, Goto, Refuse,
       FlagsInv, TypeOK

LEMMA DestinationsStep ==
    ASSUME KeptInv, [Next]_vars
    PROVE  KeptInv'
  <1> USE DEF KeptInv
  <1>1. FlagsInv' /\ TombstonesAreEmpty' /\ TypeOK /\ WriterIsPast
    BY FlagsStep, TombstonesStep DEF FlagsInv
  <1>2. reports \subseteq reports'
    BY DEF vars, store, Next, Report, Put, Rollback, Delete, Ask, Step, ReadHistory,
           CheckDestinations, CheckIntegrity, Publish, ScanLatest, ClearOne, Published,
           Refresh, Crash, LostAnswer
  <1>3. ASSUME NEW u \in Writer
        PROVE  /\ request'[u].known \subseteq reports'
               /\ pc'[u] \in {"integrity", "create"} => KeepsDestinations(request[u])'
    <2>0. request[u] \in Request /\ request[u].known \subseteq reports
      BY <1>1 DEF TypeOK, WriterKeepsDestinations
    <2>1. CASE pc'[u] = pc[u] /\ request'[u] = request[u]
      <3>1. Previous(request[u])' = Previous(request[u])
        BY <1>1, <2>1, PreviousKept
      <3> QED
        BY <1>2, <2>0, <2>1, <3>1 DEF KeepsDestinations, WriterKeepsDestinations
    <2>2. CASE Put(u) \/ Rollback(u) \/ Delete(u)
      <3>1. ASSUME NEW p, NEW d, NEW b, Ask(u, p, d, b)
            PROVE  pc'[u] = "history" /\ request'[u].known = reports
        BY <1>1, <3>1 DEF Ask, Nothing, TypeOK
      <3>2. pc'[u] = "history" /\ request'[u].known = reports
        BY <2>2, <3>1 DEF Put, Rollback, Delete
      <3> QED
        BY <1>2, <3>2
    <2>3. CASE Step(u)
      <3>1. request'[u].known = request[u].known \/ request'[u] = Nothing
        BY <1>1, <2>0, <2>3 DEF TypeOK, Request, Step, ReadHistory, CheckDestinations,
             CheckIntegrity, Publish, ScanLatest, ClearOne, Published, Refuse
      <3>2. Nothing.known = {}
        BY DEF Nothing
      <3> QED
        BY <1>2, <2>0, <2>3, <3>1, <3>2, DestinationsChecked
    <2>4. CASE Crash(u) \/ LostAnswer(u)
      <3>1. pc'[u] = "idle" /\ request'[u] = Nothing
        BY <1>1, <2>4 DEF Crash, LostAnswer, Refuse, TypeOK
      <3> QED
        BY <3>1 DEF Nothing
    <2>5. CASE UNCHANGED vars \/ Refresh \/ Report
      BY <2>1, <2>5 DEF vars, Refresh, Report
    <2> QED
      BY <1>1, <2>1, <2>2, <2>3, <2>4, <2>5, OtherWriters DEF Next
  <1> QED
    BY <1>1, <1>3 DEF WriterKeepsDestinations

LEMMA DestinationsInit == Init => KeptInv
  <1> SUFFICES ASSUME Init PROVE KeptInv
    OBVIOUS
  <1>1. TombstonesAreEmpty
    <2>1. \A p \in Path : docs[p] = << >>
      BY DEF Init
    <2>2. ASSUME NEW p \in Path PROVE 1 .. Len(docs[p]) = {}
      <3>1. Len(docs[p]) = 0
        BY <2>1
      <3> QED
        BY <3>1
    <2>3. \A w \in Writer : ~request[w].document.deleted
      BY DEF Init, Nothing, NoDocument
    <2> QED
      BY <2>2, <2>3 DEF TombstonesAreEmpty, Emptied
  <1>2. WriterKeepsDestinations
    BY DEF Init, WriterKeepsDestinations, Nothing
  <1> QED
    BY <1>1, <1>2, FlagsInit DEF KeptInv

\* The version a writer writes has, for the backups it knows of, the destination of the
\* highest version that defines them: what is above is deleted.
LEMMA WriteKeeps ==
    ASSUME KeptInv, NEW w \in Writer, pc[w] = "create", Create(w),
           NEW n \in request[w].known, n \in DOMAIN Defines[request[w].document.content]
    PROVE  LET p == request[w].path IN
           \E v \in Defining(p, n) :
               /\ \A u \in Defining(p, n) : u <= v
               /\ Defines[docs[p][v].content][n] = Defines[request[w].document.content][n]
  <1> USE DEF KeptInv, FlagsInv
  <1> DEFINE r == request[w]
             p == r.path
             live == {v \in 1 .. r.current : ~docs[p][v].deleted}
             top == CHOOSE v \in live : \A u \in live : u <= v
  <1>1. p \in Path /\ r.current \in Nat /\ r.current = Len(docs[p])
        /\ DOMAIN docs[p] = 1 .. r.current
    <2>1. p \in Path /\ r.current \in Nat
      BY DEF TypeOK, Request
    <2> QED
      BY <2>1, CreateType DEF TypeOK
  <1>2. n \in DOMAIN Previous(r) /\ Previous(r)[n] = Defines[r.document.content][n]
    BY DEF WriterKeepsDestinations, KeepsDestinations
  <1>3. live # {}
    BY <1>2, ConfigStoreAssumption DEF Previous
  <1>4. top \in live /\ \A u \in live : u <= top
    <2>1. \E v \in live : \A u \in live : u <= v
      BY <1>1, <1>3, Highest
    <2> QED
      BY <2>1
  <1>5. Previous(r) = Defines[docs[p][top].content]
    BY <1>3 DEF Previous
  <1>6. top \in Defining(p, n)
    BY <1>1, <1>2, <1>4, <1>5 DEF Defining
  <1>7. ASSUME NEW u \in Defining(p, n) PROVE u <= top
    <2>1. u \in 1 .. Len(docs[p]) /\ n \in DOMAIN Defines[docs[p][u].content]
      BY <1>1 DEF Defining
    <2>2. docs[p][u].content # NoContent
      BY <2>1, ConfigStoreAssumption
    <2>3. ~docs[p][u].deleted
      BY <1>1, <2>1, <2>2 DEF TombstonesAreEmpty, Emptied
    <2> QED
      BY <1>1, <1>4, <2>1, <2>3
  <1> QED
    BY <1>2, <1>5, <1>6, <1>7

\* A backup that had reports when a writer started keeps its destination, and its path, in
\* what that writer writes.
THEOREM Destinations == Spec => ReportedBackupStays
  <1>1. ASSUME KeptInv, [Next]_vars, NEW w \in Writer, pc[w] = "create", pc'[w] # "create",
               docs'[request[w].path] # docs[request[w].path]
        PROVE  Create(w)
    <2>1. TypeOK
      BY <1>1 DEF KeptInv, FlagsInv
    <2>2. CASE Step(w) \/ Crash(w) \/ LostAnswer(w)
      BY <1>1, <2>2 DEF Step, ReadHistory, CheckDestinations, CheckIntegrity, Publish,
           ScanLatest, ClearOne, Published, Crash, LostAnswer, store
    <2>3. CASE Put(w) \/ Rollback(w) \/ Delete(w)
      BY <1>1, <2>3 DEF Put, Rollback, Delete, Ask
    <2>4. CASE UNCHANGED vars \/ Refresh \/ Report
      BY <1>1, <2>4 DEF vars, Refresh, Report
    <2> QED
      BY <1>1, <2>1, <2>2, <2>3, <2>4, OtherWriters DEF Next
  <1>2. ASSUME KeptInv, [Next]_vars
        PROVE  \A w \in Writer : LET p == request[w].path IN
                   pc[w] = "create" /\ pc'[w] # "create" /\ docs'[p] # docs[p]
                   => \A n \in request[w].known :
                          n \in DOMAIN Defines[request[w].document.content]
                          => \E v \in Defining(p, n) :
                                 /\ \A u \in Defining(p, n) : u <= v
                                 /\ Defines[docs[p][v].content][n]
                                    = Defines[request[w].document.content][n]
    BY <1>1, <1>2, WriteKeeps
  <1> QED
    BY <1>2, DestinationsInit, DestinationsStep, PTL DEF Spec, ReportedBackupStays

----------------------------------------------------------------------------
(* ConfigRefresh.                                                           *)

\* A collector runs, and rejects, versions that are in the index, for its service.
Found(s, x) == x[2] \in DOMAIN docs[x[1]] /\ s \in docs[x[1]][x[2]].services

\* The paths the first search left out were not of the service when it was made.
LeftOut ==
    \A s \in Watched : Reading(s) => \A p \in Path :
        /\ begun[s][p] <= index[p].count
        /\ p \notin candidates[s] => ~Loads(s, p, begun[s][p])

\* The last version shown is flagged for a search.
ShownIsFlagged == \A p \in Path : index[p].count > 0 => index[p].count \in index[p].latest

RefreshInv == FlagsInv /\ ShownIsFlagged /\ RefreshTypeOK /\ LeftOut

----------------------------------------------------------------------------
(* What a step of the store, or of a collector, leaves as it was.           *)

LEMMA StoreGrows ==
    ASSUME TypeOK, [Next]_vars, NEW p \in Path
    PROVE  /\ index[p].count <= index'[p].count
           /\ \A v \in 1 .. Len(docs[p]) : v \in DOMAIN docs'[p] /\ docs'[p][v] = docs[p][v]
  <1>1. /\ Len(docs[p]) <= Len(docs'[p]) /\ Len(docs[p]) \in Nat
        /\ \A v \in 1 .. Len(docs[p]) : docs'[p][v] = docs[p][v]
    BY Growth DEF TypeOK
  <1>2. docs'[p] \in Seq(Document)
    BY NextType DEF TypeOK
  <1>3. index' = index \/ index' = [q \in Path |-> [count |-> Len(docs[q]), latest |-> latest[q]]]
    BY DEF Next, vars, store, Put, Rollback, Delete, Ask, Step, ReadHistory, CheckDestinations,
       CheckIntegrity, Publish, ScanLatest, ClearOne, Published, Refresh, Report, Crash,
       LostAnswer
  <1>4. index[p].count <= Len(docs[p]) /\ index[p].count \in Nat
    BY DEF TypeOK, View
  <1>5. index[p].count <= index'[p].count
    BY <1>1, <1>3, <1>4
  <1> QED
    BY <1>1, <1>2, <1>5

LEMMA Shown ==
    ASSUME TypeOK, NEW p \in Path
    PROVE  /\ index[p].count \in Nat /\ Len(docs[p]) \in Nat
           /\ index[p].count <= Len(docs[p]) /\ DOMAIN docs[p] = 1 .. Len(docs[p])
           /\ \A v \in index[p].latest : v \in 1 .. index[p].count
  BY DEF TypeOK, View

LEMMA SourcesFound ==
    ASSUME TypeOK, HighestIsLatest, RefreshTypeOK, NEW s \in Watched
    PROVE  /\ Sources(s) \in Fingerprint
           /\ \A x \in Sources(s) : Found(s, x)
  <1> SUFFICES ASSUME NEW x \in Sources(s)
               PROVE  x \in Path \X Nat /\ Found(s, x)
    BY DEF Fingerprint
  <1>1. PICK p \in candidates[s] : Loads(s, p, Newest(s, p)) /\ x = <<p, Newest(s, p)>>
    BY DEF Sources
  <1>2. p \in Path /\ Newest(s, p) = index[p].count
    BY DEF RefreshTypeOK, HighestIsLatest, Newest
  <1>3. index[p].count > 0 /\ s \in docs[p][index[p].count].services
    BY <1>1, <1>2 DEF Loads
  <1>4. index[p].count \in DOMAIN docs[p] /\ index[p].count \in Nat
    BY <1>2, <1>3, Shown
  <1> QED
    BY <1>1, <1>2, <1>3, <1>4 DEF Found

\* What a refresh shows has the flag of its last version.
LEMMA ShownStays ==
    ASSUME FlagsInv, ShownIsFlagged, [Next]_vars
    PROVE  ShownIsFlagged'
  <1>1. CASE UNCHANGED index
    BY <1>1 DEF ShownIsFlagged
  <1>2. CASE Refresh
    <2> SUFFICES ASSUME NEW p \in Path, index'[p].count > 0
                 PROVE  index'[p].count \in index'[p].latest
      BY DEF ShownIsFlagged
    <2>1. index'[p].count = Len(docs[p]) /\ index'[p].latest = latest[p]
      BY <1>2 DEF Refresh
    <2>2. docs[p] # << >>
      BY <2>1
    <2> QED
      BY <2>1, <2>2 DEF FlagsInv, HighestIsLatest
  <1> QED
    BY <1>1, <1>2 DEF vars, Next, Report, Put, Rollback, Delete, Ask, Step, ReadHistory,
       CheckDestinations, CheckIntegrity, Publish, ScanLatest, ClearOne, Published, Crash,
       LostAnswer, store

\* A fault of a collector leaves the store as it was.
LEMMA FlagsAfterFault ==
    ASSUME FlagsInv, Fault, UNCHANGED <<store, pc, request, reports, raced, requests>>
    PROVE  FlagsInv'
  <1>1. faults' \in 0 .. MaxFaults
    BY ConfigStoreAssumption DEF FlagsInv, TypeOK, Fault
  <1> QED
    BY <1>1 DEF FlagsInv, TypeOK, HighestIsLatest, Current, WriterIsPast, store

----------------------------------------------------------------------------
(* The invariant.                                                           *)

LEMMA RefreshInitInv == RefreshInit => RefreshInv
  <1> SUFFICES ASSUME RefreshInit
               PROVE  RefreshInv
    OBVIOUS
  <1>1. FlagsInv
    BY FlagsInit DEF RefreshInit
  <1>2. RefreshTypeOK
    BY DEF RefreshInit, RefreshTypeOK, Process, Fingerprint
  <1>3. LeftOut
    BY DEF RefreshInit, LeftOut, Reading
  <1>4. ShownIsFlagged
    BY DEF RefreshInit, Init, ShownIsFlagged
  <1> QED
    BY <1>1, <1>2, <1>3, <1>4 DEF RefreshInv

\* A step of the store.
LEMMA StoreStep ==
    ASSUME RefreshInv, [Next]_vars, UNCHANGED collector
    PROVE  RefreshInv'
  <1> USE DEF RefreshInv
  <1>1. FlagsInv' /\ ShownIsFlagged' /\ TypeOK
    BY FlagsStep, ShownStays DEF FlagsInv
  <1>2. UNCHANGED <<process, candidates, running, rejected, begun>>
    BY DEF collector
  <1>3. RefreshTypeOK'
    <2>1. ASSUME NEW s \in Watched, NEW x \in running[s] \cup rejected[s]
          PROVE  x[2] \in DOMAIN docs'[x[1]] /\ s \in docs'[x[1]][x[2]].services
      <3>1. x[1] \in Path /\ x[2] \in DOMAIN docs[x[1]] /\ s \in docs[x[1]][x[2]].services
        BY DEF RefreshTypeOK, Fingerprint
      <3>2. x[2] \in 1 .. Len(docs[x[1]])
        BY <1>1, <3>1, Shown
      <3> QED
        BY <1>1, <3>1, <3>2, StoreGrows
    <2> QED
      BY <1>2, <2>1 DEF RefreshTypeOK
  <1>4. LeftOut'
    <2> SUFFICES ASSUME NEW s \in Watched, Reading(s), NEW p \in Path
                 PROVE  /\ begun[s][p] <= index'[p].count
                        /\ p \notin candidates[s] => ~Loads(s, p, begun[s][p])'
      BY <1>2 DEF LeftOut, Reading
    <2>1. /\ begun[s][p] <= index[p].count /\ begun[s][p] \in Nat
          /\ p \notin candidates[s] => ~Loads(s, p, begun[s][p])
      BY DEF LeftOut, RefreshTypeOK
    <2>2. index[p].count <= index'[p].count /\ index'[p].count \in Nat
      BY <1>1, StoreGrows DEF FlagsInv, TypeOK, View
    <2>3. begun[s][p] <= index'[p].count
      BY <1>1, <2>1, <2>2, Shown
    <2>4. begun[s][p] > 0 => docs'[p][begun[s][p]] = docs[p][begun[s][p]]
      BY <1>1, <2>1, Shown, StoreGrows
    <2> QED
      BY <1>2, <2>1, <2>3, <2>4 DEF Loads
  <1> QED
    BY <1>1, <1>3, <1>4

LEMMA CollectorKeeps ==
    ASSUME RefreshInv, NEW s \in Watched,
           CollectorStep(s) \/ ReadError(s) \/ Restart(s)
    PROVE  RefreshInv'
  <1> USE DEF RefreshInv
  <1>1. FlagsInv'
    <2>1. CASE UNCHANGED vars
      BY <2>1, FlagsStep
    <2>2. CASE Fault /\ UNCHANGED <<store, pc, request, reports, raced, requests>>
      BY <2>2, FlagsAfterFault
    <2> QED
      BY <2>1, <2>2 DEF CollectorStep, ReadCandidates, Load, Check, ReadError, Restart
  <1>2. UNCHANGED <<docs, index>>
    BY DEF CollectorStep, ReadCandidates, Load, Check, ReadError, Restart, vars, store
  <1>3. /\ Sources(s) \in Fingerprint
        /\ \A x \in Sources(s) : x[2] \in DOMAIN docs[x[1]] /\ s \in docs[x[1]][x[2]].services
    BY SourcesFound DEF Found, FlagsInv
  <1>4. /\ process' \in [Watched -> Process]
        /\ candidates' \in [Watched -> SUBSET Path]
        /\ begun' \in [Watched -> [Path -> Nat]]
    <2>1. [p \in Path |-> index[p].count] \in [Path -> Nat]
      BY Shown DEF FlagsInv
    <2>2. process' \in [Watched -> Process]
      BY DEF CollectorStep, ReadCandidates, Load, Check, ReadError, Restart, Exit, Keep,
         RefreshTypeOK, Process
    <2>3. \/ UNCHANGED <<candidates, begun>>
          \/ /\ candidates' = [candidates EXCEPT ![s] = {p \in Path : Flagged(s, p)}]
             /\ begun' = [begun EXCEPT ![s] = [p \in Path |-> index[p].count]]
          \/ /\ candidates' = [candidates EXCEPT ![s] = {}]
             /\ begun' = [begun EXCEPT ![s] = [p \in Path |-> 0]]
      BY DEF CollectorStep, ReadCandidates, Load, Check, ReadError, Restart, EndRead
    <2>4. [p \in Path |-> 0] \in [Path -> Nat] /\ {p \in Path : Flagged(s, p)} \in SUBSET Path
      OBVIOUS
    <2>5. candidates \in [Watched -> SUBSET Path] /\ begun \in [Watched -> [Path -> Nat]]
      BY DEF RefreshTypeOK
    <2>6. candidates' \in [Watched -> SUBSET Path]
      BY <2>3, <2>4, <2>5
    <2>7. begun' \in [Watched -> [Path -> Nat]]
      BY <2>1, <2>3, <2>4, <2>5
    <2> QED
      BY <2>2, <2>6, <2>7
  <1>5. /\ running' = running \/ \E f \in {{}, Sources(s)} : running' = [running EXCEPT ![s] = f]
        /\ rejected' = rejected \/ \E f \in {{}, Sources(s)} : rejected' = [rejected EXCEPT ![s] = f]
    BY DEF CollectorStep, ReadCandidates, Load, Check, ReadError, Restart, Exit, Keep
  <1>6. RefreshTypeOK'
    <2>0. {} \in Fingerprint
      BY DEF Fingerprint
    <2>1. running' \in [Watched -> Fingerprint] /\ rejected' \in [Watched -> Fingerprint]
      <3>1. \A f \in {{}, Sources(s)} : f \in Fingerprint
        BY <1>3, <2>0
      <3>2. running \in [Watched -> Fingerprint] /\ rejected \in [Watched -> Fingerprint]
        BY DEF RefreshTypeOK
      <3>3. running' \in [Watched -> Fingerprint]
        BY <1>5, <3>1, <3>2
      <3>4. rejected' \in [Watched -> Fingerprint]
        BY <1>5, <3>1, <3>2
      <3> QED
        BY <3>3, <3>4
    <2>2. ASSUME NEW t \in Watched
          PROVE  running'[t] \cup rejected'[t]
                     \subseteq running[t] \cup rejected[t] \cup (IF t = s THEN Sources(s) ELSE {})
      BY <1>5 DEF RefreshTypeOK
    <2>3. \A t \in Watched : \A x \in running'[t] \cup rejected'[t] :
              x[2] \in DOMAIN docs'[x[1]] /\ t \in docs'[x[1]][x[2]].services
      BY <1>2, <1>3, <2>2 DEF RefreshTypeOK
    <2> QED
      BY <1>4, <2>1, <2>3 DEF RefreshTypeOK
  <1>7. LeftOut'
    <2>1. \A t \in Watched \ {s} :
              /\ process'[t] = process[t] /\ candidates'[t] = candidates[t]
              /\ begun'[t] = begun[t]
      BY DEF RefreshTypeOK, CollectorStep, ReadCandidates, Load, Check, ReadError, Restart,
         Exit, Keep, EndRead
    <2>2. CASE ReadCandidates(s)
      <3>1. /\ candidates'[s] = {p \in Path : Flagged(s, p)}
            /\ begun'[s] = [p \in Path |-> index[p].count]
        BY <2>2 DEF ReadCandidates, RefreshTypeOK
      <3>2. ASSUME NEW p \in Path, p \notin candidates'[s]
            PROVE  ~Loads(s, p, index[p].count)
        <4>1. ~Flagged(s, p)
          BY <3>1, <3>2
        <4>2. index[p].count > 0 => index[p].count \in index[p].latest
          BY DEF ShownIsFlagged
        <4> QED
          BY <4>1, <4>2 DEF Flagged, Loads
      <3>3. \A p \in Path : begun'[s][p] = index[p].count /\ index[p].count <= index[p].count
        BY <3>1, Shown DEF FlagsInv
      <3> QED
        BY <1>2, <2>1, <3>2, <3>3 DEF LeftOut, Reading, Loads
    <2>3. CASE ~Reading(s)'
      BY <1>2, <2>1, <2>3 DEF LeftOut, Reading, Loads
    <2>4. ReadCandidates(s) \/ ~Reading(s)'
      BY DEF CollectorStep, Load, Check, ReadError, Restart, Exit, Keep, Reading, RefreshTypeOK
    <2> QED
      BY <2>2, <2>3, <2>4
  <1>8. ShownIsFlagged'
    BY <1>2 DEF ShownIsFlagged
  <1> QED
    BY <1>1, <1>6, <1>7, <1>8

LEMMA RefreshStepInv == RefreshInv /\ [RefreshNext]_allVars => RefreshInv'
  <1> SUFFICES ASSUME RefreshInv, [RefreshNext]_allVars
               PROVE  RefreshInv'
    OBVIOUS
  <1>1. CASE UNCHANGED allVars
    BY <1>1, StoreStep DEF allVars
  <1>2. CASE RefreshNext
    BY <1>2, StoreStep, CollectorKeeps DEF RefreshNext
  <1> QED
    BY <1>1, <1>2

LEMMA RefreshHolds == RefreshSpec => []RefreshInv
  BY RefreshInitInv, RefreshStepInv, PTL DEF RefreshSpec

\* Every variable of the collectors keeps its type, and what a collector runs, or rejected,
\* stays in the index, for its service.
THEOREM RefreshTyping == RefreshSpec => []RefreshTypeOK
  <1>1. RefreshInv => RefreshTypeOK
    BY DEF RefreshInv
  <1> QED
    BY <1>1, RefreshHolds, PTL

\* What a collector reads in two searches is, path by path, what its service had at some
\* moment in between (current_documents).
THEOREM Reads == RefreshSpec => []ReadIsCurrent
  <1>1. ASSUME RefreshInv
        PROVE  ReadIsCurrent
    <2> SUFFICES ASSUME NEW s \in Watched, Reading(s), NEW p \in Path
                 PROVE  \E v \in begun[s][p] .. index[p].count :
                            {x \in Sources(s) : x[1] = p}
                            = IF Loads(s, p, v) THEN {<<p, v>>} ELSE {}
      BY DEF ReadIsCurrent
    <2>1. /\ begun[s][p] <= index[p].count /\ begun[s][p] \in Nat /\ index[p].count \in Nat
          /\ p \notin candidates[s] => ~Loads(s, p, begun[s][p])
      BY <1>1, Shown DEF RefreshInv, LeftOut, RefreshTypeOK, FlagsInv
    <2>2. Newest(s, p) = index[p].count
      BY <1>1 DEF RefreshInv, FlagsInv, HighestIsLatest, Newest
    <2>3. CASE p \in candidates[s]
      <3>1. {x \in Sources(s) : x[1] = p}
            = IF Loads(s, p, index[p].count) THEN {<<p, index[p].count>>} ELSE {}
        BY <2>2, <2>3 DEF Sources
      <3> QED
        BY <2>1, <3>1
    <2>4. CASE p \notin candidates[s]
      <3>1. {x \in Sources(s) : x[1] = p} = {}
        BY <2>4 DEF Sources
      <3> QED
        BY <2>1, <2>4, <3>1
    <2> QED
      BY <2>3, <2>4
  <1>2. RefreshInv => ReadIsCurrent
    BY <1>1
  <1> QED
    BY <1>2, RefreshHolds, PTL
=============================================================================
