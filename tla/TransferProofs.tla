---------------------------- MODULE TransferProofs ----------------------------
(***************************************************************************)
(* Proofs about Transfer for any documents, destinations, replicas,        *)
(* operations and faults: its typing, that what is requested is not        *)
(* forgotten, that the mirrors of a product agree, that a conflict is      *)
(* closed when they do, that what is archived is kept, and that it         *)
(* implements Mirrors.                                                     *)
(***************************************************************************)
EXTENDS Transfer, FiniteSetTheorems, WellFoundedInduction, TLAPS

\* LastOf and ArchivedReports, of any sequence of reports.
LastIn(q, d, among) ==
    LET found == {i \in among : q[i].destination = d} IN
    IF found = {} THEN 0 ELSE CHOOSE i \in found : \A j \in found : j <= i

ArchivedOf(q) ==
    {q[i] : i \in {LastIn(q, d, DOMAIN q) : d \in Destination} \ {0}}
        \cap [destination : Destination, ok : {TRUE}, md5 : Bytes, announced : BOOLEAN]

\* Report i of q is the last one of destination d.
IsLastOf(q, i, d) ==
    /\ i \in DOMAIN q /\ q[i].destination = d
    /\ \A j \in DOMAIN q : q[j].destination = d => j <= i

----------------------------------------------------------------------------
(* Sequences of reports.                                                    *)

LEMMA Greatest ==
    ASSUME NEW k \in Nat, NEW S \in SUBSET (1 .. k), S # {}
    PROVE  \E m \in S : \A n \in S : n <= m
  <1> DEFINE T == {n + 1 .. k : n \in S}
  <1>1. T \subseteq FiniteSubsetsOf(Nat) /\ T # {}
    <2>1. ASSUME NEW n \in S PROVE n + 1 .. k \in FiniteSubsetsOf(Nat)
      <3>1. IsFiniteSet(n + 1 .. k)
        BY FS_Interval
      <3> QED
        BY <3>1 DEF FiniteSubsetsOf
    <2> QED
      BY <2>1
  <1>2. PICK I \in T : \A J \in T : <<J, I>> \notin StrictSubsetOrdering(Nat)
    <2>1. IsWellFoundedOn(StrictSubsetOrdering(Nat), FiniteSubsetsOf(Nat))
      BY FS_StrictSubsetOrderingWellFounded
    <2> QED
      BY <1>1, <2>1, WFMin
  <1>3. PICK m \in S : I = m + 1 .. k
    OBVIOUS
  <1>4. ASSUME NEW n \in S, m < n PROVE FALSE
    <2>1. n + 1 .. k \in T /\ n + 1 .. k \subseteq I /\ n \in I \ (n + 1 .. k)
      BY <1>3, <1>4
    <2>2. n + 1 .. k \in SUBSET Nat /\ I \in SUBSET Nat
      BY <1>3
    <2> QED
      BY <1>2, <2>1, <2>2 DEF StrictSubsetOrdering
  <1> QED
    BY <1>4

LEMMA SeqOfSet ==
    ASSUME NEW S, IsFiniteSet(S)
    PROVE  /\ SetToSeq(S) \in Seq(S)
           /\ \A x \in S : \E i \in DOMAIN SetToSeq(S) : SetToSeq(S)[i] = x
  <1> DEFINE k == Cardinality(S)
  <1>1. k \in Nat /\ ExistsBijection(1 .. k, S)
    BY FS_CardinalityType
  <1>2. PICK g \in Bijection(1 .. k, S) : TRUE
    BY <1>1 DEF ExistsBijection
  <1>3. SetToSeq(S) \in [1 .. k -> S] /\ IsInjective(SetToSeq(S))
    <2>1. g \in [1 .. k -> S] /\ IsInjective(g)
      BY <1>2 DEF Bijection, Injection
    <2> QED
      BY <2>1 DEF SetToSeq
  <1>4. SetToSeq(S) \in Injection(1 .. k, S)
    BY <1>3 DEF Injection
  <1>5. SetToSeq(S) \in Surjection(1 .. k, S)
    <2>1. IsFiniteSet(1 .. k) /\ Cardinality(1 .. k) = k
      BY <1>1, FS_Interval
    <2> QED
      BY <1>4, <2>1, FS_Injection
  <1>6. SetToSeq(S) \in Seq(S)
    BY <1>1, <1>3
  <1> QED
    BY <1>3, <1>5, <1>6 DEF Surjection

\* Reports of the same bytes are as few as the destinations.
LEMMA FewReports ==
    ASSUME NEW S \in SUBSET Report, NEW m, NEW a,
           \A r \in S : r.md5 = m /\ r.announced = a
    PROVE  IsFiniteSet(S)
  <1> DEFINE T == (Destination \cup {NoDestination}) \X BOOLEAN
             f == [r \in S |-> <<r.destination, r.ok>>]
  <1>1. IsFiniteSet(T)
    <2>1. IsFiniteSet(Destination \cup {NoDestination})
      BY TransferAssumption, FS_AddElement
    <2>2. IsFiniteSet(BOOLEAN)
      <3>1. IsFiniteSet({TRUE} \cup {FALSE})
        BY FS_Singleton, FS_AddElement
      <3>2. {TRUE} \cup {FALSE} = BOOLEAN
        OBVIOUS
      <3> QED
        BY <3>1, <3>2
    <2> QED
      BY <2>1, <2>2, FS_Product
  <1>2. f \in [S -> T]
    BY DEF Report
  <1>3. ASSUME NEW r \in S, NEW t \in S, f[r] = f[t] PROVE r = t
    <2>1. r.destination = t.destination /\ r.ok = t.ok
      BY <1>3
    <2> QED
      BY <2>1 DEF Report
  <1>4. f \in Injection(S, T)
    BY <1>2, <1>3 DEF Injection, IsInjective
  <1> QED
    BY <1>1, <1>4, FS_Injection

LEMMA LastInIsLast ==
    ASSUME NEW q \in Seq(Report), NEW d, NEW among \in SUBSET DOMAIN q
    PROVE  LET l == LastIn(q, d, among) IN
           /\ l = 0 => \A i \in among : q[i].destination # d
           /\ l # 0 => /\ l \in among /\ q[l].destination = d
                       /\ \A i \in among : q[i].destination = d => i <= l
  <1> DEFINE found == {i \in among : q[i].destination = d}
  <1>1. CASE found = {}
    BY <1>1 DEF LastIn
  <1>2. CASE found # {}
    <2>1. DOMAIN q = 1 .. Len(q) /\ Len(q) \in Nat
      OBVIOUS
    <2>2. PICK m \in found : \A j \in found : j <= m
      BY <1>2, <2>1, Greatest
    <2>3. LastIn(q, d, among) = CHOOSE i \in found : \A j \in found : j <= i
      BY <1>2 DEF LastIn
    <2>4. LastIn(q, d, among) \in found /\ \A j \in found : j <= LastIn(q, d, among)
      BY <2>2, <2>3
    <2> QED
      BY <2>1, <2>4
  <1> QED
    BY <1>1, <1>2

LEMMA ArchivedAreLast ==
    ASSUME NEW q \in Seq(Report), NEW r
    PROVE  r \in ArchivedOf(q) <=>
               \E d \in Destination, i \in DOMAIN q :
                   IsLastOf(q, i, d) /\ q[i].ok /\ r = q[i]
  <1>0. DOMAIN q = 1 .. Len(q) /\ Len(q) \in Nat
    OBVIOUS
  <1>1. ASSUME r \in ArchivedOf(q)
        PROVE  \E d \in Destination, i \in DOMAIN q :
                   IsLastOf(q, i, d) /\ q[i].ok /\ r = q[i]
    <2>1. PICK d \in Destination : /\ LastIn(q, d, DOMAIN q) # 0
                                   /\ r = q[LastIn(q, d, DOMAIN q)]
      BY <1>1 DEF ArchivedOf
    <2>2. r.ok
      BY <1>1 DEF ArchivedOf
    <2>3. IsLastOf(q, LastIn(q, d, DOMAIN q), d)
      BY <2>1, LastInIsLast DEF IsLastOf
    <2> QED
      BY <2>1, <2>2, <2>3 DEF IsLastOf
  <1>2. ASSUME NEW d \in Destination, NEW i \in DOMAIN q,
               IsLastOf(q, i, d), q[i].ok, r = q[i]
        PROVE  r \in ArchivedOf(q)
    <2> DEFINE l == LastIn(q, d, DOMAIN q)
    <2>1. l # 0 /\ l = i
      BY <1>0, <1>2, LastInIsLast DEF IsLastOf
    <2>2. r \in [destination : Destination, ok : {TRUE}, md5 : Bytes, announced : BOOLEAN]
      <3>1. r \in Report /\ r.destination = d
        BY <1>2 DEF IsLastOf
      <3>2. r.ok = TRUE
        BY <1>2, <3>1 DEF Report
      <3> QED
        BY <3>1, <3>2 DEF Report
    <2> QED
      BY <1>2, <2>1, <2>2 DEF ArchivedOf
  <1> QED
    BY <1>1, <1>2

\* What stays archived after more reports: the new OK ones, and the old ones of the
\* destinations that no new report names.
LEMMA ArchivedAfter ==
    ASSUME NEW q \in Seq(Report), NEW a \in Seq(Report), NEW r \in ArchivedOf(q \o a)
    PROVE  \/ \E i \in DOMAIN a : a[i] = r /\ r.ok
           \/ r \in ArchivedOf(q) /\ \A i \in DOMAIN a : a[i].destination # r.destination
  <1>1. q \o a \in Seq(Report) /\ Len(q \o a) = Len(q) + Len(a)
        /\ Len(q) \in Nat /\ Len(a) \in Nat
        /\ DOMAIN q = 1 .. Len(q) /\ DOMAIN a = 1 .. Len(a)
        /\ DOMAIN (q \o a) = 1 .. Len(q) + Len(a)
    OBVIOUS
  <1>2. \A i \in DOMAIN (q \o a) : (q \o a)[i] = IF i <= Len(q) THEN q[i] ELSE a[i - Len(q)]
    OBVIOUS
  <1>3. PICK d \in Destination, i \in DOMAIN (q \o a) :
            IsLastOf(q \o a, i, d) /\ (q \o a)[i].ok /\ r = (q \o a)[i]
    BY <1>1, ArchivedAreLast
  <1> DEFINE b == q \o a
  <1>4. CASE i > Len(q)
    <2>1. i - Len(q) \in DOMAIN a /\ a[i - Len(q)] = r
      BY <1>1, <1>2, <1>3, <1>4
    <2> QED
      BY <1>3, <2>1
  <1>5. CASE i <= Len(q)
    <2>1. i \in DOMAIN q /\ r = q[i]
      BY <1>1, <1>2, <1>3, <1>5
    <2>2. ASSUME NEW j \in DOMAIN q, q[j].destination = d PROVE j <= i
      <3>1. j \in DOMAIN b /\ b[j] = q[j]
        BY <1>1, <1>2
      <3> QED
        BY <1>3, <2>2, <3>1 DEF IsLastOf
    <2>3. ASSUME NEW j \in DOMAIN a, a[j].destination = d PROVE FALSE
      <3>1. Len(q) + j \in DOMAIN b /\ b[Len(q) + j] = a[j]
        BY <1>1, <1>2
      <3>2. Len(q) + j <= i
        BY <1>3, <2>3, <3>1 DEF IsLastOf
      <3> QED
        BY <1>1, <1>5, <3>2
    <2>4. r.destination = d /\ r.ok
      BY <1>3 DEF IsLastOf
    <2>5. r \in ArchivedOf(q)
      BY <2>1, <2>2, <2>4, ArchivedAreLast DEF IsLastOf
    <2> QED
      BY <2>3, <2>4, <2>5
  <1> QED
    BY <1>1, <1>4, <1>5

LEMMA Archives ==
    \A n \in Product : ArchivedReports(n) = ArchivedOf(reports[n])
  BY DEF ArchivedReports, ArchivedOf, LastOf, LastIn

LEMMA NextArchives ==
    \A n \in Product : ArchivedReports(n)' = ArchivedOf(reports'[n])
  BY DEF ArchivedReports, ArchivedOf, LastOf, LastIn

\* What archived_state shows of a product is archived.
LEMMA ShownIsLast ==
    ASSUME NEW n \in Product, reports[n] \in Seq(Report), NEW i \in State(n)
    PROVE  \E d \in Destination : IsLastOf(reports[n], i, d)
  <1> DEFINE q == reports[n]
  <1>1. DOMAIN q = 1 .. Len(q) /\ Len(q) \in Nat /\ StateSize \in Nat
    BY TransferAssumption
  <1>2. Window(n) = {j \in DOMAIN q : j > Len(q) - StateSize}
    BY DEF Window
  <1>3. PICK d \in Destination : i = LastIn(q, d, Window(n)) /\ i # 0
    BY DEF State, LastOf, LastIn
  <1>4. /\ i \in Window(n) /\ q[i].destination = d
        /\ \A j \in Window(n) : q[j].destination = d => j <= i
    BY <1>2, <1>3, LastInIsLast
  <1>5. ASSUME NEW j \in DOMAIN q, q[j].destination = d PROVE j <= i
    <2>1. CASE j \in Window(n)
      BY <1>4, <1>5, <2>1
    <2>2. CASE j \notin Window(n)
      BY <1>1, <1>2, <1>4, <2>2
    <2> QED
      BY <2>1, <2>2
  <1> QED
    BY <1>2, <1>4, <1>5 DEF IsLastOf

LEMMA ShownIsArchived ==
    ASSUME NEW n \in Product, reports[n] \in Seq(Report), NEW i \in Archived(n)
    PROVE  reports[n][i] \in ArchivedReports(n)
  <1>1. PICK d \in Destination : IsLastOf(reports[n], i, d)
    BY ShownIsLast DEF Archived
  <1>2. reports[n][i].ok
    BY DEF Archived
  <1>3. reports[n][i] \in ArchivedOf(reports[n])
    BY <1>1, <1>2, ArchivedAreLast DEF IsLastOf
  <1> QED
    BY <1>3, Archives

LEMMA ReferenceIsArchived ==
    ASSUME NEW n \in Product, reports[n] \in Seq(Report), ArchivedIn(n) # {}
    PROVE  Reference(n) \in ArchivedReports(n)
  <1>1. Archived(n) # {}
    BY DEF ArchivedIn
  <1>2. Archived(n) \subseteq 1 .. Len(reports[n]) /\ Len(reports[n]) \in Nat
    BY ShownIsLast DEF Archived, IsLastOf
  <1>3. PICK m \in Archived(n) : \A j \in Archived(n) : j <= m
    BY <1>1, <1>2, Greatest
  <1> DEFINE l == CHOOSE i \in Archived(n) : \A j \in Archived(n) : j <= i
  <1>4. l \in Archived(n)
    BY <1>3
  <1> QED
    BY <1>4, ShownIsArchived DEF Reference

\* The destinations that archived_state shows archived have an archived report.
LEMMA ShownInIsArchived ==
    ASSUME NEW n \in Product, reports[n] \in Seq(Report), NEW d \in ArchivedIn(n)
    PROVE  d \in Destination /\ \E r \in ArchivedReports(n) : r.destination = d
  <1>1. PICK i \in Archived(n) : d = reports[n][i].destination
    BY DEF ArchivedIn
  <1>2. reports[n][i] \in ArchivedReports(n)
    BY <1>1, ShownIsArchived
  <1>3. reports[n][i].destination \in Destination
    BY <1>2 DEF ArchivedReports
  <1> QED
    BY <1>1, <1>2, <1>3

LEMMA ArchivedHasBytes ==
    \A n \in Product : \A r \in ArchivedReports(n) :
        r.md5 \in Bytes /\ r.destination \in Destination
  BY DEF ArchivedReports

----------------------------------------------------------------------------
(* Typing.                                                                  *)

LEMMA ResultsAreTyped ==
    ASSUME NEW D \in SUBSET (Destination \cup {NoDestination}),
           NEW status \in {"OK", "KO", "SKIPPED"}
    PROVE  ResultsOf(D, status) \in SUBSET Result
  BY DEF ResultsOf, Result

LEMMA SkippedIsTyped ==
    ASSUME NEW s, NEW D \in SUBSET (Destination \cup {NoDestination})
    PROVE  Skipped(s, D) \in SUBSET Result
  BY ResultsAreTyped DEF Skipped

LEMMA NoWorkIsTyped == NoWork \in Work /\ NoWork.left = {} /\ NoWork.results = {}
  <1>1. AnyDocument \in Document
    BY TransferAssumption DEF AnyDocument
  <1> QED
    BY <1>1 DEF NoWork, Work, Request, Origin, Choice

LEMMA CountedIsTyped ==
    ASSUME TypeOK, NEW s \in Stage, NEW results \in SUBSET Result
    PROVE  Counted(s, results) \in SUBSET Report /\ IsFiniteSet(Counted(s, results))
  <1>1. work[s] \in Work /\ Doc(s) \in Document /\ BytesOf[Doc(s)] \in Bytes
    BY TransferAssumption DEF TypeOK, Work, Doc
  <1>2. Counted(s, results) \in SUBSET Report
    <2>1. ASSUME NEW r \in Counted(s, results) PROVE r \in Report
      <3>1. PICK q \in results :
                r = [destination |-> q.destination, ok |-> q.status = "OK",
                     md5 |-> BytesOf[Doc(s)], announced |-> Doc(s) \in Announced]
        BY DEF Counted
      <3>2. q.destination \in Destination \cup {NoDestination}
        BY DEF Result
      <3>3. (q.status = "OK") \in BOOLEAN /\ (Doc(s) \in Announced) \in BOOLEAN
        OBVIOUS
      <3> QED
        BY <1>1, <3>1, <3>2, <3>3 DEF Report
    <2> QED
      BY <2>1
  <1>3. \A r \in Counted(s, results) :
            r.md5 = BytesOf[Doc(s)] /\ r.announced = (Doc(s) \in Announced)
    BY DEF Counted
  <1> QED
    BY <1>2, <1>3, FewReports

LEMMA StoredIsTyped ==
    ASSUME TypeOK, NEW s \in Stage, NEW results \in SUBSET Result, Stored(s, results)
    PROVE  /\ reports' \in [Product -> Seq(Report)]
           /\ answered' \in SUBSET (Origin \X Product)
  <1>1. work[s] \in Work /\ Name(s) \in Product
    BY TransferAssumption DEF TypeOK, Work, Name, Doc
  <1> DEFINE a == SetToSeq(Counted(s, results))
  <1>2. a \in Seq(Report)
    BY CountedIsTyped, SeqOfSet
  <1>3. reports[Name(s)] \o a \in Seq(Report)
    BY <1>1, <1>2 DEF TypeOK
  <1>4. work[s].request.operation \in Origin
    BY <1>1 DEF Work, Request
  <1> QED
    BY <1>1, <1>3, <1>4 DEF TypeOK, Stored

LEMMA InitIsTyped == Init => TypeOK
  <1> SUFFICES ASSUME Init
               PROVE  TypeOK
    OBVIOUS
  <1>1. pc \in [Stage -> PC] /\ work \in [Stage -> Work]
    BY NoWorkIsTyped DEF Init, PC
  <1>2. PICK first \in [Product -> Document], kept \in [Product -> SUBSET Destination] :
            Archive(first, kept)
    BY DEF Init
  <1>3. objects \in [Product -> [Destination -> Bytes \cup {Nothing, Broken}]]
    BY <1>2, TransferAssumption DEF Archive
  <1>4. ASSUME NEW n \in Product
        PROVE  reports[n] \in Seq(Report)
    <2> DEFINE S == {[destination |-> d, ok |-> TRUE, md5 |-> BytesOf[first[n]],
                      announced |-> first[n] \in Announced] : d \in kept[n]}
    <2>1. S \in SUBSET Report
      <3>1. BytesOf[first[n]] \in Bytes /\ kept[n] \subseteq Destination
        BY TransferAssumption
      <3> DEFINE a == first[n] \in Announced
      <3>2. a \in BOOLEAN
        OBVIOUS
      <3> HIDE DEF a
      <3>3. ASSUME NEW d \in kept[n]
            PROVE  [destination |-> d, ok |-> TRUE, md5 |-> BytesOf[first[n]],
                    announced |-> a] \in Report
        BY <3>1, <3>2 DEF Report
      <3> QED
        BY <3>3 DEF a
    <2>2. \A r \in S : r.md5 = BytesOf[first[n]] /\ r.announced = (first[n] \in Announced)
      OBVIOUS
    <2>3. IsFiniteSet(S)
      BY <2>1, <2>2, FewReports
    <2>4. SetToSeq(S) \in Seq(Report)
      BY <2>1, <2>3, SeqOfSet
    <2>5. reports[n] = SetToSeq(S)
      BY <1>2 DEF Archive
    <2> QED
      BY <2>4, <2>5
  <1>5. reports \in [Product -> Seq(Report)]
    BY <1>2, <1>4 DEF Archive
  <1> QED
    BY <1>1, <1>3, <1>5, TransferAssumption DEF Init, TypeOK, Choice

LEMMA RequesterIsTyped ==
    ASSUME TypeOK,
           \/ \E documents \in Batch :
                  \/ RequestLive(documents)
                  \/ \E choice \in Choice, o \in Operation :
                         RequestOperation(documents, choice, o)
           \/ RetryPending \/ LosePending
    PROVE  TypeOK'
  <1>1. ASSUME NEW documents \in Batch, NEW o \in Origin, Make(o, documents)
        PROVE  /\ requests' \in 0 .. MaxRequests
               /\ requested' \in SUBSET (Origin \X Product)
               /\ answered' \in SUBSET (Origin \X Product)
    <2>1. Asked(o, documents) \in SUBSET (Origin \X Product)
      BY <1>1, TransferAssumption DEF Asked, Products
    <2> QED
      BY <1>1, <2>1, TransferAssumption DEF Make, TypeOK
  <1>2. ASSUME NEW documents \in Batch, NEW choice \in Choice, NEW o \in Origin
        PROVE  [documents |-> documents, choice |-> choice, operation |-> o] \in Request
    BY TransferAssumption DEF Request
  <1>3. Live \in Origin /\ Operation \subseteq Origin
    BY DEF Origin
  <1>4. ASSUME NEW documents \in Batch, RequestLive(documents)
        PROVE  TypeOK'
    <2> DEFINE r == [documents |-> documents, choice |-> rule, operation |-> Live]
               kept == KeepNewest(Append(pending, r))
    <2>1. r \in Request
      BY <1>2, <1>3 DEF TypeOK
    <2>2. Append(queue, r) \in Seq(Request) /\ Append(pending, r) \in Seq(Request)
          /\ Len(Append(pending, r)) = Len(pending) + 1
      BY <2>1 DEF TypeOK
    <2>3. kept \in Seq(Request) /\ Len(kept) <= MaxPending
      <3>1. Tail(Append(pending, r)) \in Seq(Request)
            /\ Len(Tail(Append(pending, r))) = Len(pending)
        <4> HIDE DEF r
        <4> DEFINE q == Append(pending, r)
        <4>1. q \in Seq(Request) /\ Len(q) = Len(pending) + 1 /\ Len(pending) \in Nat
          BY <2>2 DEF TypeOK
        <4> HIDE DEF q
        <4>2. q # <<>>
          BY <4>1
        <4> QED
          BY <4>1, <4>2 DEF q
      <3> QED
        BY <2>2, <3>1, TransferAssumption DEF KeepNewest, TypeOK
    <2>4. Make(Live, documents)
          /\ UNCHANGED <<pc, work, archive, rule, disturbed, faults>>
      BY <1>4 DEF RequestLive
    <2>5. \/ queue' = Append(queue, r) /\ UNCHANGED <<pending, lost>>
          \/ /\ pending' = kept /\ UNCHANGED queue
             /\ (lost' = lost \/ lost' = lost \cup {Live})
      BY <1>4 DEF RequestLive
    <2>6. /\ requests' \in 0 .. MaxRequests
          /\ requested' \in SUBSET (Origin \X Product)
          /\ answered' \in SUBSET (Origin \X Product)
      BY <1>1, <1>3, <2>4
    <2>7. /\ pending' \in Seq(Request) /\ Len(pending') <= MaxPending
          /\ queue' \in Seq(Request) /\ lost' \in SUBSET Origin
      BY <1>3, <2>2, <2>3, <2>5 DEF TypeOK
    <2> QED
      BY <2>4, <2>6, <2>7 DEF TypeOK, archive
  <1>5. ASSUME NEW documents \in Batch, NEW choice \in Choice, NEW o \in Operation,
               RequestOperation(documents, choice, o)
        PROVE  TypeOK'
    <2>1. /\ requests' \in 0 .. MaxRequests
          /\ requested' \in SUBSET (Origin \X Product)
          /\ answered' \in SUBSET (Origin \X Product)
      BY <1>1, <1>3, <1>5 DEF RequestOperation
    <2>2. /\ queue' \in Seq(Request) /\ lost' \in SUBSET Origin
      <3> DEFINE r == [documents |-> documents, choice |-> choice, operation |-> o]
      <3>1. r \in Request
        BY <1>2, <1>3
      <3>2. (queue' = Append(queue, r) /\ UNCHANGED lost)
            \/ (lost' = lost \cup {o} /\ UNCHANGED queue)
        BY <1>5 DEF RequestOperation
      <3> HIDE DEF r
      <3>3. Append(queue, r) \in Seq(Request) /\ o \in Origin
        BY <1>3, <3>1 DEF TypeOK
      <3> QED
        BY <3>2, <3>3 DEF TypeOK
    <2>3. UNCHANGED <<pending, pc, work, archive, rule, disturbed, faults>>
      BY <1>5 DEF RequestOperation
    <2> QED
      BY <2>1, <2>2, <2>3 DEF TypeOK, archive
  <1>6. ASSUME RetryPending
        PROVE  TypeOK'
    <2>1. /\ queue' \in Seq(Request) /\ pending' \in Seq(Request)
          /\ Len(pending') = Len(pending) - 1
      BY <1>6 DEF RetryPending, TypeOK
    <2> QED
      BY <1>6, <2>1, TransferAssumption DEF RetryPending, TypeOK, archive, history
  <1>7. ASSUME LosePending
        PROVE  TypeOK'
    BY <1>3, <1>7, TransferAssumption DEF LosePending, Fault, TypeOK, archive
  <1> QED
    BY <1>4, <1>5, <1>6, <1>7

\* Where a stage goes, and with what.
LEMMA DecideIsTyped ==
    ASSUME TypeOK, NEW s \in Stage, NEW d \in Document, Decide(s, d)
    PROVE  pc' \in [Stage -> PC] /\ work' \in [Stage -> Work]
  <1> DEFINE n == ProductOf[d]
  <1>1. n \in Product /\ reports[n] \in Seq(Report) /\ work[s] \in Work
    BY TransferAssumption DEF TypeOK
  <1>2. ASSUME NEW todo \in SUBSET Destination, NEW same \in Bytes \cup {Nothing},
               Transfer(s, d, todo, same)
        PROVE  pc' \in [Stage -> PC] /\ work' \in [Stage -> Work]
    BY <1>1, <1>2 DEF Transfer, Goto, TypeOK, PC, Work
  <1>3. ASSUME Conflict(s, d)
        PROVE  pc' \in [Stage -> PC] /\ work' \in [Stage -> Work]
    <2>1. Skipped(s, Destination) \in SUBSET Result
      BY SkippedIsTyped
    <2> QED
      BY <1>1, <1>3, <2>1 DEF Conflict, Goto, TypeOK, PC, Work
  <1>4. ASSUME Store(s, d, Skipped(s, Destination))
        PROVE  pc' \in [Stage -> PC] /\ work' \in [Stage -> Work]
    <2>1. Skipped(s, Destination) \in SUBSET Result
      BY SkippedIsTyped
    <2> QED
      BY <1>1, <1>4, <2>1 DEF Store, Goto, TypeOK, PC, Work
  <1>5. ArchivedIn(n) # {} => Reference(n).md5 \in Bytes
    BY <1>1, ReferenceIsArchived, ArchivedHasBytes
  <1>6. MissingIn(n) \in SUBSET Destination
    BY DEF MissingIn
  <1> QED
    BY <1>2, <1>3, <1>4, <1>5, <1>6 DEF Decide

LEMMA StoreIsTyped ==
    ASSUME TypeOK, NEW s \in Stage, NEW d \in Document, NEW results \in SUBSET Result,
           Store(s, d, results)
    PROVE  pc' \in [Stage -> PC] /\ work' \in [Stage -> Work]
  <1> DEFINE w == [work[s] EXCEPT !.document = d, !.results = results]
  <1>1. w \in Work
    <2>1. work[s] \in Work
      BY DEF TypeOK
    <2> QED
      BY <2>1 DEF Work
  <1>2. work' = [work EXCEPT ![s] = w]
    BY DEF Store, TypeOK
  <1> HIDE DEF w
  <1> QED
    BY <1>1, <1>2 DEF Store, Goto, TypeOK, PC

LEMMA EndIsTyped ==
    ASSUME TypeOK, NEW s \in Stage, End(s)
    PROVE  pc' \in [Stage -> PC] /\ work' \in [Stage -> Work]
  BY NoWorkIsTyped DEF End, Goto, TypeOK, PC

LEMMA NextProductIsTyped ==
    ASSUME TypeOK, NEW s \in Stage, NextProduct(s)
    PROVE  pc' \in [Stage -> PC] /\ work' \in [Stage -> Work]
  <1>1. work[s] \in Work /\ Doc(s) \in Document /\ Name(s) \in Product
    BY TransferAssumption DEF TypeOK, Work, Doc, Name
  <1> DEFINE w == [work[s] EXCEPT !.left = @ \ {Doc(s)}, !.seen = @ \cup {Name(s)},
                                  !.todo = {}, !.skip = {}, !.same = Nothing,
                                  !.results = {}]
  <1>2. w \in Work
    BY <1>1 DEF Work
  <1>3. work' = [work EXCEPT ![s] = w]
    BY DEF NextProduct, TypeOK
  <1>4. Goto(s, "next")
    BY DEF NextProduct
  <1> HIDE DEF w
  <1> QED
    BY <1>2, <1>3, <1>4 DEF Goto, TypeOK, PC

LEMMA UploadedIsTyped ==
    ASSUME TypeOK, NEW s \in Stage, NEW d \in Destination, NEW status \in {"OK", "KO"},
           Uploaded(s, d, status)
    PROVE  work' \in [Stage -> Work]
  <1>1. ResultsOf({d}, status) \in SUBSET Result
    BY ResultsAreTyped
  <1> DEFINE w == [work[s] EXCEPT !.todo = @ \ {d},
                                  !.results = @ \cup ResultsOf({d}, status)]
  <1>2. work[s] \in Work
    BY DEF TypeOK
  <1>3. w \in Work
    BY <1>1, <1>2 DEF Work
  <1>4. work' = [work EXCEPT ![s] = w]
    BY DEF Uploaded, TypeOK
  <1> HIDE DEF w
  <1> QED
    BY <1>3, <1>4 DEF TypeOK

LEMMA PutIsTyped ==
    ASSUME TypeOK, NEW s \in Stage, NEW d \in Destination,
           NEW content \in Bytes \cup {Nothing, Broken}, Put(s, d, content)
    PROVE  objects' \in [Product -> [Destination -> Bytes \cup {Nothing, Broken}]]
  <1>1. Name(s) \in Product
    BY TransferAssumption DEF TypeOK, Work, Doc, Name
  <1> QED
    BY <1>1 DEF Put, TypeOK

\* A step of stage s, an error or its death.
Acts(s) == Step(s) \/ Failure(s)

LEMMA StageIsTyped ==
    ASSUME TypeOK, NEW s \in Stage, Acts(s)
    PROVE  TypeOK'
  <1> USE DEF broker, archive, history
  <1>1. /\ work[s] \in Work /\ Doc(s) \in Document /\ Name(s) \in Product
        /\ Left(s) \in SUBSET Document /\ work[s].results \in SUBSET Result
        /\ work[s].todo \in SUBSET Destination /\ work[s].skip \in SUBSET Destination
        /\ work[s].request \in Request /\ work[s].request.operation \in Origin
    BY TransferAssumption DEF TypeOK, Work, Request, Doc, Name, Left
  <1>2. Fault => faults' \in 0 .. MaxFaults
    BY TransferAssumption DEF Fault, TypeOK
  <1>3. Lose(s) => lost' \in SUBSET Origin
    BY <1>1 DEF Lose, TypeOK
  <1>4. ASSUME Take(s)
        PROVE  TypeOK'
    <2> DEFINE r == Head(queue)
    <2>1. r \in Request /\ Tail(queue) \in Seq(Request)
      BY <1>4 DEF Take, TypeOK
    <2>2. PICK missing \in SUBSET r.documents, refused \in BOOLEAN :
              /\ Missing(r, missing)
              /\ work' = [work EXCEPT ![s] = [NoWork EXCEPT !.request = r,
                              !.refused = refused, !.left = r.documents \ missing]]
      BY <1>4 DEF Take
    <2> HIDE DEF r
    <2>3. answered' \in SUBSET (Origin \X Product) /\ queue' \in Seq(Request)
      <3>1. Asked(r.operation, missing) \in SUBSET (Origin \X Product)
        BY <2>1, TransferAssumption DEF Asked, Products, Request
      <3>2. queue' = Tail(queue)
        BY <2>2 DEF Missing
      <3> QED
        BY <2>1, <2>2, <3>1, <3>2 DEF Missing, TypeOK
    <2>4. work' \in [Stage -> Work]
      <3> DEFINE w == [NoWork EXCEPT !.request = r, !.refused = refused,
                                     !.left = r.documents \ missing]
      <3>1. w \in Work
        BY <2>1, NoWorkIsTyped DEF Work, Request
      <3> HIDE DEF w
      <3> QED
        BY <2>2, <3>1 DEF TypeOK, w
    <2>5. UNCHANGED <<pending, archive, requested, lost, disturbed, requests, faults, rule>>
          /\ Goto(s, "next")
      BY <1>4 DEF Take
    <2> QED
      BY <2>3, <2>4, <2>5 DEF TypeOK, Goto, PC
  <1>5. ASSUME Done(s)
        PROVE  TypeOK'
    BY <1>5, EndIsTyped DEF Done, TypeOK
  <1>6. ASSUME Serve(s)
        PROVE  TypeOK'
    <2>1. PICK d \in Left(s) :
              LET n == ProductOf[d] IN
              \/ /\ work' = [work EXCEPT ![s].left = @ \ {d}]
                 /\ UNCHANGED <<pc, disturbed>>
              \/ /\ Store(s, d, ResultsOf({NoDestination}, "KO"))
                 /\ UNCHANGED disturbed
              \/ /\ Decide(s, d)
                 /\ disturbed' \in {disturbed, disturbed \cup {n}}
      BY <1>6 DEF Serve
    <2>2. d \in Document /\ ProductOf[d] \in Product
      BY <1>1, TransferAssumption
    <2>3. work' = [work EXCEPT ![s].left = @ \ {d}] /\ UNCHANGED pc
          => pc' \in [Stage -> PC] /\ work' \in [Stage -> Work]
      <3> DEFINE w == [work[s] EXCEPT !.left = @ \ {d}]
      <3>1. w \in Work
        BY <1>1 DEF Work
      <3>2. work' = [work EXCEPT ![s].left = @ \ {d}] => work' = [work EXCEPT ![s] = w]
        BY DEF TypeOK
      <3> HIDE DEF w
      <3> QED
        BY <3>1, <3>2 DEF TypeOK
    <2>4. Store(s, d, ResultsOf({NoDestination}, "KO"))
          => pc' \in [Stage -> PC] /\ work' \in [Stage -> Work]
      BY <2>2, ResultsAreTyped, StoreIsTyped
    <2>5. pc' \in [Stage -> PC] /\ work' \in [Stage -> Work] /\ disturbed' \in SUBSET Product
      BY <2>1, <2>2, <2>3, <2>4, DecideIsTyped DEF TypeOK
    <2>6. UNCHANGED <<broker, archive, requested, answered, lost, requests, faults, rule>>
      BY <1>6 DEF Serve
    <2> QED
      BY <2>5, <2>6 DEF TypeOK
  <1>7. ASSUME Download(s)
        PROVE  TypeOK'
    <2>1. pc' \in [Stage -> PC]
      BY <1>7 DEF Download, Goto, TypeOK, PC
    <2>2. Skipped(s, Destination) \in SUBSET Result
      BY SkippedIsTyped
    <2>3. work' \in [Stage -> Work]
      <3> DEFINE w == [work[s] EXCEPT !.results = Skipped(s, Destination)]
      <3>1. w \in Work
        BY <1>1, <2>2 DEF Work
      <3>2. UNCHANGED work \/ work' = [work EXCEPT ![s] = w]
        BY <1>7 DEF Download, TypeOK
      <3> HIDE DEF w
      <3> QED
        BY <3>1, <3>2 DEF TypeOK
    <2> QED
      BY <1>7, <2>1, <2>3 DEF Download, TypeOK
  <1>8. ASSUME OpenConflict(s)
        PROVE  TypeOK'
    BY <1>1, <1>8 DEF OpenConflict, Goto, TypeOK, PC
  <1>9. ASSUME NEW d \in Destination, Upload(s, d)
        PROVE  TypeOK'
    <2>1. BytesOf[Doc(s)] \in Bytes
      BY <1>1, TransferAssumption
    <2> QED
      BY <1>9, <2>1, UploadedIsTyped, PutIsTyped DEF Upload, Uploaded, TypeOK
  <1>10. ASSUME Finish(s)
         PROVE  TypeOK'
    <2>1. work[s].results \cup Skipped(s, work[s].skip) \in SUBSET Result
      BY <1>1, SkippedIsTyped
    <2>2. pc' \in [Stage -> PC] /\ work' \in [Stage -> Work]
      BY <1>1, <1>10, <2>1, StoreIsTyped DEF Finish
    <2> QED
      BY <1>1, <1>10, <2>2 DEF Finish, TypeOK
  <1>11. ASSUME StoreReports(s)
         PROVE  TypeOK'
    <2>1. Stored(s, work[s].results) /\ NextProduct(s)
          /\ UNCHANGED <<broker, objects, conflicts, requested, lost, disturbed,
                         requests, faults, rule>>
      BY <1>11 DEF StoreReports
    <2> QED
      BY <1>1, <2>1, StoredIsTyped, NextProductIsTyped DEF TypeOK
  <1>12. ASSUME Leaves(s), queue' = Append(queue, Again(s)) \/ UNCHANGED queue,
                End(s), Fault, Lose(s) \/ UNCHANGED lost,
                UNCHANGED <<pending, archive, requested, answered, disturbed, requests, rule>>
         PROVE  TypeOK'
    <2>1. Again(s) \in Request
      BY <1>1, <1>12 DEF Leaves, Again, Request
    <2>2. queue' \in Seq(Request)
      <3>1. Append(queue, Again(s)) \in Seq(Request) /\ queue \in Seq(Request)
        BY <2>1 DEF TypeOK
      <3> QED
        BY <1>12, <3>1
    <2> QED
      BY <1>2, <1>3, <1>12, <2>2, EndIsTyped DEF TypeOK
  <1>13. GiveBack(s) \/ LoseLeft(s) => TypeOK'
    BY <1>12 DEF GiveBack, LoseLeft
  <1>14. ASSUME IndexError(s)
         PROVE  TypeOK'
    <2>1. PICK d \in Document : Store(s, d, ResultsOf(Destination, "KO"))
      BY <1>1, <1>14 DEF IndexError
    <2>2. pc' \in [Stage -> PC] /\ work' \in [Stage -> Work]
      BY <2>1, ResultsAreTyped, StoreIsTyped
    <2> QED
      BY <1>2, <1>14, <2>2 DEF IndexError, TypeOK
  <1>15. ASSUME DownloadError(s)
         PROVE  TypeOK'
    <2>1. pc' \in [Stage -> PC] /\ work' \in [Stage -> Work]
      BY <1>1, <1>15, ResultsAreTyped, StoreIsTyped DEF DownloadError
    <2> QED
      BY <1>2, <1>15, <2>1 DEF DownloadError, TypeOK
  <1>16. ASSUME NEW d \in Destination, UploadError(s, d)
         PROVE  TypeOK'
    <2>1. PICK content \in {objects[Name(s)][d], Broken, BytesOf[Doc(s)]} : Put(s, d, content)
      BY <1>16 DEF UploadError
    <2>2. content \in Bytes \cup {Nothing, Broken}
      BY <1>1, TransferAssumption DEF TypeOK
    <2> QED
      BY <1>2, <1>16, <2>1, <2>2, UploadedIsTyped, PutIsTyped DEF UploadError, Uploaded, TypeOK
  <1>17. ASSUME StoreError(s)
         PROVE  TypeOK'
    <2>1. PICK some \in SUBSET work[s].results : Stored(s, some)
      BY <1>17 DEF StoreError
    <2>2. some \in SUBSET Result
      BY <1>1
    <2>3. Fault /\ Lose(s) /\ NextProduct(s) /\ disturbed' = disturbed \cup {Name(s)}
          /\ UNCHANGED <<broker, objects, conflicts, requested, requests, rule>>
      BY <1>17 DEF StoreError
    <2> QED
      BY <1>1, <1>2, <1>3, <2>1, <2>2, <2>3, StoredIsTyped, NextProductIsTyped DEF TypeOK
  <1>18. ASSUME Crash(s)
         PROVE  TypeOK'
    BY <1>1, <1>2, <1>3, <1>18, EndIsTyped DEF Crash, TypeOK
  <1> QED
    BY <1>4, <1>5, <1>6, <1>7, <1>8, <1>9, <1>10, <1>11, <1>13, <1>14, <1>15, <1>16, <1>17,
       <1>18 DEF Acts, Step, Failure

LEMMA StepIsTyped == TypeOK /\ [Next]_vars => TypeOK'
  <1> SUFFICES ASSUME TypeOK, [Next]_vars
               PROVE  TypeOK'
    OBVIOUS
  <1>1. CASE UNCHANGED vars
    BY <1>1 DEF TypeOK, vars, broker, archive, history
  <1>2. CASE Next
    BY <1>2, RequesterIsTyped, StageIsTyped DEF Next, Acts
  <1> QED
    BY <1>1, <1>2

\* Every variable keeps its type, and the requests that the broker refused are bounded.
THEOREM Typing == Spec => []TypeOK
  BY InitIsTyped, StepIsTyped, PTL DEF Spec

----------------------------------------------------------------------------
(* What is requested is not forgotten.                                      *)

Asks(r, a) == r.operation = a[1] /\ a[2] \in Products(r.documents)
InQueue(q, a) == \E i \in DOMAIN q : Asks(q[i], a)

\* Stage s has not come to product a[2] yet.
Holds(s, a) ==
    work[s].request.operation = a[1] /\ a[2] \in Products(Left(s)) \ work[s].seen

Kept(a) ==
    \/ a \in answered \/ a[1] \in lost
    \/ InQueue(pending, a) \/ InQueue(queue, a)
    \/ \E s \in Stage : Holds(s, a)

\* Only live requests are retried, and an idle stage has none.
PendingIsLive == \A i \in DOMAIN pending : pending[i].operation = Live
IdleIsDone == \A s \in Stage : pc[s] = "idle" => Left(s) = {}
AllAreKept == \A a \in requested : Kept(a)
KeepInv == PendingIsLive /\ IdleIsDone /\ AllAreKept

LEMMA Appended ==
    ASSUME NEW q \in Seq(Request), NEW r \in Request, NEW a
    PROVE  InQueue(Append(q, r), a) <=> InQueue(q, a) \/ Asks(r, a)
  <1> DEFINE b == Append(q, r)
  <1>1. /\ Len(q) \in Nat /\ DOMAIN q = 1 .. Len(q) /\ DOMAIN b = 1 .. Len(q) + 1
        /\ b[Len(q) + 1] = r /\ \A i \in DOMAIN q : b[i] = q[i]
    OBVIOUS
  <1> HIDE DEF b
  <1> QED
    BY <1>1 DEF InQueue, b

LEMMA Taken ==
    ASSUME NEW q \in Seq(Request), q # <<>>, NEW a, InQueue(q, a)
    PROVE  Asks(Head(q), a) \/ InQueue(Tail(q), a)
  <1> DEFINE b == Tail(q)
  <1>1. PICK i \in DOMAIN q : Asks(q[i], a)
    BY DEF InQueue
  <1>2. /\ Len(q) \in Nat /\ DOMAIN q = 1 .. Len(q) /\ DOMAIN b = 1 .. Len(q) - 1
        /\ \A j \in DOMAIN b : b[j] = q[j + 1]
        /\ Head(q) = q[1]
    OBVIOUS
  <1> HIDE DEF b
  <1>3. CASE i = 1
    BY <1>1, <1>2, <1>3
  <1>4. CASE i # 1
    <2>1. i - 1 \in DOMAIN b /\ b[i - 1] = q[i]
      BY <1>2, <1>4
    <2> QED
      BY <1>1, <2>1 DEF InQueue, b
  <1> QED
    BY <1>3, <1>4

LEMMA InitKeeps == Init => KeepInv
  <1> SUFFICES ASSUME Init
               PROVE  KeepInv
    OBVIOUS
  <1>1. PendingIsLive /\ AllAreKept
    BY DEF Init, PendingIsLive, AllAreKept
  <1>2. IdleIsDone
    BY NoWorkIsTyped DEF Init, IdleIsDone, Left
  <1> QED
    BY <1>1, <1>2 DEF KeepInv

LEMMA RequesterKeeps ==
    ASSUME TypeOK, KeepInv,
           \/ \E documents \in Batch :
                  \/ RequestLive(documents)
                  \/ \E choice \in Choice, o \in Operation :
                         RequestOperation(documents, choice, o)
           \/ RetryPending \/ LosePending
    PROVE  KeepInv'
  <1>1. UNCHANGED <<pc, work>>
    BY DEF RequestLive, RequestOperation, RetryPending, LosePending
  <1>2. IdleIsDone' /\ \A a : \A s \in Stage : Holds(s, a)' <=> Holds(s, a)
    BY <1>1 DEF KeepInv, IdleIsDone, Left, Holds
  <1>3. pending \in Seq(Request) /\ queue \in Seq(Request)
        /\ requested \in SUBSET (Origin \X Product)
    BY DEF TypeOK
  <1>4. \A a : InQueue(pending, a) => a[1] = Live
    BY DEF KeepInv, PendingIsLive, InQueue, Asks
  <1>5. ASSUME NEW documents \in Batch, NEW o \in Origin, Make(o, documents),
               NEW a \in requested'
        PROVE  \/ a \in requested /\ (a \in answered => a \in answered')
               \/ a[1] = o /\ a[2] \in Products(documents)
    BY <1>5 DEF Make, Asked
  <1>6. ASSUME NEW documents \in Batch, RequestLive(documents)
        PROVE  KeepInv'
    <2> DEFINE r == [documents |-> documents, choice |-> rule, operation |-> Live]
               b == Append(pending, r)
               kept == KeepNewest(b)
    <2>1. r \in Request /\ r.operation = Live /\ r.documents = documents /\ Live \in Origin
      BY TransferAssumption DEF Request, Origin, TypeOK
    <2>2. /\ Make(Live, documents)
          /\ \/ queue' = Append(queue, r) /\ UNCHANGED <<pending, lost>>
             \/ /\ pending' = kept
                /\ lost' = IF Len(kept) > Len(pending) THEN lost ELSE lost \cup {Live}
                /\ UNCHANGED queue
      BY <1>6 DEF RequestLive
    <2> HIDE DEF r
    <2>3. b \in Seq(Request) /\ Len(b) = Len(pending) + 1 /\ Len(pending) \in Nat
      BY <1>3, <2>1
    <2>4. \A i \in DOMAIN b : b[i].operation = Live
      BY <1>3, <2>1 DEF KeepInv, PendingIsLive
    <2>5. \A a : InQueue(b, a) <=> InQueue(pending, a) \/ Asks(r, a)
      BY <1>3, <2>1, Appended
    <2>6. \A a : InQueue(Append(queue, r), a) <=> InQueue(queue, a) \/ Asks(r, a)
      BY <1>3, <2>1, Appended
    <2> HIDE DEF b
    <2>7. \/ kept = b /\ Len(kept) > Len(pending)
          \/ kept = Tail(b) /\ ~(Len(kept) > Len(pending)) /\ b # <<>>
      <3>1. b # <<>> /\ Len(Tail(b)) = Len(pending)
        BY <2>3
      <3>2. CASE Len(b) > MaxPending
        <4>1. kept = Tail(b)
          BY <3>2 DEF KeepNewest
        <4> QED
          BY <2>3, <3>1, <4>1
      <3>3. CASE ~(Len(b) > MaxPending)
        <4>1. kept = b
          BY <3>3 DEF KeepNewest
        <4> QED
          BY <2>3, <4>1
      <3> QED
        BY <3>2, <3>3
    <2>8. PendingIsLive'
      <3>1. \A i \in DOMAIN Tail(b) : b # <<>> => Tail(b)[i] = b[i + 1] /\ i + 1 \in DOMAIN b
        BY <2>3
      <3> QED
        BY <2>2, <2>4, <2>7, <3>1 DEF KeepInv, PendingIsLive
    <2>9. ASSUME NEW a \in requested'
          PROVE  Kept(a)'
      <3>1. \/ a \in requested /\ Kept(a) /\ (a \in answered => a \in answered')
            \/ Asks(r, a)
        BY <1>5, <2>1, <2>2, <2>9 DEF KeepInv, AllAreKept, Asks
      <3>2. CASE queue' = Append(queue, r) /\ UNCHANGED <<pending, lost>>
        BY <1>2, <2>6, <3>1, <3>2 DEF Kept
      <3>3. CASE /\ pending' = kept /\ UNCHANGED queue
                 /\ lost' = IF Len(kept) > Len(pending) THEN lost ELSE lost \cup {Live}
        <4>1. CASE kept = b /\ Len(kept) > Len(pending)
          BY <1>2, <2>5, <3>1, <3>3, <4>1 DEF Kept
        <4>2. CASE ~(Len(kept) > Len(pending))
          <5>1. lost' = lost \cup {Live}
            BY <3>3, <4>2
          <5>2. Asks(r, a) => a[1] = Live
            BY <2>1 DEF Asks
          <5> QED
            BY <1>2, <1>4, <3>1, <3>3, <5>1, <5>2 DEF Kept
        <4> QED
          BY <2>7, <4>1, <4>2
      <3> QED
        BY <2>2, <3>2, <3>3
    <2> QED
      BY <1>2, <2>8, <2>9 DEF KeepInv, AllAreKept
  <1>7. ASSUME NEW documents \in Batch, NEW choice \in Choice, NEW o \in Operation,
               RequestOperation(documents, choice, o)
        PROVE  KeepInv'
    <2> DEFINE r == [documents |-> documents, choice |-> choice, operation |-> o]
    <2>1. r \in Request /\ r.operation = o /\ r.documents = documents /\ o \in Origin
      BY TransferAssumption DEF Request, Origin
    <2>2. /\ Make(o, documents) /\ UNCHANGED pending
          /\ \/ queue' = Append(queue, r) /\ UNCHANGED lost
             \/ lost' = lost \cup {o} /\ UNCHANGED queue
      BY <1>7 DEF RequestOperation
    <2> HIDE DEF r
    <2>3. \A a : InQueue(Append(queue, r), a) <=> InQueue(queue, a) \/ Asks(r, a)
      BY <1>3, <2>1, Appended
    <2>4. ASSUME NEW a \in requested'
          PROVE  Kept(a)'
      <3>1. \/ a \in requested /\ Kept(a) /\ (a \in answered => a \in answered')
            \/ Asks(r, a) /\ a[1] = o
        BY <1>5, <2>1, <2>2, <2>4 DEF KeepInv, AllAreKept, Asks
      <3> QED
        BY <1>2, <2>2, <2>3, <3>1 DEF Kept
    <2> QED
      BY <1>2, <2>2, <2>4 DEF KeepInv, AllAreKept, PendingIsLive
  <1>8. ASSUME RetryPending
        PROVE  KeepInv'
    <2>1. /\ pending # <<>> /\ queue' = Append(queue, Head(pending))
          /\ pending' = Tail(pending) /\ UNCHANGED history
      BY <1>8 DEF RetryPending
    <2>2. Head(pending) \in Request
      BY <1>3, <2>1
    <2>3. \A a : InQueue(pending, a) \/ InQueue(queue, a)
                 => InQueue(pending, a)' \/ InQueue(queue, a)'
      BY <1>3, <2>1, <2>2, Appended, Taken
    <2>4. PendingIsLive'
      <3>1. \A i \in DOMAIN Tail(pending) :
                Tail(pending)[i] = pending[i + 1] /\ i + 1 \in DOMAIN pending
        BY <1>3, <2>1
      <3> QED
        BY <2>1, <3>1 DEF KeepInv, PendingIsLive
    <2>5. AllAreKept'
      BY <1>2, <2>1, <2>3 DEF KeepInv, AllAreKept, Kept, history
    <2> QED
      BY <1>2, <2>4, <2>5 DEF KeepInv
  <1>9. ASSUME LosePending
        PROVE  KeepInv'
    <2>1. pending' = <<>> /\ lost' = lost \cup {Live} /\ UNCHANGED <<queue, requested, answered>>
      BY <1>9 DEF LosePending
    <2>2. PendingIsLive'
      BY <2>1 DEF PendingIsLive
    <2>3. AllAreKept'
      BY <1>2, <1>4, <2>1 DEF KeepInv, AllAreKept, Kept
    <2> QED
      BY <1>2, <2>2, <2>3 DEF KeepInv
  <1> QED
    BY <1>6, <1>7, <1>8, <1>9

\* A step of stage s keeps what is requested when it keeps what s had not come to, and
\* what waited in the queue.
LEMMA StageHandsOver ==
    ASSUME TypeOK, KeepInv, NEW s \in Stage,
           UNCHANGED <<pending, requested>>,
           answered \subseteq answered', lost \subseteq lost',
           \A t \in Stage \ {s} : work'[t] = work[t] /\ pc'[t] = pc[t],
           pc'[s] = "idle" => Left(s)' = {},
           \A a : Holds(s, a) \/ InQueue(queue, a) => Kept(a)'
    PROVE  KeepInv'
  <1>1. PendingIsLive' /\ IdleIsDone'
    BY DEF KeepInv, PendingIsLive, IdleIsDone, Left
  <1>2. \A t \in Stage \ {s} : \A a : Holds(t, a) => Holds(t, a)'
    BY DEF Holds, Left
  <1>3. \A a : InQueue(pending, a) => InQueue(pending, a)'
    BY DEF InQueue
  <1>4. AllAreKept'
    <2> SUFFICES ASSUME NEW a \in requested
                 PROVE  Kept(a)'
      BY DEF AllAreKept
    <2>1. Kept(a)
      BY DEF KeepInv, AllAreKept
    <2> QED
      BY <1>2, <1>3, <2>1 DEF Kept
  <1> QED
    BY <1>1, <1>4 DEF KeepInv

\* It does when it only changes the way the product in hand is transferred.
LEMMA StageHolds ==
    ASSUME TypeOK, KeepInv, NEW s \in Stage,
           UNCHANGED <<pending, queue, requested, answered, lost>>,
           \A t \in Stage \ {s} : work'[t] = work[t] /\ pc'[t] = pc[t],
           pc'[s] # "idle",
           work'[s].request = work[s].request, work'[s].seen = work[s].seen,
           work'[s].left = work[s].left
    PROVE  KeepInv'
  <1>1. \A a : Holds(s, a) => Holds(s, a)'
    BY DEF Holds, Left
  <1>2. \A a : InQueue(queue, a) => InQueue(queue, a)'
    BY DEF InQueue
  <1> QED
    BY <1>1, <1>2, StageHandsOver DEF Kept

LEMMA StageKeeps ==
    ASSUME TypeOK, KeepInv, NEW s \in Stage, Acts(s)
    PROVE  KeepInv'
  <1>1. work \in [Stage -> Work] /\ pc \in [Stage -> PC] /\ queue \in Seq(Request)
        /\ work[s] \in Work /\ work[s].request \in Request
    BY DEF TypeOK, Work
  <1>2. \A a : InQueue(queue, a) /\ UNCHANGED queue => InQueue(queue, a)'
    BY DEF InQueue
  <1>3. ASSUME Take(s)
        PROVE  KeepInv'
    <2> DEFINE r == Head(queue)
    <2>1. PICK missing \in SUBSET r.documents, refused \in BOOLEAN :
              /\ Missing(r, missing)
              /\ work' = [work EXCEPT ![s] = [NoWork EXCEPT !.request = r,
                              !.refused = refused, !.left = r.documents \ missing]]
      BY <1>3 DEF Take
    <2>2. queue # <<>> /\ pc[s] = "idle" /\ pc' = [pc EXCEPT ![s] = "next"]
          /\ UNCHANGED <<pending, requested, lost>>
      BY <1>3 DEF Take, Goto
    <2>3. /\ work'[s].request = r /\ work'[s].left = r.documents \ missing
          /\ work'[s].seen = {}
      BY <1>1, <2>1, NoWorkIsTyped DEF NoWork
    <2>4. ASSUME NEW a, Asks(r, a)
          PROVE  a \in answered' \/ a \notin requested \/ Holds(s, a)'
      <3>1. PICK d \in r.documents : a[2] = ProductOf[d]
        BY <2>4 DEF Asks, Products
      <3>2. CASE d \in missing
        <4>1. <<a[1], a[2]>> \in answered'
          BY <2>1, <2>4, <3>1, <3>2 DEF Missing, Asked, Products, Asks
        <4>2. a \in requested => a = <<a[1], a[2]>>
          BY DEF TypeOK
        <4> QED
          BY <4>1, <4>2
      <3>3. CASE d \notin missing
        BY <2>3, <2>4, <3>1, <3>3 DEF Holds, Left, Products, Asks
      <3> QED
        BY <3>2, <3>3
    <2>5. \A a : ~Holds(s, a)
      BY <2>2 DEF KeepInv, IdleIsDone, Holds, Products
    <2>6. queue' = Tail(queue) /\ answered \subseteq answered'
      BY <2>1 DEF Missing
    <2>7. ASSUME NEW a \in requested
          PROVE  Kept(a)'
      <3>1. Kept(a)
        BY DEF KeepInv, AllAreKept
      <3>2. InQueue(queue, a) => Asks(r, a) \/ InQueue(queue, a)'
        BY <1>1, <2>2, <2>6, Taken
      <3>3. \A t \in Stage : Holds(t, a) => Holds(t, a)'
        BY <1>1, <2>1, <2>5 DEF Holds, Left
      <3>4. InQueue(pending, a) => InQueue(pending, a)'
        BY <2>2 DEF InQueue
      <3> QED
        BY <2>2, <2>4, <2>6, <3>1, <3>2, <3>3, <3>4 DEF Kept
    <2>8. PendingIsLive' /\ IdleIsDone'
      BY <1>1, <2>1, <2>2 DEF KeepInv, PendingIsLive, IdleIsDone, Left
    <2> QED
      BY <2>2, <2>7, <2>8 DEF KeepInv, AllAreKept
  <1>4. ASSUME End(s), UNCHANGED <<pending, requested, answered>>, lost \subseteq lost',
               \A a : Holds(s, a) \/ InQueue(queue, a) => a[1] \in lost' \/ InQueue(queue, a)'
        PROVE  KeepInv'
    <2>1. Left(s)' = {}
      BY <1>1, <1>4, NoWorkIsTyped DEF End, Left
    <2>2. \A t \in Stage \ {s} : work'[t] = work[t] /\ pc'[t] = pc[t]
      BY <1>1, <1>4 DEF End, Goto
    <2> QED
      BY <1>4, <2>1, <2>2, StageHandsOver DEF Kept
  <1>5. ASSUME Done(s)
        PROVE  KeepInv'
    <2>1. \A a : ~Holds(s, a)
      BY <1>5 DEF Done, Holds, Products
    <2> QED
      BY <1>2, <1>4, <1>5, <2>1 DEF Done, broker, history
  <1>6. ASSUME GiveBack(s)
        PROVE  KeepInv'
    <2>1. Again(s) \in Request
      BY <1>1, <1>6 DEF GiveBack, Leaves, Again, Request, Left, Work
    <2>2. Again(s).operation = work[s].request.operation /\ Again(s).documents = Left(s)
      BY <1>1 DEF Again, Request
    <2>3. \A a : Holds(s, a) => Asks(Again(s), a)
      BY <2>2 DEF Holds, Asks
    <2>4. \A a : InQueue(queue, a) \/ Asks(Again(s), a) => InQueue(queue, a)'
      BY <1>1, <1>6, <2>1, Appended DEF GiveBack
    <2> QED
      BY <1>4, <1>6, <2>3, <2>4 DEF GiveBack, history
  <1>7. ASSUME LoseLeft(s) \/ Crash(s)
        PROVE  KeepInv'
    <2>1. \A a : Holds(s, a) => a[1] \in lost'
      BY <1>7 DEF LoseLeft, Crash, Lose, Holds
    <2> QED
      BY <1>2, <1>4, <1>7, <2>1 DEF LoseLeft, Crash, Lose, broker
  <1>8. ASSUME NEW d, NEW results, Store(s, d, results),
               UNCHANGED <<pending, queue, requested, answered, lost>>
        PROVE  KeepInv'
    BY <1>1, <1>8, StageHolds DEF Store, Goto, Work
  <1>9. ASSUME Serve(s)
        PROVE  KeepInv'
    <2>1. PICK d \in Left(s) :
              LET n == ProductOf[d] IN
              \/ /\ n \in work[s].seen
                 /\ work' = [work EXCEPT ![s].left = @ \ {d}]
                 /\ UNCHANGED pc
              \/ Store(s, d, ResultsOf({NoDestination}, "KO"))
              \/ Decide(s, d)
      BY <1>9 DEF Serve
    <2>2. UNCHANGED <<pending, queue, requested, answered, lost>> /\ pc[s] = "next"
      BY <1>9 DEF Serve, broker
    <2>3. ASSUME ProductOf[d] \in work[s].seen,
                 work' = [work EXCEPT ![s].left = @ \ {d}], UNCHANGED pc
          PROVE  KeepInv'
      <3>1. /\ work'[s].left = work[s].left \ {d} /\ work'[s].seen = work[s].seen
            /\ work'[s].request = work[s].request
        BY <1>1, <2>3 DEF Work
      <3>2. \A a : Holds(s, a) => Holds(s, a)'
        BY <2>3, <3>1 DEF Holds, Left, Products
      <3> QED
        BY <1>1, <1>2, <2>2, <2>3, <3>2, StageHandsOver DEF Kept
    <2>4. ASSUME NEW todo, NEW same, Transfer(s, d, todo, same)
          PROVE  KeepInv'
      BY <1>1, <2>2, <2>4, StageHolds DEF Transfer, Goto, Work
    <2>5. ASSUME Conflict(s, d)
          PROVE  KeepInv'
      BY <1>1, <2>2, <2>5, StageHolds DEF Conflict, Goto, Work
    <2>6. Decide(s, d) => KeepInv'
      BY <1>8, <2>2, <2>4, <2>5 DEF Decide
    <2> QED
      BY <1>8, <2>1, <2>2, <2>3, <2>6
  <1>10. ASSUME Download(s)
         PROVE  KeepInv'
    <2>1. UNCHANGED <<pending, queue, requested, answered, lost>>
      BY <1>10 DEF Download, broker, history
    <2>2. \/ UNCHANGED work /\ Goto(s, "upload")
          \/ Goto(s, "conflict")
             /\ work' = [work EXCEPT ![s].results = Skipped(s, Destination)]
      BY <1>10 DEF Download
    <2> QED
      BY <1>1, <2>1, <2>2, StageHolds DEF Goto, Work
  <1>11. ASSUME OpenConflict(s)
         PROVE  KeepInv'
    BY <1>1, <1>11, StageHolds DEF OpenConflict, Goto, Work, broker, history
  <1>12. ASSUME NEW d, NEW status, Uploaded(s, d, status)
         PROVE  KeepInv'
    BY <1>1, <1>12, StageHolds DEF Uploaded, Work, broker, history
  <1>13. ASSUME Finish(s) \/ IndexError(s) \/ DownloadError(s)
         PROVE  KeepInv'
    <2>1. \E d, results : Store(s, d, results)
      BY <1>13 DEF Finish, IndexError, DownloadError
    <2>2. UNCHANGED <<pending, queue, requested, answered, lost>>
      BY <1>13 DEF Finish, IndexError, DownloadError, broker, history
    <2> QED
      BY <1>8, <2>1, <2>2
  <1>14. ASSUME NEW results, Stored(s, results), NextProduct(s), lost \subseteq lost',
                UNCHANGED <<pending, queue, requested>>
         PROVE  KeepInv'
    <2>1. /\ work'[s].left = work[s].left \ {Doc(s)}
          /\ work'[s].seen = work[s].seen \cup {Name(s)}
          /\ work'[s].request = work[s].request
      BY <1>1, <1>14 DEF NextProduct, Work
    <2>2. answered' = answered \cup {<<work[s].request.operation, Name(s)>>}
      BY <1>14 DEF Stored
    <2>3. pc'[s] = "next" /\ \A t \in Stage \ {s} : work'[t] = work[t] /\ pc'[t] = pc[t]
      BY <1>1, <1>14 DEF NextProduct, Goto
    <2>4. \A t \in Stage \ {s} : \A a : Holds(t, a) => Holds(t, a)'
      BY <2>3 DEF Holds, Left
    <2>5. ASSUME NEW a \in requested, Holds(s, a)
          PROVE  Kept(a)'
      <3>1. a = <<a[1], a[2]>> /\ a[1] = work[s].request.operation
        BY <2>5 DEF TypeOK, Holds
      <3>2. CASE a[2] = Name(s)
        BY <2>2, <3>1, <3>2 DEF Kept
      <3>3. CASE a[2] # Name(s)
        <4>1. a[2] \in Products(work[s].left \ {Doc(s)})
          BY <2>5, <3>3 DEF Holds, Products, Left, Name
        <4>2. Holds(s, a)'
          BY <2>1, <2>5, <3>3, <4>1 DEF Holds, Left
        <4> QED
          BY <4>2 DEF Kept
      <3> QED
        BY <3>2, <3>3
    <2>6. ASSUME NEW a \in requested
          PROVE  Kept(a)'
      <3>1. Kept(a)
        BY DEF KeepInv, AllAreKept
      <3>2. (InQueue(queue, a) => InQueue(queue, a)') /\ (InQueue(pending, a) => InQueue(pending, a)')
        BY <1>14 DEF InQueue
      <3> QED
        BY <1>14, <2>2, <2>4, <2>5, <3>1, <3>2 DEF Kept
    <2> QED
      BY <1>14, <2>3, <2>6 DEF KeepInv, AllAreKept, PendingIsLive, IdleIsDone, Left
  <1>15. ASSUME StoreReports(s)
         PROVE  KeepInv'
    BY <1>14, <1>15 DEF StoreReports, broker
  <1>16. ASSUME StoreError(s)
         PROVE  KeepInv'
    BY <1>14, <1>16 DEF StoreError, broker, Lose
  <1>17. ASSUME NEW d \in Destination, Upload(s, d) \/ UploadError(s, d)
         PROVE  KeepInv'
    BY <1>12, <1>17 DEF Upload, UploadError
  <1> QED
    BY <1>3, <1>5, <1>6, <1>7, <1>9, <1>10, <1>11, <1>13, <1>15, <1>16, <1>17
    DEF Acts, Step, Failure

LEMMA StepKeeps == TypeOK /\ KeepInv /\ [Next]_vars => KeepInv'
  <1> SUFFICES ASSUME TypeOK, KeepInv, [Next]_vars
               PROVE  KeepInv'
    OBVIOUS
  <1>1. CASE UNCHANGED vars
    BY <1>1 DEF KeepInv, PendingIsLive, IdleIsDone, AllAreKept, Kept, InQueue, Holds, Left,
                vars, broker, history
  <1>2. CASE Next
    BY <1>2, RequesterKeeps, StageKeeps DEF Next, Acts
  <1> QED
    BY <1>1, <1>2

\* What is requested waits, is answered, or its request, what was left of it or a report
\* was lost (the acknowledgement at the taking of a request, publish_remaining at a stop).
THEOREM Remembered == Spec => []NothingIsForgotten
  <1>1. ASSUME TypeOK, KeepInv
        PROVE  NothingIsForgotten
    <2> SUFFICES ASSUME NEW a \in requested, a \notin answered, a[1] \notin lost
                 PROVE  Waiting(a[1], a[2])
      BY DEF NothingIsForgotten
    <2>1. \/ InQueue(pending, a) \/ InQueue(queue, a)
          \/ \E s \in Stage : Holds(s, a)
      BY <1>1 DEF KeepInv, AllAreKept, Kept
    <2>2. CASE InQueue(pending, a) \/ InQueue(queue, a)
      <3> DEFINE q == pending \o queue
      <3>1. pending \in Seq(Request) /\ queue \in Seq(Request)
        BY <1>1 DEF TypeOK
      <3>2. /\ Len(pending) \in Nat /\ DOMAIN q = 1 .. Len(pending) + Len(queue)
            /\ \A i \in DOMAIN pending : i \in DOMAIN q /\ q[i] = pending[i]
            /\ \A i \in DOMAIN queue :
                   i + Len(pending) \in DOMAIN q /\ q[i + Len(pending)] = queue[i]
        BY <3>1
      <3> HIDE DEF q
      <3>3. PICK i \in DOMAIN q : Asks(q[i], a)
        BY <2>2, <3>2 DEF InQueue
      <3> QED
        BY <3>3 DEF Waiting, Asks, ToSet, q
    <2>3. CASE \E s \in Stage : Holds(s, a)
      BY <2>3 DEF Holds, Waiting
    <2> QED
      BY <2>1, <2>2, <2>3
  <1>2. Init => TypeOK /\ KeepInv
    BY InitIsTyped, InitKeeps
  <1>3. TypeOK /\ KeepInv /\ [Next]_vars => (TypeOK /\ KeepInv)'
    BY StepIsTyped, StepKeeps
  <1>4. Spec => [](TypeOK /\ KeepInv)
    BY <1>2, <1>3, PTL DEF Spec
  <1>5. TypeOK /\ KeepInv => NothingIsForgotten
    BY <1>1
  <1> QED
    BY <1>4, <1>5, PTL

----------------------------------------------------------------------------
(* The mirrors agree.                                                       *)

\* The destinations stage s has tried to write, or has given up.
Touched(s) == {q.destination : q \in {x \in work[s].results : x.status # "SKIPPED"}}
HasOK(s) == \E q \in work[s].results : q.status = "OK"

\* Stage s is to write the product in hand, or has written it and not said so yet.
Active(s) == pc[s] \in {"download", "upload"} \/ (pc[s] = "store" /\ HasOK(s))

\* How the results of stage s, and what it has left to do, make up the destinations.
Plan(s) ==
    /\ pc[s] \in {"idle", "next", "download"} => work[s].results = {}
    /\ pc[s] = "conflict" => \A q \in work[s].results : q.status = "SKIPPED"
    /\ pc[s] = "upload" => \A q \in work[s].results :
                              q.status # "SKIPPED" /\ q.destination \notin work[s].todo
    /\ pc[s] \in {"download", "upload"} =>
           /\ work[s].todo \cap work[s].skip = {}
           /\ work[s].todo \cup work[s].skip \cup Touched(s) = Destination
    /\ pc[s] = "store" /\ HasOK(s) => work[s].todo = {}

\* The bytes the mirrors that stage s leaves alone must hold.
Source(s) == IF pc[s] = "download" THEN work[s].same ELSE BytesOf[Doc(s)]

\* The mirrors that stage s leaves alone hold those bytes, and those it has written do.
Ready(s) ==
    /\ pc[s] \in {"download", "upload"} =>
           \A d \in work[s].skip : Source(s) \in Bytes /\ objects[Name(s)][d] = Source(s)
    /\ \A r \in ArchivedReports(Name(s)) :
           r.destination \in work[s].todo \cup Touched(s) \/ r.md5 = Source(s)
    /\ \A q \in work[s].results :
           q.status = "OK" => objects[Name(s)][q.destination] = BytesOf[Doc(s)]

Agree(n) == \A r, t \in ArchivedReports(n) : r.md5 = t.md5

\* Some stage has written destination d of product n, or tried to, and not said so yet.
InDoubt(n, d) ==
    \E s \in Stage : pc[s] \in {"upload", "store"} /\ Name(s) = n /\ d \in Touched(s)

Held(n) ==
    \A r \in ArchivedReports(n) :
        objects[n][r.destination] = r.md5 \/ InDoubt(n, r.destination)

\* One stage at a time writes a product.
Sole ==
    \A s, t \in Stage :
        Active(s) /\ Active(t) /\ Name(s) = Name(t) /\ Name(s) \notin disturbed => s = t

MirrorInv ==
    /\ \A s \in Stage : Plan(s)
    /\ Sole
    /\ \A n \in Product \ disturbed : Agree(n) /\ Held(n)
    /\ \A s \in Stage : Active(s) /\ Name(s) \notin disturbed => Ready(s)

\* A step of stage s alone.
Alone(s) ==
    /\ \A t \in Stage \ {s} : work'[t] = work[t] /\ pc'[t] = pc[t]
    /\ disturbed \subseteq disturbed'

\* What stage s has tried to write is still in doubt.
StaysInDoubt(s) ==
    pc[s] \in {"upload", "store"} /\ Name(s) \notin disturbed' =>
        /\ pc'[s] \in {"upload", "store"} /\ Name(s)' = Name(s)
        /\ Touched(s) \subseteq Touched(s)'

\* No other stage becomes active with the product of s.
StaysSole(s) ==
    Active(s)' /\ Name(s)' \notin disturbed' =>
        \/ Active(s) /\ Name(s)' = Name(s)
        \/ \A t \in Stage \ {s} : ~(Active(t) /\ Name(t) = Name(s)')

LEMMA SameStage ==
    ASSUME NEW t \in Stage, work'[t] = work[t], pc'[t] = pc[t]
    PROVE  /\ Touched(t)' = Touched(t) /\ Name(t)' = Name(t) /\ Doc(t)' = Doc(t)
           /\ Active(t)' = Active(t) /\ Plan(t)' = Plan(t) /\ Source(t)' = Source(t)
           /\ HasOK(t)' = HasOK(t)
  BY DEF Touched, Name, Doc, Active, HasOK, Plan, Source

LEMMA SameArchive ==
    UNCHANGED reports => \A n : ArchivedReports(n)' = ArchivedReports(n)
  BY DEF ArchivedReports, LastOf

LEMMA PlanAndSole ==
    ASSUME MirrorInv, NEW s \in Stage, Alone(s), Plan(s)', StaysSole(s)
    PROVE  (\A t \in Stage : Plan(t)') /\ Sole'
  <1>1. \A t \in Stage \ {s} :
            /\ Name(t)' = Name(t) /\ Active(t)' = Active(t) /\ Plan(t)' = Plan(t)
    BY SameStage DEF Alone
  <1>2. \A t \in Stage : Plan(t)'
    BY <1>1 DEF MirrorInv
  <1>3. ASSUME NEW t \in Stage, NEW u \in Stage, Active(t)', Active(u)',
               Name(t)' = Name(u)', Name(t)' \notin disturbed', t # u
        PROVE  FALSE
    <2>1. CASE t # s /\ u # s
      BY <1>1, <1>3, <2>1 DEF MirrorInv, Sole, Alone
    <2>2. CASE t = s
      BY <1>1, <1>3, <2>2 DEF MirrorInv, Sole, Alone, StaysSole
    <2>3. CASE u = s
      BY <1>1, <1>3, <2>3 DEF MirrorInv, Sole, Alone, StaysSole
    <2> QED
      BY <2>1, <2>2, <2>3
  <1> QED
    BY <1>2, <1>3 DEF Sole

\* A step that neither writes nor reports.
LEMMA Quiet ==
    ASSUME TypeOK, MirrorInv, NEW s \in Stage, Alone(s), UNCHANGED <<objects, reports>>,
           Plan(s)', StaysSole(s), StaysInDoubt(s),
           Active(s)' /\ Name(s)' \notin disturbed' => Ready(s)'
    PROVE  MirrorInv'
  <1>1. \A t \in Stage \ {s} :
            /\ Touched(t)' = Touched(t) /\ Name(t)' = Name(t) /\ Doc(t)' = Doc(t)
            /\ Active(t)' = Active(t) /\ Source(t)' = Source(t)
            /\ work'[t] = work[t] /\ pc'[t] = pc[t]
    BY SameStage DEF Alone
  <1>2. \A n : ArchivedReports(n)' = ArchivedReports(n)
    BY SameArchive
  <1>3. ASSUME NEW n \in Product \ disturbed'
        PROVE  Agree(n)' /\ Held(n)'
    <2>1. Agree(n) /\ Held(n)
      BY DEF MirrorInv, Alone
    <2>2. Agree(n)'
      BY <1>2, <2>1 DEF Agree
    <2>3. ASSUME NEW d, InDoubt(n, d)
          PROVE  InDoubt(n, d)'
      <3>1. PICK t \in Stage : /\ pc[t] \in {"upload", "store"} /\ Name(t) = n
                               /\ d \in Touched(t)
        BY <2>3 DEF InDoubt
      <3>2. CASE t = s
        BY <3>1, <3>2 DEF StaysInDoubt, InDoubt
      <3>3. CASE t # s
        BY <1>1, <3>1, <3>3 DEF InDoubt
      <3> QED
        BY <3>2, <3>3
    <2>4. Held(n)'
      BY <1>2, <2>1, <2>3 DEF Held
    <2> QED
      BY <2>2, <2>4
  <1>4. ASSUME NEW t \in Stage, Active(t)', Name(t)' \notin disturbed'
        PROVE  Ready(t)'
    <2>1. CASE t = s
      BY <1>4, <2>1
    <2>2. CASE t # s
      <3>1. Ready(t)
        BY <1>1, <1>4, <2>2 DEF MirrorInv, Alone
      <3> QED
        BY <1>1, <1>2, <2>2, <3>1 DEF Ready
    <2> QED
      BY <2>1, <2>2
  <1> QED
    BY <1>3, <1>4, PlanAndSole DEF MirrorInv

\* A step after which stage s has nothing to write.
LEMMA Passive ==
    ASSUME TypeOK, MirrorInv, NEW s \in Stage, Alone(s), UNCHANGED <<objects, reports>>,
           StaysInDoubt(s),
           \/ pc'[s] \in {"idle", "next"} /\ work'[s].results = {}
           \/ pc'[s] = "conflict" /\ \A q \in work'[s].results : q.status = "SKIPPED"
           \/ pc'[s] = "store" /\ \A q \in work'[s].results : q.status # "OK"
    PROVE  MirrorInv'
  <1>1. ~Active(s)' /\ Plan(s)'
    BY DEF Active, HasOK, Plan
  <1> QED
    BY <1>1, Quiet DEF StaysSole

\* decide(): a transfer to every destination, or to those that are missing.
LEMMA TransferMirrors ==
    ASSUME TypeOK, MirrorInv, NEW s \in Stage, NEW d \in Document, pc[s] = "next",
           NEW todo, NEW same, Transfer(s, d, todo, same), UNCHANGED <<objects, reports>>,
           \/ todo = Destination
           \/ /\ ArchivedIn(ProductOf[d]) # {}
              /\ todo = MissingIn(ProductOf[d]) /\ same = Reference(ProductOf[d]).md5,
           disturbed' = IF \E t \in Stage : Serving(t, ProductOf[d])
                        THEN disturbed \cup {ProductOf[d]} ELSE disturbed
    PROVE  MirrorInv'
  <1> DEFINE n == ProductOf[d]
  <1>1. n \in Product /\ reports[n] \in Seq(Report)
        /\ work \in [Stage -> Work] /\ pc \in [Stage -> PC] /\ work[s] \in Work
    BY TransferAssumption DEF TypeOK
  <1>2. /\ pc'[s] = "download" /\ work'[s].document = d /\ work'[s].todo = todo
        /\ work'[s].skip = Destination \ todo /\ work'[s].same = same
        /\ work'[s].results = work[s].results
    BY <1>1 DEF Transfer, Goto, Work
  <1>3. Alone(s)
    BY <1>1 DEF Alone, Transfer, Goto
  <1>4. work'[s].results = {}
    BY <1>2 DEF MirrorInv, Plan
  <1>5. todo \subseteq Destination
    BY DEF MissingIn
  <1>6. Plan(s)'
    BY <1>2, <1>4, <1>5 DEF Plan, HasOK, Touched
  <1>7. Name(s)' = n /\ Touched(s)' = {} /\ Source(s)' = same
    BY <1>2, <1>4 DEF Name, Doc, Touched, Source
  <1>8. StaysInDoubt(s)
    BY DEF StaysInDoubt
  <1>9. ASSUME n \notin disturbed'
        PROVE  \A t \in Stage : ~Serving(t, n)
    BY <1>9
  <1>10. StaysSole(s)
    BY <1>7, <1>9 DEF StaysSole, Active, Serving, Name, Doc
  <1>11. ASSUME n \notin disturbed'
         PROVE  Ready(s)'
    <2>1. /\ Agree(n)
          /\ \A r \in ArchivedReports(n) : objects[n][r.destination] = r.md5
      BY <1>1, <1>3, <1>9, <1>11 DEF MirrorInv, Held, InDoubt, Serving, Name, Doc, Alone
    <2>2. ArchivedReports(n)' = ArchivedReports(n)
      BY SameArchive
    <2>3. \A r \in ArchivedReports(n) : r.destination \in Destination /\ r.md5 \in Bytes
      BY <1>1, ArchivedHasBytes
    <2>4. CASE todo = Destination
      BY <1>2, <1>4, <1>7, <2>2, <2>3, <2>4 DEF Ready
    <2>5. CASE ArchivedIn(n) # {} /\ todo = MissingIn(n) /\ same = Reference(n).md5
      <3>1. Reference(n) \in ArchivedReports(n)
        BY <1>1, <2>5, ReferenceIsArchived
      <3>2. same \in Bytes /\ \A r \in ArchivedReports(n) : r.md5 = same
        BY <2>1, <2>3, <2>5, <3>1 DEF Agree
      <3>3. \A e \in Destination \ todo : objects[n][e] = same
        <4> SUFFICES ASSUME NEW e \in Destination \ todo
                     PROVE  objects[n][e] = same
          OBVIOUS
        <4>1. e \in ArchivedIn(n)
          BY <2>5 DEF MissingIn
        <4>2. PICK r \in ArchivedReports(n) : r.destination = e
          BY <1>1, <4>1, ShownInIsArchived
        <4> QED
          BY <2>1, <3>2, <4>2
      <3> QED
        BY <1>2, <1>4, <1>7, <2>2, <3>2, <3>3 DEF Ready
    <2> QED
      BY <2>4, <2>5
  <1> QED
    BY <1>3, <1>6, <1>7, <1>8, <1>10, <1>11, Quiet

\* download_and_upload(): the product was downloaded, with the bytes of the mirrors.
LEMMA DownloadMirrors ==
    ASSUME TypeOK, MirrorInv, NEW s \in Stage, pc[s] = "download", SameBytes(s),
           Goto(s, "upload"), UNCHANGED <<work, objects, reports, disturbed>>
    PROVE  MirrorInv'
  <1>1. Name(s) \in Product /\ BytesOf[Doc(s)] \in Bytes
        /\ pc \in [Stage -> PC] /\ work[s] \in Work
    BY TransferAssumption DEF TypeOK, Work, Name, Doc
  <1>2. pc'[s] = "upload" /\ work'[s] = work[s] /\ Alone(s)
    BY <1>1 DEF Goto, Alone
  <1>3. /\ Name(s)' = Name(s) /\ Doc(s)' = Doc(s) /\ Touched(s)' = Touched(s)
        /\ Active(s) /\ Source(s)' = BytesOf[Doc(s)] /\ Source(s) = work[s].same
    BY <1>2 DEF Name, Doc, Touched, Active, Source
  <1>4. Plan(s)'
    BY <1>2, <1>3 DEF MirrorInv, Plan
  <1>5. ASSUME Name(s) \notin disturbed
        PROVE  Ready(s)'
    <2>1. Ready(s)
      BY <1>3, <1>5 DEF MirrorInv
    <2>2. work[s].same \in Bytes => work[s].same = BytesOf[Doc(s)]
      BY TransferAssumption DEF SameBytes
    <2>3. ArchivedReports(Name(s))' = ArchivedReports(Name(s))
      BY <1>3, SameArchive DEF ArchivedReports, LastOf
    <2>4. \A r \in ArchivedReports(Name(s)) : r.md5 \in Bytes
      BY <1>1, ArchivedHasBytes
    <2>5. work[s].results = {}
      BY DEF MirrorInv, Plan
    <2> QED
      BY <1>2, <1>3, <2>1, <2>2, <2>3, <2>4, <2>5 DEF Ready
  <1> QED
    BY <1>2, <1>3, <1>4, <1>5, Quiet DEF StaysSole, StaysInDoubt

\* The destinations were all written, or given up.
LEMMA FinishMirrors ==
    ASSUME TypeOK, MirrorInv, NEW s \in Stage, Finish(s)
    PROVE  MirrorInv'
  <1> DEFINE more == Skipped(s, work[s].skip)
  <1>1. work \in [Stage -> Work] /\ pc \in [Stage -> PC] /\ work[s] \in Work
    BY DEF TypeOK
  <1>2. /\ pc[s] = "upload" /\ work[s].todo = {} /\ Store(s, Doc(s), work[s].results \cup more)
        /\ UNCHANGED <<objects, reports, disturbed>>
    BY DEF Finish, history
  <1>3. \A q \in more : q.status = "SKIPPED"
    BY DEF Skipped, ResultsOf
  <1> HIDE DEF more
  <1>4. /\ pc'[s] = "store" /\ work'[s].document = Doc(s) /\ work'[s].todo = {}
        /\ work'[s].results = work[s].results \cup more
    BY <1>1, <1>2 DEF Store, Goto, Work
  <1>5. Alone(s)
    BY <1>1, <1>2 DEF Alone, Store, Goto
  <1>6. /\ Name(s)' = Name(s) /\ Doc(s)' = Doc(s) /\ Active(s)
        /\ Source(s)' = Source(s)
    BY <1>2, <1>4 DEF Name, Doc, Active, Source
  <1>7. Touched(s)' = Touched(s)
    BY <1>3, <1>4 DEF Touched
  <1>8. Plan(s)'
    BY <1>4 DEF Plan
  <1>9. ASSUME Name(s) \notin disturbed
        PROVE  Ready(s)'
    <2>1. Ready(s)
      BY <1>6, <1>9 DEF MirrorInv
    <2>2. ArchivedReports(Name(s))' = ArchivedReports(Name(s))
      BY <1>2, <1>6 DEF ArchivedReports, LastOf
    <2>3. \A q \in work'[s].results : q.status = "OK" => q \in work[s].results
      BY <1>3, <1>4
    <2> QED
      BY <1>2, <1>4, <1>6, <1>7, <2>1, <2>2, <2>3 DEF Ready
  <1> QED
    BY <1>2, <1>4, <1>5, <1>6, <1>7, <1>8, <1>9, Quiet DEF StaysSole, StaysInDoubt

\* A destination is written, or given up with anything in it.
LEMMA UploadMirrors ==
    ASSUME TypeOK, MirrorInv, NEW s \in Stage, NEW d \in Destination,
           NEW status \in {"OK", "KO"}, NEW content,
           Uploaded(s, d, status), Put(s, d, content),
           status = "OK" => content = BytesOf[Doc(s)]
    PROVE  MirrorInv'
  <1> DEFINE m == Name(s)
  <1>1. work \in [Stage -> Work] /\ pc \in [Stage -> PC] /\ work[s] \in Work
        /\ m \in Product /\ objects \in [Product -> [Destination -> Bytes \cup {Nothing, Broken}]]
    BY TransferAssumption DEF TypeOK, Work, Name, Doc
  <1>2. /\ pc[s] = "upload" /\ d \in work[s].todo /\ UNCHANGED <<pc, reports, disturbed>>
    BY DEF Uploaded, history
  <1>3. /\ work'[s].todo = work[s].todo \ {d} /\ work'[s].document = work[s].document
        /\ work'[s].results = work[s].results \cup {[destination |-> d, status |-> status]}
        /\ work'[s].skip = work[s].skip
    BY <1>1 DEF Uploaded, ResultsOf, Work
  <1>4. Alone(s)
    BY <1>1, <1>2 DEF Alone, Uploaded
  <1>5. /\ Name(s)' = m /\ Doc(s)' = Doc(s) /\ Active(s) /\ Active(s)'
        /\ Source(s) = BytesOf[Doc(s)] /\ Source(s)' = BytesOf[Doc(s)]
    BY <1>2, <1>3 DEF Name, Doc, Active, Source
  <1>6. Touched(s)' = Touched(s) \cup {d}
    <2> DEFINE new == [destination |-> d, status |-> status]
    <2>1. new.destination = d /\ new.status # "SKIPPED"
      OBVIOUS
    <2>2. work'[s].results = work[s].results \cup {new}
      BY <1>3
    <2> HIDE DEF new
    <2> QED
      BY <2>1, <2>2 DEF Touched
  <1>7. Plan(s)
    BY DEF MirrorInv
  <1>8. Plan(s)'
    BY <1>2, <1>3, <1>6, <1>7 DEF Plan
  <1>9. (\A t \in Stage : Plan(t)') /\ Sole'
    BY <1>4, <1>5, <1>8, PlanAndSole DEF StaysSole
  <1>10. /\ objects'[m][d] = content
         /\ \A e \in Destination \ {d} : objects'[m][e] = objects[m][e]
         /\ \A n \in Product \ {m} : objects'[n] = objects[n]
    BY <1>1 DEF Put
  <1>11. \A n : ArchivedReports(n)' = ArchivedReports(n)
    BY <1>2, SameArchive
  <1>12. \A t \in Stage \ {s} :
             /\ Touched(t)' = Touched(t) /\ Name(t)' = Name(t) /\ Doc(t)' = Doc(t)
             /\ Active(t)' = Active(t) /\ Source(t)' = Source(t)
             /\ work'[t] = work[t] /\ pc'[t] = pc[t]
    BY <1>4, SameStage DEF Alone
  <1>13. \A n, e : InDoubt(n, e) => InDoubt(n, e)'
    BY <1>2, <1>5, <1>6, <1>12 DEF InDoubt
  <1>14. \A n : n = m => InDoubt(n, d)'
    BY <1>2, <1>5, <1>6 DEF InDoubt
  <1>15. ASSUME NEW n \in Product \ disturbed'
         PROVE  Agree(n)' /\ Held(n)'
    <2>1. Agree(n) /\ Held(n)
      BY <1>2 DEF MirrorInv
    <2>2. \A r \in ArchivedReports(n) : r.destination \in Destination
      BY ArchivedHasBytes
    <2>3. Held(n)'
      <3>1. CASE n = m
        <4> SUFFICES ASSUME NEW r \in ArchivedReports(n)
                     PROVE  objects'[n][r.destination] = r.md5 \/ InDoubt(n, r.destination)'
          BY <1>11 DEF Held
        <4>1. CASE r.destination = d
          BY <1>14, <3>1, <4>1
        <4>2. CASE r.destination # d
          BY <1>10, <1>13, <2>1, <2>2, <3>1, <4>2 DEF Held
        <4> QED
          BY <4>1, <4>2
      <3>2. CASE n # m
        BY <1>10, <1>11, <1>13, <2>1, <3>2 DEF Held
      <3> QED
        BY <3>1, <3>2
    <2> QED
      BY <1>11, <2>1, <2>3 DEF Agree
  <1>16. ASSUME m \notin disturbed
         PROVE  Ready(s)'
    <2>1. Ready(s)
      BY <1>5, <1>16 DEF MirrorInv
    <2>2. d \notin work[s].skip /\ work[s].skip \subseteq Destination
      BY <1>2, <1>7 DEF Plan
    <2>3. \A e \in work'[s].skip : Source(s)' \in Bytes /\ objects'[m][e] = Source(s)'
      BY <1>2, <1>3, <1>5, <1>10, <2>1, <2>2 DEF Ready
    <2>4. \A r \in ArchivedReports(m)' :
              r.destination \in work'[s].todo \cup Touched(s)' \/ r.md5 = Source(s)'
      BY <1>3, <1>5, <1>6, <1>11, <2>1 DEF Ready
    <2>5. ASSUME NEW q \in work'[s].results, q.status = "OK"
          PROVE  objects'[m][q.destination] = BytesOf[Doc(s)]
      <3>1. CASE q \in work[s].results
        <4>1. q.destination # d /\ q.destination \in Destination
          <5>1. q.destination \in Touched(s)
            BY <2>5, <3>1 DEF Touched
          <5> QED
            BY <1>2, <1>7, <3>1, <5>1 DEF Plan
        <4> QED
          BY <1>10, <2>1, <2>5, <3>1, <4>1 DEF Ready
      <3>2. CASE q = [destination |-> d, status |-> status]
        BY <1>10, <2>5, <3>2
      <3> QED
        BY <1>3, <3>1, <3>2
    <2> QED
      BY <1>5, <2>3, <2>4, <2>5 DEF Ready
  <1>17. ASSUME NEW t \in Stage, Active(t)', Name(t)' \notin disturbed'
         PROVE  Ready(t)'
    <2>1. CASE t = s
      BY <1>2, <1>5, <1>16, <1>17, <2>1
    <2>2. CASE t # s
      <3>1. Ready(t) /\ Name(t) # m
        BY <1>2, <1>5, <1>12, <1>17, <2>2 DEF MirrorInv, Sole
      <3>2. Name(t) \in Product
        BY TransferAssumption DEF TypeOK, Work, Name, Doc
      <3> QED
        BY <1>10, <1>11, <1>12, <2>2, <3>1, <3>2 DEF Ready
    <2> QED
      BY <2>1, <2>2
  <1> QED
    BY <1>9, <1>15, <1>17 DEF MirrorInv

\* The reports of a product are stored, some or all: the other products are not concerned.
LEMMA StoredElsewhere ==
    ASSUME TypeOK, MirrorInv, NEW s \in Stage, NEW results, Stored(s, results),
           NextProduct(s), disturbed \subseteq disturbed', UNCHANGED objects
    PROVE  /\ \A t \in Stage : Plan(t)'
           /\ Sole'
           /\ ~Active(s)'
           /\ \A n \in Product : n # Name(s) =>
                  /\ reports'[n] = reports[n]
                  /\ ArchivedReports(n)' = ArchivedReports(n)
           /\ \A n \in Product \ disturbed' : n # Name(s) => Agree(n)' /\ Held(n)'
           /\ \A t \in Stage \ {s} :
                  /\ Touched(t)' = Touched(t) /\ Name(t)' = Name(t) /\ Doc(t)' = Doc(t)
                  /\ Active(t)' = Active(t) /\ Source(t)' = Source(t)
                  /\ work'[t] = work[t] /\ pc'[t] = pc[t]
           /\ \A t \in Stage : Active(t)' /\ Name(t)' \notin disturbed' /\ Name(t) # Name(s)
                                => Ready(t)'
  <1>1. work \in [Stage -> Work] /\ pc \in [Stage -> PC] /\ work[s] \in Work
        /\ reports \in [Product -> Seq(Report)]
    BY DEF TypeOK
  <1>2. pc'[s] = "next" /\ work'[s].results = {} /\ Alone(s)
    BY <1>1 DEF NextProduct, Goto, Work, Alone
  <1>3. ~Active(s)' /\ Plan(s)'
    BY <1>2 DEF Active, Plan, HasOK
  <1>4. (\A t \in Stage : Plan(t)') /\ Sole'
    BY <1>2, <1>3, PlanAndSole DEF StaysSole
  <1>5. \A t \in Stage \ {s} :
            /\ Touched(t)' = Touched(t) /\ Name(t)' = Name(t) /\ Doc(t)' = Doc(t)
            /\ Active(t)' = Active(t) /\ Source(t)' = Source(t)
            /\ work'[t] = work[t] /\ pc'[t] = pc[t]
    BY <1>2, SameStage DEF Alone
  <1>6. \A n \in Product : n # Name(s) => reports'[n] = reports[n]
    BY <1>1 DEF Stored
  <1>7. \A n \in Product : n # Name(s) => ArchivedReports(n)' = ArchivedReports(n)
    BY <1>6, Archives, NextArchives
  <1>8. ASSUME NEW n \in Product \ disturbed', n # Name(s)
        PROVE  Agree(n)' /\ Held(n)'
    <2>1. Agree(n) /\ Held(n)
      BY DEF MirrorInv
    <2>2. \A d : InDoubt(n, d) => InDoubt(n, d)'
      BY <1>5, <1>8 DEF InDoubt
    <2> QED
      BY <1>7, <1>8, <2>1, <2>2 DEF Agree, Held
  <1>9. ASSUME NEW t \in Stage, Active(t)', Name(t)' \notin disturbed', Name(t) # Name(s)
        PROVE  Ready(t)'
    <2>1. t # s /\ Ready(t)
      BY <1>3, <1>5, <1>9 DEF MirrorInv
    <2>2. Name(t) \in Product
      BY TransferAssumption DEF TypeOK, Work, Name, Doc
    <2> QED
      BY <1>5, <1>7, <1>9, <2>1, <2>2 DEF Ready
  <1> QED
    BY <1>3, <1>4, <1>5, <1>6, <1>7, <1>8, <1>9

\* What is archived of a product once its reports are stored: the destinations that were
\* written, with the bytes of the document, and those that were not touched.
LEMMA StoredIsArchived ==
    ASSUME TypeOK, NEW s \in Stage, StoreReports(s), NEW n \in Product, n = Name(s),
           NEW r \in ArchivedReports(n)'
    PROVE  \/ \E q \in work[s].results :
                  /\ q.status = "OK" /\ q.destination = r.destination
                  /\ r.md5 = BytesOf[Doc(s)]
           \/ r \in ArchivedReports(n) /\ r.destination \notin Touched(s)
  <1> DEFINE m == Name(s)
             b == BytesOf[Doc(s)]
             counted == Counted(s, work[s].results)
             a == SetToSeq(counted)
  <1>1. /\ pc[s] = "store" /\ Stored(s, work[s].results) /\ NextProduct(s)
        /\ UNCHANGED <<objects, disturbed>>
    BY DEF StoreReports
  <1>2. /\ work[s] \in Work /\ m \in Product /\ reports \in [Product -> Seq(Report)]
        /\ work[s].results \in SUBSET Result
    BY TransferAssumption DEF TypeOK, Work, Name, Doc
  <1>3. a \in Seq(counted) /\ a \in Seq(Report)
        /\ \A x \in counted : \E i \in DOMAIN a : a[i] = x
    BY <1>2, CountedIsTyped, SeqOfSet
  <1>4. reports'[m] = reports[m] \o a
    BY <1>1, <1>2 DEF Stored
  <1>5. ASSUME NEW x \in counted
        PROVE  \E q \in work[s].results :
                   /\ q.destination = x.destination /\ x.md5 = b
                   /\ x.ok => q.status = "OK"
    <2>1. PICK q \in work[s].results :
              x = [destination |-> q.destination, ok |-> q.status = "OK", md5 |-> b,
                   announced |-> Doc(s) \in Announced]
      BY DEF Counted
    <2>2. x.ok = (q.status = "OK")
      BY <2>1
    <2> QED
      BY <2>1, <2>2
  <1>6. ASSUME NEW d \in Touched(s)
        PROVE  \E x \in counted : x.destination = d
    <2>1. PICK q \in work[s].results : q.status # "SKIPPED" /\ q.destination = d
      BY DEF Touched
    <2> DEFINE x == [destination |-> q.destination, ok |-> q.status = "OK", md5 |-> b,
                     announced |-> Doc(s) \in Announced]
    <2>2. x \in counted
      BY <2>1 DEF Counted
    <2>3. x.destination = d
      BY <2>1
    <2> QED
      BY <2>2, <2>3
  <1>7. ArchivedReports(m) = ArchivedOf(reports[m])
    BY <1>2, Archives
  <1> HIDE DEF counted, a
  <1>8. r \in ArchivedOf(reports[m] \o a)
    BY <1>4, NextArchives
  <1>9. \/ \E i \in DOMAIN a : a[i] = r /\ r.ok
        \/ /\ r \in ArchivedOf(reports[m])
           /\ \A i \in DOMAIN a : a[i].destination # r.destination
    BY <1>2, <1>3, <1>8, ArchivedAfter
  <1>10. CASE \E i \in DOMAIN a : a[i] = r /\ r.ok
    <2>1. r \in counted /\ r.ok
      BY <1>3, <1>10
    <2> QED
      BY <1>5, <2>1
  <1>11. CASE /\ r \in ArchivedOf(reports[m])
              /\ \A i \in DOMAIN a : a[i].destination # r.destination
    BY <1>3, <1>6, <1>7, <1>11
  <1> QED
    BY <1>9, <1>10, <1>11

\* store_reports(): the destinations that were written are archived with the bytes of the
\* document, those that were given up are not archived any more.
LEMMA StoreMirrors ==
    ASSUME TypeOK, MirrorInv, NEW s \in Stage, StoreReports(s)
    PROVE  MirrorInv'
  <1> DEFINE m == Name(s)
             b == BytesOf[Doc(s)]
  <1>1. /\ pc[s] = "store" /\ Stored(s, work[s].results) /\ NextProduct(s)
        /\ UNCHANGED <<objects, disturbed>>
    BY DEF StoreReports
  <1>2. m \in Product
    BY TransferAssumption DEF TypeOK, Work, Name, Doc
  <1>3. ASSUME NEW n \in Product, n = m, NEW r \in ArchivedReports(n)'
        PROVE  \/ \E q \in work[s].results :
                      q.status = "OK" /\ q.destination = r.destination /\ r.md5 = b
               \/ r \in ArchivedReports(n) /\ r.destination \notin Touched(s)
    BY <1>3, StoredIsArchived
  <1>4. HasOK(s) => Active(s)
    BY <1>1 DEF Active
  <1>5. ASSUME HasOK(s), m \notin disturbed
         PROVE  /\ \A r \in ArchivedReports(m) : r.destination \in Touched(s) \/ r.md5 = b
                /\ \A q \in work[s].results : q.status = "OK" => objects[m][q.destination] = b
    <2>1. Ready(s) /\ work[s].todo = {} /\ Source(s) = b
      BY <1>1, <1>4, <1>5 DEF MirrorInv, Plan, Source
    <2> QED
      BY <2>1 DEF Ready
  <1>6. ASSUME NEW n \in Product \ disturbed', n = m
         PROVE  Agree(n)' /\ Held(n)'
    <2>1. Agree(n) /\ Held(n) /\ n \notin disturbed
      BY <1>1, <1>6 DEF MirrorInv
    <2>2. Agree(n)'
      <3>1. CASE HasOK(s)
        <4>1. \A r \in ArchivedReports(n)' : r.md5 = b
          BY <1>3, <1>5, <1>6, <2>1, <3>1
        <4> QED
          BY <4>1 DEF Agree
      <3>2. CASE ~HasOK(s)
        <4>1. \A r \in ArchivedReports(n)' : r \in ArchivedReports(n)
          BY <1>3, <1>6, <3>2 DEF HasOK
        <4> QED
          BY <2>1, <4>1 DEF Agree
      <3> QED
        BY <3>1, <3>2
    <2>3. ASSUME NEW r \in ArchivedReports(n)'
          PROVE  objects'[n][r.destination] = r.md5 \/ InDoubt(n, r.destination)'
      <3>1. CASE \E q \in work[s].results :
                     q.status = "OK" /\ q.destination = r.destination /\ r.md5 = b
        BY <1>1, <1>5, <1>6, <2>1, <3>1 DEF HasOK
      <3>2. CASE r \in ArchivedReports(n) /\ r.destination \notin Touched(s)
        <4>1. CASE objects[n][r.destination] = r.md5
          BY <1>1, <4>1
        <4>2. CASE InDoubt(n, r.destination)
          <5>1. PICK t \in Stage : /\ pc[t] \in {"upload", "store"} /\ Name(t) = n
                                   /\ r.destination \in Touched(t)
            BY <4>2 DEF InDoubt
          <5>2. t # s
            BY <3>2, <5>1
          <5>3. /\ Touched(t)' = Touched(t) /\ Name(t)' = Name(t) /\ pc'[t] = pc[t]
            BY <1>1, <5>2, StoredElsewhere
          <5> QED
            BY <5>1, <5>3 DEF InDoubt
        <4> QED
          BY <2>1, <3>2, <4>1, <4>2 DEF Held
      <3> QED
        BY <1>3, <1>6, <3>1, <3>2
    <2> QED
      BY <2>2, <2>3 DEF Held
  <1>7. ASSUME NEW t \in Stage, Active(t)', Name(t)' \notin disturbed', Name(t) = m
         PROVE  Ready(t)'
    <2>1. t # s /\ \A u \in Stage \ {s} :
                        /\ Touched(u)' = Touched(u) /\ Name(u)' = Name(u) /\ Doc(u)' = Doc(u)
                        /\ Active(u)' = Active(u) /\ Source(u)' = Source(u)
                        /\ work'[u] = work[u] /\ pc'[u] = pc[u]
      BY <1>1, <1>7, StoredElsewhere
    <2>2. Ready(t) /\ Active(t) /\ m \notin disturbed
      BY <1>1, <1>7, <2>1 DEF MirrorInv
    <2>3. ~HasOK(s)
      BY <1>4, <1>7, <2>1, <2>2 DEF MirrorInv, Sole
    <2>4. \A r \in ArchivedReports(Name(t))' : r \in ArchivedReports(Name(t))
      <3>1. \A n \in Product : n = m =>
                \A r \in ArchivedReports(n)' : r \in ArchivedReports(n)
        BY <1>3, <2>3 DEF HasOK
      <3> QED
        BY <1>2, <1>7, <2>1, <3>1
    <2> QED
      BY <1>1, <2>1, <2>2, <2>4 DEF Ready
  <1> QED
    BY <1>1, <1>6, <1>7, StoredElsewhere DEF MirrorInv

\* Some of the reports are lost: what the product's mirrors hold is not known any more.
LEMMA StoreErrorMirrors ==
    ASSUME TypeOK, MirrorInv, NEW s \in Stage, StoreError(s)
    PROVE  MirrorInv'
  <1>1. PICK some : Stored(s, some)
    BY DEF StoreError
  <1>2. /\ NextProduct(s) /\ disturbed' = disturbed \cup {Name(s)} /\ UNCHANGED objects
    BY DEF StoreError
  <1>3. \A t \in Stage : Active(t)' /\ Name(t)' \notin disturbed' => Name(t) # Name(s)
    <2> SUFFICES ASSUME NEW t \in Stage, Active(t)', Name(t)' \notin disturbed'
                 PROVE  Name(t) # Name(s)
      OBVIOUS
    <2>1. t # s /\ Name(t)' = Name(t)
      BY <1>1, <1>2, StoredElsewhere
    <2> QED
      BY <1>2, <2>1
  <1> QED
    BY <1>1, <1>2, <1>3, StoredElsewhere DEF MirrorInv

LEMMA StageMirrors ==
    ASSUME TypeOK, MirrorInv, NEW s \in Stage, Acts(s)
    PROVE  MirrorInv'
  <1> USE DEF archive, history
  <1>1. work \in [Stage -> Work] /\ pc \in [Stage -> PC] /\ work[s] \in Work
    BY DEF TypeOK
  <1>2. ASSUME Take(s)
        PROVE  MirrorInv'
    <2>1. work'[s].results = {}
      <3>1. PICK r, left, refused :
                work' = [work EXCEPT ![s] = [NoWork EXCEPT !.request = r, !.refused = refused,
                                                           !.left = left]]
        BY <1>2 DEF Take
      <3> QED
        BY <1>1, <3>1, NoWorkIsTyped DEF NoWork
    <2>2. pc[s] = "idle" /\ pc'[s] = "next" /\ Alone(s)
      BY <1>1, <1>2 DEF Take, Goto, Alone
    <2> QED
      BY <1>2, <2>1, <2>2, Passive DEF Take, StaysInDoubt
  <1>3. ASSUME End(s), UNCHANGED archive, disturbed \subseteq disturbed',
               pc[s] \in {"upload", "store"} => Name(s) \in disturbed'
        PROVE  MirrorInv'
    <2>1. pc'[s] = "idle" /\ work'[s].results = {} /\ Alone(s)
      BY <1>1, <1>3, NoWorkIsTyped DEF End, Goto, Alone
    <2> QED
      BY <1>3, <2>1, Passive DEF StaysInDoubt
  <1>4. ASSUME Done(s)
        PROVE  MirrorInv'
    BY <1>3, <1>4 DEF Done
  <1>5. ASSUME GiveBack(s) \/ LoseLeft(s)
        PROVE  MirrorInv'
    BY <1>3, <1>5 DEF GiveBack, LoseLeft, Leaves
  <1>6. ASSUME Crash(s)
        PROVE  MirrorInv'
    BY <1>3, <1>6 DEF Crash
  <1>7. ASSUME NEW d, NEW results, Store(s, d, results), UNCHANGED archive,
               disturbed \subseteq disturbed',
               \A q \in results : q.status # "OK", pc[s] \notin {"upload", "store"}
        PROVE  MirrorInv'
    <2>1. pc'[s] = "store" /\ work'[s].results = results /\ Alone(s)
      BY <1>1, <1>7 DEF Store, Goto, Alone, Work
    <2> QED
      BY <1>7, <2>1, Passive DEF StaysInDoubt
  <1>8. \A D : \A q \in ResultsOf(D, "KO") : q.status # "OK"
    BY DEF ResultsOf
  <1>9. \A D : \A q \in Skipped(s, D) : q.status = "SKIPPED"
    BY DEF ResultsOf, Skipped
  <1>10. ASSUME Serve(s)
         PROVE  MirrorInv'
    <2>1. UNCHANGED archive /\ pc[s] = "next" /\ disturbed \subseteq disturbed'
      BY <1>10 DEF Serve
    <2>2. PICK d \in Left(s) :
              LET n == ProductOf[d] IN
              \/ work' = [work EXCEPT ![s].left = @ \ {d}] /\ UNCHANGED pc
              \/ Store(s, d, ResultsOf({NoDestination}, "KO"))
              \/ /\ Decide(s, d)
                 /\ disturbed' = IF \E t \in Stage : Serving(t, n) THEN disturbed \cup {n}
                                 ELSE disturbed
      BY <1>10 DEF Serve
    <2>3. d \in Document
      BY <1>1 DEF Left, Work
    <2>4. ASSUME work' = [work EXCEPT ![s].left = @ \ {d}], UNCHANGED pc
          PROVE  MirrorInv'
      <3>1. work'[s].results = {} /\ pc'[s] = "next" /\ Alone(s)
        BY <1>1, <2>1, <2>4 DEF MirrorInv, Plan, Alone, Work
      <3> QED
        BY <2>1, <3>1, Passive DEF StaysInDoubt
    <2>5. ASSUME Conflict(s, d)
          PROVE  MirrorInv'
      <3>1. pc'[s] = "conflict" /\ work'[s].results = Skipped(s, Destination) /\ Alone(s)
        BY <1>1, <2>1, <2>5 DEF Conflict, Goto, Alone, Work
      <3> QED
        BY <1>9, <2>1, <3>1, Passive DEF StaysInDoubt
    <2>6. ASSUME Store(s, d, Skipped(s, Destination))
          PROVE  MirrorInv'
      BY <1>7, <1>9, <2>1, <2>6
    <2>7. ASSUME Decide(s, d),
                 disturbed' = IF \E t \in Stage : Serving(t, ProductOf[d])
                              THEN disturbed \cup {ProductOf[d]} ELSE disturbed
          PROVE  MirrorInv'
      <3>1. \/ Transfer(s, d, Destination, Nothing)
            \/ Conflict(s, d)
            \/ Store(s, d, Skipped(s, Destination))
            \/ /\ ArchivedIn(ProductOf[d]) # {}
               /\ Transfer(s, d, MissingIn(ProductOf[d]), Reference(ProductOf[d]).md5)
        BY <2>7 DEF Decide
      <3>2. CASE Transfer(s, d, Destination, Nothing)
        BY <2>1, <2>3, <2>7, <3>2, TransferMirrors
      <3>3. CASE /\ ArchivedIn(ProductOf[d]) # {}
                 /\ Transfer(s, d, MissingIn(ProductOf[d]), Reference(ProductOf[d]).md5)
        BY <2>1, <2>3, <2>7, <3>3, TransferMirrors
      <3> QED
        BY <2>5, <2>6, <3>1, <3>2, <3>3
    <2> QED
      BY <1>7, <1>8, <2>1, <2>2, <2>4, <2>7
  <1>11. ASSUME Download(s)
         PROVE  MirrorInv'
    <2>1. CASE SameBytes(s) /\ Goto(s, "upload") /\ UNCHANGED work
      BY <1>11, <2>1, DownloadMirrors DEF Download
    <2>2. CASE /\ Goto(s, "conflict")
               /\ work' = [work EXCEPT ![s].results = Skipped(s, Destination)]
      <3>1. pc'[s] = "conflict" /\ work'[s].results = Skipped(s, Destination) /\ Alone(s)
        BY <1>1, <1>11, <2>2 DEF Download, Goto, Alone, Work
      <3> QED
        BY <1>9, <1>11, <3>1, Passive DEF StaysInDoubt, Download
    <2> QED
      BY <1>11, <2>1, <2>2 DEF Download
  <1>12. ASSUME OpenConflict(s)
         PROVE  MirrorInv'
    <2>1. pc[s] = "conflict" /\ pc'[s] = "store" /\ work'[s] = work[s] /\ Alone(s)
      BY <1>1, <1>12 DEF OpenConflict, Goto, Alone
    <2>2. \A q \in work'[s].results : q.status # "OK"
      BY <2>1 DEF MirrorInv, Plan
    <2> QED
      BY <1>12, <2>1, <2>2, Passive DEF StaysInDoubt, OpenConflict
  <1>13. ASSUME NEW d \in Destination, Upload(s, d)
         PROVE  MirrorInv'
    BY <1>13, UploadMirrors DEF Upload
  <1>14. ASSUME NEW d \in Destination, UploadError(s, d)
         PROVE  MirrorInv'
    BY <1>14, UploadMirrors DEF UploadError
  <1>15. ASSUME DownloadError(s)
         PROVE  MirrorInv'
    BY <1>7, <1>8, <1>15 DEF DownloadError
  <1>16. ASSUME IndexError(s)
         PROVE  MirrorInv'
    <2>1. UNCHANGED archive /\ UNCHANGED disturbed
      BY <1>16 DEF IndexError
    <2>2. CASE pc[s] # "upload"
      BY <1>7, <1>8, <1>16, <2>1, <2>2 DEF IndexError
    <2>3. CASE pc[s] = "upload"
      <3>1. Store(s, Doc(s), ResultsOf(Destination, "KO"))
        BY <1>16, <2>3 DEF IndexError
      <3>2. /\ pc'[s] = "store" /\ work'[s].results = ResultsOf(Destination, "KO")
            /\ work'[s].document = Doc(s) /\ Alone(s)
        BY <1>1, <2>1, <3>1 DEF Store, Goto, Alone, Work
      <3>3. Touched(s)' = Destination
        <4>1. \A q \in ResultsOf(Destination, "KO") :
                  q.destination \in Destination /\ q.status # "SKIPPED"
          BY DEF ResultsOf
        <4>2. \A d \in Destination : \E q \in ResultsOf(Destination, "KO") : q.destination = d
          <5> SUFFICES ASSUME NEW d \in Destination
                       PROVE  \E q \in ResultsOf(Destination, "KO") : q.destination = d
            OBVIOUS
          <5>1. [destination |-> d, status |-> "KO"] \in ResultsOf(Destination, "KO")
            BY DEF ResultsOf
          <5> QED
            BY <5>1
        <4> QED
          BY <3>2, <4>1, <4>2 DEF Touched
      <3>4. Touched(s) \subseteq Destination
        BY <2>3 DEF MirrorInv, Plan
      <3>5. Name(s)' = Name(s)
        BY <3>2 DEF Name, Doc
      <3> QED
        BY <1>8, <2>1, <3>2, <3>3, <3>4, <3>5, Passive DEF StaysInDoubt
    <2> QED
      BY <2>2, <2>3
  <1> QED
    BY <1>2, <1>4, <1>5, <1>6, <1>10, <1>11, <1>12, <1>13, <1>14, <1>15, <1>16,
       FinishMirrors, StoreMirrors, StoreErrorMirrors DEF Acts, Step, Failure

\* The reports of a product that earlier transfers left.
LEMMA FirstReports ==
    ASSUME NEW first \in [Product -> Document], NEW kept \in [Product -> SUBSET Destination],
           Archive(first, kept), NEW n \in Product
    PROVE  /\ reports[n] \in Seq(Report)
           /\ \A i \in DOMAIN reports[n] :
                  /\ reports[n][i].destination \in kept[n] /\ reports[n][i].ok
                  /\ reports[n][i].md5 = BytesOf[first[n]]
           /\ \A d \in kept[n] : \E i \in DOMAIN reports[n] : reports[n][i].destination = d
  <1> DEFINE S == {[destination |-> d, ok |-> TRUE, md5 |-> BytesOf[first[n]],
                    announced |-> first[n] \in Announced] : d \in kept[n]}
  <1>1. reports[n] = SetToSeq(S)
    BY DEF Archive
  <1>2. \A x \in S : x.destination \in kept[n] /\ x.ok /\ x.md5 = BytesOf[first[n]]
    OBVIOUS
  <1>3. S \in SUBSET Report /\ IsFiniteSet(S)
    <2> DEFINE a == first[n] \in Announced
    <2>1. a \in BOOLEAN /\ BytesOf[first[n]] \in Bytes /\ kept[n] \subseteq Destination
      BY TransferAssumption
    <2> HIDE DEF a
    <2>2. ASSUME NEW d \in kept[n]
          PROVE  [destination |-> d, ok |-> TRUE, md5 |-> BytesOf[first[n]],
                  announced |-> a] \in Report
      BY <2>1 DEF Report
    <2>3. S \in SUBSET Report
      BY <2>2 DEF a
    <2>4. \A x \in S : x.md5 = BytesOf[first[n]] /\ x.announced = a
      BY DEF a
    <2> QED
      BY <2>3, <2>4, FewReports
  <1>4. ASSUME NEW d \in kept[n]
        PROVE  \E x \in S : x.destination = d
    <2> DEFINE x == [destination |-> d, ok |-> TRUE, md5 |-> BytesOf[first[n]],
                     announced |-> first[n] \in Announced]
    <2>1. x \in S /\ x.destination = d
      OBVIOUS
    <2> QED
      BY <2>1
  <1> HIDE DEF S
  <1>5. SetToSeq(S) \in Seq(S) /\ \A x \in S : \E i \in DOMAIN SetToSeq(S) : SetToSeq(S)[i] = x
    BY <1>3, SeqOfSet
  <1>6. SetToSeq(S) \in Seq(Report) /\ \A i \in DOMAIN SetToSeq(S) : SetToSeq(S)[i] \in S
    BY <1>3, <1>5
  <1> QED
    BY <1>1, <1>2, <1>4, <1>5, <1>6

LEMMA InitMirrors == Init => MirrorInv
  <1> SUFFICES ASSUME Init
               PROVE  MirrorInv
    OBVIOUS
  <1>1. \A s \in Stage : pc[s] = "idle" /\ work[s].results = {}
    BY NoWorkIsTyped DEF Init
  <1>2. \A s \in Stage : ~Active(s) /\ Plan(s)
    BY <1>1 DEF Active, Plan, HasOK
  <1>3. PICK first \in [Product -> Document], kept \in [Product -> SUBSET Destination] :
            Archive(first, kept)
    BY DEF Init
  <1>4. ASSUME NEW n \in Product, NEW r \in ArchivedReports(n)
        PROVE  r.md5 = BytesOf[first[n]] /\ objects[n][r.destination] = r.md5
    <2>1. \A d \in kept[n] : objects[n][d] = BytesOf[first[n]]
      BY <1>3 DEF Archive
    <2>2. reports[n] \in Seq(Report) /\ r \in ArchivedOf(reports[n])
      BY <1>3, FirstReports, Archives
    <2>3. r.destination \in kept[n] /\ r.md5 = BytesOf[first[n]]
      BY <1>3, <2>2, FirstReports, ArchivedAreLast
    <2> QED
      BY <2>1, <2>3
  <1> QED
    BY <1>2, <1>4 DEF MirrorInv, Sole, Agree, Held

LEMMA StepMirrors == TypeOK /\ MirrorInv /\ [Next]_vars => MirrorInv'
  <1> SUFFICES ASSUME TypeOK, MirrorInv, [Next]_vars
               PROVE  MirrorInv'
    OBVIOUS
  <1>1. ASSUME UNCHANGED <<pc, work, objects, reports, disturbed>>
        PROVE  MirrorInv'
    <2>1. \A s \in Stage : /\ Touched(s)' = Touched(s) /\ Name(s)' = Name(s)
                           /\ Doc(s)' = Doc(s) /\ Active(s)' = Active(s)
                           /\ Plan(s)' = Plan(s) /\ Source(s)' = Source(s)
      BY <1>1, SameStage
    <2>2. \A n : ArchivedReports(n)' = ArchivedReports(n)
      BY <1>1, SameArchive
    <2>3. \A n, d : InDoubt(n, d) => InDoubt(n, d)'
      BY <1>1, <2>1 DEF InDoubt
    <2>4. \A n : (Agree(n) => Agree(n)') /\ (Held(n) => Held(n)')
      BY <1>1, <2>2, <2>3 DEF Agree, Held
    <2>5. \A s \in Stage : Ready(s) => Ready(s)'
      BY <1>1, <2>1, <2>2 DEF Ready
    <2>6. Sole'
      BY <1>1, <2>1 DEF MirrorInv, Sole
    <2> QED
      BY <1>1, <2>1, <2>4, <2>5, <2>6 DEF MirrorInv
  <1>2. CASE UNCHANGED vars
    BY <1>1, <1>2 DEF vars, archive, history
  <1>3. CASE Next
    <2>1. ASSUME NEW documents, RequestLive(documents)
          PROVE  MirrorInv'
      BY <1>1, <2>1 DEF RequestLive, archive
    <2>2. ASSUME NEW documents, NEW choice, NEW o, RequestOperation(documents, choice, o)
          PROVE  MirrorInv'
      BY <1>1, <2>2 DEF RequestOperation, archive
    <2>3. ASSUME RetryPending \/ LosePending
          PROVE  MirrorInv'
      BY <1>1, <2>3 DEF RetryPending, LosePending, archive, history
    <2> QED
      BY <1>3, <2>1, <2>2, <2>3, StageMirrors DEF Next, Acts
  <1> QED
    BY <1>2, <1>3

LEMMA MirrorsHold == Spec => [](TypeOK /\ MirrorInv)
  <1>1. Init => TypeOK /\ MirrorInv
    BY InitIsTyped, InitMirrors
  <1>2. TypeOK /\ MirrorInv /\ [Next]_vars => (TypeOK /\ MirrorInv)'
    BY StepIsTyped, StepMirrors
  <1> QED
    BY <1>1, <1>2, PTL DEF Spec

\* The destinations a product is archived in hold the bytes their reports give, the same in
\* all of them, unless the product was disturbed (decide(), download_and_upload()).
THEOREM Mirrored == Spec => []MirrorsAgree
  <1>1. ASSUME TypeOK, MirrorInv
        PROVE  MirrorsAgree
    <2> SUFFICES ASSUME NEW n \in Product \ disturbed,
                        NEW r \in ArchivedReports(n), NEW t \in ArchivedReports(n)
                 PROVE  /\ r.md5 = t.md5
                        /\ Writing(n) \/ objects[n][r.destination] = r.md5
      BY DEF MirrorsAgree
    <2>1. Agree(n) /\ Held(n)
      BY <1>1 DEF MirrorInv
    <2>2. InDoubt(n, r.destination) => Writing(n)
      BY DEF InDoubt, Writing
    <2> QED
      BY <2>1, <2>2 DEF Agree, Held
  <1>2. TypeOK /\ MirrorInv => MirrorsAgree
    BY <1>1
  <1> QED
    BY <1>2, MirrorsHold, PTL

\* A conflict is closed when the destinations all hold the same bytes (resolve_conflict).
THEOREM Resolved == Spec => ResolvedIsComplete
  <1> DEFINE Complete ==
          \A n \in conflicts \ disturbed :
              n \notin conflicts' => \E b \in Bytes : \A d \in Destination : objects[n][d] = b
  <1>1. ASSUME TypeOK, MirrorInv, [Next]_vars, NEW n \in conflicts \ disturbed,
               n \notin conflicts'
        PROVE  \E b \in Bytes : \A d \in Destination : objects[n][d] = b
    <2>1. PICK s \in Stage : Finish(s)
      <3>1. CASE UNCHANGED vars
        BY <1>1, <3>1 DEF vars, archive
      <3>2. CASE Next
        BY <1>1, <3>2 DEF Next, Step, Failure, RequestLive, RequestOperation, RetryPending,
           LosePending, Take, Done, Serve, Download, OpenConflict, Upload, Uploaded,
           StoreReports, GiveBack, LoseLeft, IndexError, DownloadError, UploadError,
           StoreError, Crash, archive
      <3> QED
        BY <1>1, <3>1, <3>2
    <2>2. pc[s] = "upload" /\ work[s].todo = {} /\ AllWritten(s) /\ n = Name(s)
      BY <1>1, <2>1 DEF Finish
    <2>3. Ready(s) /\ Plan(s) /\ Source(s) = BytesOf[Doc(s)]
      BY <1>1, <2>2 DEF MirrorInv, Active, Source
    <2>4. BytesOf[Doc(s)] \in Bytes /\ work[s].results \in SUBSET Result
      BY <1>1, TransferAssumption DEF TypeOK, Work, Doc
    <2>5. ASSUME NEW d \in Destination
          PROVE  objects[n][d] = BytesOf[Doc(s)]
      <3>1. CASE d \in work[s].skip
        BY <2>2, <2>3, <3>1 DEF Ready
      <3>2. CASE d \in Touched(s)
        <4>1. PICK q \in work[s].results : q.destination = d /\ q.status # "SKIPPED"
          BY <3>2 DEF Touched
        <4>2. q.status = "OK"
          BY <2>2, <2>4, <4>1 DEF AllWritten, Result
        <4> QED
          BY <2>2, <2>3, <4>1, <4>2 DEF Ready
      <3> QED
        BY <2>2, <2>3, <3>1, <3>2 DEF Plan
    <2> QED
      BY <2>4, <2>5
  <1>2. TypeOK /\ MirrorInv /\ [Next]_vars => Complete
    BY <1>1
  <1>3. Complete => [Complete]_vars
    OBVIOUS
  <1> QED
    BY <1>2, MirrorsHold, PTL DEF Spec, ResolvedIsComplete

----------------------------------------------------------------------------
(* What is archived is kept.                                                *)

\* The window of archived_state shows the last report of every destination.
WindowShowsAll ==
    \A n \in Product : \A d \in Destination :
        LastOf(n, d, DOMAIN reports[n]) \in Window(n) \cup {0}

Permitted(s, r) ==
    \/ work[s].request.choice = "force"
    \/ work[s].request.choice = "replace_if_changed" /\ r.md5 # BytesOf[Doc(s)]

\* What is archived is shown.
LEMMA ArchivedIsShown ==
    ASSUME TypeOK, WindowShowsAll, NEW n \in Product, NEW r \in ArchivedReports(n)
    PROVE  r.destination \in ArchivedIn(n)
  <1> DEFINE q == reports[n]
  <1>1. q \in Seq(Report) /\ DOMAIN q = 1 .. Len(q) /\ Len(q) \in Nat
    BY DEF TypeOK
  <1>2. PICK d \in Destination, i \in DOMAIN q : IsLastOf(q, i, d) /\ q[i].ok /\ r = q[i]
    BY <1>1, Archives, ArchivedAreLast
  <1>3. LastIn(q, d, DOMAIN q) = i /\ i # 0
    BY <1>1, <1>2, LastInIsLast DEF IsLastOf
  <1>4. i \in Window(n) /\ Window(n) \subseteq DOMAIN q
    BY <1>3 DEF WindowShowsAll, LastOf, LastIn, Window
  <1>5. LastIn(q, d, Window(n)) = i
    <2> DEFINE l == LastIn(q, d, Window(n))
    <2>1. l # 0 /\ l \in Window(n) /\ q[l].destination = d /\ i <= l
      BY <1>1, <1>2, <1>4, LastInIsLast DEF IsLastOf
    <2>2. l <= i
      BY <1>2, <1>4, <2>1 DEF IsLastOf
    <2> QED
      BY <1>1, <1>4, <2>1, <2>2
  <1>6. i \in State(n)
    BY <1>3, <1>5 DEF State, LastOf, LastIn
  <1> QED
    BY <1>2, <1>6 DEF Archived, ArchivedIn

\* The destinations stage s has tried to write, has given up or is yet to write.
Concerns(s) == IF pc[s] = "store" THEN Touched(s) ELSE work[s].todo \cup Touched(s)

\* What a stage is about to report concerns no archived mirror, or all the destinations, and
\* then, if it has written some, as its request permits.
Fits(s) ==
    pc[s] \in {"download", "upload", "store"} /\ Name(s) \notin disturbed =>
        \/ \A r \in ArchivedReports(Name(s)) : r.destination \notin Concerns(s)
        \/ /\ Destination \subseteq Concerns(s)
           /\ Active(s) => \A r \in ArchivedReports(Name(s)) : Permitted(s, r)

\* Stage s is active, or is about to report some of the destinations.
Busy(s) ==
    \/ Active(s)
    \/ /\ pc[s] = "store" /\ Touched(s) \cap Destination # {}
       /\ ~(Destination \subseteq Touched(s))

BusyAlone ==
    \A s, t \in Stage :
        Busy(s) /\ Active(t) /\ Name(s) = Name(t) /\ Name(s) \notin disturbed => s = t

FitInv == BusyAlone /\ \A s \in Stage : Fits(s)

\* Stage s is not busy, or was with the same product, or no other one is with its product.
StaysBusy(s) ==
    Busy(s)' /\ Name(s)' \notin disturbed' =>
        \/ Busy(s) /\ Name(s)' = Name(s) /\ (Active(s)' => Active(s))
        \/ \A t \in Stage \ {s} : ~(Busy(t) /\ Name(t) = Name(s)')

LEMMA SameBusy ==
    ASSUME NEW t \in Stage, work'[t] = work[t], pc'[t] = pc[t]
    PROVE  Busy(t)' = Busy(t) /\ Concerns(t)' = Concerns(t)
  <1>1. /\ Touched(t)' = Touched(t) /\ Active(t)' = Active(t)
    BY SameStage
  <1> QED
    BY <1>1 DEF Busy, Concerns

LEMMA BusyByOne ==
    ASSUME BusyAlone, NEW s \in Stage, Alone(s), StaysBusy(s)
    PROVE  BusyAlone'
  <1>1. \A t \in Stage \ {s} :
            Name(t)' = Name(t) /\ Active(t)' = Active(t) /\ Busy(t)' = Busy(t)
    BY SameStage, SameBusy DEF Alone
  <1>2. ASSUME NEW t \in Stage, NEW u \in Stage, Busy(t)', Active(u)', Name(t)' = Name(u)',
               Name(t)' \notin disturbed', t # u
        PROVE  FALSE
    <2>1. Busy(u)'
      BY <1>2 DEF Busy
    <2>2. CASE t # s /\ u # s
      BY <1>1, <1>2, <2>2 DEF BusyAlone, Alone
    <2>3. CASE t = s
      BY <1>1, <1>2, <2>3 DEF BusyAlone, Alone, StaysBusy, Busy
    <2>4. CASE u = s
      BY <1>1, <1>2, <2>1, <2>4 DEF BusyAlone, Alone, StaysBusy, Busy
    <2> QED
      BY <2>2, <2>3, <2>4
  <1> QED
    BY <1>2 DEF BusyAlone

\* A step of stage s that does not report.
LEMMA FitByOne ==
    ASSUME FitInv, NEW s \in Stage, Alone(s), UNCHANGED reports,
           StaysBusy(s), Fits(s)'
    PROVE  FitInv'
  <1>1. ASSUME NEW t \in Stage \ {s}
        PROVE  Fits(t)'
    <2>1. /\ work'[t] = work[t] /\ pc'[t] = pc[t] /\ Name(t)' = Name(t) /\ Doc(t)' = Doc(t)
          /\ Active(t)' = Active(t) /\ Concerns(t)' = Concerns(t)
      BY SameStage, SameBusy DEF Alone
    <2>2. \A n : ArchivedReports(n)' = ArchivedReports(n)
      BY SameArchive
    <2>3. Fits(t)
      BY DEF FitInv
    <2> QED
      BY <2>1, <2>2, <2>3 DEF Fits, Permitted, Alone
  <1> QED
    BY <1>1, BusyByOne DEF FitInv

\* A step after which stage s has nothing to report, or a failure everywhere.
LEMMA FitsPassive ==
    ASSUME FitInv, NEW s \in Stage, Alone(s), UNCHANGED reports,
           \/ pc'[s] \notin {"download", "upload", "store"}
           \/ /\ pc'[s] = "store" /\ \A q \in work'[s].results : q.status # "OK"
              /\ Touched(s)' \cap Destination = {} \/ Destination \subseteq Touched(s)'
    PROVE  FitInv'
  <1>1. ~Active(s)' /\ ~Busy(s)'
    BY DEF Active, HasOK, Busy
  <1>2. Fits(s)'
    <2>1. \A n : \A r \in ArchivedReports(n)' : r.destination \in Destination
      BY DEF ArchivedReports
    <2> QED
      BY <1>1, <2>1 DEF Fits, Concerns
  <1> QED
    BY <1>1, <1>2, FitByOne DEF StaysBusy

\* A step of a transfer, that concerns the same destinations.
LEMMA FitsOn ==
    ASSUME FitInv, NEW s \in Stage, Alone(s), UNCHANGED reports,
           pc[s] \in {"download", "upload"}, pc'[s] \in {"download", "upload", "store"},
           work'[s].document = work[s].document, work'[s].request = work[s].request,
           Concerns(s)' = Concerns(s)
    PROVE  FitInv'
  <1>1. Active(s) /\ Busy(s) /\ Name(s)' = Name(s) /\ Doc(s)' = Doc(s)
    BY DEF Active, Busy, Name, Doc
  <1>2. \A n : ArchivedReports(n)' = ArchivedReports(n)
    BY SameArchive
  <1>3. Fits(s)
    BY DEF FitInv
  <1>4. Fits(s)'
    BY <1>1, <1>2, <1>3 DEF Fits, Permitted, Alone
  <1> QED
    BY <1>1, <1>4, FitByOne DEF StaysBusy

\* The destinations that some results are about.
LEMMA ResultsTouch ==
    ASSUME NEW D, NEW status, NEW s \in Stage, work'[s].results = ResultsOf(D, status)
    PROVE  Touched(s)' = IF status = "SKIPPED" THEN {} ELSE D
  <1>1. \A q \in ResultsOf(D, status) : q.destination \in D /\ q.status = status
    BY DEF ResultsOf
  <1>2. \A d \in D : \E q \in ResultsOf(D, status) : q.destination = d
    <2> SUFFICES ASSUME NEW d \in D
                 PROVE  \E q \in ResultsOf(D, status) : q.destination = d
      OBVIOUS
    <2>1. [destination |-> d, status |-> status] \in ResultsOf(D, status)
      BY DEF ResultsOf
    <2> QED
      BY <2>1
  <1> QED
    BY <1>1, <1>2 DEF Touched

LEMMA SkippedTouch ==
    ASSUME NEW s \in Stage, \A q \in work'[s].results : q.status = "SKIPPED"
    PROVE  Touched(s)' = {}
  BY DEF Touched

\* decide(), when it shows everything.
LEMMA TransferFits ==
    ASSUME TypeOK, MirrorInv, FitInv, WindowShowsAll, NEW s \in Stage, NEW d \in Document,
           pc[s] = "next", NEW todo, NEW same, Transfer(s, d, todo, same), UNCHANGED reports,
           \/ /\ todo = Destination
              /\ \/ work[s].request.choice = "force" \/ ArchivedIn(ProductOf[d]) = {}
                 \/ work[s].request.choice = "replace_if_changed" /\ Changed(d)
           \/ todo = MissingIn(ProductOf[d]),
           disturbed' = IF \E t \in Stage : Serving(t, ProductOf[d])
                        THEN disturbed \cup {ProductOf[d]} ELSE disturbed
    PROVE  FitInv'
  <1> DEFINE n == ProductOf[d]
  <1>1. n \in Product /\ reports[n] \in Seq(Report)
        /\ work \in [Stage -> Work] /\ pc \in [Stage -> PC] /\ work[s] \in Work
    BY TransferAssumption DEF TypeOK
  <1>2. /\ pc'[s] = "download" /\ work'[s].document = d /\ work'[s].todo = todo
        /\ work'[s].request = work[s].request /\ work'[s].results = work[s].results
    BY <1>1 DEF Transfer, Goto, Work
  <1>3. Alone(s)
    BY <1>1 DEF Alone, Transfer, Goto
  <1>4. work'[s].results = {}
    BY <1>2 DEF MirrorInv, Plan
  <1>5. Name(s)' = n /\ Doc(s)' = d /\ Concerns(s)' = todo
    BY <1>2, <1>4 DEF Name, Doc, Concerns, Touched
  <1>6. StaysBusy(s)
    <2>1. n \notin disturbed' => \A t \in Stage : ~Serving(t, n)
      OBVIOUS
    <2> QED
      BY <1>5, <2>1 DEF StaysBusy, Busy, Active, Serving, Name, Doc
  <1>7. \A r \in ArchivedReports(n) : r.destination \in ArchivedIn(n)
    BY <1>1, ArchivedIsShown
  <1>8. ArchivedReports(n)' = ArchivedReports(n)
    BY SameArchive
  <1>9. Fits(s)'
    <2> SUFFICES ASSUME n \notin disturbed'
                 PROVE  \/ \A r \in ArchivedReports(n) : r.destination \notin todo
                        \/ /\ Destination \subseteq todo
                           /\ \A r \in ArchivedReports(n) :
                                  \/ work[s].request.choice = "force"
                                  \/ /\ work[s].request.choice = "replace_if_changed"
                                     /\ r.md5 # BytesOf[d]
      BY <1>2, <1>5, <1>8 DEF Fits, Permitted
    <2>1. CASE todo = MissingIn(n)
      BY <1>7, <2>1 DEF MissingIn
    <2>2. CASE todo = Destination
               /\ (work[s].request.choice = "force" \/ ArchivedIn(n) = {})
      BY <1>7, <2>2
    <2>3. CASE /\ todo = Destination /\ Changed(d) /\ ArchivedIn(n) # {}
               /\ work[s].request.choice = "replace_if_changed"
      <3>1. Reference(n) \in ArchivedReports(n) /\ Reference(n).md5 # BytesOf[d]
        BY <1>1, <2>3, ReferenceIsArchived DEF Changed
      <3>2. \A r \in ArchivedReports(n) : r.md5 # BytesOf[d]
        BY <1>1, <1>3, <3>1 DEF MirrorInv, Agree, Alone
      <3> QED
        BY <2>3, <3>2
    <2> QED
      BY <2>1, <2>2, <2>3
  <1> QED
    BY <1>3, <1>6, <1>9, FitByOne

\* The reports of a product are stored: what is archived of it by another stage's reports
\* concerns that stage alone.
LEMMA StoreFits ==
    ASSUME TypeOK, MirrorInv, FitInv, NEW s \in Stage, NEW results, Stored(s, results),
           NextProduct(s), UNCHANGED objects, disturbed \subseteq disturbed',
           Name(s) \in disturbed' \/ StoreReports(s)
    PROVE  FitInv'
  <1>1. work \in [Stage -> Work] /\ pc \in [Stage -> PC]
    BY DEF TypeOK
  <1>2. pc'[s] = "next" /\ Alone(s)
    BY <1>1 DEF NextProduct, Goto, Alone
  <1>3. BusyAlone'
    BY <1>2, BusyByOne DEF StaysBusy, Busy, Active, FitInv
  <1>4. ASSUME NEW t \in Stage, pc'[t] \in {"download", "upload", "store"},
               Name(t)' \notin disturbed'
        PROVE  Fits(t)'
    <2>1. t # s
      BY <1>2, <1>4
    <2>2. /\ work'[t] = work[t] /\ pc'[t] = pc[t] /\ Name(t)' = Name(t) /\ Doc(t)' = Doc(t)
          /\ Touched(t)' = Touched(t) /\ Active(t)' = Active(t) /\ Concerns(t)' = Concerns(t)
      BY <1>2, <2>1, SameStage, SameBusy DEF Alone
    <2>3. Name(t) \in Product /\ Name(t) \notin disturbed /\ Fits(t)
      BY <1>4, <2>2, TransferAssumption DEF FitInv, TypeOK, Work, Name, Doc
    <2>4. CASE \A n \in Product : n = Name(t) =>
                   \A r \in ArchivedReports(n)' : r \in ArchivedReports(n)
      <3>1. \A r \in ArchivedReports(Name(t))' : r \in ArchivedReports(Name(t))
        BY <2>2, <2>3, <2>4
      <3> QED
        BY <1>4, <2>2, <2>3, <3>1 DEF Fits, Permitted
    <2>5. CASE Name(t) # Name(s)
      BY <2>3, <2>4, <2>5, StoredElsewhere
    <2>6. CASE Name(t) = Name(s) /\ ~HasOK(s)
      <3>1. StoreReports(s)
        BY <1>4, <2>2, <2>6
      <3> QED
        BY <2>4, <2>6, <3>1, StoredIsArchived DEF HasOK
    <2>7. CASE Name(t) = Name(s) /\ HasOK(s)
      <3>1. Active(s)
        BY <1>4, <2>2, <2>7 DEF Active, StoreReports
      <3>2. ~Busy(t)
        BY <2>1, <2>3, <2>7, <3>1 DEF FitInv, BusyAlone
      <3>3. \A n : \A r \in ArchivedReports(n)' : r.destination \in Destination
        BY DEF ArchivedReports
      <3>4. /\ pc'[t] = "store" /\ ~Active(t)' /\ Concerns(t)' = Touched(t)
            /\ Touched(t) \cap Destination = {} \/ Destination \subseteq Touched(t)
        BY <1>4, <2>2, <3>2 DEF Busy, Active, Concerns
      <3> QED
        BY <3>3, <3>4 DEF Fits
    <2> QED
      BY <2>5, <2>6, <2>7
  <1>5. \A t \in Stage : Fits(t)'
    BY <1>4 DEF Fits
  <1> QED
    BY <1>3, <1>5 DEF FitInv

LEMMA StageFits ==
    ASSUME TypeOK, MirrorInv, FitInv, WindowShowsAll, NEW s \in Stage, Acts(s)
    PROVE  FitInv'
  <1> USE DEF archive, history
  <1>1. work \in [Stage -> Work] /\ pc \in [Stage -> PC] /\ work[s] \in Work
    BY DEF TypeOK
  <1>2. ASSUME NEW label \in PC \ {"download", "upload", "store"}, Goto(s, label),
               NEW w, work' = [work EXCEPT ![s] = w],
               disturbed \subseteq disturbed', UNCHANGED reports
        PROVE  FitInv'
    <2>1. Alone(s) /\ pc'[s] = label
      BY <1>1, <1>2 DEF Alone, Goto
    <2> QED
      BY <1>2, <2>1, FitsPassive
  <1>3. ASSUME NEW d, NEW D, NEW status \in {"KO", "SKIPPED"}, Store(s, d, ResultsOf(D, status)),
               status = "SKIPPED" \/ D \cap Destination = {} \/ D = Destination,
               disturbed \subseteq disturbed', UNCHANGED reports
        PROVE  FitInv'
    <2>1. /\ pc'[s] = "store" /\ work'[s].results = ResultsOf(D, status) /\ Alone(s)
      BY <1>1, <1>3 DEF Store, Goto, Alone, Work
    <2>2. Touched(s)' = IF status = "SKIPPED" THEN {} ELSE D
      BY <2>1, ResultsTouch
    <2>3. \A q \in work'[s].results : q.status # "OK"
      BY <1>3, <2>1 DEF ResultsOf
    <2>4. Touched(s)' \cap Destination = {} \/ Destination \subseteq Touched(s)'
      BY <1>3, <2>2
    <2> QED
      BY <1>3, <2>1, <2>3, <2>4, FitsPassive
  <1>4. ASSUME Take(s)
        PROVE  FitInv'
    <2>1. PICK w : work' = [work EXCEPT ![s] = w]
      BY <1>4 DEF Take
    <2>2. Goto(s, "next") /\ UNCHANGED <<reports, disturbed>>
      BY <1>4 DEF Take
    <2> QED
      BY <1>2, <2>1, <2>2 DEF PC
  <1>5. ASSUME Done(s) \/ GiveBack(s) \/ LoseLeft(s) \/ Crash(s)
        PROVE  FitInv'
    <2>1. End(s) /\ UNCHANGED reports /\ disturbed \subseteq disturbed'
      BY <1>5 DEF Done, GiveBack, LoseLeft, Crash
    <2> QED
      BY <1>2, <2>1 DEF End, PC
  <1>6. ASSUME Serve(s)
        PROVE  FitInv'
    <2>1. UNCHANGED reports /\ pc[s] = "next" /\ disturbed \subseteq disturbed'
      BY <1>6 DEF Serve
    <2>2. PICK d \in Left(s) :
              LET n == ProductOf[d] IN
              \/ work' = [work EXCEPT ![s].left = @ \ {d}] /\ UNCHANGED pc
              \/ Store(s, d, ResultsOf({NoDestination}, "KO"))
              \/ /\ Decide(s, d)
                 /\ disturbed' = IF \E t \in Stage : Serving(t, n) THEN disturbed \cup {n}
                                 ELSE disturbed
      BY <1>6 DEF Serve
    <2>3. d \in Document
      BY <1>1 DEF Left, Work
    <2>4. ASSUME work' = [work EXCEPT ![s].left = @ \ {d}], UNCHANGED pc
          PROVE  FitInv'
      <3>1. Alone(s) /\ pc'[s] = "next"
        BY <1>1, <2>1, <2>4 DEF Alone
      <3> QED
        BY <2>1, <3>1, FitsPassive
    <2>5. ASSUME Decide(s, d),
                 disturbed' = IF \E t \in Stage : Serving(t, ProductOf[d])
                              THEN disturbed \cup {ProductOf[d]} ELSE disturbed
          PROVE  FitInv'
      <3> DEFINE choice == work[s].request.choice
                 archived == ArchivedIn(ProductOf[d])
      <3>1. CASE /\ Transfer(s, d, Destination, Nothing)
                 /\ \/ choice = "force" \/ archived = {}
                    \/ choice = "replace_if_changed" /\ Changed(d)
        BY <2>1, <2>3, <2>5, <3>1, TransferFits
      <3>2. CASE Transfer(s, d, MissingIn(ProductOf[d]), Reference(ProductOf[d]).md5)
        BY <2>1, <2>3, <2>5, <3>2, TransferFits
      <3>3. CASE Conflict(s, d)
        <4>1. work' = [work EXCEPT ![s] = [work[s] EXCEPT !.document = d,
                                               !.results = Skipped(s, Destination)]]
          BY <1>1, <3>3 DEF Conflict
        <4> QED
          BY <1>2, <2>1, <3>3, <4>1 DEF Conflict, PC
      <3>4. CASE Store(s, d, Skipped(s, Destination))
        <4>1. Skipped(s, Destination) \in {ResultsOf({}, "SKIPPED"),
                                           ResultsOf(Destination, "SKIPPED")}
          BY DEF Skipped, ResultsOf
        <4> QED
          BY <1>3, <2>1, <3>4, <4>1
      <3> QED
        BY <2>5, <3>1, <3>2, <3>3, <3>4 DEF Decide
    <2>6. ASSUME Store(s, d, ResultsOf({NoDestination}, "KO"))
          PROVE  FitInv'
      BY <1>3, <2>1, <2>6, TransferAssumption
    <2> QED
      BY <2>2, <2>4, <2>5, <2>6
  <1>7. ASSUME Download(s)
        PROVE  FitInv'
    <2>1. UNCHANGED <<reports, disturbed>> /\ pc[s] = "download"
      BY <1>7 DEF Download
    <2>2. CASE Goto(s, "upload") /\ UNCHANGED work
      <3>1. Alone(s) /\ pc'[s] = "upload"
        BY <1>1, <2>1, <2>2 DEF Alone, Goto
      <3>2. Concerns(s)' = Concerns(s)
        BY <2>1, <2>2, <3>1 DEF Concerns, Touched
      <3> QED
        BY <2>1, <2>2, <3>1, <3>2, FitsOn
    <2>3. CASE /\ Goto(s, "conflict")
               /\ work' = [work EXCEPT ![s].results = Skipped(s, Destination)]
      <3>1. work' = [work EXCEPT ![s] = [work[s] EXCEPT !.results = Skipped(s, Destination)]]
        BY <1>1, <2>3
      <3> QED
        BY <1>2, <2>1, <2>3, <3>1 DEF PC
    <2> QED
      BY <1>7, <2>2, <2>3 DEF Download
  <1>8. ASSUME OpenConflict(s)
        PROVE  FitInv'
    <2>1. /\ pc[s] = "conflict" /\ pc'[s] = "store" /\ UNCHANGED work /\ Alone(s)
          /\ UNCHANGED reports
      BY <1>1, <1>8 DEF OpenConflict, Goto, Alone
    <2>2. \A q \in work'[s].results : q.status = "SKIPPED"
      BY <2>1 DEF MirrorInv, Plan
    <2>3. Touched(s)' = {}
      BY <2>2, SkippedTouch
    <2>4. \A q \in work'[s].results : q.status # "OK"
      BY <2>2
    <2> QED
      BY <2>1, <2>3, <2>4, FitsPassive
  <1>9. ASSUME NEW d \in Destination, NEW status \in {"OK", "KO"}, Uploaded(s, d, status)
        PROVE  FitInv'
    <2>1. UNCHANGED <<pc, reports, disturbed>> /\ pc[s] = "upload" /\ d \in work[s].todo
      BY <1>9 DEF Uploaded
    <2>2. /\ Alone(s) /\ work'[s].todo = work[s].todo \ {d}
          /\ work'[s].request = work[s].request /\ work'[s].document = work[s].document
          /\ work'[s].results = work[s].results \cup ResultsOf({d}, status)
      BY <1>1, <1>9, <2>1 DEF Uploaded, Alone, Work
    <2>3. Touched(s)' = Touched(s) \cup {d}
      <3> DEFINE q == [destination |-> d, status |-> status]
      <3>1. work'[s].results = work[s].results \cup {q}
        BY <2>2 DEF ResultsOf
      <3>2. q.destination = d /\ q.status # "SKIPPED"
        OBVIOUS
      <3> HIDE DEF q
      <3>3. {x \in work'[s].results : x.status # "SKIPPED"}
                = {x \in work[s].results : x.status # "SKIPPED"} \cup {q}
        BY <3>1, <3>2
      <3> QED
        BY <3>2, <3>3 DEF Touched
    <2>4. Concerns(s)' = Concerns(s)
      BY <2>1, <2>2, <2>3 DEF Concerns
    <2> QED
      BY <2>1, <2>2, <2>4, FitsOn
  <1>10. ASSUME Finish(s)
         PROVE  FitInv'
    <2>1. /\ pc[s] = "upload" /\ work[s].todo = {} /\ UNCHANGED <<reports, disturbed>>
          /\ Store(s, Doc(s), work[s].results \cup Skipped(s, work[s].skip))
      BY <1>10 DEF Finish
    <2>2. /\ Alone(s) /\ pc'[s] = "store" /\ work'[s].document = work[s].document
          /\ work'[s].request = work[s].request
          /\ work'[s].results = work[s].results \cup Skipped(s, work[s].skip)
      BY <1>1, <2>1 DEF Store, Goto, Alone, Work, Doc
    <2>3. \A q \in Skipped(s, work[s].skip) : q.status = "SKIPPED"
      BY DEF Skipped, ResultsOf
    <2>4. Touched(s)' = Touched(s)
      BY <2>2, <2>3 DEF Touched
    <2>5. Concerns(s)' = Concerns(s)
      BY <2>1, <2>2, <2>4 DEF Concerns
    <2> QED
      BY <2>1, <2>2, <2>5, FitsOn
  <1>11. ASSUME DownloadError(s)
         PROVE  FitInv'
    <2>1. /\ pc[s] = "download" /\ UNCHANGED <<reports, disturbed>>
          /\ Store(s, Doc(s), ResultsOf(work[s].todo, "KO"))
      BY <1>11 DEF DownloadError
    <2>2. /\ Alone(s) /\ pc'[s] = "store" /\ work'[s].document = work[s].document
          /\ work'[s].request = work[s].request
          /\ work'[s].results = ResultsOf(work[s].todo, "KO")
      BY <1>1, <2>1 DEF Store, Goto, Alone, Work, Doc
    <2>3. Touched(s)' = work[s].todo
      BY <2>2, ResultsTouch
    <2>4. Touched(s) = {}
      BY <2>1 DEF MirrorInv, Plan, Touched
    <2>5. Concerns(s)' = Concerns(s)
      BY <2>1, <2>2, <2>3, <2>4 DEF Concerns
    <2> QED
      BY <2>1, <2>2, <2>5, FitsOn
  <1>12. ASSUME IndexError(s)
         PROVE  FitInv'
    <2>1. UNCHANGED <<reports, disturbed>> /\ \E d : Store(s, d, ResultsOf(Destination, "KO"))
      BY <1>12 DEF IndexError
    <2> QED
      BY <1>3, <2>1
  <1>13. ASSUME StoreReports(s) \/ StoreError(s)
         PROVE  FitInv'
    BY <1>13, StoreFits DEF StoreReports, StoreError
  <1>14. ASSUME NEW d \in Destination, Upload(s, d) \/ UploadError(s, d)
         PROVE  FitInv'
    BY <1>9, <1>14 DEF Upload, UploadError
  <1> QED
    BY <1>4, <1>5, <1>6, <1>7, <1>8, <1>10, <1>11, <1>12, <1>13, <1>14 DEF Acts, Step, Failure

LEMMA InitFits == Init => FitInv
  BY DEF Init, FitInv, BusyAlone, Fits, Active

LEMMA StepFits ==
    TypeOK /\ MirrorInv /\ FitInv /\ WindowShowsAll /\ [Next]_vars => FitInv'
  <1> SUFFICES ASSUME TypeOK, MirrorInv, FitInv, WindowShowsAll, [Next]_vars
               PROVE  FitInv'
    OBVIOUS
  <1>1. ASSUME UNCHANGED <<pc, work, reports, disturbed>>
        PROVE  FitInv'
    <2>1. \A n : ArchivedReports(n)' = ArchivedReports(n)
      BY <1>1, SameArchive
    <2>2. \A s \in Stage :
              /\ Name(s)' = Name(s) /\ Doc(s)' = Doc(s) /\ Active(s)' = Active(s)
              /\ Busy(s)' = Busy(s) /\ Concerns(s)' = Concerns(s)
      BY <1>1, SameStage, SameBusy
    <2> QED
      BY <1>1, <2>1, <2>2 DEF FitInv, BusyAlone, Fits, Permitted
  <1>2. CASE UNCHANGED vars
    BY <1>1, <1>2 DEF vars, archive, history
  <1>3. CASE Next
    <2>1. ASSUME NEW documents, RequestLive(documents)
          PROVE  FitInv'
      BY <1>1, <2>1 DEF RequestLive, archive
    <2>2. ASSUME NEW documents, NEW choice, NEW o, RequestOperation(documents, choice, o)
          PROVE  FitInv'
      BY <1>1, <2>2 DEF RequestOperation, archive
    <2>3. ASSUME RetryPending \/ LosePending
          PROVE  FitInv'
      BY <1>1, <2>3 DEF RetryPending, LosePending, archive, history
    <2> QED
      BY <1>3, <2>1, <2>2, <2>3, StageFits DEF Next, Acts
  <1> QED
    BY <1>2, <1>3

LEMMA FitsHold == Spec /\ []WindowShowsAll => [](TypeOK /\ MirrorInv /\ FitInv)
  BY InitFits, StepFits, MirrorsHold, PTL DEF Spec

\* What is archived is written over by a forced transfer, or by replace_if_changed with
\* other bytes, and by nothing else, as long as the window of archived_state shows the last
\* report of every destination (decide(), archived_state).
THEOREM Preserved == Spec /\ []WindowShowsAll => ArchivedIsKept
  <1> DEFINE KeptAt(s) ==
          LET w == work[s] IN
          /\ pc[s] = "upload" /\ work'[s] # w
          /\ w.request.choice # "force" /\ Name(s) \notin disturbed
          => \A r \in ArchivedReports(Name(s)) :
                 \/ objects'[Name(s)][r.destination] = objects[Name(s)][r.destination]
                 \/ /\ w.request.choice = "replace_if_changed"
                    /\ r.md5 # BytesOf[Doc(s)]
             KeptAll == \A s \in Stage : KeptAt(s)
  <1>1. ASSUME TypeOK, MirrorInv, FitInv, [Next]_vars, NEW s \in Stage
        PROVE  KeptAt(s)
    <2> SUFFICES ASSUME pc[s] = "upload", work[s].request.choice # "force",
                        Name(s) \notin disturbed, NEW r \in ArchivedReports(Name(s))
                 PROVE  \/ objects'[Name(s)][r.destination] = objects[Name(s)][r.destination]
                        \/ /\ work[s].request.choice = "replace_if_changed"
                           /\ r.md5 # BytesOf[Doc(s)]
      OBVIOUS
    <2>1. ASSUME NEW u \in Stage, NEW d \in Destination, NEW status, NEW content,
                 Uploaded(u, d, status), Put(u, d, content)
          PROVE  \/ objects'[Name(s)][r.destination] = objects[Name(s)][r.destination]
                 \/ /\ work[s].request.choice = "replace_if_changed"
                    /\ r.md5 # BytesOf[Doc(s)]
      <3>1. pc[u] = "upload" /\ d \in work[u].todo
        BY <2>1 DEF Uploaded
      <3>2. /\ Name(s) \in Product /\ Name(u) \in Product
            /\ objects \in [Product -> [Destination -> Bytes \cup {Nothing, Broken}]]
        BY <1>1, TransferAssumption DEF TypeOK, Work, Name, Doc
      <3>3. r.destination \in Destination
        BY <3>2, ArchivedHasBytes
      <3>4. CASE Name(u) # Name(s) \/ r.destination # d
        BY <2>1, <3>2, <3>3, <3>4 DEF Put
      <3>5. CASE Name(u) = Name(s) /\ r.destination = d
        <4>1. u = s
          BY <1>1, <3>1, <3>5 DEF MirrorInv, Sole, Active
        <4>2. Permitted(s, r)
          BY <1>1, <3>1, <3>5, <4>1 DEF FitInv, Fits, Concerns, Active
        <4> QED
          BY <4>2 DEF Permitted
      <3> QED
        BY <3>4, <3>5
    <2>2. \/ UNCHANGED objects
          \/ \E u \in Stage, d \in Destination : \E status, content :
                 Uploaded(u, d, status) /\ Put(u, d, content)
      <3>1. CASE UNCHANGED vars
        BY <3>1 DEF vars, archive
      <3>2. CASE Next
        <4>1. ASSUME NEW u \in Stage, NEW d \in Destination, Upload(u, d) \/ UploadError(u, d)
              PROVE  \E status, content : Uploaded(u, d, status) /\ Put(u, d, content)
          BY <4>1 DEF Upload, UploadError
        <4>2. \/ UNCHANGED objects
              \/ \E u \in Stage, d \in Destination : Upload(u, d) \/ UploadError(u, d)
          BY <3>2 DEF Next, Step, Failure, RequestLive, RequestOperation, RetryPending,
             LosePending, Take, Done, Serve, Download, OpenConflict, Finish, StoreReports,
             GiveBack, LoseLeft, IndexError, DownloadError, StoreError, Crash, archive
        <4> QED
          BY <4>1, <4>2
      <3> QED
        BY <1>1, <3>1, <3>2
    <2> QED
      BY <2>1, <2>2
  <1>2. TypeOK /\ MirrorInv /\ FitInv /\ [Next]_vars => KeptAll
    BY <1>1
  <1>3. KeptAll => [KeptAll]_vars
    OBVIOUS
  <1> QED
    BY <1>2, <1>3, FitsHold, PTL DEF Spec, ArchivedIsKept

----------------------------------------------------------------------------
(* Wishes.                                                                  *)

\* A request of queue q wishes w.
Wished(q, w) == \E i \in DOMAIN q : w \in Wants(q[i], q[i].documents)

\* Stage s has not come to w, or has it in hand.
Hoped(s, w) == w \in Wants(work[s].request, Left(s))

\* What a stage is serving is left, and what is wished was requested.
InHand(s) == pc[s] \notin {"idle", "next"} => Doc(s) \in Left(s)
AskedFor == \A w \in Open : <<w[1], w[3]>> \in requested
WishInv == AskedFor /\ \A s \in Stage : InHand(s)

LEMMA WishedInBoth ==
    ASSUME NEW p \in Seq(Request), NEW q \in Seq(Request), NEW w
    PROVE  (\E r \in ToSet(p \o q) : w \in Wants(r, r.documents)) <=> Wished(p, w) \/ Wished(q, w)
  <1> DEFINE b == p \o q
  <1>1. /\ DOMAIN p = 1 .. Len(p) /\ DOMAIN q = 1 .. Len(q) /\ DOMAIN b = 1 .. Len(p) + Len(q)
        /\ Len(p) \in Nat /\ Len(q) \in Nat
    OBVIOUS
  <1>2. (\A i \in DOMAIN p : b[i] = p[i]) /\ (\A i \in DOMAIN q : b[Len(p) + i] = q[i])
    OBVIOUS
  <1>3. ToSet(b) = {b[i] : i \in DOMAIN b}
    BY DEF ToSet
  <1> HIDE DEF b
  <1>4. ASSUME NEW r \in ToSet(b), w \in Wants(r, r.documents)
        PROVE  Wished(p, w) \/ Wished(q, w)
    <2>1. PICK i \in DOMAIN b : r = b[i]
      BY <1>3
    <2>2. CASE i \in DOMAIN p
      BY <1>2, <1>4, <2>1, <2>2 DEF Wished
    <2>3. CASE i \notin DOMAIN p
      <3>1. i - Len(p) \in DOMAIN q /\ i = Len(p) + (i - Len(p))
        BY <1>1, <2>3
      <3>2. r = q[i - Len(p)]
        BY <1>2, <2>1, <3>1
      <3> QED
        BY <1>4, <3>1, <3>2 DEF Wished
    <2> QED
      BY <2>2, <2>3
  <1>5. ASSUME NEW i \in DOMAIN p, w \in Wants(p[i], p[i].documents)
        PROVE  \E r \in ToSet(b) : w \in Wants(r, r.documents)
    <2>1. p[i] \in ToSet(b)
      <3>1. i \in DOMAIN b
        BY <1>1
      <3> QED
        BY <1>2, <1>3, <3>1
    <2> QED
      BY <1>5, <2>1
  <1>6. ASSUME NEW i \in DOMAIN q, w \in Wants(q[i], q[i].documents)
        PROVE  \E r \in ToSet(b) : w \in Wants(r, r.documents)
    <2>1. q[i] \in ToSet(b)
      <3>1. Len(p) + i \in DOMAIN b
        BY <1>1
      <3> QED
        BY <1>2, <1>3, <3>1
    <2> QED
      BY <1>6, <2>1
  <1>7. Wished(p, w) \/ Wished(q, w) => \E r \in ToSet(b) : w \in Wants(r, r.documents)
    BY <1>5, <1>6 DEF Wished
  <1> QED
    BY <1>4, <1>7 DEF b

LEMMA OpenIs ==
    ASSUME pending \in Seq(Request), queue \in Seq(Request), NEW w
    PROVE  w \in Open <=> \/ Wished(pending, w) \/ Wished(queue, w)
                          \/ \E s \in Stage : Hoped(s, w)
  <1>1. (\E r \in ToSet(pending \o queue) : w \in Wants(r, r.documents))
            <=> Wished(pending, w) \/ Wished(queue, w)
    BY WishedInBoth
  <1> DEFINE waiting == UNION {Wants(r, r.documents) : r \in ToSet(pending \o queue)}
             left == UNION {Wants(work[s].request, Left(s)) : s \in Stage}
  <1>2. w \in waiting <=> \E r \in ToSet(pending \o queue) : w \in Wants(r, r.documents)
    OBVIOUS
  <1>3. w \in left <=> \E s \in Stage : Hoped(s, w)
    BY DEF Hoped
  <1>4. Open = waiting \cup left
    BY DEF Open
  <1> HIDE DEF waiting, left
  <1> QED
    BY <1>1, <1>2, <1>3, <1>4

LEMMA NextOpenIs ==
    ASSUME pending' \in Seq(Request), queue' \in Seq(Request), NEW w
    PROVE  w \in Open' <=> \/ Wished(pending', w) \/ Wished(queue', w)
                           \/ \E s \in Stage : Hoped(s, w)'
  <1>1. (\E r \in ToSet(pending' \o queue') : w \in Wants(r, r.documents))
            <=> Wished(pending', w) \/ Wished(queue', w)
    BY WishedInBoth
  <1> DEFINE waiting == UNION {Wants(r, r.documents) : r \in ToSet(pending' \o queue')}
             left == UNION {Wants(work'[s].request, Left(s)') : s \in Stage}
  <1>2. w \in waiting <=> \E r \in ToSet(pending' \o queue') : w \in Wants(r, r.documents)
    OBVIOUS
  <1>3. w \in left <=> \E s \in Stage : Hoped(s, w)'
    BY DEF Hoped
  <1>4. Open' = waiting \cup left
    BY DEF Open
  <1> HIDE DEF waiting, left
  <1> QED
    BY <1>1, <1>2, <1>3, <1>4

LEMMA AppendedWish ==
    ASSUME NEW q \in Seq(Request), NEW r \in Request, NEW w
    PROVE  Wished(Append(q, r), w) <=> Wished(q, w) \/ w \in Wants(r, r.documents)
  <1> DEFINE b == Append(q, r)
  <1>1. /\ Len(q) \in Nat /\ DOMAIN q = 1 .. Len(q) /\ DOMAIN b = 1 .. Len(q) + 1
        /\ b[Len(q) + 1] = r /\ \A i \in DOMAIN q : b[i] = q[i]
    OBVIOUS
  <1> HIDE DEF b
  <1> QED
    BY <1>1 DEF Wished, b

LEMMA TakenWish ==
    ASSUME NEW q \in Seq(Request), q # <<>>, NEW w
    PROVE  Wished(q, w) <=> w \in Wants(Head(q), Head(q).documents) \/ Wished(Tail(q), w)
  <1> DEFINE b == Tail(q)
  <1>1. /\ Len(q) \in Nat /\ DOMAIN q = 1 .. Len(q) /\ DOMAIN b = 1 .. Len(q) - 1
        /\ Len(q) # 0 /\ \A j \in DOMAIN b : b[j] = q[j + 1]
        /\ Head(q) = q[1]
    OBVIOUS
  <1> HIDE DEF b
  <1>2. ASSUME NEW i \in DOMAIN q, w \in Wants(q[i], q[i].documents)
        PROVE  w \in Wants(Head(q), Head(q).documents) \/ Wished(b, w)
    <2>1. CASE i = 1
      BY <1>1, <1>2, <2>1
    <2>2. CASE i # 1
      <3>1. i - 1 \in DOMAIN b /\ b[i - 1] = q[i]
        BY <1>1, <2>2
      <3> QED
        BY <1>2, <3>1 DEF Wished
    <2> QED
      BY <2>1, <2>2
  <1>3. w \in Wants(Head(q), Head(q).documents) => Wished(q, w)
    BY <1>1 DEF Wished
  <1>4. ASSUME NEW j \in DOMAIN b, w \in Wants(b[j], b[j].documents)
        PROVE  Wished(q, w)
    <2>1. j + 1 \in DOMAIN q /\ q[j + 1] = b[j]
      BY <1>1
    <2> QED
      BY <1>4, <2>1 DEF Wished
  <1>5. Wished(q, w) => w \in Wants(Head(q), Head(q).documents) \/ Wished(b, w)
    BY <1>2 DEF Wished
  <1>6. Wished(b, w) => Wished(q, w)
    BY <1>4 DEF Wished
  <1> QED
    BY <1>3, <1>5, <1>6 DEF b

\* What is open after a step of stage s.
LEMMA OpenByOne ==
    ASSUME TypeOK, TypeOK', NEW s \in Stage, UNCHANGED pending,
           \A t \in Stage \ {s} : work'[t] = work[t], NEW w
    PROVE  \E more \in BOOLEAN :
               /\ w \in Open <=> more \/ Wished(queue, w) \/ Hoped(s, w)
               /\ w \in Open' <=> more \/ Wished(queue', w) \/ Hoped(s, w)'
  <1> DEFINE more == Wished(pending, w) \/ \E t \in Stage \ {s} : Hoped(t, w)
  <1>1. \A t \in Stage \ {s} : Hoped(t, w)' <=> Hoped(t, w)
    BY DEF Hoped, Left
  <1>2. w \in Open <=> \/ Wished(pending, w) \/ Wished(queue, w)
                       \/ \E t \in Stage : Hoped(t, w)
    BY OpenIs DEF TypeOK
  <1>3. w \in Open' <=> \/ Wished(pending', w) \/ Wished(queue', w)
                        \/ \E t \in Stage : Hoped(t, w)'
    BY NextOpenIs DEF TypeOK
  <1>4. more \in BOOLEAN
    OBVIOUS
  <1>5. w \in Open <=> more \/ Wished(queue, w) \/ Hoped(s, w)
    BY <1>2
  <1>6. w \in Open' <=> more \/ Wished(queue', w) \/ Hoped(s, w)'
    BY <1>1, <1>3
  <1> HIDE DEF more
  <1> QED
    BY <1>4, <1>5, <1>6

LEMMA SameOpen ==
    ASSUME TypeOK, TypeOK', NEW s \in Stage, UNCHANGED <<pending, queue>>,
           \A t \in Stage \ {s} : work'[t] = work[t],
           work'[s].request = work[s].request, work'[s].left = work[s].left
    PROVE  Open' = Open
  <1>1. \A w : Hoped(s, w)' <=> Hoped(s, w)
    BY DEF Hoped, Left
  <1>2. \A w : w \in Open' <=> w \in Open
    BY <1>1, OpenByOne
  <1> QED
    BY <1>2

\* A step of stage s with a product in hand changes neither its request nor what is left.
InTransfer(s) ==
    \/ Download(s) \/ OpenConflict(s) \/ Finish(s) \/ IndexError(s) \/ DownloadError(s)
    \/ \E d \in Destination : Upload(s, d) \/ UploadError(s, d)

LEMMA TransferChanges ==
    ASSUME TypeOK, NEW s \in Stage, InTransfer(s)
    PROVE  /\ UNCHANGED <<pending, queue, requested, answered, lost, reports, disturbed>>
           /\ \A t \in Stage \ {s} : work'[t] = work[t] /\ pc'[t] = pc[t]
           /\ work'[s].request = work[s].request /\ work'[s].left = work[s].left
           /\ \/ work'[s].document \in Left(s)
              \/ pc[s] \notin {"idle", "next"} /\ work'[s].document = work[s].document
  <1>1. work \in [Stage -> Work] /\ pc \in [Stage -> PC] /\ work[s] \in Work
    BY DEF TypeOK
  <1> USE DEF broker, archive, history, Goto, Doc
  <1>2. CASE Download(s)
    BY <1>1, <1>2 DEF Download, Work
  <1>3. CASE OpenConflict(s)
    BY <1>1, <1>3 DEF OpenConflict
  <1>4. CASE Finish(s)
    BY <1>1, <1>4 DEF Finish, Store, Work
  <1>5. CASE IndexError(s)
    <2>1. PICK d : /\ Store(s, d, ResultsOf(Destination, "KO"))
                   /\ d \in Left(s) \/ (pc[s] \in {"conflict", "upload"} /\ d = Doc(s))
      BY <1>5 DEF IndexError
    <2>2. UNCHANGED <<pending, queue, requested, answered, lost, reports, disturbed>>
      BY <1>5 DEF IndexError
    <2> HIDE DEF Doc
    <2>3. /\ work'[s].request = work[s].request /\ work'[s].left = work[s].left
          /\ work'[s].document = d
          /\ \A t \in Stage \ {s} : work'[t] = work[t] /\ pc'[t] = pc[t]
      BY <1>1, <2>1 DEF Store, Work
    <2> QED
      BY <2>1, <2>2, <2>3 DEF Doc
  <1>6. CASE DownloadError(s)
    BY <1>1, <1>6 DEF DownloadError, Store, Work
  <1>7. ASSUME NEW d \in Destination, NEW status, Uploaded(s, d, status)
        PROVE  /\ UNCHANGED <<pending, queue, requested, answered, lost, reports, disturbed>>
               /\ \A t \in Stage \ {s} : work'[t] = work[t] /\ pc'[t] = pc[t]
               /\ work'[s].request = work[s].request /\ work'[s].left = work[s].left
               /\ pc[s] = "upload" /\ work'[s].document = work[s].document
    BY <1>1, <1>7 DEF Uploaded, Work
  <1>8. CASE \E d \in Destination : Upload(s, d) \/ UploadError(s, d)
    <2>1. PICK d \in Destination : Uploaded(s, d, "OK") \/ Uploaded(s, d, "KO")
      BY <1>8 DEF Upload, UploadError
    <2> QED
      BY <1>7, <2>1
  <1> QED
    BY <1>2, <1>3, <1>4, <1>5, <1>6, <1>8 DEF InTransfer

----------------------------------------------------------------------------
(* What the reports tell.                                                   *)

\* What no new report names stays archived.
LEMMA ArchivedStays ==
    ASSUME NEW q \in Seq(Report), NEW a \in Seq(Report), NEW r \in ArchivedOf(q),
           \A i \in DOMAIN a : a[i].destination # r.destination
    PROVE  r \in ArchivedOf(q \o a)
  <1> DEFINE b == q \o a
  <1>1. b \in Seq(Report) /\ Len(q) \in Nat /\ Len(a) \in Nat
        /\ DOMAIN q = 1 .. Len(q) /\ DOMAIN a = 1 .. Len(a)
        /\ DOMAIN b = 1 .. Len(q) + Len(a)
    OBVIOUS
  <1>2. \A i \in DOMAIN b : b[i] = IF i <= Len(q) THEN q[i] ELSE a[i - Len(q)]
    OBVIOUS
  <1>3. PICK d \in Destination, i \in DOMAIN q : IsLastOf(q, i, d) /\ q[i].ok /\ r = q[i]
    BY ArchivedAreLast
  <1> HIDE DEF b
  <1>4. i \in DOMAIN b /\ b[i] = q[i] /\ r.destination = d
    BY <1>1, <1>2, <1>3 DEF IsLastOf
  <1>5. ASSUME NEW j \in DOMAIN b, b[j].destination = d
        PROVE  j <= i
    <2>1. CASE j <= Len(q)
      BY <1>1, <1>2, <1>3, <1>5, <2>1 DEF IsLastOf
    <2>2. CASE j > Len(q)
      <3>1. j - Len(q) \in DOMAIN a /\ b[j] = a[j - Len(q)]
        BY <1>1, <1>2, <2>2
      <3> QED
        BY <1>4, <1>5, <3>1
    <2> QED
      BY <1>1, <2>1, <2>2
  <1>6. IsLastOf(b, i, d)
    BY <1>3, <1>4, <1>5 DEF IsLastOf
  <1>7. r \in ArchivedOf(b)
    BY <1>1, <1>3, <1>4, <1>6, ArchivedAreLast
  <1> QED
    BY <1>7 DEF b

LEMMA UntouchedIsArchived ==
    ASSUME TypeOK, NEW s \in Stage, StoreReports(s), NEW n \in Product, n = Name(s),
           NEW r \in ArchivedReports(n), r.destination \notin Touched(s)
    PROVE  r \in ArchivedReports(n)'
  <1> DEFINE counted == Counted(s, work[s].results)
             a == SetToSeq(counted)
  <1>1. /\ work[s] \in Work /\ reports \in [Product -> Seq(Report)]
        /\ work[s].results \in SUBSET Result
    BY DEF TypeOK, Work
  <1>2. a \in Seq(counted) /\ a \in Seq(Report)
    BY <1>1, CountedIsTyped, SeqOfSet
  <1>3. reports'[n] = reports[n] \o a
    BY <1>1 DEF StoreReports, Stored
  <1>4. \A x \in counted : x.destination \in Touched(s)
    BY DEF Counted, Touched
  <1> HIDE DEF counted, a
  <1>5. \A i \in DOMAIN a : a[i].destination # r.destination
    BY <1>2, <1>4
  <1>6. r \in ArchivedOf(reports[n])
    BY Archives
  <1>7. r \in ArchivedOf(reports[n] \o a)
    BY <1>1, <1>2, <1>5, <1>6, ArchivedStays
  <1> QED
    BY <1>3, <1>7, NextArchives

LEMMA SameRecorded ==
    UNCHANGED <<reports, disturbed>> => Recorded' = Recorded
  <1> SUFFICES ASSUME UNCHANGED <<reports, disturbed>>
               PROVE  Recorded' = Recorded
    OBVIOUS
  <1>1. \A n \in Product : Told(n)' = Told(n)
    BY SameArchive DEF Told
  <1> QED
    BY <1>1 DEF Recorded

\* Only what is told of product n changes.
LEMMA RecordedBut ==
    ASSUME NEW n \in Product, NEW told,
           \A m \in Product \ {n} : reports'[m] = reports[m],
           disturbed' \in {disturbed, disturbed \cup {n}},
           told = IF n \in disturbed' THEN {} ELSE Told(n)'
    PROVE  Recorded' = [Recorded EXCEPT ![n] = told]
  <1>1. \A m \in Product \ {n} : Told(m)' = Told(m)
    BY Archives, NextArchives DEF Told
  <1> DEFINE f(m) == IF m \in disturbed THEN {} ELSE Told(m)
  <1>2. Recorded = [m \in Product |-> f(m)]
    BY DEF Recorded
  <1>3. Recorded' = [m \in Product |-> IF m = n THEN told ELSE f(m)]
    BY <1>1 DEF Recorded
  <1> HIDE DEF f
  <1> QED
    BY <1>2, <1>3

\* store_reports(): more mirrors with the bytes of the others, or all of them anew, or none.
LEMMA ReportRecorded ==
    ASSUME TypeOK, MirrorInv, FitInv, NEW s \in Stage, StoreReports(s),
           NEW n \in Product, n = Name(s)
    PROVE  \/ Recorded' = Recorded
           \/ Recorded' = [Recorded EXCEPT ![n] = {}]
           \/ \E some \in SUBSET Destination :
                  \/ /\ \A m \in Recorded[n] : m[2] = BytesOf[Doc(s)]
                     /\ Recorded' = [Recorded EXCEPT
                                         ![n] = @ \cup (some \X {BytesOf[Doc(s)]})]
                  \/ /\ \A m \in Recorded[n] :
                            \/ work[s].request.choice = "force"
                            \/ /\ work[s].request.choice = "replace_if_changed"
                               /\ m[2] # BytesOf[Doc(s)]
                     /\ Recorded' = [Recorded EXCEPT ![n] = some \X {BytesOf[Doc(s)]}]
  <1> DEFINE b == BytesOf[Doc(s)]
             some == {d \in Destination : <<d, b>> \in Told(n)'}
  <1>1. /\ pc[s] = "store" /\ Stored(s, work[s].results) /\ NextProduct(s)
        /\ UNCHANGED <<objects, disturbed>>
    BY DEF StoreReports
  <1>2. \A m \in Product \ {n} : reports'[m] = reports[m]
    BY <1>1 DEF Stored, TypeOK
  <1>3. CASE n \in disturbed
    <2>1. Recorded' = [Recorded EXCEPT ![n] = {}]
      BY <1>1, <1>2, <1>3, RecordedBut
    <2> QED
      BY <2>1
  <1>4. CASE n \notin disturbed
    <2>1. Recorded' = [Recorded EXCEPT ![n] = Told(n)'] /\ Recorded[n] = Told(n)
      <3>1. Recorded[n] = Told(n)
        BY <1>4 DEF Recorded
      <3> QED
        BY <1>1, <1>2, <1>4, <3>1, RecordedBut
    <2>2. \A r \in ArchivedReports(n)' :
              \/ HasOK(s) /\ r.md5 = b
              \/ r \in ArchivedReports(n) /\ r.destination \notin Touched(s)
      BY StoredIsArchived DEF HasOK
    <2>3. \A r \in ArchivedReports(n) : r.destination \notin Touched(s)
                                        => r \in ArchivedReports(n)'
      BY UntouchedIsArchived
    <2>4. \/ \A r \in ArchivedReports(n) : r.destination \notin Touched(s)
          \/ /\ Destination \subseteq Touched(s)
             /\ HasOK(s) => \A r \in ArchivedReports(n) : Permitted(s, r)
      BY <1>1, <1>4 DEF FitInv, Fits, Concerns, Active
    <2>5. \A r \in ArchivedReports(n)' : r.destination \in Destination
      BY DEF ArchivedReports
    <2>6. \A m \in Told(n)' : \E r \in ArchivedReports(n)' : m = <<r.destination, r.md5>>
      BY DEF Told
    <2>7. \A m \in Told(n) : \E r \in ArchivedReports(n) : m = <<r.destination, r.md5>>
      BY DEF Told
    <2>8. (\A r \in ArchivedReports(n)' : r.md5 = b) => Told(n)' = some \X {b}
      BY <2>5, <2>6
    <2>9. CASE \A r \in ArchivedReports(n) : r.destination \notin Touched(s)
      <3>1. ArchivedReports(n) \subseteq ArchivedReports(n)'
        BY <2>3, <2>9
      <3>2. CASE ~HasOK(s)
        <4>1. ArchivedReports(n)' = ArchivedReports(n)
          BY <2>2, <3>1, <3>2
        <4>2. Told(n)' = Told(n)
          BY <4>1 DEF Told
        <4>3. Recorded' = Recorded
          BY <2>1, <4>2 DEF Recorded
        <4> QED
          BY <4>3
      <3>3. CASE HasOK(s)
        <4>1. Ready(s) /\ work[s].todo = {} /\ Source(s) = b
          BY <1>1, <1>4, <3>3 DEF MirrorInv, Plan, Source, Active
        <4>2. \A r \in ArchivedReports(n) : r.md5 = b
          BY <2>9, <4>1 DEF Ready
        <4>3. \A r \in ArchivedReports(n)' : r.md5 = b
          BY <2>2, <4>2
        <4>4. Told(n) \subseteq Told(n)'
          BY <3>1 DEF Told
        <4>5. Told(n)' = Told(n) \cup (some \X {b})
          BY <2>8, <4>3, <4>4
        <4>6. \A m \in Recorded[n] : m[2] = b
          BY <2>1, <2>7, <4>2
        <4>7. Recorded' = [Recorded EXCEPT ![n] = @ \cup (some \X {b})]
          BY <2>1, <4>5
        <4> QED
          BY <4>6, <4>7
      <3> QED
        BY <3>2, <3>3
    <2>10. CASE /\ Destination \subseteq Touched(s)
                /\ HasOK(s) => \A r \in ArchivedReports(n) : Permitted(s, r)
      <3>1. \A r \in ArchivedReports(n)' : HasOK(s) /\ r.md5 = b
        BY <2>2, <2>5, <2>10
      <3>2. Told(n)' = some \X {b}
        BY <2>8, <3>1
      <3>3. CASE ~HasOK(s)
        <4>1. Told(n)' = {}
          BY <2>6, <3>1, <3>3
        <4> QED
          BY <2>1, <4>1
      <3>4. CASE HasOK(s)
        <4>1. \A m \in Recorded[n] :
                  \/ work[s].request.choice = "force"
                  \/ work[s].request.choice = "replace_if_changed" /\ m[2] # b
          BY <2>1, <2>7, <2>10, <3>4 DEF Permitted
        <4>2. Recorded' = [Recorded EXCEPT ![n] = some \X {b}]
          BY <2>1, <3>2
        <4> QED
          BY <4>1, <4>2
      <3> QED
        BY <3>3, <3>4
    <2> QED
      BY <2>4, <2>9, <2>10
  <1> QED
    BY <1>3, <1>4

----------------------------------------------------------------------------
(* Each step of a stage is one of the archive's.                            *)

LEMMA HopedIs ==
    ASSUME NEW s \in Stage, NEW w
    PROVE  Hoped(s, w) <=>
               /\ w = <<w[1], w[2], w[3]>> /\ w[1] = work[s].request.operation
               /\ w[2] = work[s].request.choice /\ w[3] \in Products(Left(s))
  BY DEF Hoped, Wants

LEMMA OpenIsTyped ==
    ASSUME TypeOK, NEW w \in Open
    PROVE  w \in Origin \X Choice \X Product
  <1>1. ASSUME NEW r \in Request, w \in Wants(r, r.documents)
        PROVE  w \in Origin \X Choice \X Product
    BY <1>1, TransferAssumption DEF Wants, Request, Products
  <1>2. CASE Wished(pending, w) \/ Wished(queue, w)
    BY <1>1, <1>2 DEF Wished, TypeOK
  <1>3. ASSUME NEW s \in Stage, Hoped(s, w)
        PROVE  w \in Origin \X Choice \X Product
    <2>1. /\ work[s].request.operation \in Origin /\ work[s].request.choice \in Choice
          /\ Left(s) \subseteq Document
      BY DEF TypeOK, Work, Request, Left
    <2> QED
      BY <1>3, <2>1, TransferAssumption DEF Hoped, Wants, Products
  <1> QED
    BY <1>2, <1>3, OpenIs DEF TypeOK

\* The wish of the product in hand is open.
LEMMA DocIsOpen ==
    ASSUME TypeOK, NEW s \in Stage, NEW d \in Left(s)
    PROVE  <<work[s].request.operation, work[s].request.choice, ProductOf[d]>> \in Open
  <1>1. Hoped(s, <<work[s].request.operation, work[s].request.choice, ProductOf[d]>>)
    BY DEF Hoped, Wants, Products
  <1> QED
    BY <1>1, OpenIs DEF TypeOK

\* What the steps of the stages do to the wishes: none is added.
Mapped == Open' \subseteq Open /\ [AsMirrors!Next]_AsMirrors!vars

LEMMA TransferMaps ==
    ASSUME TypeOK, TypeOK', NEW s \in Stage, InTransfer(s)
    PROVE  Mapped
  <1>1. /\ UNCHANGED <<pending, queue, answered, lost, reports, disturbed>>
        /\ \A t \in Stage \ {s} : work'[t] = work[t]
        /\ work'[s].request = work[s].request /\ work'[s].left = work[s].left
    BY TransferChanges
  <1>2. Open' = Open /\ Recorded' = Recorded
    BY <1>1, SameOpen, SameRecorded
  <1> QED
    BY <1>1, <1>2 DEF Mapped, AsMirrors!vars

\* A stage lets its request go: the wishes it had may be lost, and a product disturbed.
LEMMA EndMaps ==
    ASSUME TypeOK, TypeOK', WishInv, NEW s \in Stage,
           Done(s) \/ GiveBack(s) \/ LoseLeft(s) \/ Crash(s)
    PROVE  Mapped
  <1> USE DEF broker, archive, history
  <1>1. work \in [Stage -> Work] /\ queue \in Seq(Request) /\ work[s] \in Work
    BY DEF TypeOK
  <1>2. End(s) /\ UNCHANGED <<pending, reports, answered>>
    BY DEF Done, GiveBack, LoseLeft, Crash
  <1>3. /\ \A t \in Stage \ {s} : work'[t] = work[t]
        /\ work'[s].left = {}
    BY <1>1, <1>2, NoWorkIsTyped DEF End
  <1>4. \A w : ~Hoped(s, w)'
    BY <1>3 DEF Hoped, Left, Wants, Products
  <1>5. CASE Done(s)
    <2>1. UNCHANGED <<queue, lost, disturbed>> /\ Left(s) = {}
      BY <1>5 DEF Done
    <2>2. \A w : ~Hoped(s, w)
      BY <2>1 DEF Hoped, Wants, Products
    <2>3. \A w : w \in Open' <=> w \in Open
      BY <1>2, <1>3, <1>4, <2>1, <2>2, OpenByOne
    <2>4. Recorded' = Recorded
      BY <1>2, <2>1, SameRecorded
    <2> QED
      BY <1>2, <2>1, <2>3, <2>4 DEF Mapped, AsMirrors!vars
  <1>6. CASE GiveBack(s)
    <2>1. /\ UNCHANGED <<lost, disturbed>> /\ Left(s) # {}
          /\ queue' = Append(queue, Again(s))
      BY <1>6 DEF GiveBack, Leaves
    <2>2. /\ Again(s) \in Request /\ Again(s).documents = Left(s)
          /\ Again(s).operation = work[s].request.operation
          /\ Again(s).choice = work[s].request.choice
      BY <1>1, <2>1 DEF Again, Work, Request, Left
    <2>3. \A w : Wished(queue', w) <=> Wished(queue, w) \/ Hoped(s, w)
      <3>1. Wants(Again(s), Again(s).documents) = Wants(work[s].request, Left(s))
        BY <2>2 DEF Wants
      <3> QED
        BY <1>1, <2>1, <2>2, <3>1, AppendedWish DEF Hoped
    <2>4. \A w : w \in Open' <=> w \in Open
      BY <1>2, <1>3, <1>4, <2>3, OpenByOne
    <2>5. Recorded' = Recorded
      BY <1>2, <2>1, SameRecorded
    <2> QED
      BY <1>2, <2>1, <2>4, <2>5 DEF Mapped, AsMirrors!vars
  <1>7. CASE LoseLeft(s) \/ Crash(s)
    <2> DEFINE o == work[s].request.operation
    <2>1. UNCHANGED queue /\ lost' = lost \cup {o} /\ o \in Origin
      BY <1>1, <1>7 DEF LoseLeft, Crash, Lose, Work, Request
    <2>2. \A w : w \in Open' => w \in Open
      BY <1>2, <1>3, <1>4, <2>1, OpenByOne
    <2>3. \A w \in Open \ Open' : w[1] = o
      <3>1. \A w \in Open \ Open' : Hoped(s, w)
        BY <1>2, <1>3, <1>4, <2>1, OpenByOne
      <3> QED
        BY <3>1, HopedIs
    <2>4. AsMirrors!Loses(o, Open)
      BY <2>1, <2>2, <2>3 DEF AsMirrors!Loses
    <2>5. AsMirrors!Told \/ \E w \in Open : w[1] = o /\ AsMirrors!Doubt(w[3])
      <3>1. CASE UNCHANGED disturbed
        BY <1>2, <3>1, SameRecorded DEF AsMirrors!Told
      <3>2. CASE ~UNCHANGED disturbed
        <4>1. pc[s] \in {"upload", "store"} /\ disturbed' = disturbed \cup {Name(s)}
          BY <1>7, <3>2 DEF LoseLeft, Crash
        <4> DEFINE w == <<o, work[s].request.choice, Name(s)>>
        <4>2. w \in Open
          BY <4>1, DocIsOpen DEF WishInv, InHand, Name
        <4>3. Name(s) \in Product
          BY <4>2, OpenIsTyped
        <4>4. Recorded' = [Recorded EXCEPT ![Name(s)] = {}]
          BY <1>2, <4>1, <4>3, RecordedBut
        <4> QED
          BY <4>1, <4>2, <4>4 DEF AsMirrors!Doubt
      <3> QED
        BY <3>1, <3>2
    <2>6. AsMirrors!Lose(o)
      BY <1>2, <2>4, <2>5 DEF AsMirrors!Lose
    <2> QED
      BY <2>1, <2>2, <2>6 DEF Mapped, AsMirrors!Next
  <1> QED
    BY <1>5, <1>6, <1>7

LEMMA AskedIs ==
    ASSUME NEW o, NEW documents
    PROVE  Asked(o, documents) = {o} \X Products(documents)
  BY DEF Asked

\* What the requester asks of a stage, but for the documents that are missing.
LEMMA TakeMaps ==
    ASSUME TypeOK, TypeOK', KeepInv, NEW s \in Stage, Take(s)
    PROVE  Mapped
  <1> DEFINE r == Head(queue)
  <1>1. work \in [Stage -> Work] /\ queue \in Seq(Request)
    BY DEF TypeOK
  <1>2. /\ pc[s] = "idle" /\ queue # <<>>
        /\ UNCHANGED <<pending, reports, lost, disturbed>>
    BY DEF Take, archive
  <1>3. PICK missing \in SUBSET r.documents, refused \in BOOLEAN :
            /\ Missing(r, missing)
            /\ work' = [work EXCEPT ![s] = [NoWork EXCEPT !.request = r, !.refused = refused,
                                                          !.left = r.documents \ missing]]
    BY DEF Take
  <1>4. r \in Request
    BY <1>1, <1>2
  <1>5. /\ \A t \in Stage \ {s} : work'[t] = work[t]
        /\ work'[s].request = r /\ work'[s].left = r.documents \ missing
    BY <1>1, <1>3, NoWorkIsTyped DEF NoWork
  <1>6. /\ queue' = Tail(queue)
        /\ answered' = answered \cup ({r.operation} \X Products(missing))
    BY <1>3, AskedIs DEF Missing
  <1> HIDE DEF r
  <1>7. \A w : ~Hoped(s, w)
    <2>1. Left(s) = {}
      BY <1>2 DEF KeepInv, IdleIsDone
    <2> QED
      BY <2>1 DEF Hoped, Wants, Products
  <1>8. \A w : Hoped(s, w)' <=> w \in Wants(r, r.documents \ missing)
    BY <1>5 DEF Hoped, Left
  <1>9. \A w : w \in Wants(r, r.documents) <=>
                   w \in Wants(r, r.documents \ missing) \/ w \in Wants(r, missing)
    <2>1. Products(r.documents) = Products(r.documents \ missing) \cup Products(missing)
      BY <1>3 DEF Products, r
    <2> QED
      BY <2>1 DEF Wants
  <1>10. \A w : w \in Wants(r, r.documents) \/ Wished(queue', w) <=> Wished(queue, w)
    BY <1>1, <1>2, <1>6, TakenWish DEF r
  <1>11. \A w : w \in Open' => w \in Open
    BY <1>2, <1>5, <1>7, <1>8, <1>9, <1>10, OpenByOne
  <1>12. \A w : w \in Open \ Open' => w \in Wants(r, missing)
    BY <1>2, <1>5, <1>7, <1>8, <1>9, <1>10, OpenByOne
  <1>13. Recorded' = Recorded
    BY <1>2, SameRecorded
  <1>14. AsMirrors!Miss(r.operation, r.choice, Products(missing))
    <2>1. Open \ Open' \subseteq {r.operation} \X {r.choice} \X Products(missing)
      BY <1>12 DEF Wants
    <2> QED
      BY <1>2, <1>6, <1>11, <1>13, <2>1
      DEF AsMirrors!Miss, AsMirrors!Answered, AsMirrors!Wishes, AsMirrors!Told
  <1>15. /\ r.operation \in Origin /\ r.choice \in Choice
         /\ Products(missing) \subseteq Product
    BY <1>3, <1>4, TransferAssumption DEF Request, Products, r
  <1> QED
    BY <1>11, <1>14, <1>15 DEF Mapped, AsMirrors!Next

\* What was requested is still wished, or has ended.
LEMMA NextKept ==
    ASSUME TypeOK', KeepInv', NEW o, NEW n, <<o, n>> \in requested'
    PROVE  \/ <<o, n>> \in answered' \/ o \in lost'
           \/ \E c \in Choice : <<o, c, n>> \in Open'
  <1> DEFINE a == <<o, n>>
  <1>1. pending' \in Seq(Request) /\ queue' \in Seq(Request)
    BY DEF TypeOK
  <1>2. ASSUME NEW q \in Seq(Request), InQueue(q, a)
        PROVE  \E c \in Choice : Wished(q, <<o, c, n>>)
    <2>1. PICK i \in DOMAIN q : Asks(q[i], a)
      BY <1>2 DEF InQueue
    <2>2. q[i] \in Request
      OBVIOUS
    <2>3. q[i].choice \in Choice /\ <<o, q[i].choice, n>> \in Wants(q[i], q[i].documents)
      BY <2>1, <2>2 DEF Asks, Wants, Request
    <2> QED
      BY <2>3 DEF Wished
  <1>3. ASSUME NEW t \in Stage, Holds(t, a)'
        PROVE  \E c \in Choice : Hoped(t, <<o, c, n>>)'
    <2>1. work'[t].request.choice \in Choice
      BY DEF TypeOK, Work, Request
    <2>2. work'[t].request.operation = o /\ n \in Products(Left(t)')
      BY <1>3 DEF Holds
    <2>3. <<o, work'[t].request.choice, n>> \in Wants(work'[t].request, Left(t)')
      BY <2>2 DEF Wants
    <2> QED
      BY <2>1, <2>3 DEF Hoped
  <1>4. /\ InQueue(pending', a) => \E c \in Choice : Wished(pending', <<o, c, n>>)
        /\ InQueue(queue', a) => \E c \in Choice : Wished(queue', <<o, c, n>>)
    BY <1>1, <1>2
  <1>5. \/ a \in answered' \/ o \in lost'
        \/ InQueue(pending', a) \/ InQueue(queue', a)
        \/ \E t \in Stage : Holds(t, a)'
    <2>1. Kept(a)'
      BY DEF KeepInv, AllAreKept
    <2> QED
      BY <2>1 DEF Kept
  <1> HIDE DEF a
  <1>6. \A c : \/ Wished(pending', <<o, c, n>>) \/ Wished(queue', <<o, c, n>>)
               \/ \E t \in Stage : Hoped(t, <<o, c, n>>)'
               => <<o, c, n>> \in Open'
    BY <1>1, NextOpenIs
  <1> QED
    BY <1>3, <1>4, <1>5, <1>6 DEF a

\* A document of a product that was served is let go; a product another stage is serving is
\* disturbed.
LEMMA ServeMaps ==
    ASSUME TypeOK, TypeOK', KeepInv', WishInv, NEW s \in Stage, Serve(s)
    PROVE  Mapped
  <1> DEFINE o == work[s].request.operation
             c == work[s].request.choice
  <1>1. work \in [Stage -> Work] /\ work[s] \in Work
    BY DEF TypeOK
  <1>2. UNCHANGED <<pending, queue, reports, requested, answered, lost>>
    BY DEF Serve, broker, archive
  <1>3. PICK d \in Left(s) :
            \/ /\ work' = [work EXCEPT ![s].left = @ \ {d}]
               /\ UNCHANGED disturbed
            \/ /\ \/ Store(s, d, ResultsOf({NoDestination}, "KO"))
                  \/ Decide(s, d)
               /\ \/ disturbed' = disturbed
                  \/ disturbed' = disturbed \cup {ProductOf[d]}
    BY DEF Serve
  <1> DEFINE n == ProductOf[d]
             w == <<o, c, n>>
  <1>4. w \in Open /\ o \in Origin /\ c \in Choice /\ n \in Product
    <2>1. w \in Open
      BY DocIsOpen
    <2> QED
      BY <2>1, OpenIsTyped
  <1>5. ASSUME work' = [work EXCEPT ![s].left = @ \ {d}], UNCHANGED disturbed
        PROVE  Mapped
    <2>1. /\ \A t \in Stage \ {s} : work'[t] = work[t]
          /\ work'[s].request = work[s].request /\ work'[s].left = work[s].left \ {d}
      BY <1>1, <1>5 DEF Work
    <2>2. \A x : /\ Hoped(s, x)' => Hoped(s, x)
                 /\ Hoped(s, x) => Hoped(s, x)' \/ x = w
      <3>1. Products(Left(s)) \subseteq Products(Left(s)') \cup {n}
            /\ Products(Left(s)') \subseteq Products(Left(s))
        BY <2>1 DEF Left, Products
      <3>2. \A x : Hoped(s, x)' <=>
                       /\ x = <<x[1], x[2], x[3]>> /\ x[1] = o
                       /\ x[2] = c /\ x[3] \in Products(Left(s)')
        BY <2>1 DEF Hoped, Wants
      <3> QED
        BY <3>1, <3>2, HopedIs
    <2>3. \A x : x \in Open' => x \in Open
      BY <1>2, <2>1, <2>2, OpenByOne
    <2>4. \A x : x \in Open => x \in Open' \/ x = w
      BY <1>2, <2>1, <2>2, OpenByOne
    <2>5. Recorded' = Recorded
      BY <1>2, <1>5, SameRecorded
    <2>6. CASE w \in Open'
      <3>1. Open' = Open
        BY <2>3, <2>4, <2>6
      <3> QED
        BY <1>2, <1>5, <2>5, <3>1 DEF Mapped, AsMirrors!vars
    <2>7. CASE w \notin Open'
      <3>1. Open' = Open \ {w}
        BY <2>3, <2>4, <2>7
      <3>2. <<o, n>> \in requested'
        BY <1>2, <1>4 DEF WishInv, AskedFor
      <3>3. \/ <<o, n>> \in answered \/ o \in lost
            \/ \E k \in Choice : <<o, k, n>> \in Open'
        BY <1>2, <3>2, NextKept
      <3>4. AsMirrors!Join(w)
        BY <1>2, <1>5, <2>5, <3>1, <3>3 DEF AsMirrors!Join, AsMirrors!Told
      <3> QED
        BY <1>4, <3>1, <3>4 DEF Mapped, AsMirrors!Next
    <2> QED
      BY <2>6, <2>7
  <1>6. ASSUME \/ Store(s, d, ResultsOf({NoDestination}, "KO"))
               \/ Decide(s, d),
               \/ disturbed' = disturbed
               \/ disturbed' = disturbed \cup {n}
        PROVE  Mapped
    <2>1. /\ \A t \in Stage \ {s} : work'[t] = work[t]
          /\ work'[s].request = work[s].request /\ work'[s].left = work[s].left
      <3>1. \/ \E results : Store(s, d, results)
            \/ \E todo, same : Transfer(s, d, todo, same)
            \/ Conflict(s, d)
        BY <1>6 DEF Decide
      <3>2. ASSUME NEW results, Store(s, d, results)
            PROVE  /\ \A t \in Stage \ {s} : work'[t] = work[t]
                   /\ work'[s].request = work[s].request /\ work'[s].left = work[s].left
        BY <1>1, <3>2 DEF Store, Work
      <3>3. ASSUME NEW todo, NEW same, Transfer(s, d, todo, same)
            PROVE  /\ \A t \in Stage \ {s} : work'[t] = work[t]
                   /\ work'[s].request = work[s].request /\ work'[s].left = work[s].left
        BY <1>1, <3>3 DEF Transfer, Work
      <3>4. CASE Conflict(s, d)
        BY <1>1, <3>4 DEF Conflict, Work
      <3> QED
        BY <3>1, <3>2, <3>3, <3>4
    <2>2. Open' = Open
      BY <1>2, <2>1, SameOpen
    <2>3. CASE disturbed' = disturbed
      BY <1>2, <2>2, <2>3, SameRecorded DEF Mapped, AsMirrors!vars
    <2>4. CASE disturbed' = disturbed \cup {n}
      <3>1. Recorded' = [Recorded EXCEPT ![n] = {}]
        BY <1>2, <1>4, <2>4, RecordedBut
      <3>2. AsMirrors!Clash(w)
        BY <1>2, <2>2, <2>4, <3>1 DEF AsMirrors!Clash, AsMirrors!Doubt
      <3> QED
        BY <1>4, <2>2, <3>2 DEF Mapped, AsMirrors!Next
    <2> QED
      BY <1>6, <2>3, <2>4
  <1> QED
    BY <1>3, <1>5, <1>6

\* A product is answered.
LEMMA ReportMaps ==
    ASSUME TypeOK, TypeOK', MirrorInv, FitInv, WishInv, NEW s \in Stage,
           StoreReports(s) \/ StoreError(s)
    PROVE  Mapped
  <1> DEFINE o == work[s].request.operation
             c == work[s].request.choice
             n == Name(s)
             w == <<o, c, n>>
  <1> USE DEF broker
  <1>1. work \in [Stage -> Work] /\ work[s] \in Work /\ reports \in [Product -> Seq(Report)]
    BY DEF TypeOK
  <1>2. /\ pc[s] = "store" /\ NextProduct(s) /\ UNCHANGED <<pending, queue>>
        /\ \E results : Stored(s, results)
    BY DEF StoreReports, StoreError
  <1>3. /\ answered' = answered \cup {<<o, n>>}
        /\ \A m \in Product \ {n} : reports'[m] = reports[m]
    BY <1>1, <1>2 DEF Stored
  <1>4. w \in Open /\ o \in Origin /\ c \in Choice /\ n \in Product
    <2>1. w \in Open
      BY <1>2, DocIsOpen DEF WishInv, InHand, Name
    <2> QED
      BY <2>1, OpenIsTyped
  <1>5. /\ \A t \in Stage \ {s} : work'[t] = work[t]
        /\ work'[s].request = work[s].request /\ work'[s].left = work[s].left \ {Doc(s)}
    BY <1>1, <1>2 DEF NextProduct, Work
  <1>6. \A x : /\ Hoped(s, x)' => Hoped(s, x)
               /\ Hoped(s, x) => Hoped(s, x)' \/ x = w
    <2>1. Products(Left(s)) \subseteq Products(Left(s)') \cup {n}
          /\ Products(Left(s)') \subseteq Products(Left(s))
      BY <1>5 DEF Left, Products, Name
    <2>2. \A x : Hoped(s, x)' <=>
                     /\ x = <<x[1], x[2], x[3]>> /\ x[1] = o
                     /\ x[2] = c /\ x[3] \in Products(Left(s)')
      BY <1>5 DEF Hoped, Wants
    <2> QED
      BY <2>1, <2>2, HopedIs
  <1>7. \A x : x \in Open' => x \in Open
    BY <1>2, <1>5, <1>6, OpenByOne
  <1>8. \A x : x \in Open => x \in Open' \/ x = w
    BY <1>2, <1>5, <1>6, OpenByOne
  <1>9. Open' \in {Open, Open \ {w}}
    BY <1>7, <1>8
  <1>10. AsMirrors!Answered(w[1], {w[3]})
    <2>1. {o} \X {n} = {<<o, n>>}
      OBVIOUS
    <2> QED
      BY <1>3, <2>1 DEF AsMirrors!Answered
  <1>11. CASE StoreReports(s)
    <2>1. UNCHANGED <<lost, disturbed>> /\ BytesOf[Doc(s)] \in Bytes
      BY <1>1, <1>11, TransferAssumption DEF StoreReports, Work, Doc
    <2>2. CASE Recorded' = Recorded
      <3>1. AsMirrors!Report(w)
        BY <1>9, <1>10, <2>1, <2>2 DEF AsMirrors!Report
      <3> QED
        BY <1>4, <1>7, <3>1 DEF Mapped, AsMirrors!Next
    <2>3. CASE Recorded' = [Recorded EXCEPT ![n] = {}]
      <3>1. AsMirrors!Drop(w[3])
        BY <2>3 DEF AsMirrors!Drop
      <3>2. AsMirrors!Report(w)
        BY <1>9, <1>10, <2>1, <3>1 DEF AsMirrors!Report
      <3> QED
        BY <1>4, <1>7, <3>2 DEF Mapped, AsMirrors!Next
    <2>4. ASSUME NEW some \in SUBSET Destination,
                 \/ /\ \A m \in Recorded[n] : m[2] = BytesOf[Doc(s)]
                    /\ Recorded' = [Recorded EXCEPT
                                        ![n] = @ \cup (some \X {BytesOf[Doc(s)]})]
                 \/ /\ \A m \in Recorded[n] :
                           \/ c = "force"
                           \/ c = "replace_if_changed" /\ m[2] # BytesOf[Doc(s)]
                    /\ Recorded' = [Recorded EXCEPT ![n] = some \X {BytesOf[Doc(s)]}]
          PROVE  Mapped
      <3>1. \/ AsMirrors!Fill(w[3], BytesOf[Doc(s)], some)
            \/ AsMirrors!Replace(w[3], w[2], BytesOf[Doc(s)], some)
        BY <2>4 DEF AsMirrors!Fill, AsMirrors!Replace, AsMirrors!Allows
      <3>2. AsMirrors!Report(w)
        BY <1>9, <1>10, <2>1, <3>1 DEF AsMirrors!Report
      <3> QED
        BY <1>4, <1>7, <3>2 DEF Mapped, AsMirrors!Next
    <2> QED
      BY <1>4, <1>11, <2>2, <2>3, <2>4, ReportRecorded
  <1>12. CASE StoreError(s)
    <2>1. lost' = lost \cup {o} /\ disturbed' = disturbed \cup {n}
      BY <1>12 DEF StoreError, Lose
    <2>2. Recorded' = [Recorded EXCEPT ![n] = {}]
      BY <1>3, <1>4, <2>1, RecordedBut
    <2>3. AsMirrors!Loses(w[1], Open)
      BY <1>7, <1>8, <2>1 DEF AsMirrors!Loses
    <2>4. AsMirrors!Doubt(w[3])
      BY <2>1, <2>2 DEF AsMirrors!Doubt
    <2>5. AsMirrors!Report(w)
      BY <1>10, <2>3, <2>4 DEF AsMirrors!Report
    <2> QED
      BY <1>4, <1>7, <2>5 DEF Mapped, AsMirrors!Next
  <1> QED
    BY <1>11, <1>12

LEMMA StageMaps ==
    ASSUME TypeOK, TypeOK', KeepInv, KeepInv', MirrorInv, FitInv, WishInv,
           NEW s \in Stage, Acts(s)
    PROVE  Mapped
  <1>1. \/ Take(s) \/ Serve(s) \/ InTransfer(s)
        \/ Done(s) \/ GiveBack(s) \/ LoseLeft(s) \/ Crash(s)
        \/ StoreReports(s) \/ StoreError(s)
    BY DEF Acts, Step, Failure, InTransfer
  <1> QED
    BY <1>1, TakeMaps, ServeMaps, TransferMaps, EndMaps, ReportMaps

----------------------------------------------------------------------------
(* The requester's steps.                                                   *)

\* The wishes after a step of the requester.
LEMMA OpenByRequests ==
    ASSUME TypeOK, TypeOK', UNCHANGED work, NEW w
    PROVE  \E more \in BOOLEAN :
               /\ w \in Open <=> more \/ Wished(pending, w) \/ Wished(queue, w)
               /\ w \in Open' <=> more \/ Wished(pending', w) \/ Wished(queue', w)
  <1> DEFINE more == \E s \in Stage : Hoped(s, w)
  <1>1. \A s \in Stage : Hoped(s, w)' <=> Hoped(s, w)
    BY DEF Hoped, Left
  <1>2. w \in Open <=> more \/ Wished(pending, w) \/ Wished(queue, w)
    BY OpenIs DEF TypeOK
  <1>3. w \in Open' <=> more \/ Wished(pending', w) \/ Wished(queue', w)
    BY <1>1, NextOpenIs DEF TypeOK
  <1>4. more \in BOOLEAN
    OBVIOUS
  <1> HIDE DEF more
  <1> QED
    BY <1>2, <1>3, <1>4

\* What is pending is wished by no operation.
LEMMA PendingWishes ==
    ASSUME PendingIsLive, NEW w, Wished(pending, w)
    PROVE  w[1] = Live
  BY DEF PendingIsLive, Wished, Wants

\* A request is made: its wishes are open, or some are lost.
Asking(o, documents) ==
    /\ requested' = requested \cup Asked(o, documents)
    /\ \A w \in Open' : w \in Open \/ <<w[1], w[3]>> \in Asked(o, documents)
    /\ AsMirrors!Next

LEMMA RequestMaps ==
    ASSUME TypeOK, TypeOK', NEW documents \in Batch, NEW r \in Request,
           r.documents = documents,
           Make(r.operation, documents), UNCHANGED <<work, reports, disturbed>>,
           \/ /\ UNCHANGED lost
              /\ \A w : w \in Open' <=> w \in Open \/ w \in Wants(r, documents)
           \/ /\ lost' = lost \cup {r.operation}
              /\ \A w : w \in Open' => w \in Open \/ w \in Wants(r, documents)
              /\ \A w : w \in Open \/ w \in Wants(r, documents)
                        => w \in Open' \/ w[1] = r.operation
    PROVE  Asking(r.operation, documents)
  <1> DEFINE o == r.operation
             names == Products(documents)
  <1>1. /\ requested' = requested \cup Asked(o, documents)
        /\ answered' = answered \ ({o} \X names)
    BY AskedIs DEF Make
  <1>2. Wants(r, documents) = AsMirrors!Wishes(o, r.choice, names)
    BY DEF Wants, AsMirrors!Wishes
  <1> DEFINE wishes == Open \cup AsMirrors!Wishes(o, r.choice, names)
  <1>3. \/ Open' = wishes /\ UNCHANGED lost
        \/ AsMirrors!Loses(o, wishes)
    <2> HIDE DEF o, names
    <2>1. CASE /\ UNCHANGED lost
               /\ \A w : w \in Open' <=> w \in Open \/ w \in Wants(r, documents)
      BY <1>2, <2>1
    <2>2. CASE /\ lost' = lost \cup {r.operation}
               /\ \A w : w \in Open' => w \in Open \/ w \in Wants(r, documents)
               /\ \A w : w \in Open \/ w \in Wants(r, documents)
                         => w \in Open' \/ w[1] = r.operation
      BY <1>2, <2>2 DEF AsMirrors!Loses, o
    <2> QED
      BY <2>1, <2>2
  <1>4. AsMirrors!Told
    BY SameRecorded DEF AsMirrors!Told
  <1>5. AsMirrors!Ask(o, r.choice, names)
    BY <1>1, <1>3, <1>4 DEF AsMirrors!Ask
  <1>6. o \in Origin /\ r.choice \in Choice /\ names \subseteq Product
    BY TransferAssumption DEF Request, Products
  <1>7. AsMirrors!Next
    BY <1>5, <1>6 DEF AsMirrors!Next
  <1>8. \A w \in Open' : w \in Open \/ <<w[1], w[3]>> \in Asked(o, documents)
    <2>1. \A w \in Wants(r, documents) : <<w[1], w[3]>> \in Asked(o, documents)
      BY AskedIs DEF Wants
    <2> QED
      BY <2>1
  <1> QED
    BY <1>1, <1>7, <1>8 DEF Asking

LEMMA LiveMaps ==
    ASSUME TypeOK, TypeOK', KeepInv, NEW documents \in Batch, RequestLive(documents)
    PROVE  Asking(Live, documents)
  <1> DEFINE r == [documents |-> documents, choice |-> rule, operation |-> Live]
             b == Append(pending, r)
             kept == KeepNewest(b)
  <1> USE DEF archive
  <1>1. r \in Request /\ r.operation = Live /\ r.documents = documents
    BY TransferAssumption DEF Request, Origin, TypeOK
  <1>2. /\ Make(Live, documents) /\ UNCHANGED <<work, reports, disturbed>>
        /\ \/ queue' = Append(queue, r) /\ UNCHANGED <<pending, lost>>
           \/ /\ pending' = kept
              /\ lost' = IF Len(kept) > Len(pending) THEN lost ELSE lost \cup {Live}
              /\ UNCHANGED queue
    BY DEF RequestLive
  <1>3. pending \in Seq(Request) /\ queue \in Seq(Request)
    BY DEF TypeOK
  <1> HIDE DEF r
  <1>4. /\ \A w : Wished(b, w) <=> Wished(pending, w) \/ w \in Wants(r, documents)
        /\ \A w : Wished(Append(queue, r), w) <=> Wished(queue, w) \/ w \in Wants(r, documents)
    BY <1>1, <1>3, AppendedWish
  <1>5. CASE queue' = Append(queue, r) /\ UNCHANGED <<pending, lost>>
    <2>1. \A w : w \in Open' <=> w \in Open \/ w \in Wants(r, documents)
      BY <1>2, <1>4, <1>5, OpenByRequests
    <2> QED
      BY <1>1, <1>2, <1>5, <2>1, RequestMaps
  <1>6. CASE /\ pending' = kept /\ UNCHANGED queue
             /\ lost' = IF Len(kept) > Len(pending) THEN lost ELSE lost \cup {Live}
    <2>1. b \in Seq(Request) /\ Len(b) = Len(pending) + 1 /\ Len(pending) \in Nat
          /\ b # <<>>
      BY <1>1, <1>3
    <2> HIDE DEF b
    <2>2. CASE Len(b) > MaxPending
      <3>1. kept = Tail(b) /\ ~(Len(kept) > Len(pending))
        BY <2>1, <2>2 DEF KeepNewest
      <3>2. lost' = lost \cup {Live} /\ pending' = Tail(b)
        BY <1>6, <3>1
      <3>3. \A w : Wished(b, w) <=> w \in Wants(Head(b), Head(b).documents)
                                    \/ Wished(pending', w)
        BY <2>1, <3>2, TakenWish
      <3>4. Head(b).operation = Live
        BY <1>1, <1>3 DEF b, KeepInv, PendingIsLive
      <3>5. \A w : w \in Wants(Head(b), Head(b).documents) => w[1] = Live
        BY <3>4 DEF Wants
      <3>6. \A w : w \in Open' => w \in Open \/ w \in Wants(r, documents)
        BY <1>2, <1>4, <1>6, <3>3, OpenByRequests
      <3>7. \A w : w \in Wants(r, documents) => w[1] = Live
        BY <1>1 DEF Wants
      <3>8. \A w : w \in Open => w \in Open' \/ w[1] = Live
        BY <1>2, <1>4, <1>6, <3>3, <3>5, OpenByRequests
      <3> QED
        BY <1>1, <1>2, <3>2, <3>6, <3>7, <3>8, RequestMaps
    <2>3. CASE ~(Len(b) > MaxPending)
      <3>1. kept = b /\ Len(kept) > Len(pending)
        BY <2>1, <2>3 DEF KeepNewest
      <3>2. UNCHANGED lost /\ pending' = b
        BY <1>6, <3>1
      <3>3. \A w : w \in Open' <=> w \in Open \/ w \in Wants(r, documents)
        BY <1>2, <1>4, <1>6, <3>2, OpenByRequests
      <3> QED
        BY <1>1, <1>2, <3>2, <3>3, RequestMaps
    <2> QED
      BY <2>2, <2>3
  <1> QED
    BY <1>2, <1>5, <1>6

LEMMA OperationMaps ==
    ASSUME TypeOK, TypeOK', NEW documents \in Batch, NEW choice \in Choice,
           NEW o \in Operation, RequestOperation(documents, choice, o)
    PROVE  Asking(o, documents)
  <1> DEFINE r == [documents |-> documents, choice |-> choice, operation |-> o]
  <1> USE DEF archive
  <1>1. r \in Request /\ r.operation = o /\ r.documents = documents
    BY TransferAssumption DEF Request, Origin
  <1>2. /\ Make(o, documents) /\ UNCHANGED <<work, reports, disturbed, pending>>
        /\ \/ queue' = Append(queue, r) /\ UNCHANGED lost
           \/ lost' = lost \cup {o} /\ UNCHANGED queue
    BY DEF RequestOperation
  <1>3. queue \in Seq(Request)
    BY DEF TypeOK
  <1> HIDE DEF r
  <1>4. \A w : Wished(Append(queue, r), w) <=> Wished(queue, w) \/ w \in Wants(r, documents)
    BY <1>1, <1>3, AppendedWish
  <1>5. CASE queue' = Append(queue, r) /\ UNCHANGED lost
    <2>1. \A w : w \in Open' <=> w \in Open \/ w \in Wants(r, documents)
      BY <1>2, <1>4, <1>5, OpenByRequests
    <2> QED
      BY <1>1, <1>2, <1>5, <2>1, RequestMaps
  <1>6. CASE lost' = lost \cup {o} /\ UNCHANGED queue
    <2>1. \A w : w \in Open' <=> w \in Open
      BY <1>2, <1>6, OpenByRequests
    <2>2. \A w : w \in Wants(r, documents) => w[1] = o
      BY <1>1 DEF Wants
    <2> QED
      BY <1>1, <1>2, <1>6, <2>1, <2>2, RequestMaps
  <1> QED
    BY <1>2, <1>5, <1>6

\* The pending requests go to the broker, or are lost.
LEMMA PendingMaps ==
    ASSUME TypeOK, TypeOK', KeepInv, RetryPending \/ LosePending
    PROVE  Mapped
  <1> USE DEF archive, history
  <1>1. pending \in Seq(Request) /\ queue \in Seq(Request)
    BY DEF TypeOK
  <1>2. /\ pending # <<>> /\ UNCHANGED <<work, reports, disturbed, answered>>
    BY DEF RetryPending, LosePending
  <1>3. Recorded' = Recorded
    BY <1>2, SameRecorded
  <1>4. CASE RetryPending
    <2>1. /\ queue' = Append(queue, Head(pending)) /\ pending' = Tail(pending)
          /\ UNCHANGED lost
      BY <1>4 DEF RetryPending
    <2> DEFINE r == Head(pending)
    <2>2. r \in Request
      BY <1>1, <1>2
    <2> HIDE DEF r
    <2>3. \A w : /\ Wished(pending, w) <=> w \in Wants(r, r.documents) \/ Wished(pending', w)
                 /\ Wished(queue', w) <=> Wished(queue, w) \/ w \in Wants(r, r.documents)
      BY <1>1, <1>2, <2>1, <2>2, TakenWish, AppendedWish DEF r
    <2>4. \A w : w \in Open' <=> w \in Open
      BY <1>2, <2>3, OpenByRequests
    <2> QED
      BY <1>2, <1>3, <2>1, <2>4 DEF Mapped, AsMirrors!vars
  <1>5. CASE LosePending
    <2>1. pending' = <<>> /\ lost' = lost \cup {Live} /\ UNCHANGED queue /\ Live \in Origin
      BY <1>5 DEF LosePending, Origin
    <2>2. \A w : ~Wished(pending', w)
      BY <2>1 DEF Wished
    <2>3. \A w : Wished(pending, w) => w[1] = Live
      BY PendingWishes DEF KeepInv
    <2>4. \A w : w \in Open' => w \in Open
      BY <1>2, <2>1, <2>2, OpenByRequests
    <2>5. \A w : w \in Open => w \in Open' \/ w[1] = Live
      BY <1>2, <2>1, <2>3, OpenByRequests
    <2>6. AsMirrors!Lose(Live)
      BY <1>2, <1>3, <2>1, <2>4, <2>5
      DEF AsMirrors!Lose, AsMirrors!Loses, AsMirrors!Told
    <2> QED
      BY <2>1, <2>4, <2>6 DEF Mapped, AsMirrors!Next
  <1> QED
    BY <1>4, <1>5

----------------------------------------------------------------------------
(* What is wished was requested, and what is served is left.                *)

LEMMA InHandStays ==
    ASSUME TypeOK, WishInv, NEW s \in Stage, Acts(s)
    PROVE  \A t \in Stage : InHand(t)'
  <1>1. work \in [Stage -> Work] /\ pc \in [Stage -> PC] /\ work[s] \in Work
    BY DEF TypeOK
  <1>2. ASSUME \A t \in Stage \ {s} : work'[t] = work[t] /\ pc'[t] = pc[t],
               pc'[s] \in {"idle", "next"} \/ work'[s].document \in work'[s].left
        PROVE  \A t \in Stage : InHand(t)'
    BY <1>2 DEF WishInv, InHand, Doc, Left
  <1>3. ASSUME NEW label \in {"idle", "next"}, Goto(s, label),
               \A t \in Stage \ {s} : work'[t] = work[t]
        PROVE  \A t \in Stage : InHand(t)'
    BY <1>1, <1>2, <1>3 DEF Goto
  <1>4. CASE Take(s)
    <2>1. \E w : work' = [work EXCEPT ![s] = w]
      BY <1>4 DEF Take
    <2> QED
      BY <1>1, <1>3, <1>4, <2>1 DEF Take
  <1>5. CASE Done(s) \/ GiveBack(s) \/ LoseLeft(s) \/ Crash(s)
    <2>1. End(s)
      BY <1>5 DEF Done, GiveBack, LoseLeft, Crash
    <2> QED
      BY <1>1, <1>3, <2>1 DEF End
  <1>6. CASE StoreReports(s) \/ StoreError(s)
    <2>1. NextProduct(s)
      BY <1>6 DEF StoreReports, StoreError
    <2> QED
      BY <1>1, <1>3, <2>1 DEF NextProduct
  <1>7. CASE InTransfer(s)
    <2>1. \/ work'[s].document \in work'[s].left
          \/ pc[s] \notin {"idle", "next"} /\ work'[s].document = work[s].document
      BY <1>7, TransferChanges DEF Left
    <2>2. work'[s].document \in work'[s].left
      BY <1>7, <2>1, TransferChanges DEF WishInv, InHand, Doc, Left
    <2> QED
      BY <1>2, <1>7, <2>2, TransferChanges
  <1>8. CASE Serve(s)
    <2>1. pc[s] = "next"
      BY <1>8 DEF Serve
    <2>2. PICK d \in Left(s) :
              \/ /\ work' = [work EXCEPT ![s].left = @ \ {d}]
                 /\ UNCHANGED pc
              \/ \E results : Store(s, d, results)
              \/ \E todo, same : Transfer(s, d, todo, same)
              \/ Conflict(s, d)
      <3>1. PICK d \in Left(s) :
              \/ /\ work' = [work EXCEPT ![s].left = @ \ {d}]
                 /\ UNCHANGED pc
              \/ Store(s, d, ResultsOf({NoDestination}, "KO"))
              \/ Decide(s, d)
        BY <1>8 DEF Serve
      <3>2. Decide(s, d) => \/ \E results : Store(s, d, results)
                            \/ \E todo, same : Transfer(s, d, todo, same)
                            \/ Conflict(s, d)
        BY DEF Decide
      <3> QED
        BY <3>1, <3>2
    <2>3. CASE work' = [work EXCEPT ![s].left = @ \ {d}] /\ UNCHANGED pc
      BY <1>1, <1>2, <2>1, <2>3
    <2>4. ASSUME NEW results, Store(s, d, results)
          PROVE  \A t \in Stage : InHand(t)'
      <3>1. /\ work'[s].document = d /\ work'[s].left = work[s].left
            /\ \A t \in Stage \ {s} : work'[t] = work[t] /\ pc'[t] = pc[t]
        BY <1>1, <2>4 DEF Store, Goto, Work
      <3> QED
        BY <1>2, <2>2, <3>1 DEF Left
    <2>5. ASSUME NEW todo, NEW same, Transfer(s, d, todo, same)
          PROVE  \A t \in Stage : InHand(t)'
      <3>1. /\ work'[s].document = d /\ work'[s].left = work[s].left
            /\ \A t \in Stage \ {s} : work'[t] = work[t] /\ pc'[t] = pc[t]
        BY <1>1, <2>5 DEF Transfer, Goto, Work
      <3> QED
        BY <1>2, <2>2, <3>1 DEF Left
    <2>6. CASE Conflict(s, d)
      <3>1. /\ work'[s].document = d /\ work'[s].left = work[s].left
            /\ \A t \in Stage \ {s} : work'[t] = work[t] /\ pc'[t] = pc[t]
        BY <1>1, <2>6 DEF Conflict, Goto, Work
      <3> QED
        BY <1>2, <2>2, <3>1 DEF Left
    <2> QED
      BY <2>2, <2>3, <2>4, <2>5, <2>6
  <1>9. \/ Take(s) \/ Serve(s) \/ InTransfer(s)
        \/ Done(s) \/ GiveBack(s) \/ LoseLeft(s) \/ Crash(s)
        \/ StoreReports(s) \/ StoreError(s)
    BY DEF Acts, Step, Failure, InTransfer
  <1> QED
    BY <1>4, <1>5, <1>6, <1>7, <1>8, <1>9

LEMMA InitWishes == Init => WishInv
  <1> SUFFICES ASSUME Init
               PROVE  WishInv
    OBVIOUS
  <1>1. /\ pending = <<>> /\ queue = <<>> /\ \A s \in Stage : Left(s) = {} /\ pc[s] = "idle"
    BY NoWorkIsTyped DEF Init, Left
  <1>2. pending \in Seq(Request) /\ queue \in Seq(Request)
    BY <1>1
  <1>3. \A w : ~Wished(pending, w) /\ ~Wished(queue, w)
    BY <1>1 DEF Wished
  <1>4. \A w : \A s \in Stage : ~Hoped(s, w)
    BY <1>1 DEF Hoped, Wants, Products
  <1>5. \A w : w \notin Open
    BY <1>2, <1>3, <1>4, OpenIs
  <1> QED
    BY <1>1, <1>5 DEF WishInv, AskedFor, InHand

LEMMA StepMaps ==
    ASSUME TypeOK, TypeOK', KeepInv, KeepInv', MirrorInv, FitInv, WishInv, [Next]_vars
    PROVE  WishInv' /\ [AsMirrors!Next]_AsMirrors!vars
  <1>1. ASSUME NEW s \in Stage, Acts(s)
        PROVE  WishInv' /\ [AsMirrors!Next]_AsMirrors!vars
    <2>1. requested \subseteq requested'
      BY <1>1 DEF Acts, Step, Failure, Take, Done, Serve, Download, OpenConflict, Upload,
         UploadError, Uploaded, Finish, StoreReports, GiveBack, LoseLeft, IndexError,
         DownloadError, StoreError, Crash, history
    <2> QED
      BY <1>1, <2>1, StageMaps, InHandStays DEF Mapped, WishInv, AskedFor
  <1>2. ASSUME UNCHANGED <<pc, work>>
        PROVE  \A s \in Stage : InHand(s)'
    BY <1>2 DEF WishInv, InHand, Doc, Left
  <1>3. ASSUME NEW o, NEW documents, Asking(o, documents), UNCHANGED <<pc, work>>
        PROVE  WishInv' /\ [AsMirrors!Next]_AsMirrors!vars
    BY <1>2, <1>3 DEF Asking, WishInv, AskedFor
  <1>4. CASE RetryPending \/ LosePending
    <2>1. UNCHANGED <<pc, work, requested>>
      BY <1>4 DEF RetryPending, LosePending, history
    <2> QED
      BY <1>2, <1>4, <2>1, PendingMaps DEF Mapped, WishInv, AskedFor
  <1>5. CASE UNCHANGED vars
    <2>1. UNCHANGED <<pending, queue, pc, work, reports, disturbed, requested, answered, lost>>
      BY <1>5 DEF vars, broker, archive, history
    <2>2. \A w : w \in Open' <=> w \in Open
      BY <2>1, OpenByRequests
    <2>3. Recorded' = Recorded
      BY <2>1, SameRecorded
    <2> QED
      BY <1>2, <2>1, <2>2, <2>3 DEF WishInv, AskedFor, AsMirrors!vars
  <1>6. CASE Next
    <2>1. ASSUME NEW documents \in Batch, RequestLive(documents)
          PROVE  WishInv' /\ [AsMirrors!Next]_AsMirrors!vars
      BY <1>3, <2>1, LiveMaps DEF RequestLive
    <2>2. ASSUME NEW documents \in Batch, NEW choice \in Choice, NEW o \in Operation,
                 RequestOperation(documents, choice, o)
          PROVE  WishInv' /\ [AsMirrors!Next]_AsMirrors!vars
      BY <1>3, <2>2, OperationMaps DEF RequestOperation
    <2> QED
      BY <1>1, <1>4, <1>6, <2>1, <2>2 DEF Next, Acts
  <1> QED
    BY <1>5, <1>6

LEMMA InitMaps == Init => AsMirrors!Init
  <1> SUFFICES ASSUME Init
               PROVE  AsMirrors!Init
    OBVIOUS
  <1>1. Open = {}
    <2>1. /\ pending = <<>> /\ queue = <<>> /\ \A s \in Stage : Left(s) = {}
      BY NoWorkIsTyped DEF Init, Left
    <2>2. pending \in Seq(Request) /\ queue \in Seq(Request)
      BY <2>1
    <2>3. \A w : ~Wished(pending, w) /\ ~Wished(queue, w)
      BY <2>1 DEF Wished
    <2>4. \A w : \A s \in Stage : ~Hoped(s, w)
      BY <2>1 DEF Hoped, Wants, Products
    <2> QED
      BY <2>2, <2>3, <2>4, OpenIs
  <1>2. answered = {} /\ lost = {} /\ disturbed = {}
    BY DEF Init
  <1>3. PICK first \in [Product -> Document], kept \in [Product -> SUBSET Destination] :
            Archive(first, kept)
    BY DEF Init
  <1> DEFINE bytes == [n \in Product |-> BytesOf[first[n]]]
  <1>4. bytes \in [Product -> Bytes]
    BY TransferAssumption
  <1>5. ASSUME NEW n \in Product
        PROVE  Told(n) = kept[n] \X {BytesOf[first[n]]}
    <2> DEFINE q == reports[n]
    <2>1. /\ q \in Seq(Report)
          /\ \A i \in DOMAIN q :
                 q[i].destination \in kept[n] /\ q[i].ok /\ q[i].md5 = BytesOf[first[n]]
          /\ \A d \in kept[n] : \E i \in DOMAIN q : q[i].destination = d
      BY <1>3, FirstReports
    <2>2. ArchivedReports(n) = ArchivedOf(q)
      BY Archives
    <2> HIDE DEF q
    <2>3. ASSUME NEW r \in ArchivedReports(n)
          PROVE  r.destination \in kept[n] /\ r.md5 = BytesOf[first[n]]
      BY <2>1, <2>2, ArchivedAreLast
    <2>4. ASSUME NEW d \in kept[n]
          PROVE  \E r \in ArchivedReports(n) : r.destination = d
      <3> DEFINE l == LastIn(q, d, DOMAIN q)
      <3>1. IsLastOf(q, l, d)
        <4>1. /\ l = 0 => \A i \in DOMAIN q : q[i].destination # d
              /\ l # 0 => /\ l \in DOMAIN q /\ q[l].destination = d
                          /\ \A i \in DOMAIN q : q[i].destination = d => i <= l
          BY <2>1, LastInIsLast
        <4> QED
          BY <2>1, <4>1 DEF IsLastOf
      <3>2. l \in DOMAIN q /\ q[l].destination = d /\ q[l].ok /\ d \in Destination
        BY <2>1, <3>1 DEF IsLastOf
      <3>3. q[l] \in ArchivedReports(n)
        BY <2>1, <2>2, <3>1, <3>2, ArchivedAreLast
      <3> QED
        BY <3>2, <3>3
    <2>5. Told(n) \subseteq kept[n] \X {BytesOf[first[n]]}
      BY <2>3 DEF Told
    <2>6. ASSUME NEW d \in kept[n]
          PROVE  <<d, BytesOf[first[n]]>> \in Told(n)
      BY <2>3, <2>4 DEF Told
    <2> QED
      BY <2>5, <2>6
  <1>6. Recorded = [n \in Product |-> kept[n] \X {bytes[n]}]
    BY <1>2, <1>5 DEF Recorded
  <1> HIDE DEF bytes
  <1> QED
    BY <1>1, <1>2, <1>4, <1>6 DEF AsMirrors!Init

\* The transfer service keeps the archive's promise (Mirrors), as long as the window of
\* archived_state shows the last report of every destination: what is wished ends answered
\* or is known to be lost, and the reports of a product only change as a wish permits.
THEOREM Implemented == Spec /\ []WindowShowsAll => ImplementsMirrors
  <1>1. Spec => [](TypeOK /\ KeepInv)
    <2>1. TypeOK /\ KeepInv /\ [Next]_vars => (TypeOK /\ KeepInv)'
      BY StepIsTyped, StepKeeps
    <2> QED
      BY <2>1, InitIsTyped, InitKeeps, PTL DEF Spec
  <1>2. TypeOK /\ TypeOK' /\ KeepInv /\ KeepInv' /\ MirrorInv /\ FitInv /\ WishInv /\ [Next]_vars
        => WishInv' /\ [AsMirrors!Next]_AsMirrors!vars
    BY StepMaps
  <1>3. Spec /\ []WindowShowsAll => []WishInv
    BY <1>1, <1>2, InitWishes, FitsHold, PTL DEF Spec
  <1> QED
    BY <1>1, <1>2, <1>3, InitMaps, FitsHold, PTL
    DEF Spec, ImplementsMirrors, AsMirrors!Spec
=============================================================================
