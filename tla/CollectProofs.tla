---------------------------- MODULE CollectProofs ----------------------------
(***************************************************************************)
(* Proofs about Collect for every catalogue, page size, window and pair of *)
(* offsets: its typing, and that the collection leaves no gap behind it.   *)
(***************************************************************************)
EXTENDS Collect, FiniteSetTheorems, WellFoundedInduction, TLAPS

\* What NoGap rests on.  A product that was not there when the pass began is too
\* late to be dated before the end of the pass by more than StartOffset; one that
\* was is collected once the windows and the pages have gone past it.
Timely == \A p \in Product : date[p] + Lag < now => p \in visible

InPass == pc # "idle"
Paging == pc \in {"query", "page", "tick", "keep"}
Ingesting == pc \in {"page", "tick", "keep"}

SeenIsVisible == query.seen \subseteq visible

StartIsCovered ==
    InPass => \A p \in Product :
                  origin <= date[p] /\ date[p] < query.start => Collected(p)

UnseenIsLate ==
    InPass => \A p \in Product \ query.seen : query.end - StartOffset <= date[p]

WindowIsBounded ==
    /\ Paging => query.iterEnd <= query.end
    /\ Ingesting => query.iterStart < query.end

WindowsAreCovered ==
    Paging => \A p \in query.seen :
                  /\ query.start <= date[p]
                  /\ \/ date[p] < query.iterStart
                     \/ date[p] = query.iterStart /\ query.start < query.iterStart
                  => Collected(p)

PagesAreCovered ==
    pc = "query" => \A p \in query.seen :
                        InWindow(p) /\ Rank(p) < ProductPage * query.skip => Collected(p)

Collectable(p) == Collected(p) \/ (pc = "page" /\ p \in page)

PageIsNext ==
    Ingesting => \A p \in query.seen :
                     /\ InWindow(p)
                     /\ Short \/ Rank(p) < ProductPage * query.skip + ProductPage
                     => Collectable(p)

PageIsInOrder ==
    pc = "page" => \A h \in page :
                       /\ InWindow(h)
                       /\ \A p \in query.seen :
                              InWindow(p) /\ Before(p, h) => Collectable(p)

MaxDateIsCovered ==
    maxDate # NoDate => \A p \in Product :
                            origin <= date[p] /\ date[p] < maxDate - StartOffset
                            => Collected(p)

IInv ==
    /\ TypeOK /\ Timely /\ SeenIsVisible /\ StartIsCovered /\ UnseenIsLate
    /\ WindowIsBounded /\ WindowsAreCovered /\ PagesAreCovered /\ PageIsNext
    /\ PageIsInOrder /\ MaxDateIsCovered /\ NoGap /\ PassCoversWindow

----------------------------------------------------------------------------
(* Least and greatest elements.                                             *)

LEMMA Least ==
    ASSUME NEW S \in SUBSET Nat, S # {}
    PROVE  \E m \in S : \A n \in S : m <= n
  <1> DEFINE T == {0 .. n : n \in S}
  <1>1. T \subseteq FiniteSubsetsOf(Nat) /\ T # {}
    <2>1. ASSUME NEW n \in S PROVE 0 .. n \in FiniteSubsetsOf(Nat)
      <3>1. IsFiniteSet(0 .. n)
        BY FS_Interval
      <3> QED
        BY <3>1 DEF FiniteSubsetsOf
    <2> QED
      BY <2>1
  <1>2. PICK I \in T : \A J \in T : <<J, I>> \notin StrictSubsetOrdering(Nat)
    <2>1. IsWellFoundedOn(StrictSubsetOrdering(Nat), FiniteSubsetsOf(Nat))
      BY FS_StrictSubsetOrderingWellFounded
    <2> QED
      BY <1>1, <2>1, WFMin
  <1>3. PICK m \in S : I = 0 .. m
    OBVIOUS
  <1>4. ASSUME NEW n \in S, n < m PROVE FALSE
    <2>1. 0 .. n \in T /\ 0 .. n \subseteq I /\ 0 .. n # I
      BY <1>3, <1>4
    <2>2. 0 .. n \in SUBSET Nat /\ I \in SUBSET Nat
      BY <1>3
    <2> QED
      BY <1>2, <2>1, <2>2 DEF StrictSubsetOrdering
  <1> QED
    BY <1>4

LEMMA Greatest ==
    ASSUME NEW S \in SUBSET Int, S # {}, NEW b \in Int, \A n \in S : n <= b
    PROVE  \E m \in S : \A n \in S : n <= m
  <1> DEFINE T == {b - n : n \in S}
  <1>1. T \in SUBSET Nat /\ T # {}
    <2>1. ASSUME NEW t \in T PROVE t \in Nat
      <3>1. PICK n \in S : t = b - n
        OBVIOUS
      <3> QED
        BY <3>1
    <2>2. T # {}
      OBVIOUS
    <2> QED
      BY <2>1, <2>2
  <1>2. PICK t \in T : \A u \in T : t <= u
    BY <1>1, Least
  <1>3. PICK m \in S : t = b - m
    OBVIOUS
  <1>4. ASSUME NEW n \in S PROVE n <= m
    <2>1. b - n \in T
      OBVIOUS
    <2>2. t <= b - n
      BY <2>1, <1>2
    <2> QED
      BY <2>2, <1>3
  <1> QED
    BY <1>4

----------------------------------------------------------------------------
(* The ranks of a result: a page that is not full is the last one.          *)

Lower(p) == {q \in Result : Before(q, p)}
Below(n) == {q \in Result : Rank(q) < n}

LEMMA Ranks ==
    ASSUME TypeOK
    PROVE  /\ IsFiniteSet(Result) /\ Result \subseteq Product
           /\ \A p : IsFiniteSet(Lower(p)) /\ Rank(p) = Cardinality(Lower(p))
           /\ \A p : Rank(p) \in Nat
  <1>1. Result \subseteq Product
    BY DEF TypeOK, Result
  <1>2. IsFiniteSet(Result)
    BY <1>1, CollectAssumption, FS_Subset
  <1>3. ASSUME NEW p PROVE IsFiniteSet(Lower(p)) /\ Cardinality(Lower(p)) \in Nat
    <2>1. Lower(p) \in SUBSET Result
      BY DEF Lower
    <2> QED
      BY <2>1, <1>2, FS_Subset, FS_CardinalityType
  <1> QED
    BY <1>1, <1>2, <1>3 DEF Rank, Lower

LEMMA RankOrder ==
    ASSUME TypeOK, NEW p \in Result, NEW q \in Result, Before(p, q)
    PROVE  Rank(p) < Rank(q)
  <1>1. p \in Product /\ q \in Product /\ Product \subseteq Nat
    BY Ranks, CollectAssumption
  <1>2. p \notin Lower(p)
    BY <1>1 DEF Lower, Before, TypeOK
  <1>3. Lower(p) \cup {p} \subseteq Lower(q)
    <2>1. ASSUME NEW r \in Lower(p) PROVE r \in Lower(q)
      BY <1>1, <2>1, Ranks DEF Lower, Before, TypeOK
    <2> QED
      BY <2>1 DEF Lower
  <1>4. Cardinality(Lower(p) \cup {p}) = Cardinality(Lower(p)) + 1
    BY <1>2, Ranks, FS_AddElement
  <1>5. Cardinality(Lower(p) \cup {p}) <= Cardinality(Lower(q))
    BY <1>3, Ranks, FS_Subset
  <1> QED
    BY <1>4, <1>5, Ranks

LEMMA RankTotal ==
    ASSUME TypeOK, NEW p \in Result, NEW q \in Result, p # q
    PROVE  Before(p, q) \/ Before(q, p)
  <1>1. p \in Product /\ q \in Product /\ Product \subseteq Nat
    BY Ranks, CollectAssumption
  <1> QED
    BY <1>1 DEF Before, TypeOK

LEMMA FewBelow ==
    ASSUME TypeOK, NEW n \in Nat
    PROVE  IsFiniteSet(Below(n)) /\ Cardinality(Below(n)) \in Nat /\ Cardinality(Below(n)) <= n
  <1>1. IsFiniteSet(Below(n)) /\ Cardinality(Below(n)) \in Nat
    BY Ranks, FS_Subset, FS_CardinalityType DEF Below
  <1>2. CASE Below(n) = {}
    BY <1>1, <1>2, FS_EmptySet
  <1>3. CASE Below(n) # {}
    <2> DEFINE R == {Rank(q) : q \in Below(n)}
    <2>1. R \in SUBSET Int /\ R # {} /\ \A r \in R : r <= n
      BY <1>3, Ranks DEF Below
    <2>2. PICK r \in R : \A s \in R : s <= r
      <3> n \in Int
        OBVIOUS
      <3> HIDE DEF R
      <3> QED
        BY <2>1, Greatest
    <2>3. PICK m \in Below(n) : r = Rank(m)
      OBVIOUS
    <2>4. Below(n) \subseteq Lower(m) \cup {m}
      <3> SUFFICES ASSUME NEW q \in Below(n), q # m PROVE Before(q, m)
        BY DEF Lower, Below
      <3>1. Rank(q) <= Rank(m) /\ Rank(q) \in Nat /\ Rank(m) \in Nat
        BY <2>2, <2>3, Ranks
      <3>2. m \in Result /\ q \in Result
        BY DEF Below
      <3>3. ~Before(m, q)
        BY <3>1, <3>2, RankOrder
      <3> QED
        BY <3>2, <3>3, RankTotal
    <2>5. /\ IsFiniteSet(Lower(m) \cup {m})
          /\ Cardinality(Lower(m) \cup {m}) <= Cardinality(Lower(m)) + 1
      <3>1. IsFiniteSet(Lower(m)) /\ Cardinality(Lower(m)) \in Nat
        BY Ranks, FS_CardinalityType
      <3>2. /\ IsFiniteSet(Lower(m) \cup {m})
            /\ Cardinality(Lower(m) \cup {m}) =
                   IF m \in Lower(m) THEN Cardinality(Lower(m))
                   ELSE Cardinality(Lower(m)) + 1
        BY <3>1, FS_AddElement
      <3> QED
        BY <3>1, <3>2
    <2>6. Cardinality(Below(n)) <= Cardinality(Lower(m) \cup {m})
      BY <2>4, <2>5, FS_Subset
    <2>7. Cardinality(Lower(m)) < n
      BY Ranks DEF Below
    <2> QED
      BY <1>1, <2>5, <2>6, <2>7, Ranks, FS_CardinalityType
  <1> QED
    BY <1>2, <1>3

LEMMA ManyBelow ==
    ASSUME TypeOK, NEW n \in Nat, NEW p \in Result, n <= Rank(p)
    PROVE  n <= Cardinality(Below(n))
  <1> DEFINE R == {Rank(q) : q \in Result \ Below(n)}
  <1>1. R \in SUBSET Nat /\ R # {}
    BY Ranks DEF Below
  <1>2. PICK r \in R : \A s \in R : r <= s
    BY <1>1, Least
  <1>3. PICK b \in Result \ Below(n) : r = Rank(b)
    OBVIOUS
  <1>4. Lower(b) \subseteq Below(n)
    <2> SUFFICES ASSUME NEW q \in Result, Before(q, b), q \notin Below(n) PROVE FALSE
      BY DEF Lower
    <2>1. Rank(q) < Rank(b)
      BY RankOrder
    <2>2. Rank(b) <= Rank(q)
      BY <1>2, <1>3
    <2> QED
      BY <2>1, <2>2, Ranks
  <1>5. Cardinality(Lower(b)) <= Cardinality(Below(n))
    BY <1>4, FewBelow, FS_Subset
  <1>6. n <= Rank(b)
    BY <1>3, Ranks DEF Below
  <1> QED
    BY <1>5, <1>6, Ranks, FewBelow

LEMMA ShortPageIsLast ==
    ASSUME TypeOK, NEW p \in Result, Cardinality(Page) < ProductPage
    PROVE  Rank(p) < ProductPage * query.skip + ProductPage
  <1> DEFINE n == ProductPage * query.skip
  <1>1. n \in Nat /\ ProductPage \in Nat
    BY CollectAssumption DEF TypeOK, Query
  <1> HIDE DEF n
  <1> SUFFICES ASSUME n + ProductPage <= Rank(p) PROVE FALSE
    BY <1>1, Ranks DEF n
  <1>2. Page = Below(n + ProductPage) \ Below(n)
    BY <1>1, Ranks DEF Page, Below, n
  <1>3. n + ProductPage <= Cardinality(Below(n + ProductPage))
    BY <1>1, ManyBelow
  <1>4. Cardinality(Below(n)) <= n
    BY <1>1, FewBelow
  <1>5. Below(n) \subseteq Below(n + ProductPage)
    BY <1>1, Ranks DEF Below
  <1>6. Cardinality(Page) = Cardinality(Below(n + ProductPage)) - Cardinality(Below(n))
    <2>1. Below(n + ProductPage) \cap Below(n) = Below(n)
      BY <1>5
    <2>2. IsFiniteSet(Below(n + ProductPage))
      BY <1>1, FewBelow
    <2> QED
      BY <1>2, <2>1, <2>2, FS_Difference
  <1> QED
    BY <1>1, <1>3, <1>4, <1>6, FewBelow

----------------------------------------------------------------------------
(* Typing.                                                                  *)

\* The date of interest is the greatest of those handled.
LEMMA MaxDateIsGreatest ==
    ASSUME TypeOK, NEW S \in SUBSET Product, MaxDate(S)
    PROVE  maxDate' = maxDate \/ \E p \in S : maxDate' = date[p]
  <1> DEFINE D == {maxDate} \cup {date[p] : p \in S}
  <1>1. D \in SUBSET Int /\ D # {} /\ \A d \in D : d <= MaxTime
    BY CollectAssumption DEF TypeOK, NoDate
  <1>2. MaxTime \in Int
    BY CollectAssumption
  <1>3. \E d \in D : \A e \in D : e <= d
    <2> HIDE DEF D
    <2> QED
      BY <1>1, <1>2, Greatest
  <1>4. maxDate' \in D
    BY <1>3 DEF MaxDate
  <1> QED
    BY <1>4

LEMMA MaxDateType ==
    ASSUME TypeOK, NEW S \in SUBSET Product, MaxDate(S)
    PROVE  maxDate' \in {NoDate} \cup 0 .. MaxTime
  BY MaxDateIsGreatest DEF TypeOK

LEMMA PassType ==
    ASSUME TypeOK, Pass
    PROVE  TypeOK'
  <1> USE CollectAssumption DEF TypeOK, PC
  <1>1. CASE Begin
    BY <1>1 DEF Begin, Query, Start, LiveEnd, Lesser, catalogue, database, messages
  <1>2. CASE GetEntities
    BY <1>2 DEF GetEntities, Page, Result, catalogue, database, messages
  <1>3. CASE Exhausted
    BY <1>3 DEF Exhausted, Query, catalogue, database, messages
  <1>4. CASE KeepWindow
    <2>1. lastDate' = query.iterStart /\ lastDate' \in Int
      BY <1>4 DEF KeepWindow, PendingDocumentCount, Query
    <2>2. query' \in Query
      <3>1. CASE Short
        <4>1. NextWindow
          BY <1>4, <3>1 DEF KeepWindow
        <4>2. Lesser(query.iterEnd + Window, query.end) \in Int
          BY DEF Query, Lesser
        <4> QED
          BY <4>1, <4>2 DEF NextWindow, Query
      <3>2. CASE ~Short
        <4>1. query' = [query EXCEPT !.skip = @ + 1]
          BY <1>4, <2>1, <3>2 DEF KeepWindow, Query
        <4> QED
          BY <4>1 DEF Query
      <3> QED
        BY <3>1, <3>2
    <2> QED
      BY <1>4, <2>1, <2>2 DEF KeepWindow, catalogue, database, messages
  <1>5. CASE Ingest
    <2>1. New \subseteq visible /\ New \in SUBSET Product
      BY DEF New
    <2>2. PICK bad \in SUBSET New :
              /\ (faults' = faults \/ Fault)
              /\ indexed' = indexed \cup (New \ bad)
              /\ rejected' = rejected \cup bad
              /\ grouped' = grouped \cup Handled(bad)
              /\ MaxDate(Handled(bad))
      BY <1>5 DEF Ingest
    <2>3. Handled(bad) = New \ bad /\ Handled(bad) \in SUBSET Product
      BY <2>1 DEF Handled
    <2>4. maxDate' \in {NoDate} \cup 0 .. MaxTime
      BY <2>2, <2>3, MaxDateType
    <2>5. faults' \in 0 .. MaxFaults
      BY <2>2 DEF Fault
    <2> QED
      BY <1>5, <2>1, <2>2, <2>3, <2>4, <2>5 DEF Ingest, catalogue, messages
  <1>6. CASE Tick
    BY <1>6 DEF Tick, StoreDate, catalogue, database, messages
  <1>7. CASE Write
    BY <1>7 DEF Write, StoreDate, catalogue, database, messages
  <1>8. CASE Flush
    BY <1>8 DEF Flush, EndPass, NoQuery, Query, catalogue, database, messages
  <1> QED
    BY <1>1, <1>2, <1>3, <1>4, <1>5, <1>6, <1>7, <1>8 DEF Pass

LEMMA IngestErrorType ==
    ASSUME TypeOK, IngestError
    PROVE  TypeOK'
  <1>1. New \subseteq visible /\ New \in SUBSET Product
    BY DEF New, TypeOK
  <1>2. PICK bad \in SUBSET New, made \in SUBSET New, done \in SUBSET New :
            /\ done \subseteq made
            /\ indexed' = indexed \cup made
            /\ rejected' = rejected \cup bad
            /\ grouped' = grouped \cup done
            /\ MaxDate(done)
    BY DEF IngestError
  <1>3. maxDate' \in {NoDate} \cup 0 .. MaxTime
    BY <1>1, <1>2, MaxDateType
  <1>4. faults' \in 0 .. MaxFaults
    BY CollectAssumption DEF TypeOK, IngestError, Fault
  <1>5. /\ indexed' \in SUBSET visible /\ rejected' \in SUBSET visible
        /\ grouped' \in SUBSET indexed' /\ notified \in SUBSET indexed'
    BY <1>1, <1>2 DEF TypeOK
  <1> QED
    BY <1>3, <1>4, <1>5 DEF TypeOK, PC, IngestError, catalogue

LEMMA FaultType ==
    ASSUME TypeOK, RequestError \/ Stop \/ SaveError \/ FlushError \/ Crash
    PROVE  TypeOK'
  <1>1. faults' \in 0 .. MaxFaults
    BY CollectAssumption
       DEF TypeOK, Fault, RequestError, Stop, SaveError, FlushError, Crash
  <1>2. NoQuery \in Query
    BY DEF NoQuery, Query
  <1> USE DEF TypeOK, PC, catalogue, database, messages
  <1>3. CASE RequestError
    BY <1>1, <1>3 DEF RequestError
  <1>4. CASE Stop
    BY <1>1, <1>4 DEF Stop
  <1>5. CASE SaveError
    BY <1>1, <1>5 DEF SaveError
  <1>6. CASE FlushError
    BY <1>1, <1>2, <1>6 DEF FlushError, EndPass
  <1>7. CASE Crash
    BY <1>1, <1>2, <1>7 DEF Crash, EndPass
  <1> QED
    BY <1>3, <1>4, <1>5, <1>6, <1>7

LEMMA StepType == TypeOK /\ [Next]_vars => TypeOK'
  <1> SUFFICES ASSUME TypeOK, [Next]_vars PROVE TypeOK'
    OBVIOUS
  <1>1. CASE UNCHANGED vars
    BY <1>1 DEF TypeOK, vars, catalogue, database, messages
  <1>2. ASSUME NEW p \in Product, Appear(p) PROVE TypeOK'
    BY <1>2 DEF TypeOK, Appear, database, messages
  <1>3. CASE Advance
    BY <1>3, CollectAssumption DEF TypeOK, Advance, database, messages
  <1>4. CASE Pass \/ IngestError
    BY <1>4, PassType, IngestErrorType
  <1>5. CASE RequestError \/ Stop \/ SaveError \/ FlushError \/ Crash
    BY <1>5, FaultType
  <1> QED
    BY <1>1, <1>2, <1>3, <1>4, <1>5 DEF Next

LEMMA InitType == Init => TypeOK
  <1> SUFFICES ASSUME Init PROVE TypeOK
    OBVIOUS
  <1>1. query \in Query
    BY DEF Init, NoQuery, Query
  <1>2. now \in 0 .. MaxTime /\ faults \in 0 .. MaxFaults
    BY CollectAssumption DEF Init
  <1>3. lastDate \in Int /\ origin \in Int /\ maxDate \in {NoDate} \cup 0 .. MaxTime
    BY DEF Init, NoDate
  <1> QED
    BY <1>1, <1>2, <1>3 DEF Init, TypeOK, PC

\* The types, and that what is notified, or to be, is in the database and was in
\* the catalogue: a product that is refused is not notified.
THEOREM Typing == Spec => []TypeOK
  BY InitType, StepType, PTL DEF Spec

----------------------------------------------------------------------------
(* The steps of the invariant.                                              *)

LEMMA Numbers ==
    ASSUME TypeOK
    PROVE  /\ \A p \in Product : date[p] \in Int
           /\ query.start \in Int /\ query.end \in Int
           /\ query.iterStart \in Int /\ query.iterEnd \in Int /\ query.skip \in Nat
           /\ query.seen \subseteq Product
           /\ now \in Int /\ lastDate \in Int /\ origin \in Int /\ maxDate \in Int
  BY CollectAssumption DEF TypeOK, Query, NoDate

\* As long as the catalogue and the window stay, so do the ranks.
LEMMA SameRanks ==
    ASSUME UNCHANGED catalogue, query'.iterStart = query.iterStart,
           query'.iterEnd = query.iterEnd
    PROVE  \A p : /\ InWindow(p)' <=> InWindow(p)
                  /\ Rank(p)' = Rank(p)
                  /\ \A q : Before(p, q)' <=> Before(p, q)
  <1>1. \A p : InWindow(p)' <=> InWindow(p)
    BY DEF InWindow, catalogue
  <1>2. \A p, q : Before(p, q)' <=> Before(p, q)
    BY DEF Before, catalogue
  <1>3. Result' = Result
    BY <1>1 DEF Result, catalogue
  <1>4. \A p : Rank(p)' = Rank(p)
    BY <1>2, <1>3 DEF Rank
  <1> QED
    BY <1>1, <1>2, <1>4

LEMMA NextRank ==
    ASSUME TypeOK'
    PROVE  \A p : Rank(p)' \in Nat
  <1> SUFFICES ASSUME NEW p PROVE Rank(p)' \in Nat
    OBVIOUS
  <1> DEFINE S == {q \in Result' : Before(q, p)'}
  <1>1. S \subseteq Product
    BY DEF TypeOK, Result
  <1>2. Cardinality(S) \in Nat
    <2> HIDE DEF S
    <2> QED
      BY <1>1, CollectAssumption, FS_Subset, FS_CardinalityType
  <1> QED
    BY <1>2 DEF Rank

LEMMA InitStep == Init => IInv
  <1> SUFFICES ASSUME Init PROVE IInv
    OBVIOUS
  <1>1. TypeOK
    BY InitType
  <1>2. Timely
    <2> SUFFICES ASSUME now = 0, NEW p \in Product, date[p] + Lag < 0 PROVE FALSE
      BY DEF Init, Timely
    <2>1. date[p] \in 0 .. MaxTime
      BY <1>1 DEF TypeOK
    <2> QED
      BY <2>1, CollectAssumption
  <1>3. NoGap
    <2> SUFFICES ASSUME lastDate = 0, NEW p \in Product, 0 <= date[p], date[p] < 0 - StartOffset
                 PROVE  FALSE
      BY DEF Init, NoGap
    <2> QED
      BY <1>1, Numbers, CollectAssumption
  <1>4. query = NoQuery /\ pc = "idle" /\ maxDate = NoDate
    BY DEF Init
  <1>5. query.seen = {} /\ query.done = FALSE
    BY <1>4 DEF NoQuery
  <1> QED
    BY <1>1, <1>2, <1>3, <1>4, <1>5
       DEF IInv, SeenIsVisible, StartIsCovered, UnseenIsLate, WindowIsBounded,
           WindowsAreCovered, PagesAreCovered, PageIsNext, PageIsInOrder,
           MaxDateIsCovered, PassCoversWindow, InPass, Paging, Ingesting

\* A product that appears only pushes others to later pages.
LEMMA AppearStep ==
    ASSUME IInv, TypeOK', NEW a \in Product, Appear(a)
    PROVE  IInv'
  <1> USE DEF IInv
  <1>1. /\ visible' = visible \cup {a} /\ UNCHANGED <<now, date, lastDate, origin>>
        /\ UNCHANGED <<pc, query, page, maxDate, indexed, rejected>>
    BY DEF Appear, database
  <1>2. \A p : (InWindow(p)' <=> InWindow(p)) /\ (Collected(p)' <=> Collected(p))
    BY <1>1 DEF InWindow, Collected
  <1>3. \A p : /\ Collectable(p)' <=> Collectable(p)
               /\ \A q : Before(p, q)' <=> Before(p, q)
    BY <1>1, <1>2 DEF Collectable, Before
  <1>4. \A p : Rank(p) <= Rank(p)' /\ Rank(p) \in Nat /\ Rank(p)' \in Nat
    <2> SUFFICES ASSUME NEW p PROVE Rank(p) <= Rank(p)'
      BY Ranks, NextRank
    <2> DEFINE S == {q \in Result' : Before(q, p)'}
    <2>1. S \subseteq Product /\ Lower(p) \subseteq S
      BY <1>1, <1>2, <1>3 DEF TypeOK, Result, Lower
    <2>2. IsFiniteSet(S)
      BY <2>1, CollectAssumption, FS_Subset
    <2>3. Cardinality(Lower(p)) <= Cardinality(S)
      <3> HIDE DEF S
      <3> QED
        BY <2>1, <2>2, FS_Subset
    <2> QED
      BY <2>3 DEF Rank, Lower
  <1>5. ProductPage * query.skip \in Nat /\ ProductPage \in Nat
    BY CollectAssumption, Numbers
  <1>6. PagesAreCovered'
    BY <1>1, <1>2, <1>4, <1>5 DEF PagesAreCovered
  <1>7. PageIsNext'
    BY <1>1, <1>2, <1>3, <1>4, <1>5 DEF PageIsNext, Ingesting, Short
  <1>8. PageIsInOrder'
    BY <1>1, <1>2, <1>3 DEF PageIsInOrder
  <1>9. Timely' /\ SeenIsVisible'
    BY <1>1 DEF Timely, SeenIsVisible
  <1>10. StartIsCovered' /\ WindowsAreCovered'
    BY <1>1, <1>2 DEF StartIsCovered, WindowsAreCovered, InPass, Paging
  <1>11. UnseenIsLate' /\ WindowIsBounded'
    BY <1>1 DEF UnseenIsLate, WindowIsBounded, InPass, Paging, Ingesting
  <1>12. MaxDateIsCovered' /\ NoGap' /\ PassCoversWindow'
    BY <1>1, <1>2 DEF MaxDateIsCovered, NoGap, PassCoversWindow
  <1> QED
    BY <1>6, <1>7, <1>8, <1>9, <1>10, <1>11, <1>12

LEMMA StutterStep ==
    ASSUME IInv, TypeOK', UNCHANGED vars
    PROVE  IInv'
  <1> USE DEF IInv, vars, catalogue, database, messages
  <1>1. \A p : Rank(p)' = Rank(p) /\ \A q : Before(p, q)' <=> Before(p, q)
    BY SameRanks
  <1> QED
    BY <1>1
       DEF Timely, SeenIsVisible, StartIsCovered, UnseenIsLate, WindowIsBounded,
           WindowsAreCovered, PagesAreCovered, PageIsNext, PageIsInOrder,
           MaxDateIsCovered, NoGap, PassCoversWindow, InPass, Paging, Ingesting,
           Collected, Collectable, InWindow, Short

\* The clock does not run ahead of a product by more than Lag.
LEMMA AdvanceStep ==
    ASSUME IInv, TypeOK', Advance
    PROVE  IInv'
  <1> USE DEF IInv
  <1>1. UNCHANGED <<date, visible, lastDate, origin, pc, query, page, maxDate, indexed, rejected>>
    BY DEF Advance, database
  <1>2. Timely'
    BY <1>1, Numbers, CollectAssumption DEF Advance, Timely
  <1>3. \A p : /\ Rank(p)' = Rank(p)
               /\ \A q : Before(p, q)' <=> Before(p, q)
    BY <1>1 DEF Rank, Result, InWindow, Before
  <1> QED
    BY <1>1, <1>2, <1>3
       DEF SeenIsVisible, StartIsCovered, UnseenIsLate, WindowIsBounded,
           WindowsAreCovered, PagesAreCovered, PageIsNext, PageIsInOrder,
           MaxDateIsCovered, NoGap, PassCoversWindow, InPass, Paging, Ingesting,
           Collected, Collectable, InWindow, Short

\* A pass begins where the last one ended, less StartOffset; a product that is not
\* there yet comes too late to be dated before its end, less StartOffset.
LEMMA BeginStep ==
    ASSUME IInv, TypeOK', Begin
    PROVE  IInv'
  <1> USE DEF IInv
  <1> DEFINE start == Start - StartOffset
  <1>1. /\ UNCHANGED <<now, date, visible, lastDate, indexed, rejected>>
        /\ pc' = "query" /\ maxDate' = NoDate
        /\ origin' = IF lastDate = NoDate THEN start ELSE origin
    BY DEF Begin, catalogue, database
  <1>2. /\ query'.seen = visible /\ query'.done = FALSE /\ query'.skip = 0
        /\ query'.start = start /\ query'.end = LiveEnd /\ query'.iterStart = start
        /\ query'.iterEnd = Lesser(start + Window, LiveEnd)
    BY DEF Begin
  <1>3. start \in Int /\ LiveEnd \in Int
    BY Numbers, CollectAssumption DEF Start, LiveEnd
  <1>4. \A p : Collected(p)' <=> Collected(p)
    BY <1>1 DEF Collected
  <1>5. NoGap' /\ Timely' /\ SeenIsVisible'
    BY <1>1, <1>2, <1>4 DEF NoGap, Timely, SeenIsVisible
  <1>6. StartIsCovered'
    <2> SUFFICES ASSUME NEW p \in Product, origin' <= date[p], date[p] < start
                 PROVE  Collected(p)
      BY <1>1, <1>2, <1>4 DEF StartIsCovered
    <2>1. lastDate # NoDate /\ origin' = origin /\ start = lastDate - StartOffset
      BY <1>1, <1>3, Numbers DEF Start
    <2> QED
      BY <2>1 DEF NoGap
  <1>7. UnseenIsLate'
    <2> SUFFICES ASSUME NEW p \in Product, p \notin visible
                 PROVE  LiveEnd - StartOffset <= date[p]
      BY <1>1, <1>2 DEF UnseenIsLate
    <2>1. now <= date[p] + Lag
      BY Numbers, CollectAssumption DEF Timely
    <2> QED
      BY <2>1, Numbers, CollectAssumption DEF LiveEnd
  <1>8. WindowIsBounded'
    BY <1>1, <1>2, <1>3, CollectAssumption DEF WindowIsBounded, Ingesting, Lesser
  <1>9. WindowsAreCovered'
    BY <1>1, <1>2, <1>3, Numbers DEF WindowsAreCovered, TypeOK
  <1>10. PagesAreCovered'
    <2>1. ProductPage * query'.skip = 0
      BY <1>2, CollectAssumption
    <2>2. \A p : ~(Rank(p)' < 0)
      BY NextRank
    <2> QED
      BY <2>1, <2>2 DEF PagesAreCovered
  <1>11. PageIsNext' /\ PageIsInOrder' /\ MaxDateIsCovered' /\ PassCoversWindow'
    BY <1>1, <1>2 DEF PageIsNext, PageIsInOrder, MaxDateIsCovered, PassCoversWindow, Ingesting
  <1> QED
    BY <1>5, <1>6, <1>7, <1>8, <1>9, <1>10, <1>11

LEMMA GetEntitiesStep ==
    ASSUME IInv, TypeOK', GetEntities
    PROVE  IInv'
  <1> USE DEF IInv
  <1>1. /\ UNCHANGED <<now, date, visible, lastDate, origin, query, maxDate>>
        /\ UNCHANGED <<indexed, rejected>>
        /\ pc = "query" /\ pc' = "page" /\ page' = Page /\ query.iterStart < query.end
    BY DEF GetEntities, catalogue, database
  <1>2. \A p : Collected(p)' <=> Collected(p)
    BY <1>1 DEF Collected
  <1>3. \A p : /\ InWindow(p)' <=> InWindow(p)
               /\ Rank(p)' = Rank(p)
               /\ \A q : Before(p, q)' <=> Before(p, q)
    BY <1>1, SameRanks DEF catalogue
  <1>4. ProductPage * query.skip \in Nat /\ ProductPage \in Nat
    BY CollectAssumption, Numbers
  <1>5. ASSUME NEW p \in query.seen, InWindow(p),
               Rank(p) < ProductPage * query.skip + ProductPage
        PROVE  Collectable(p)'
    <2>1. p \in Result
      BY <1>5 DEF SeenIsVisible, Result
    <2>2. CASE Rank(p) < ProductPage * query.skip
      BY <1>1, <1>2, <1>5, <2>2 DEF PagesAreCovered, Collectable
    <2>3. CASE ProductPage * query.skip <= Rank(p)
      BY <1>1, <1>5, <2>1, <2>3 DEF Page, Collectable
    <2> QED
      BY <1>4, <2>2, <2>3, Ranks
  <1>6. PageIsNext'
    <2> SUFFICES ASSUME NEW p \in query.seen, InWindow(p),
                        \/ Cardinality(Page) < ProductPage
                        \/ Rank(p) < ProductPage * query.skip + ProductPage
                 PROVE  Collectable(p)'
      BY <1>1, <1>3 DEF PageIsNext, Short
    <2>1. p \in Result
      BY DEF SeenIsVisible, Result
    <2> QED
      BY <1>5, <2>1, ShortPageIsLast
  <1>7. PageIsInOrder'
    <2> SUFFICES ASSUME NEW h \in Page
                 PROVE  /\ InWindow(h)
                        /\ \A p \in query.seen :
                               InWindow(p) /\ Before(p, h) => Collectable(p)'
      BY <1>1, <1>3 DEF PageIsInOrder
    <2>1. h \in Result /\ Rank(h) < ProductPage * query.skip + ProductPage
      BY DEF Page
    <2>2. ASSUME NEW p \in query.seen, InWindow(p), Before(p, h)
          PROVE  Rank(p) < ProductPage * query.skip + ProductPage
      <3>1. p \in Result
        BY <2>2 DEF SeenIsVisible, Result
      <3>2. Rank(p) < Rank(h)
        BY <2>1, <2>2, <3>1, RankOrder
      <3> QED
        BY <1>4, <2>1, <3>2, Ranks
    <2> QED
      BY <1>5, <2>1, <2>2 DEF Result
  <1>8. Timely' /\ SeenIsVisible' /\ StartIsCovered' /\ UnseenIsLate'
    BY <1>1, <1>2 DEF Timely, SeenIsVisible, StartIsCovered, UnseenIsLate, InPass
  <1>9. WindowIsBounded' /\ WindowsAreCovered' /\ PagesAreCovered'
    BY <1>1, <1>2 DEF WindowIsBounded, WindowsAreCovered, PagesAreCovered, Paging, Ingesting
  <1>10. MaxDateIsCovered' /\ NoGap' /\ PassCoversWindow'
    BY <1>1, <1>2 DEF MaxDateIsCovered, NoGap, PassCoversWindow
  <1> QED
    BY <1>6, <1>7, <1>8, <1>9, <1>10

\* What is dated after the start of the pass and, by more than StartOffset, before a
\* product of the page, is collected, or earlier in the page.
LEMMA HandledIsCovered ==
    ASSUME IInv, pc = "page", NEW h \in page, NEW p \in Product,
           origin <= date[p], date[p] < date[h] - StartOffset
    PROVE  Collected(p) \/ (p \in page /\ Before(p, h))
  <1> USE DEF IInv
  <1>1. h \in Product /\ query.iterStart <= date[h] /\ date[h] <= query.iterEnd
    BY DEF PageIsInOrder, InWindow, TypeOK
  <1>2. date[h] <= query.end
    BY <1>1, Numbers DEF WindowIsBounded, Paging
  <1>3. date[p] < date[h] /\ Before(p, h)
    BY <1>1, Numbers, CollectAssumption DEF Before
  <1>4. p \in query.seen
    <2> SUFFICES ASSUME query.end - StartOffset <= date[p] PROVE FALSE
      BY DEF UnseenIsLate, InPass
    <2> QED
      BY <1>1, <1>2, Numbers, CollectAssumption
  <1>5. CASE date[p] < query.start
    BY <1>5 DEF StartIsCovered, InPass
  <1>6. CASE query.start <= date[p] /\ date[p] < query.iterStart
    BY <1>4, <1>6 DEF WindowsAreCovered, Paging
  <1>7. CASE query.iterStart <= date[p]
    <2>1. InWindow(p)
      BY <1>1, <1>3, <1>7, Numbers DEF InWindow
    <2> QED
      BY <1>3, <1>4, <2>1 DEF PageIsInOrder, Collectable
  <1> QED
    BY <1>5, <1>6, <1>7, Numbers

\* The start of a window goes to the journal, once the windows before it are covered.
LEMMA KeepStep ==
    ASSUME IInv, TypeOK', KeepWindow
    PROVE  IInv'
  <1> USE DEF IInv
  <1>1. /\ UNCHANGED <<now, date, visible, origin, maxDate, indexed, rejected>>
        /\ pc = "keep" /\ pc' = "query" /\ lastDate' = query.iterStart
    BY DEF KeepWindow, PendingDocumentCount, catalogue, database
  <1>2. \A p : Collected(p)' <=> Collected(p)
    BY <1>1 DEF Collected
  <1>3. \A p : Collectable(p) => Collected(p)
    BY <1>1 DEF Collectable
  <1>4. /\ query'.seen = query.seen /\ query'.start = query.start
        /\ query'.end = query.end /\ query'.done = query.done
        /\ IF Short THEN /\ query'.iterStart = query.iterEnd /\ query'.skip = 0
                         /\ query'.iterEnd = Lesser(query.iterEnd + Window, query.end)
                    ELSE /\ query'.iterStart = query.iterStart
                         /\ query'.iterEnd = query.iterEnd
                         /\ query'.skip = query.skip + 1
    <2>1. CASE Short
      <3>1. NextWindow
        BY <2>1 DEF KeepWindow
      <3> QED
        BY <2>1, <3>1 DEF NextWindow, TypeOK, Query
    <2>2. CASE ~Short
      <3>1. query' = [query EXCEPT !.skip = @ + 1]
        BY <1>1, <2>2, Numbers DEF KeepWindow
      <3> QED
        BY <2>2, <3>1 DEF TypeOK, Query
    <2> QED
      BY <2>1, <2>2
  <1>5. NoGap'
    <2> SUFFICES ASSUME NEW p \in Product, origin <= date[p],
                        date[p] < query.iterStart - StartOffset
                 PROVE  Collected(p)
      BY <1>1, <1>2 DEF NoGap
    <2>1. date[p] < query.iterStart
      BY Numbers, CollectAssumption
    <2>2. p \in query.seen
      <3> SUFFICES ASSUME query.end - StartOffset <= date[p] PROVE FALSE
        BY <1>1 DEF UnseenIsLate, InPass
      <3>1. query.iterStart < query.end
        BY <1>1 DEF WindowIsBounded, Ingesting
      <3> QED
        BY <3>1, Numbers, CollectAssumption
    <2>3. CASE date[p] < query.start
      BY <1>1, <2>3 DEF StartIsCovered, InPass
    <2>4. CASE query.start <= date[p]
      BY <1>1, <2>1, <2>2, <2>4 DEF WindowsAreCovered, Paging
    <2> QED
      BY <2>3, <2>4, Numbers
  <1>6. WindowIsBounded'
    <2>1. query.iterEnd <= query.end
      BY <1>1 DEF WindowIsBounded, Paging
    <2>2. Lesser(query.iterEnd + Window, query.end) <= query.end
      BY Numbers, CollectAssumption DEF Lesser
    <2> QED
      BY <1>1, <1>4, <2>1, <2>2 DEF WindowIsBounded, Ingesting
  <1>7. WindowsAreCovered'
    <2>1. CASE ~Short
      BY <1>1, <1>2, <1>4, <2>1 DEF WindowsAreCovered, Paging
    <2>2. CASE Short
      <3> SUFFICES ASSUME NEW p \in query.seen, query.start <= date[p],
                          date[p] <= query.iterEnd
                   PROVE  Collected(p)
        BY <1>1, <1>2, <1>4, <2>2, Numbers DEF WindowsAreCovered
      <3>1. CASE date[p] < query.iterStart
        BY <1>1, <3>1 DEF WindowsAreCovered, Paging
      <3>2. CASE query.iterStart <= date[p]
        BY <1>1, <1>3, <2>2, <3>2 DEF PageIsNext, Ingesting, InWindow
      <3> QED
        BY <3>1, <3>2, Numbers
    <2> QED
      BY <2>1, <2>2
  <1>8. PagesAreCovered'
    <2>1. CASE ~Short
      <3>1. \A p : (InWindow(p)' <=> InWindow(p)) /\ Rank(p)' = Rank(p)
        BY <1>1, <1>4, <2>1, SameRanks DEF catalogue
      <3>2. ProductPage * query'.skip = ProductPage * query.skip + ProductPage
        BY <1>4, <2>1, Numbers, CollectAssumption
      <3> QED
        BY <1>1, <1>2, <1>3, <1>4, <3>1, <3>2 DEF PagesAreCovered, PageIsNext, Ingesting
    <2>2. CASE Short
      <3>1. ProductPage * query'.skip = 0
        BY <1>4, <2>2, CollectAssumption
      <3>2. \A p : ~(Rank(p)' < 0)
        BY NextRank
      <3> QED
        BY <3>1, <3>2 DEF PagesAreCovered
    <2> QED
      BY <2>1, <2>2
  <1>9. Timely' /\ SeenIsVisible' /\ StartIsCovered' /\ UnseenIsLate'
    BY <1>1, <1>2, <1>4 DEF Timely, SeenIsVisible, StartIsCovered, UnseenIsLate, InPass
  <1>10. PageIsNext' /\ PageIsInOrder' /\ MaxDateIsCovered' /\ PassCoversWindow'
    BY <1>1, <1>2, <1>4
       DEF PageIsNext, PageIsInOrder, MaxDateIsCovered, PassCoversWindow, Ingesting
  <1> QED
    BY <1>5, <1>6, <1>7, <1>8, <1>9, <1>10

\* What the steps that leave the query to itself have in common.
LEMMA MoreCollected ==
    ASSUME IInv, UNCHANGED catalogue, UNCHANGED <<origin, query>>, pc # "idle",
           indexed \subseteq indexed', rejected \subseteq rejected'
    PROVE  /\ \A p : Collected(p) => Collected(p)'
           /\ Timely' /\ SeenIsVisible' /\ StartIsCovered' /\ UnseenIsLate'
           /\ PassCoversWindow'
           /\ lastDate' = lastDate => NoGap'
           /\ maxDate' \in {NoDate, maxDate} => MaxDateIsCovered'
  <1> USE DEF IInv, catalogue
  <1>1. \A p : Collected(p) => Collected(p)'
    BY DEF Collected
  <1>2. Timely' /\ SeenIsVisible' /\ StartIsCovered' /\ UnseenIsLate'
    BY <1>1 DEF Timely, SeenIsVisible, StartIsCovered, UnseenIsLate, InPass
  <1>3. PassCoversWindow' /\ (lastDate' = lastDate => NoGap')
    BY <1>1 DEF PassCoversWindow, NoGap
  <1>4. maxDate' \in {NoDate, maxDate} => MaxDateIsCovered'
    BY <1>1 DEF MaxDateIsCovered
  <1> QED
    BY <1>1, <1>2, <1>3, <1>4

LEMMA IngestStep ==
    ASSUME IInv, TypeOK', Ingest
    PROVE  IInv'
  <1> USE DEF IInv
  <1>1. PICK bad \in SUBSET New :
            /\ indexed' = indexed \cup (New \ bad) /\ rejected' = rejected \cup bad
            /\ MaxDate(New \ bad)
    BY DEF Ingest, Handled
  <1>2. /\ UNCHANGED catalogue /\ UNCHANGED <<lastDate, origin, query, page>>
        /\ pc = "page" /\ pc' = "tick"
    BY DEF Ingest
  <1>3. /\ \A p : Collected(p) => Collected(p)'
        /\ Timely' /\ SeenIsVisible' /\ StartIsCovered' /\ UnseenIsLate'
        /\ PassCoversWindow' /\ NoGap'
        /\ maxDate' \in {NoDate, maxDate} => MaxDateIsCovered'
    BY <1>1, <1>2, MoreCollected
  <1>4. \A p \in page : Collected(p)'
    BY <1>1 DEF Collected, New
  <1>5. \A p : Collectable(p) => Collected(p)'
    BY <1>3, <1>4 DEF Collectable
  <1>6. PageIsNext'
    <2>1. \A p : (InWindow(p)' <=> InWindow(p)) /\ Rank(p)' = Rank(p)
      BY <1>2, SameRanks
    <2> QED
      BY <1>2, <1>5, <2>1 DEF PageIsNext, Ingesting, Collectable, Short
  <1>7. MaxDateIsCovered'
    <2>1. New \ bad \in SUBSET Product
      BY DEF New, TypeOK
    <2>2. CASE maxDate' = maxDate
      BY <1>3, <2>2
    <2>3. ASSUME NEW h \in New \ bad, maxDate' = date[h]
          PROVE  MaxDateIsCovered'
      <3> SUFFICES ASSUME NEW p \in Product, origin <= date[p],
                          date[p] < date[h] - StartOffset
                   PROVE  Collected(p)'
        BY <1>2, <2>3 DEF MaxDateIsCovered, catalogue
      <3>1. h \in page
        BY DEF New
      <3> QED
        BY <1>2, <1>3, <1>4, <3>1, HandledIsCovered
    <2> QED
      BY <1>1, <2>1, <2>2, <2>3, MaxDateIsGreatest
  <1>8. WindowIsBounded' /\ WindowsAreCovered'
    BY <1>2, <1>3 DEF WindowIsBounded, WindowsAreCovered, Paging, Ingesting, catalogue
  <1>9. PagesAreCovered' /\ PageIsInOrder'
    BY <1>2 DEF PagesAreCovered, PageIsInOrder
  <1> QED
    BY <1>3, <1>6, <1>7, <1>8, <1>9

\* The documents handled before the error are the first of the page, but for those
\* refused.
LEMMA IngestErrorStep ==
    ASSUME IInv, TypeOK', IngestError
    PROVE  IInv'
  <1> USE DEF IInv
  <1>1. PICK bad \in SUBSET New, made \in SUBSET New, done \in SUBSET New :
            /\ done \subseteq made /\ InOrder(done, bad)
            /\ indexed' = indexed \cup made /\ rejected' = rejected \cup bad
            /\ MaxDate(done)
    BY DEF IngestError
  <1>2. /\ UNCHANGED catalogue /\ UNCHANGED <<lastDate, origin, query>>
        /\ pc = "page" /\ pc' = "write"
    BY DEF IngestError
  <1>3. /\ \A p : Collected(p) => Collected(p)'
        /\ Timely' /\ SeenIsVisible' /\ StartIsCovered' /\ UnseenIsLate'
        /\ PassCoversWindow' /\ NoGap'
        /\ maxDate' \in {NoDate, maxDate} => MaxDateIsCovered'
    BY <1>1, <1>2, MoreCollected
  <1>4. MaxDateIsCovered'
    <2>1. done \in SUBSET Product
      BY DEF New, TypeOK
    <2>2. CASE maxDate' = maxDate
      BY <1>3, <2>2
    <2>3. ASSUME NEW h \in done, maxDate' = date[h]
          PROVE  MaxDateIsCovered'
      <3> SUFFICES ASSUME NEW p \in Product, origin <= date[p],
                          date[p] < date[h] - StartOffset
                   PROVE  Collected(p)'
        BY <1>2, <2>3 DEF MaxDateIsCovered, catalogue
      <3>1. h \in page
        BY DEF New
      <3>2. Collected(p) \/ (p \in page /\ Before(p, h))
        BY <1>2, <3>1, HandledIsCovered
      <3>3. CASE p \in New /\ Before(p, h)
        BY <1>1, <3>3 DEF InOrder, Collected
      <3> QED
        BY <1>3, <3>2, <3>3 DEF New, Collected
    <2> QED
      BY <1>1, <2>1, <2>2, <2>3, MaxDateIsGreatest
  <1>5. ~Paging' /\ ~Ingesting' /\ pc' # "query" /\ pc' # "page"
    BY <1>2 DEF Paging, Ingesting
  <1> QED
    BY <1>3, <1>4, <1>5
       DEF WindowIsBounded, WindowsAreCovered, PagesAreCovered, PageIsNext, PageIsInOrder

\* The date of interest goes to the journal.
LEMMA StoreStep ==
    ASSUME IInv, TypeOK', Tick \/ Write
    PROVE  IInv'
  <1> USE DEF IInv
  <1>1. /\ UNCHANGED catalogue /\ UNCHANGED <<origin, query, page, maxDate, indexed, rejected>>
        /\ pc # "idle" /\ ((pc = "tick" /\ pc' = "keep") \/ pc' = "flush") /\ StoreDate
    BY DEF Tick, Write, database
  <1>2. /\ Timely' /\ SeenIsVisible' /\ StartIsCovered' /\ UnseenIsLate'
        /\ PassCoversWindow' /\ MaxDateIsCovered'
    BY <1>1, MoreCollected
  <1>3. \A p : Collected(p)' <=> Collected(p)
    BY <1>1 DEF Collected
  <1>4. NoGap'
    BY <1>1, <1>3 DEF StoreDate, NoGap, MaxDateIsCovered, catalogue
  <1>5. \A p : (InWindow(p)' <=> InWindow(p)) /\ Rank(p)' = Rank(p)
    BY <1>1, SameRanks
  <1>6. PageIsNext'
    BY <1>1, <1>3, <1>5 DEF PageIsNext, Ingesting, Collectable, Short
  <1>7. WindowIsBounded' /\ WindowsAreCovered'
    BY <1>1, <1>3 DEF WindowIsBounded, WindowsAreCovered, Paging, Ingesting, catalogue
  <1>8. PagesAreCovered' /\ PageIsInOrder'
    BY <1>1 DEF PagesAreCovered, PageIsInOrder
  <1> QED
    BY <1>2, <1>4, <1>6, <1>7, <1>8

\* A pass that is cut short keeps or loses its date of interest.
LEMMA LeaveStep ==
    ASSUME IInv, TypeOK', RequestError \/ Stop \/ SaveError
    PROVE  IInv'
  <1> USE DEF IInv
  <1>1. /\ UNCHANGED catalogue /\ UNCHANGED <<lastDate, origin, query, indexed, rejected>>
        /\ pc # "idle" /\ pc' \in {"write", "flush"} /\ maxDate' \in {NoDate, maxDate}
    BY DEF RequestError, Stop, SaveError, database
  <1>2. /\ Timely' /\ SeenIsVisible' /\ StartIsCovered' /\ UnseenIsLate'
        /\ PassCoversWindow' /\ NoGap' /\ MaxDateIsCovered'
    BY <1>1, MoreCollected
  <1>3. ~Paging' /\ ~Ingesting' /\ pc' # "query" /\ pc' # "page"
    BY <1>1 DEF Paging, Ingesting
  <1> QED
    BY <1>2, <1>3
       DEF WindowIsBounded, WindowsAreCovered, PagesAreCovered, PageIsNext, PageIsInOrder

\* The last window has been covered up to the end of the pass.
LEMMA ExhaustedStep ==
    ASSUME IInv, TypeOK', Exhausted
    PROVE  IInv'
  <1> USE DEF IInv
  <1>1. /\ UNCHANGED <<now, date, visible, lastDate, origin, maxDate, indexed, rejected>>
        /\ pc = "query" /\ pc' = "write" /\ query.iterStart >= query.end
    BY DEF Exhausted, catalogue, database
  <1>2. query'.seen = query.seen /\ query'.start = query.start /\ query'.end = query.end
    BY DEF Exhausted, TypeOK, Query
  <1>3. \A p : Collected(p)' <=> Collected(p)
    BY <1>1 DEF Collected
  <1>4. PassCoversWindow'
    <2> SUFFICES ASSUME NEW p \in query.seen, query.start <= date[p],
                        date[p] <= query.end, query.start < query.end
                 PROVE  Collected(p)
      BY <1>1, <1>2, <1>3 DEF PassCoversWindow
    <2>1. \/ date[p] < query.iterStart
          \/ date[p] = query.iterStart /\ query.start < query.iterStart
      BY <1>1, Numbers
    <2> QED
      BY <1>1, <2>1 DEF WindowsAreCovered, Paging
  <1>5. Timely' /\ SeenIsVisible' /\ StartIsCovered' /\ UnseenIsLate'
    BY <1>1, <1>2, <1>3 DEF Timely, SeenIsVisible, StartIsCovered, UnseenIsLate, InPass
  <1>6. MaxDateIsCovered' /\ NoGap'
    BY <1>1, <1>3 DEF MaxDateIsCovered, NoGap
  <1>7. ~Paging' /\ ~Ingesting' /\ pc' # "query" /\ pc' # "page"
    BY <1>1 DEF Paging, Ingesting
  <1> QED
    BY <1>4, <1>5, <1>6, <1>7
       DEF WindowIsBounded, WindowsAreCovered, PagesAreCovered, PageIsNext, PageIsInOrder

\* Nothing is left of the pass but what is in the database and in the journal.
LEMMA EndStep ==
    ASSUME IInv, TypeOK', Flush \/ FlushError \/ Crash
    PROVE  IInv'
  <1> USE DEF IInv
  <1>1. /\ UNCHANGED <<now, date, visible, lastDate, origin, indexed, rejected>>
        /\ pc' = "idle" /\ maxDate' = NoDate /\ query'.seen = {} /\ query'.done = FALSE
    BY DEF Flush, FlushError, Crash, EndPass, NoQuery, catalogue, database
  <1>2. Timely' /\ NoGap'
    BY <1>1 DEF Timely, NoGap, Collected
  <1> QED
    BY <1>1, <1>2
       DEF SeenIsVisible, StartIsCovered, UnseenIsLate, WindowIsBounded,
           WindowsAreCovered, PagesAreCovered, PageIsNext, PageIsInOrder,
           MaxDateIsCovered, PassCoversWindow, InPass, Paging, Ingesting

LEMMA Step == IInv /\ [Next]_vars => IInv'
  <1> SUFFICES ASSUME IInv, [Next]_vars PROVE IInv'
    OBVIOUS
  <1>1. TypeOK'
    BY StepType DEF IInv
  <1>2. CASE UNCHANGED vars
    BY <1>1, <1>2, StutterStep
  <1>3. ASSUME NEW p \in Product, Appear(p) PROVE IInv'
    BY <1>1, <1>3, AppearStep
  <1>4. CASE Advance
    BY <1>1, <1>4, AdvanceStep
  <1>5. CASE Pass
    BY <1>1, <1>5, BeginStep, GetEntitiesStep, ExhaustedStep, KeepStep, IngestStep,
       StoreStep, EndStep DEF Pass
  <1>6. CASE RequestError \/ Stop \/ SaveError
    BY <1>1, <1>6, LeaveStep
  <1>7. CASE IngestError
    BY <1>1, <1>7, IngestErrorStep
  <1>8. CASE FlushError \/ Crash
    BY <1>1, <1>8, EndStep
  <1> QED
    BY <1>2, <1>3, <1>4, <1>5, <1>6, <1>7, <1>8 DEF Next

LEMMA Invariance == Spec => []IInv
  BY InitStep, Step, PTL DEF Spec

\* Wherever windows, pages, equal dates, errors, stops and crashes cut the collection,
\* the date it goes on from is not beyond a product it has not tried to index, when
\* the two offsets cover the time products take to appear.
THEOREM Coverage == Spec => []NoGap
  <1>1. IInv => NoGap
    BY DEF IInv
  <1> QED
    BY <1>1, Invariance, PTL

\* A pass that comes to its end has collected what was there when it began.
THEOREM PassCoverage == Spec => []PassCoversWindow
  <1>1. IInv => PassCoversWindow
    BY DEF IInv
  <1> QED
    BY <1>1, Invariance, PTL
=============================================================================
