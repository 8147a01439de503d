--------------------------- MODULE CollectorsProofs ---------------------------
(***************************************************************************)
(* Proofs about Collectors, for any files and trees of directories, any    *)
(* items, windows, limits and sizes of pages, and any faults: the date of  *)
(* the journal passes what is not collected for the known reasons only.    *)
(***************************************************************************)
EXTENDS Collectors, FiniteSetTheorems, WellFoundedInduction, TLAPS

----------------------------------------------------------------------------
(* The inductive invariant of Listing.                                      *)

Working == pc \in {"files", "extract", "raise", "skip"}
Past == {0} \cup {date[f] : f \in Tried}

ListingTypeOK ==
    /\ kind \in {"ftp", "rosftp", "webdav"} /\ clock \in Nat \ {0}
    /\ {stored, since, last} \subseteq Nat
    /\ date \in [File -> Nat] /\ dir \in [File -> Directory] /\ touched \in [Directory -> Nat]
    /\ unlisted \subseteq Directory /\ Tried \cup todo \subseteq Present
    /\ pc \in {"idle", "list", "files", "extract", "raise", "skip"}

DatesAreKnown ==
    /\ \A f \in Present : date[f] <= clock /\ date[f] <= touched[dir[f]]
    /\ {stored, last} \subseteq Past

\* What each step of a pass has in hand.
StepIsKnown ==
    /\ pc = "idle" => todo = {} /\ last = 0
    /\ pc = "list" => last = 0
    /\ pc # "idle" /\ (pc = "list" \/ kind = "webdav") => stored = since
    /\ pc \in {"extract", "raise", "skip"} => current \in todo
    /\ pc \in {"raise", "skip"} => current \in Tried
    /\ pc = "skip" => kind = "webdav"
    /\ kind = "ftp" => last = 0
    /\ pc \in {"extract", "raise"} /\ kind # "webdav" => \A f \in todo : date[current] <= date[f]

\* The date does not pass what is listed; it meets it with another file only.
IsDue(f) ==
    /\ stored < date[f] \/ (kind = "ftp" /\ stored = date[f] /\ Twin(f))
    /\ last < date[f] \/ kind = "webdav" \/ (kind = "rosftp" /\ last = date[f] /\ Twin(f))

\* Files that have no reason to be passed.
IsOpen(f) ==
    /\ f \in Present \ (Tried \cup todo \cup late \cup unseen)
    /\ f \in cut => kind # "webdav" /\ ~Twin(f)

OpenIsAhead ==
    \A f \in File : IsOpen(f) =>
        /\ stored < date[f]
        /\ pc = "list" => ToBeListed(dir[f])
        /\ Working =>
               \/ pc = "files" /\ stopping /\ last = 0
               \/ last < date[f] /\ \A g \in todo : date[g] < date[f]

ListingInv ==
    ListingTypeOK /\ DatesAreKnown /\ StepIsKnown /\ (\A f \in todo : IsDue(f)) /\ OpenIsAhead

----------------------------------------------------------------------------
(* The inductive invariant of Queries.                                      *)

Ingesting == queryAt \in {"page", "tick", "keep"}
Settled == tried \cup Q!LetGo
Covered(d) == \A x \in Q!Visible : x[2] < d => x \in Settled

QueriesTypeOK ==
    LET Dated == {x \in Item \X Nat : 1 <= x[2] /\ x[2] <= apiNow} IN
    /\ api \in {"loki", "lokiDefault", "mpip", "jira"} /\ apiNow \in Nat \ {0}
    /\ dated \in [Item -> Nat \cup {None}] /\ Q!Visible \subseteq Dated
    /\ tried \cup excused \cup answer \subseteq Dated
    /\ {lastDate, start, end, cursor} \subseteq Nat
    /\ lastDate <= apiNow /\ start <= apiNow /\ end <= apiNow /\ (Q!IsLoki => cursor <= apiNow)
    /\ maxDate \in Nat \cup {None} /\ (maxDate # None => maxDate <= apiNow)
    /\ queryAt \in {"idle", "query", "page", "tick", "keep", "write"}
    /\ queryAt = "idle" => ~fetched
    /\ Ingesting => fetched
    /\ queryAt \in {"tick", "keep"} => answer \subseteq tried \cup excused

LokiIsCovered ==
    api = "loki" =>
        /\ Covered(lastDate) /\ (maxDate # None => Covered(maxDate))
        /\ queryAt = "query" => Covered(cursor) /\ \A x \in answer : x[2] < cursor
        /\ Ingesting => /\ Covered(cursor) /\ cursor < end
                        /\ \A x \in answer : x[2] < Q!WindowEnd
                        /\ Q!InWindow \subseteq answer \cup Settled

\* A file of MPIP that is not listed any more is later than what was ingested.
IsLater(x) == (maxDate # None => maxDate <= x[2]) /\ lastDate <= x[2]
Rank(x) == Q!RankIn(Q!Files, x)

MpipIsCovered ==
    api = "mpip" =>
        /\ queryAt = "idle" => Covered(lastDate)
        /\ queryAt # "idle" => Covered(start) /\ (~fetched => lastDate = start /\ maxDate = None)
        /\ queryAt = "query" =>
               \A x \in Q!Files \ Settled : IsLater(x) \/ PageSize * cursor <= Rank(x)
        /\ Ingesting =>
               \A x \in Q!Files \ (Settled \cup answer) :
                   \/ IsLater(x) /\ \A y \in answer : y[2] <= x[2]
                   \/ PageSize * (cursor + 1) <= Rank(x) /\ ~Q!IsLastPage
        /\ queryAt = "write" => \A x \in Q!Files \ Settled : IsLater(x)

JiraIsCovered ==
    api = "jira" =>
        /\ Covered(lastDate) /\ maxDate = None
        /\ lastDate \in {0} \cup {x[2] : x \in tried \cup excused}
        /\ queryAt \in {"query", "page", "tick"} => lastDate = start
        /\ queryAt \in {"page", "tick"} =>
               \A x \in Q!Visible \ (Settled \cup answer) : \A y \in answer : y[2] <= x[2]

QueriesInv == QueriesTypeOK /\ LokiIsCovered /\ MpipIsCovered /\ JiraIsCovered
----------------------------------------------------------------------------
(* A step of the collectors is one of each of them, or leaves it as it is.  *)

LEMMA ListingSteps == [CollectorsNext]_all => [Next]_vars
  <1>1. ListingNext => Next
    BY DEF ListingNext, InListing, Next, Step
  <1>2. BucketsNext \/ ProductsNext \/ QueriesNext => UNCHANGED vars
    BY DEF BucketsNext, ProductsNext, QueriesNext, InS3, InCatalog, InQuery
  <1> QED
    BY <1>1, <1>2 DEF CollectorsNext, all

LEMMA QueriesSteps == [CollectorsNext]_all => [Q!Next]_queries
  <1>1. QueriesNext => Q!Next
    BY DEF QueriesNext, InQuery, Q!Next, Q!Step
  <1>2. ListingNext \/ BucketsNext \/ ProductsNext => UNCHANGED queries
    BY DEF ListingNext, BucketsNext, ProductsNext, InListing, InS3, InCatalog
  <1> QED
    BY <1>1, <1>2 DEF CollectorsNext, all

----------------------------------------------------------------------------
(* Listing: directories.                                                    *)

LEMMA ParentIsAbove ==
    ASSUME NEW d \in Directory, Parent[d] # None
    PROVE  Parent[d] \in Above(d)
  BY ListingAssumption DEF Above

\* Below each directory above d there is d, or another one above it.
LEMMA ChildIsAbove ==
    ASSUME NEW d \in Directory, NEW a \in Above(d)
    PROVE  \E s \in Directory : Parent[s] = a /\ (s = d \/ s \in Above(d))
  <1> SUFFICES ASSUME \A s \in Directory : Parent[s] = a => s # d /\ s \notin Above(d)
               PROVE  FALSE
    OBVIOUS
  <1> DEFINE S == Above(d) \ {a}
  <1>1. S \in SUBSET Directory /\ a \in Directory
    BY DEF Above
  <1>2. Parent[d] \in S \cup {None}
    BY ParentIsAbove
  <1>3. ASSUME NEW b \in S PROVE Parent[b] \in S \cup {None}
    <2>1. b \in Directory /\ Parent[b] # a
      BY DEF Above
    <2>2. Parent[b] \in Above(d) \cup {None}
      BY ListingAssumption, <2>1 DEF Above, HasParents
    <2> QED
      BY <2>1, <2>2
  <1>4. a \in S
    BY <1>1, <1>2, <1>3 DEF Above, HasParents
  <1> QED
    BY <1>4

----------------------------------------------------------------------------
(* Listing: the date of the journal.                                        *)

LEMMA ListingInit == Init => ListingInv
  BY ListingAssumption DEF Init, ListingInv, ListingTypeOK, DatesAreKnown, StepIsKnown, OpenIsAhead,
     IsOpen, Present, Tried, Past, Working

\* A file that appears is dated after all that was tried or listed, or it is late.
LEMMA ListingAppear ==
    ASSUME ListingInv, NEW n \in File, Appear(n)
    PROVE  ListingInv'
  <1>1. /\ date[n] = 0 /\ date' = [date EXCEPT ![n] = clock]
        /\ touched' = [touched EXCEPT ![dir[n]] = clock]
        /\ UNCHANGED <<kind, bad, clock, dir, stored, pc, since, unlisted, todo, current, last,
                       stopping, done, failed, cut, unseen>>
        /\ late' = late \/ late' = late \cup {n}
        /\ n \notin late' => /\ pc = "list" => ToBeListed(dir[n])
                             /\ \A f \in Tried \cup todo \cup cut : date[f] # clock
    BY DEF Appear, pass
  <1>2. /\ \A f \in File : date'[f] = IF f = n THEN clock ELSE date[f]
        /\ Present' = Present \cup {n} /\ n \notin Present /\ clock \in Nat /\ clock > 0
    BY <1>1 DEF ListingInv, ListingTypeOK, Present
  <1>3. Tried' = Tried /\ n \notin Tried \cup todo
    BY <1>1, <1>2 DEF ListingInv, ListingTypeOK, Tried
  <1>4. Past \subseteq Past'
    <2>1. ASSUME NEW f \in Tried PROVE date[f] = date'[f]
      BY <1>2, <1>3 DEF ListingInv, ListingTypeOK, Present
    <2> QED
      BY <1>3, <2>1 DEF Past
  <1>5. ListingTypeOK'
    BY <1>1, <1>2, <1>3 DEF ListingInv, ListingTypeOK
  <1>6. DatesAreKnown'
    <2>1. ASSUME NEW f \in Present' PROVE date'[f] <= clock' /\ date'[f] <= touched'[dir'[f]]
      <3>1. /\ dir[f] \in Directory /\ dir[n] \in Directory /\ f \in File
            /\ touched \in [Directory -> Nat]
        BY DEF ListingInv, ListingTypeOK, Present
      <3>2. CASE f = n
        BY <1>1, <1>2, <3>1, <3>2
      <3>3. CASE f # n
        <4>1. f \in Present /\ date[f] <= clock /\ date[f] <= touched[dir[f]]
          BY <1>2, <3>3 DEF ListingInv, DatesAreKnown
        <4>2. touched'[dir[f]] = touched[dir[f]] \/ touched'[dir[f]] = clock
          BY <1>1, <3>1
        <4> QED
          BY <1>1, <1>2, <3>1, <3>3, <4>1, <4>2
      <3> QED
        BY <3>2, <3>3
    <2> QED
      BY <1>1, <1>4, <2>1 DEF ListingInv, DatesAreKnown
  <1>7. StepIsKnown'
    BY <1>1, <1>2, <1>3 DEF ListingInv, StepIsKnown, ListingTypeOK
  <1>8. ASSUME NEW f \in File, Twin(f), f \in Present PROVE Twin(f)'
    <2>1. PICK g \in Present \ {f} : date[g] = date[f]
      BY <1>8 DEF Twin
    <2>2. f # n /\ g # n /\ g \in File /\ g \in Present' \ {f}
      BY <1>2, <1>8, <2>1 DEF Present
    <2> QED
      BY <1>2, <2>1, <2>2 DEF Twin
  <1>9. \A f \in todo' : IsDue(f)'
    <2> SUFFICES ASSUME NEW f \in todo PROVE IsDue(f)'
      BY <1>1
    <2>1. f \in File /\ f \in Present /\ f # n /\ IsDue(f)
      BY <1>3 DEF ListingInv, ListingTypeOK, Present
    <2> QED
      BY <1>1, <1>2, <1>8, <2>1 DEF IsDue
  <1>10. OpenIsAhead'
    <2> SUFFICES ASSUME NEW f \in File, IsOpen(f)'
                 PROVE  /\ stored < date'[f]
                        /\ pc = "list" => ToBeListed(dir[f])
                        /\ Working => \/ pc = "files" /\ stopping /\ last = 0
                                      \/ last < date'[f] /\ \A g \in todo : date'[g] < date'[f]
      BY <1>1 DEF OpenIsAhead, Working, ToBeListed
    <2>1. CASE f # n
      <3>1. IsOpen(f)
        BY <1>1, <1>2, <1>3, <1>8, <2>1 DEF IsOpen
      <3>2. \A g \in todo : date'[g] = date[g]
        BY <1>2, <1>3 DEF ListingInv, ListingTypeOK, Present
      <3> QED
        BY <1>2, <2>1, <3>1, <3>2 DEF ListingInv, OpenIsAhead
    <2>2. CASE f = n
      <3>1. f \notin late'
        BY DEF IsOpen
      <3>2. \A g \in Tried \cup todo :
                g # n /\ date[g] <= clock /\ date[g] # clock /\ date[g] \in Nat
        BY <1>1, <1>3, <2>2, <3>1 DEF ListingInv, ListingTypeOK, DatesAreKnown, Present
      <3>3. \A d \in Past : d < clock
        BY <1>2, <3>2 DEF Past
      <3>4. stored < clock /\ last < clock
        BY <3>3 DEF ListingInv, DatesAreKnown
      <3>5. \A g \in todo : date'[g] < date'[f]
        BY <1>2, <2>2, <3>2 DEF ListingInv, ListingTypeOK, Present
      <3> QED
        BY <1>1, <1>2, <2>2, <3>1, <3>4, <3>5
    <2> QED
      BY <2>1, <2>2
  <1> QED
    BY <1>5, <1>6, <1>7, <1>9, <1>10 DEF ListingInv

LEMMA ListingBegin ==
    ASSUME ListingInv, Begin
    PROVE  ListingInv'
  <1>1. /\ pc = "idle" /\ since' = stored /\ unlisted' = Configured /\ pc' = "list"
        /\ todo = {} /\ last = 0
        /\ UNCHANGED <<kind, bad, clock, date, dir, touched, stored, todo, current, last,
                       stopping, done, failed, late, cut, unseen>>
    BY DEF Begin, server, history, ListingInv, StepIsKnown
  <1>2. ASSUME NEW d \in Directory PROVE ToBeListed(d)'
    <2>1. CASE kind = "rosftp"
      BY <1>1, <2>1 DEF Configured, ToBeListed
    <2>2. CASE kind # "rosftp"
      <3>1. Parent[d] = None \/ \E a \in Above(d) : a \in Directory /\ Parent[a] = None
        BY TreeAssumption DEF Above
      <3> QED
        BY <1>1, <2>2, <3>1 DEF Configured, ToBeListed
    <2> QED
      BY <2>1, <2>2
  <1>3. ListingTypeOK'
    BY <1>1 DEF ListingInv, ListingTypeOK, Present, Tried, Configured
  <1>4. DatesAreKnown' /\ StepIsKnown'
    BY <1>1 DEF ListingInv, DatesAreKnown, StepIsKnown, Present, Past, Tried
  <1>5. ASSUME NEW f \in File, IsOpen(f)' PROVE IsOpen(f)
    BY <1>1, <1>5 DEF IsOpen, Present, Tried, Twin
  <1>6. OpenIsAhead'
    BY <1>1, <1>2, <1>5 DEF ListingInv, ListingTypeOK, OpenIsAhead, Working
  <1> QED
    BY <1>1, <1>3, <1>4, <1>6 DEF ListingInv

\* A directory is listed: its files are in hand, the directories below it are to be listed.
LEMMA ListingList ==
    ASSUME ListingInv, NEW d \in Directory, List(d)
    PROVE  ListingInv'
  <1>1. /\ pc = "list" /\ d \in unlisted /\ todo' = todo \cup Interesting(d)
        /\ unlisted' = (unlisted \ {d}) \cup {s \in Directory : Parent[s] = d /\ Recurses(s)}
        /\ pc' = (IF unlisted' = {} THEN "files" ELSE "list")
        /\ unseen' = (unseen \cup LeftOut(d)) \ todo'
        /\ last = 0 /\ stored = since
        /\ UNCHANGED <<kind, bad, clock, date, dir, touched, stored, since, current, last,
                       stopping, done, failed, late, cut>>
    BY DEF List, server, ListingInv, StepIsKnown
  <1>2. Present' = Present /\ Tried' = Tried /\ (\A f : Twin(f)' <=> Twin(f))
    BY <1>1 DEF Present, Tried, Twin
  <1>3. ListingTypeOK'
    BY <1>1, <1>2 DEF ListingInv, ListingTypeOK, Interesting
  <1>4. DatesAreKnown' /\ StepIsKnown'
    BY <1>1, <1>2 DEF ListingInv, DatesAreKnown, StepIsKnown, Past
  <1>5. \A f \in todo' : IsDue(f)'
    <2>1. ASSUME NEW f \in Interesting(d) PROVE IsDue(f)'
      <3>1. f \in File /\ date[f] \in Nat /\ since < date[f] /\ since \in Nat
        BY DEF Interesting, Present, ListingInv, ListingTypeOK
      <3> QED
        BY <1>1, <3>1 DEF IsDue
    <2>2. ASSUME NEW f \in todo PROVE IsDue(f)'
      BY <1>1, <1>2 DEF ListingInv, IsDue
    <2> QED
      BY <1>1, <2>1, <2>2
  <1>6. ASSUME NEW f \in File, IsOpen(f)'
        PROVE  IsOpen(f) /\ f \notin Interesting(d) /\ f \notin LeftOut(d)
    BY <1>1, <1>2, <1>6 DEF IsOpen
  <1>7. ASSUME NEW f \in File, IsOpen(f)' PROVE ToBeListed(dir[f])'
    <2>1. /\ f \in Present /\ dir[f] \in Directory /\ since < date[f] /\ date[f] <= touched[dir[f]]
          /\ date[f] \in Nat /\ since \in Nat /\ touched[dir[f]] \in Nat /\ ToBeListed(dir[f])
      <3>1. f \in Present /\ stored < date[f] /\ ToBeListed(dir[f])
        BY <1>1, <1>6, <1>7 DEF IsOpen, ListingInv, OpenIsAhead
      <3> QED
        BY <1>1, <3>1 DEF ListingInv, ListingTypeOK, DatesAreKnown, Present
    <2>2. dir[f] # d
      BY <1>6, <1>7, <2>1 DEF Interesting
    <2>3. CASE dir[f] \in unlisted
      BY <1>1, <2>2, <2>3 DEF ToBeListed
    <2>4. CASE kind # "rosftp" /\ Above(dir[f]) \cap (unlisted \ {d}) # {}
      BY <1>1, <2>4 DEF ToBeListed
    <2>5. CASE kind # "rosftp" /\ d \in Above(dir[f])
      <3>1. PICK s \in Directory : Parent[s] = d /\ (s = dir[f] \/ s \in Above(dir[f]))
        BY <2>1, <2>5, ChildIsAbove
      <3>2. Recurses(s)
        <4>1. CASE kind = "webdav"
          BY <4>1 DEF Recurses
        <4>2. CASE kind = "ftp" /\ s = dir[f]
          BY <2>1, <4>2 DEF Recurses
        <4>3. CASE kind = "ftp" /\ s \in Above(dir[f])
          BY <1>6, <1>7, <2>1, <3>1, <4>3 DEF LeftOut
        <4> QED
          BY <2>5, <3>1, <4>1, <4>2, <4>3 DEF ListingInv, ListingTypeOK
      <3> QED
        BY <1>1, <2>5, <3>1, <3>2 DEF ToBeListed
    <2> QED
      BY <2>1, <2>3, <2>4, <2>5 DEF ToBeListed
  <1>8. OpenIsAhead'
    <2>1. ASSUME NEW f \in File, IsOpen(f)' PROVE stored < date[f]
      BY <1>6, <2>1 DEF ListingInv, OpenIsAhead
    <2>2. ASSUME unlisted' = {}, NEW f \in File PROVE ~IsOpen(f)'
      BY <1>7, <2>2 DEF ToBeListed
    <2>3. Working' => unlisted' = {}
      BY <1>1 DEF Working
    <2> QED
      BY <1>1, <1>7, <2>1, <2>2, <2>3 DEF OpenIsAhead
  <1> QED
    BY <1>3, <1>4, <1>5, <1>8 DEF ListingInv

LEMMA ListingTake ==
    ASSUME ListingInv, NEW n \in File, Take(n)
    PROVE  ListingInv'
  <1>1. /\ pc = "files" /\ ~stopping /\ n \in todo /\ current' = n /\ pc' = "extract"
        /\ (kind # "webdav" => \A f \in todo : date[n] <= date[f])
        /\ UNCHANGED <<kind, bad, clock, date, dir, touched, stored, since, unlisted, todo, last,
                       stopping, done, failed, late, cut, unseen>>
    BY DEF Take, IsNext, server, history
  <1>2. Present' = Present /\ Tried' = Tried /\ Past' = Past
    BY <1>1 DEF Present, Tried, Past
  <1>3. \A f \in File : (IsOpen(f)' <=> IsOpen(f)) /\ (IsDue(f)' <=> IsDue(f))
    BY <1>1, <1>2 DEF IsOpen, IsDue, Twin
  <1>4. todo \subseteq File
    BY DEF ListingInv, ListingTypeOK, Present
  <1>5. ListingTypeOK' /\ DatesAreKnown' /\ StepIsKnown'
    BY <1>1, <1>2 DEF ListingInv, ListingTypeOK, DatesAreKnown, StepIsKnown
  <1>6. OpenIsAhead'
    BY <1>1, <1>3 DEF ListingInv, OpenIsAhead, Working
  <1> QED
    BY <1>1, <1>3, <1>4, <1>5, <1>6 DEF ListingInv

\* The file in hand is extracted, or its extraction fails.
LEMMA ListingTried ==
    ASSUME ListingInv, pc = "extract", done' \cup failed' = Tried \cup {current},
           pc' \in {"raise", "skip"}, pc' = "skip" => kind = "webdav",
           UNCHANGED <<server, stored, pass, stopping, late, cut, unseen>>
    PROVE  ListingInv'
  <1>1. /\ UNCHANGED <<kind, bad, clock, date, dir, touched, stored, since, unlisted, todo,
                       current, last, stopping, late, cut, unseen>>
        /\ current \in todo /\ current \in Present
    BY DEF server, pass, ListingInv, ListingTypeOK, StepIsKnown
  <1>2. Present' = Present /\ Tried' = Tried \cup {current} /\ Past \subseteq Past'
    BY <1>1 DEF Present, Tried, Past
  <1>3. \A f \in File : (IsOpen(f)' => IsOpen(f)) /\ (IsDue(f)' <=> IsDue(f))
    BY <1>1, <1>2 DEF IsOpen, IsDue, Twin
  <1>4. todo \subseteq File
    BY DEF ListingInv, ListingTypeOK, Present
  <1>5. ListingTypeOK' /\ DatesAreKnown' /\ StepIsKnown'
    BY <1>1, <1>2 DEF ListingInv, ListingTypeOK, DatesAreKnown, StepIsKnown
  <1>6. OpenIsAhead'
    BY <1>1, <1>3 DEF ListingInv, OpenIsAhead, Working
  <1> QED
    BY <1>1, <1>3, <1>4, <1>5, <1>6 DEF ListingInv

\* The file in hand has been passed.
LEMMA ListingPassed ==
    ASSUME ListingInv, Raise \/ Skip
    PROVE  ListingInv'
  <1>1. /\ pc \in {"raise", "skip"} /\ pc' = "files" /\ todo' = todo \ {current}
        /\ UNCHANGED <<kind, bad, clock, date, dir, touched, since, unlisted, stopping,
                       done, failed, late, cut, unseen>>
        /\ current \in todo /\ current \in Tried /\ current \in File
    BY DEF Raise, Skip, server, history, ListingInv, ListingTypeOK, StepIsKnown, Present
  <1>2. /\ {stored, last, date[current]} \subseteq Nat
        /\ \A f \in todo : f \in File /\ date[f] \in Nat
        /\ (pc = "raise" /\ kind # "webdav") => \A f \in todo : date[current] <= date[f]
    BY <1>1 DEF ListingInv, ListingTypeOK, StepIsKnown, Present
  <1>3. \/ stored' = stored /\ last' = last /\ kind = "webdav"
        \/ stored' = stored /\ last' = Later(last, date[current]) /\ kind = "webdav"
        \/ pc = "raise" /\ kind = "ftp" /\ stored' = Later(stored, date[current]) /\ last' = last
        \/ /\ pc = "raise" /\ kind = "rosftp" /\ last' = Later(last, date[current])
           /\ \/ stored' = Later(stored, last) /\ last < date[current]
              \/ stored' = stored
    <2>1. CASE Raise
      BY <2>1 DEF Raise, Dates, StoresPrevious, ListingInv, ListingTypeOK
    <2>2. CASE Skip
      BY <2>2 DEF Skip, ListingInv, StepIsKnown
    <2> QED
      BY <2>1, <2>2
  <1>4. Present' = Present /\ Tried' = Tried /\ Past' = Past /\ (\A f : Twin(f)' <=> Twin(f))
    BY <1>1 DEF Present, Tried, Past, Twin
  <1>5. {stored', last'} \subseteq {stored, last, date[current]}
    BY <1>2, <1>3 DEF Later
  <1>6. ListingTypeOK'
    BY <1>1, <1>2, <1>4, <1>5 DEF ListingInv, ListingTypeOK
  <1>7. DatesAreKnown'
    BY <1>1, <1>4, <1>5 DEF ListingInv, DatesAreKnown, Past
  <1>8. StepIsKnown'
    BY <1>1, <1>3 DEF ListingInv, StepIsKnown
  <1>9. ASSUME NEW f \in todo' PROVE IsDue(f)'
    <2>1. f \in todo /\ f # current /\ IsDue(f) /\ f \in Present /\ current \in Present
      BY <1>1, <1>9 DEF ListingInv, ListingTypeOK
    <2>2. date[current] = date[f] => Twin(f)
      BY <2>1 DEF Twin
    <2>3. date[f] \in Nat /\ ((pc = "raise" /\ kind # "webdav") => date[current] <= date[f])
      BY <1>2, <2>1
    <2>4. IsDue(f)' <=>
             /\ stored' < date[f] \/ (kind = "ftp" /\ stored' = date[f] /\ Twin(f))
             /\ \/ last' < date[f] \/ kind = "webdav"
                \/ kind = "rosftp" /\ last' = date[f] /\ Twin(f)
      BY <1>1, <1>4 DEF IsDue
    <2>5. CASE kind = "webdav"
      BY <1>2, <1>3, <2>1, <2>3, <2>4, <2>5 DEF IsDue
    <2>6. CASE kind = "ftp"
      BY <1>2, <1>3, <2>1, <2>2, <2>3, <2>4, <2>6 DEF IsDue, Later
    <2>7. CASE kind = "rosftp"
      BY <1>2, <1>3, <2>1, <2>2, <2>3, <2>4, <2>7 DEF IsDue, Later
    <2> QED
      BY <2>5, <2>6, <2>7 DEF ListingInv, ListingTypeOK
  <1>10. OpenIsAhead'
    <2> SUFFICES ASSUME NEW f \in File, IsOpen(f)'
                 PROVE  stored' < date[f] /\ last' < date[f] /\ \A g \in todo' : date[g] < date[f]
      BY <1>1 DEF OpenIsAhead
    <2>1. IsOpen(f)
      BY <1>1, <1>4 DEF IsOpen
    <2>2. stored < date[f] /\ last < date[f] /\ \A g \in todo : date[g] < date[f]
      BY <1>1, <2>1 DEF ListingInv, OpenIsAhead, Working
    <2> QED
      BY <1>1, <1>5, <2>2
  <1> QED
    BY <1>6, <1>7, <1>8, <1>9, <1>10 DEF ListingInv

\* The end of a pass: a file it had listed and leaves is dated after the journal, or is cut.
LEMMA ListingLeave ==
    ASSUME ListingInv, NEW ends, Leave(ends), UNCHANGED <<server, done, failed, late, unseen>>,
           stored' \in Past,
           \A f \in File : IsOpen(f) => stored' < date[f],
           \A f \in todo \ Tried : \/ stored' < date[f]
                                   \/ kind \in ends /\ (kind = "webdav" \/ Twin(f))
    PROVE  ListingInv'
  <1>1. /\ pc' = "idle" /\ since' = 0 /\ unlisted' = {} /\ todo' = {} /\ last' = 0
        /\ cut' = (IF kind \in ends THEN cut \cup (todo \ Tried) ELSE cut)
        /\ UNCHANGED <<kind, bad, clock, date, dir, touched, done, failed, late, unseen>>
    BY DEF Leave, server
  <1>2. Present' = Present /\ Tried' = Tried /\ Past' = Past /\ (\A f : Twin(f)' <=> Twin(f))
    BY <1>1 DEF Present, Tried, Past, Twin
  <1>3. stored' \in Nat
    BY DEF Past, ListingInv, ListingTypeOK, Present
  <1>4. ListingTypeOK'
    BY <1>1, <1>2, <1>3 DEF ListingInv, ListingTypeOK
  <1>5. DatesAreKnown' /\ StepIsKnown'
    BY <1>1, <1>2 DEF ListingInv, DatesAreKnown, StepIsKnown, Past
  <1>6. ASSUME NEW f \in File, IsOpen(f)' PROVE stored' < date'[f]
    <2>1. CASE f \in todo
      BY <1>1, <1>2, <1>6, <2>1 DEF IsOpen
    <2>2. CASE f \notin todo
      BY <1>1, <1>2, <1>6, <2>2 DEF IsOpen
    <2> QED
      BY <2>1, <2>2
  <1>7. OpenIsAhead'
    BY <1>1, <1>6 DEF OpenIsAhead, Working
  <1> QED
    BY <1>1, <1>4, <1>5, <1>7 DEF ListingInv

\* The dates that such an end compares.
LEMMA ListingDates ==
    ASSUME ListingInv
    PROVE  /\ {stored, last} \subseteq Nat /\ {stored, last} \subseteq Past
           /\ \A f \in File : date[f] \in Nat
           /\ \A f \in todo : f \in File /\ IsDue(f)
           /\ \A f \in File : IsOpen(f) => stored < date[f]
           /\ pc \notin {"idle", "list"} \/ last = 0
           /\ kind \in {"ftp", "rosftp", "webdav"} /\ (kind = "ftp" => last = 0)
           /\ Later(stored, last) \in {stored, last}
           /\ stored <= Later(stored, last) /\ last <= Later(stored, last)
  BY DEF ListingInv, ListingTypeOK, DatesAreKnown, StepIsKnown, OpenIsAhead, Present, Later

LEMMA ListingEnd ==
    ASSUME ListingInv, End
    PROVE  ListingInv'
  <1>1. /\ pc = "files" /\ stored' = Later(stored, last) /\ Leave({"ftp", "rosftp", "webdav"})
        /\ UNCHANGED <<server, done, failed, late, unseen>>
    BY DEF End
  <1>2. ASSUME NEW f \in File, IsOpen(f) PROVE stored' < date[f]
    <2>1. last < date[f] \/ last = 0
      BY <1>1, <1>2 DEF ListingInv, OpenIsAhead, Working
    <2> QED
      BY <1>1, <1>2, <2>1, ListingDates
  <1>3. ASSUME NEW f \in todo \ Tried PROVE stored' < date[f] \/ kind = "webdav" \/ Twin(f)
    BY <1>1, <1>3, ListingDates DEF IsDue
  <1> QED
    BY <1>1, <1>2, <1>3, ListingDates, ListingLeave

LEMMA ListingServerError ==
    ASSUME ListingInv, ServerError
    PROVE  ListingInv'
  <1>1. CASE kind = "ftp" /\ pc = "extract"
    <2>1. /\ failed' = failed \cup {current} /\ pc' = "raise"
          /\ UNCHANGED <<server, stored, pass, stopping, done, late, cut, unseen>>
      BY <1>1 DEF ServerError
    <2> QED
      BY <1>1, <2>1, ListingTried DEF Tried
  <1>2. CASE ~(kind = "ftp" /\ pc = "extract")
    <2>1. /\ pc \in {"list", "extract"} /\ Leave({"ftp", "rosftp"})
          /\ stored' = IF kind = "rosftp" THEN Later(stored, last) ELSE stored
          /\ UNCHANGED <<server, done, failed, late, unseen>>
      BY <1>2 DEF ServerError
    <2>2. ASSUME NEW f \in File, IsOpen(f) PROVE stored' < date[f]
      <3>1. pc = "extract" => last < date[f]
        BY <2>2 DEF ListingInv, OpenIsAhead, Working
      <3>2. pc = "list" => last = 0
        BY DEF ListingInv, StepIsKnown
      <3> QED
        BY <2>1, <2>2, <3>1, <3>2, ListingDates
    <2>3. ASSUME NEW f \in todo \ Tried
          PROVE  stored' < date[f] \/ (kind \in {"ftp", "rosftp"} /\ Twin(f))
      BY <2>1, <2>3, ListingDates DEF IsDue
    <2> QED
      BY <2>1, <2>2, <2>3, ListingDates, ListingLeave
  <1> QED
    BY <1>1, <1>2

LEMMA ListingSaveError ==
    ASSUME ListingInv, SaveError
    PROVE  ListingInv'
  <1> DEFINE d == date[current]
  <1>1. /\ pc = "raise" /\ Leave({"ftp", "rosftp"})
        /\ UNCHANGED <<server, done, failed, late, unseen>>
        /\ current \in todo /\ current \in Tried /\ d \in Nat
    BY DEF SaveError, ListingInv, ListingTypeOK, StepIsKnown, Present
  <1>2. /\ stored' \in {stored, last, d}
        /\ \/ stored' = stored
           \/ kind = "ftp" /\ stored' = d
           \/ kind = "rosftp" /\ stored' \in {last, d}
    BY <1>1, ListingDates DEF SaveError, Dates, Later
  <1>3. ASSUME NEW f \in File, IsOpen(f) PROVE stored' < date[f]
    <2>1. stored < date[f] /\ last < date[f] /\ d < date[f]
      BY <1>1, <1>3 DEF ListingInv, OpenIsAhead, Working
    <2> QED
      BY <1>2, <2>1
  <1>4. ASSUME NEW f \in todo \ Tried
        PROVE  stored' < date[f] \/ (kind \in {"ftp", "rosftp"} /\ Twin(f))
    <2>1. kind # "webdav" => d <= date[f]
      BY <1>1 DEF ListingInv, StepIsKnown
    <2>2. d = date[f] => Twin(f)
      BY <1>1, <1>4 DEF Twin, ListingInv, ListingTypeOK
    <2> QED
      BY <1>1, <1>2, <2>1, <2>2, ListingDates DEF IsDue
  <1>5. d \in Past
    BY <1>1 DEF Past
  <1> QED
    BY <1>1, <1>2, <1>3, <1>4, <1>5, ListingDates, ListingLeave

\* A crash leaves a file of FTP behind only, for read-only SFTP stores a date when it meets a
\* later one.
LEMMA ListingCrash ==
    ASSUME ListingInv, Crash
    PROVE  ListingInv'
  <1>1. Leave({"ftp"}) /\ stored' = stored /\ UNCHANGED <<server, done, failed, late, unseen>>
    BY DEF Crash
  <1>2. \A f \in todo \ Tried : stored' < date[f] \/ (kind \in {"ftp"} /\ Twin(f))
    BY <1>1, ListingDates DEF IsDue
  <1> QED
    BY <1>1, <1>2, ListingDates, ListingLeave

LEMMA ListingStep == ListingInv /\ [Next]_vars => ListingInv'
  <1> SUFFICES ASSUME ListingInv, [Next]_vars
               PROVE  ListingInv'
    OBVIOUS
  <1>1. CASE StopListing
    BY <1>1 DEF StopListing, server, history, ListingInv, ListingTypeOK, DatesAreKnown, StepIsKnown,
       OpenIsAhead, IsOpen, IsDue, Present, Tried, Past, Working, Twin
  <1>2. CASE Extract
    <2>1. /\ done' \cup failed' = Tried \cup {current}
          /\ pc = "extract" /\ pc' \in {"raise", "skip"} /\ (pc' = "skip" => kind = "webdav")
          /\ UNCHANGED <<server, stored, pass, stopping, late, cut, unseen>>
      BY <1>2 DEF Extract, Tried
    <2> QED
      BY <2>1, ListingTried
  <1>3. CASE Advance \/ Stop \/ Restart \/ UNCHANGED vars
    <2>1. /\ UNCHANGED <<kind, date, dir, touched, stored, pc, since, unlisted, todo, current, last,
                         done, failed, late, cut, unseen>>
          /\ stopping' = stopping \/ stopping' \/ pc = "idle"
          /\ clock' = clock \/ clock' = clock + 1
      BY <1>3 DEF Advance, Stop, Restart, vars, server, pass, history
    <2>2. /\ Present' = Present /\ Tried' = Tried /\ Past' = Past
          /\ \A f : Twin(f)' <=> Twin(f)
      BY <2>1 DEF Present, Tried, Past, Twin
    <2>3. ListingTypeOK'
      BY <2>1, <2>2 DEF ListingInv, ListingTypeOK
    <2>4. DatesAreKnown'
      <3>1. \A f \in Present : date[f] \in Nat /\ clock \in Nat
        BY DEF ListingInv, ListingTypeOK, Present
      <3> QED
        BY <2>1, <2>2, <3>1 DEF ListingInv, DatesAreKnown
    <2>5. StepIsKnown' /\ \A f \in todo : IsDue(f)'
      BY <2>1, <2>2 DEF ListingInv, StepIsKnown, IsDue
    <2>6. OpenIsAhead'
      BY <2>1, <2>2 DEF ListingInv, OpenIsAhead, IsOpen, Working, ToBeListed
    <2> QED
      BY <2>1, <2>3, <2>4, <2>5, <2>6 DEF ListingInv
  <1> QED
    BY <1>1, <1>2, <1>3, ListingAppear, ListingBegin, ListingList, ListingTake, ListingPassed,
       ListingEnd, ListingServerError, ListingSaveError, ListingCrash DEF Next, Step

LEMMA ListingGaps == ListingInv => OnlyKnownGaps
  <1> SUFFICES ASSUME ListingInv, NEW f \in File, Passed(f),
                      f \notin failed \cup late \cup unseen,
                      ~(f \in cut /\ (kind = "webdav" \/ Twin(f)))
               PROVE  FALSE
    BY DEF OnlyKnownGaps
  <1>1. IsOpen(f)
    BY DEF Passed, IsOpen, Tried
  <1> QED
    BY <1>1, ListingDates DEF Passed

----------------------------------------------------------------------------
(* Queries: least and greatest elements.                                    *)

LEMMA Least ==
    ASSUME NEW S \in SUBSET Nat, S # {}
    PROVE  \E m \in S : \A n \in S : m <= n
  <1> DEFINE Below == {0 .. n : n \in S}
  <1>1. Below \subseteq FiniteSubsetsOf(Nat) /\ Below # {}
    <2>1. ASSUME NEW n \in S PROVE 0 .. n \in FiniteSubsetsOf(Nat)
      <3>1. IsFiniteSet(0 .. n)
        BY FS_Interval
      <3> QED
        BY <3>1 DEF FiniteSubsetsOf
    <2> QED
      BY <2>1
  <1>2. PICK I \in Below : \A J \in Below : <<J, I>> \notin StrictSubsetOrdering(Nat)
    <2>1. IsWellFoundedOn(StrictSubsetOrdering(Nat), FiniteSubsetsOf(Nat))
      BY FS_StrictSubsetOrderingWellFounded
    <2> QED
      BY <1>1, <2>1, WFMin
  <1>3. PICK m \in S : I = 0 .. m
    OBVIOUS
  <1>4. ASSUME NEW n \in S, n < m PROVE FALSE
    <2>1. 0 .. n \in Below /\ 0 .. n \subseteq I /\ 0 .. n # I
      <3>1. 0 .. n \in Below
        OBVIOUS
      <3>2. n \in Nat /\ m \in Nat
        OBVIOUS
      <3> HIDE DEF Below
      <3>3. 0 .. n \subseteq 0 .. m /\ m \in 0 .. m /\ m \notin 0 .. n
        BY <1>4, <3>2
      <3> QED
        BY <1>3, <3>1, <3>3
    <2>2. 0 .. n \in SUBSET Nat /\ I \in SUBSET Nat
      BY <1>3
    <2> QED
      BY <1>2, <2>1, <2>2 DEF StrictSubsetOrdering
  <1> QED
    BY <1>4

LEMMA Greatest ==
    ASSUME NEW S \in SUBSET Nat, S # {}, NEW b \in Nat, \A n \in S : n <= b
    PROVE  \E m \in S : \A n \in S : n <= m
  <1> DEFINE Rest == {b - n : n \in S}
  <1>1. Rest \in SUBSET Nat /\ Rest # {}
    <2>1. ASSUME NEW t \in Rest PROVE t \in Nat
      <3>1. PICK n \in S : t = b - n
        OBVIOUS
      <3>2. n \in Nat /\ n <= b
        OBVIOUS
      <3> HIDE DEF Rest
      <3> QED
        BY <3>1, <3>2
    <2>2. Rest # {}
      OBVIOUS
    <2> HIDE DEF Rest
    <2> QED
      BY <2>1, <2>2
  <1>2. PICK t \in Rest : \A u \in Rest : t <= u
    <2> HIDE DEF Rest
    <2> QED
      BY <1>1, Least
  <1>3. PICK m \in S : t = b - m
    OBVIOUS
  <1>4. ASSUME NEW n \in S PROVE n <= m
    <2>1. b - n \in Rest
      BY Zenon
    <2>2. t <= b - n
      BY <2>1, <1>2
    <2> QED
      BY <2>2, <1>3
  <1> QED
    BY <1>4

LEMMA MaxIsGreatest ==
    ASSUME NEW S \in SUBSET Nat, S # {}, NEW b \in Nat, \A n \in S : n <= b
    PROVE  Q!Max(S) \in S /\ \A n \in S : n <= Q!Max(S)
  <1>1. PICK m \in S : \A n \in S : n <= m
    BY Greatest
  <1>2. \E x \in S : \A y \in S : x >= y
    BY <1>1
  <1>3. Q!Max(S) \in S /\ \A y \in S : Q!Max(S) >= y
    BY <1>2 DEF Q!Max
  <1> QED
    BY <1>3

LEMMA WindowEnds ==
    ASSUME cursor \in Nat, end \in Nat
    PROVE  /\ Q!WindowEnd \in Nat /\ Q!WindowEnd <= end
           /\ cursor < end => cursor < Q!WindowEnd
  <1> DEFINE S == {cursor + Window, end}
  <1>1. Window \in Nat \ {0}
    BY QueriesAssumption
  <1>2. \E x \in S : \A y \in S : x <= y
    <2>1. CASE cursor + Window <= end
      BY <1>1, <2>1
    <2>2. CASE ~(cursor + Window <= end)
      BY <1>1, <2>2
    <2> QED
      BY <2>1, <2>2
  <1>3. Q!Min(S) \in S /\ \A y \in S : Q!Min(S) <= y
    BY <1>2 DEF Q!Min
  <1> QED
    BY <1>1, <1>3 DEF Q!WindowEnd

----------------------------------------------------------------------------
(* Queries: ranks.                                                          *)

Firsts(S, x) == {y \in S : Q!IsAfter(y, x)}
Before(S, n) == {y \in S : Q!RankIn(S, y) < n}
Numbered == Item \X Nat

LEMMA CardinalityInQueries == \A S : Q!Cardinality(S) = Cardinality(S)
  BY DEF Q!Cardinality, Cardinality

LEMMA Ranks ==
    ASSUME NEW S \in SUBSET Numbered, IsFiniteSet(S), NEW x
    PROVE  /\ IsFiniteSet(Firsts(S, x))
           /\ Q!RankIn(S, x) = Cardinality(Firsts(S, x)) /\ Q!RankIn(S, x) \in Nat
  <1>1. Firsts(S, x) \in SUBSET S
    BY DEF Firsts
  <1>2. IsFiniteSet(Firsts(S, x)) /\ Cardinality(Firsts(S, x)) \in Nat
    BY <1>1, FS_Subset, FS_CardinalityType
  <1>3. Q!RankIn(S, x) = Cardinality(Firsts(S, x))
    BY CardinalityInQueries DEF Q!RankIn, Firsts
  <1> QED
    BY <1>2, <1>3

LEMMA RankGrows ==
    ASSUME NEW S \in SUBSET Numbered, NEW T \in SUBSET S, IsFiniteSet(S), NEW x
    PROVE  Q!RankIn(T, x) <= Q!RankIn(S, x)
  <1>1. IsFiniteSet(T) /\ T \in SUBSET Numbered
    BY FS_Subset
  <1>2. Firsts(T, x) \subseteq Firsts(S, x)
    BY DEF Firsts
  <1> QED
    BY <1>1, <1>2, Ranks, FS_Subset

LEMMA RankOrder ==
    ASSUME NEW S \in SUBSET Numbered, IsFiniteSet(S), NEW x \in S, NEW y \in S, Q!IsAfter(y, x)
    PROVE  Q!RankIn(S, y) < Q!RankIn(S, x)
  <1>1. Item \subseteq Nat /\ \A z \in S : z[1] \in Nat /\ z[2] \in Nat
    BY QueriesAssumption DEF Numbered
  <1>2. y \notin Firsts(S, y)
    BY <1>1 DEF Firsts, Q!IsAfter
  <1>3. Firsts(S, y) \cup {y} \subseteq Firsts(S, x)
    <2>1. ASSUME NEW z \in Firsts(S, y) PROVE z \in Firsts(S, x)
      BY <1>1, <2>1 DEF Firsts, Q!IsAfter
    <2> QED
      BY <2>1 DEF Firsts
  <1>4. Cardinality(Firsts(S, y) \cup {y}) = Cardinality(Firsts(S, y)) + 1
    BY <1>2, Ranks, FS_AddElement
  <1>5. Cardinality(Firsts(S, y) \cup {y}) <= Cardinality(Firsts(S, x))
    BY <1>3, Ranks, FS_Subset
  <1> QED
    BY <1>4, <1>5, Ranks

LEMMA RankTotal ==
    ASSUME NEW S \in SUBSET Numbered, NEW x \in S, NEW y \in S, x # y
    PROVE  Q!IsAfter(x, y) \/ Q!IsAfter(y, x)
  <1>1. /\ x = <<x[1], x[2]>> /\ x[1] \in Nat /\ x[2] \in Nat
        /\ y = <<y[1], y[2]>> /\ y[1] \in Nat /\ y[2] \in Nat
    BY QueriesAssumption DEF Numbered
  <1>2. x[1] # y[1] \/ x[2] # y[2]
    BY <1>1
  <1> QED
    BY <1>1, <1>2 DEF Q!IsAfter

LEMMA FewBefore ==
    ASSUME NEW S \in SUBSET Numbered, IsFiniteSet(S), NEW n \in Nat
    PROVE  /\ IsFiniteSet(Before(S, n)) /\ Cardinality(Before(S, n)) \in Nat
           /\ Cardinality(Before(S, n)) <= n
  <1>1. IsFiniteSet(Before(S, n)) /\ Cardinality(Before(S, n)) \in Nat
    BY FS_Subset, FS_CardinalityType DEF Before
  <1>2. CASE Before(S, n) = {}
    BY <1>1, <1>2, FS_EmptySet
  <1>3. CASE Before(S, n) # {}
    <2> DEFINE R == {Q!RankIn(S, y) : y \in Before(S, n)}
    <2>1. R \in SUBSET Nat /\ R # {} /\ \A r \in R : r <= n
      BY <1>3, Ranks DEF Before
    <2>2. PICK r \in R : \A s \in R : s <= r
      <3> HIDE DEF R
      <3> QED
        BY <2>1, Greatest
    <2>3. PICK m \in Before(S, n) : r = Q!RankIn(S, m)
      OBVIOUS
    <2>4. Before(S, n) \subseteq Firsts(S, m) \cup {m}
      <3> SUFFICES ASSUME NEW y \in Before(S, n), y # m PROVE Q!IsAfter(y, m)
        BY DEF Firsts, Before
      <3>1. Q!RankIn(S, y) <= Q!RankIn(S, m) /\ Q!RankIn(S, y) \in Nat /\ Q!RankIn(S, m) \in Nat
        BY <2>2, <2>3, Ranks
      <3>2. m \in S /\ y \in S
        BY DEF Before
      <3>3. ~Q!IsAfter(m, y)
        BY <3>1, <3>2, RankOrder
      <3> QED
        BY <3>2, <3>3, RankTotal
    <2>5. /\ IsFiniteSet(Firsts(S, m) \cup {m})
          /\ Cardinality(Firsts(S, m) \cup {m}) <= Cardinality(Firsts(S, m)) + 1
      <3>1. IsFiniteSet(Firsts(S, m)) /\ Cardinality(Firsts(S, m)) \in Nat
        BY Ranks, FS_CardinalityType
      <3>2. /\ IsFiniteSet(Firsts(S, m) \cup {m})
            /\ Cardinality(Firsts(S, m) \cup {m}) =
                   IF m \in Firsts(S, m) THEN Cardinality(Firsts(S, m))
                   ELSE Cardinality(Firsts(S, m)) + 1
        BY <3>1, FS_AddElement
      <3> QED
        BY <3>1, <3>2
    <2>6. Cardinality(Before(S, n)) <= Cardinality(Firsts(S, m) \cup {m})
      BY <2>4, <2>5, FS_Subset
    <2>7. Cardinality(Firsts(S, m)) < n
      BY Ranks DEF Before
    <2> QED
      BY <1>1, <2>5, <2>6, <2>7, Ranks, FS_CardinalityType
  <1> QED
    BY <1>2, <1>3

LEMMA ManyBefore ==
    ASSUME NEW S \in SUBSET Numbered, IsFiniteSet(S), NEW n \in Nat,
           NEW x \in S, n <= Q!RankIn(S, x)
    PROVE  n <= Cardinality(Before(S, n))
  <1> DEFINE R == {Q!RankIn(S, y) : y \in S \ Before(S, n)}
  <1>1. R \in SUBSET Nat /\ R # {}
    <2>1. x \in S \ Before(S, n)
      BY Ranks DEF Before
    <2> QED
      BY <2>1, Ranks
  <1>2. PICK r \in R : \A s \in R : r <= s
    <2> HIDE DEF R
    <2> QED
      BY <1>1, Least
  <1>3. PICK b \in S \ Before(S, n) : r = Q!RankIn(S, b)
    OBVIOUS
  <1>4. Firsts(S, b) \subseteq Before(S, n)
    <2> SUFFICES ASSUME NEW y \in S, Q!IsAfter(y, b), y \notin Before(S, n) PROVE FALSE
      BY DEF Firsts
    <2>1. Q!RankIn(S, y) < Q!RankIn(S, b)
      BY RankOrder
    <2>2. Q!RankIn(S, b) <= Q!RankIn(S, y)
      BY <1>2, <1>3
    <2> QED
      BY <2>1, <2>2, Ranks
  <1>5. Cardinality(Firsts(S, b)) <= Cardinality(Before(S, n))
    BY <1>4, FewBefore, FS_Subset
  <1>6. n <= Q!RankIn(S, b)
    BY <1>3, Ranks DEF Before
  <1> QED
    BY <1>5, <1>6, Ranks, FewBefore

\* What a page leaves behind it, when it has something behind it, is not the last page.
LEMMA PageIsFull ==
    ASSUME NEW S \in SUBSET Numbered, IsFiniteSet(S), NEW m \in Nat, NEW n \in Nat, m <= n,
           NEW x \in S, n <= Q!RankIn(S, x)
    PROVE  n - m <= Cardinality({y \in S : Q!RankIn(S, y) \in m .. n - 1})
  <1> DEFINE P == {y \in S : Q!RankIn(S, y) \in m .. n - 1}
  <1>1. P = Before(S, n) \ Before(S, m)
    BY Ranks DEF Before
  <1>2. n <= Cardinality(Before(S, n)) /\ Cardinality(Before(S, m)) <= m
    BY ManyBefore, FewBefore
  <1>3. Before(S, n) \cap Before(S, m) = Before(S, m)
    BY Ranks DEF Before
  <1>4. IsFiniteSet(Before(S, n))
    BY FewBefore
  <1>5. Cardinality(P) = Cardinality(Before(S, n)) - Cardinality(Before(S, m))
    BY <1>1, <1>3, <1>4, FS_Difference
  <1> HIDE DEF P
  <1>6. n - m <= Cardinality(P)
    BY <1>2, <1>5, FewBefore
  <1> QED
    BY <1>6 DEF P

----------------------------------------------------------------------------
(* Queries: what is visible, and what a step leaves settled.                *)

LEMMA DatedIsFinite ==
    ASSUME NEW S \in SUBSET Numbered, NEW n \in Nat, \A x \in S : 1 <= x[2] /\ x[2] <= n
    PROVE  IsFiniteSet(S)
  <1>1. IsFiniteSet(Item \X (1 .. n))
    <2>1. IsFiniteSet(1 .. n)
      BY FS_Interval
    <2>2. IsFiniteSet(Item)
      BY QueriesAssumption
    <2> QED
      BY <2>1, <2>2, FS_Product
  <1>2. S \subseteq Item \X (1 .. n)
    BY DEF Numbered
  <1> QED
    BY <1>1, <1>2, FS_Subset

LEMMA VisibleIs ==
    ASSUME QueriesInv
    PROVE  /\ Q!Visible \in SUBSET Numbered /\ IsFiniteSet(Q!Visible)
           /\ \A x \in Q!Visible :
                  /\ x = <<x[1], x[2]>> /\ x[1] \in Item /\ x[2] = dated[x[1]]
                  /\ x[2] \in Nat /\ 1 <= x[2] /\ x[2] <= apiNow
           /\ apiNow \in Nat /\ IsFiniteSet(answer) /\ answer \in SUBSET Numbered
  <1>1. /\ apiNow \in Nat
        /\ \A S \in {Q!Visible, answer} :
               S \in SUBSET Numbered /\ \A x \in S : 1 <= x[2] /\ x[2] <= apiNow
    BY DEF QueriesInv, QueriesTypeOK, Numbered
  <1>2. IsFiniteSet(Q!Visible) /\ IsFiniteSet(answer)
    BY <1>1, DatedIsFinite
  <1>3. \A x \in Q!Visible :
            x = <<x[1], x[2]>> /\ x[1] \in Item /\ x[2] = dated[x[1]] /\ x[2] \in Nat
    <2> SUFFICES ASSUME NEW x \in Q!Visible
                 PROVE  x = <<x[1], x[2]>> /\ x[1] \in Item /\ x[2] = dated[x[1]] /\ x[2] \in Nat
      OBVIOUS
    <2>1. PICK i \in Item : x = <<i, dated[i]>>
      BY DEF Q!Visible
    <2> QED
      BY <1>1, <2>1 DEF Numbered
  <1> QED
    BY <1>1, <1>2, <1>3

\* What is visible after a step: an item that appears is dated now, at the latest.
LEMMA VisibleNext ==
    ASSUME QueriesInv, [Q!Next]_queries
    PROVE  /\ apiNow <= apiNow' /\ apiNow' \in Nat
           /\ \A x \in Q!Visible' : x \in Q!Visible \/ (apiNow <= x[2] /\ x \in Numbered)
           /\ \A x \in Q!Visible' : x \in Numbered /\ x[2] <= apiNow'
           /\ api' = api /\ (api # "jira" => Q!Visible \subseteq Q!Visible')
  <1>1. CASE \E i \in Item : Q!Appear(i)
    <2>1. PICK i \in Item : Q!Appear(i)
      BY <1>1
    <2>2. /\ dated' = [dated EXCEPT ![i] = apiNow] /\ apiNow' = apiNow /\ api' = api
          /\ dated[i] = None \/ api = "jira"
      BY <2>1 DEF Q!Appear
    <2>3. ASSUME NEW x \in Q!Visible'
          PROVE  x \in Q!Visible \/ x = <<i, apiNow>>
      <3>1. PICK j \in Item : x = <<j, dated'[j]>> /\ dated'[j] # None
        BY DEF Q!Visible
      <3> QED
        BY <2>2, <3>1 DEF Q!Visible, QueriesInv, QueriesTypeOK
    <2>4. ASSUME api # "jira", NEW x \in Q!Visible
          PROVE  x \in Q!Visible'
      <3>1. PICK j \in Item : x = <<j, dated[j]>> /\ dated[j] # None
        BY DEF Q!Visible
      <3> QED
        BY <2>2, <2>4, <3>1 DEF Q!Visible, QueriesInv, QueriesTypeOK
    <2>5. apiNow \in Nat /\ <<i, apiNow>> \in Numbered /\ <<i, apiNow>>[2] = apiNow
      BY VisibleIs DEF Numbered
    <2> QED
      BY <2>2, <2>3, <2>4, <2>5, VisibleIs
  <1>2. CASE ~ \E i \in Item : Q!Appear(i)
    <2>1. dated' = dated /\ api' = api /\ (apiNow' = apiNow \/ apiNow' = apiNow + 1)
      BY <1>2 DEF Q!Next, Q!Step, queries, Q!Begin, Q!GetEntities, Q!GetFileList, Q!SearchIssues,
         Q!Exhausted, Q!Ingest, Q!Tick, Q!KeepWindow, Q!NextPage, Q!Write, Q!Advance,
         Q!RequestError, Q!Refused, Q!Stop, Q!IngestError, Q!AttachmentError, Q!Crash, Q!remote
    <2>2. Q!Visible' = Q!Visible
      BY <2>1 DEF Q!Visible
    <2> QED
      BY <2>1, <2>2, VisibleIs
  <1> QED
    BY <1>1, <1>2

\* Nothing is taken back.
LEMMA SettledNext ==
    ASSUME QueriesInv, [Q!Next]_queries
    PROVE  /\ tried \subseteq tried' /\ excused \subseteq excused'
           /\ \A x \in Q!Visible' : x \in Settled => x \in Settled'
           /\ \A d \in Nat : d <= apiNow /\ Covered(d) => Covered(d)'
  <1>1. tried \subseteq tried' /\ excused \subseteq excused'
    BY DEF Q!Next, Q!Step, queries, Q!Begin, Q!GetEntities, Q!GetFileList, Q!SearchIssues,
       Q!Exhausted, Q!Ingest, Q!Tick, Q!KeepWindow, Q!NextPage, Q!Write, Q!Advance, Q!RequestError,
       Q!Refused, Q!Stop, Q!IngestError, Q!AttachmentError, Q!Crash, Q!Appear, Q!Excuse
  <1>2. ASSUME NEW x \in Q!Visible', x \in Settled PROVE x \in Settled'
    BY <1>1, <1>2, VisibleNext DEF Settled, Q!LetGo, Q!Twins
  <1>3. ASSUME NEW d \in Nat, d <= apiNow, Covered(d) PROVE Covered(d)'
    <2> SUFFICES ASSUME NEW x \in Q!Visible', x[2] < d PROVE x \in Settled'
      BY DEF Covered
    <2>1. x \in Q!Visible
      BY <1>3, VisibleNext, VisibleIs DEF Numbered
    <2> QED
      BY <1>2, <1>3, <2>1 DEF Covered
  <1> QED
    BY <1>1, <1>2, <1>3

----------------------------------------------------------------------------
(* Queries: the dates of interest.                                          *)

\* The greatest date of those that were ingested, or the one there was.
LEMMA RaiseIsGreatest ==
    ASSUME QueriesInv, NEW S \in SUBSET answer, Q!Raise(S)
    PROVE  /\ maxDate' = maxDate \/ (api # "jira" /\ maxDate' \in Nat /\ maxDate' <= apiNow)
           /\ api # "lokiDefault" => maxDate' = maxDate \/ \E x \in S : maxDate' = x[2]
           /\ api = "jira" => maxDate' = maxDate
  <1> DEFINE dates == {Q!Attribute(x) : x \in S} \cup ({maxDate} \ {None})
  <1>1. \A x \in S : x[2] \in Nat /\ x[2] <= apiNow
    BY DEF QueriesInv, QueriesTypeOK
  <1>2. apiNow \in Nat /\ maxDate \in Nat \cup {None} /\ (maxDate # None => maxDate <= apiNow)
    BY DEF QueriesInv, QueriesTypeOK
  <1>3. dates \in SUBSET Nat /\ \A n \in dates : n <= apiNow
    BY <1>1, <1>2 DEF Q!Attribute
  <1>4. maxDate' = IF api = "jira" \/ dates = {} THEN maxDate ELSE Q!Max(dates)
    BY DEF Q!Raise
  <1>5. dates # {} => Q!Max(dates) \in dates
    <2> HIDE DEF dates
    <2> QED
      BY <1>2, <1>3, MaxIsGreatest
  <1>6. \A n \in dates : n = maxDate \/ \E x \in S : n = Q!Attribute(x)
    OBVIOUS
  <1> HIDE DEF dates
  <1> QED
    BY <1>2, <1>3, <1>4, <1>5, <1>6 DEF Q!Attribute

LEMMA LastIssueIsGreatest ==
    ASSUME QueriesInv
    PROVE  /\ Q!LastIssue \in Nat /\ Q!LastIssue <= apiNow /\ lastDate <= Q!LastIssue
           /\ Q!LastIssue = lastDate \/ \E x \in answer : Q!LastIssue = x[2]
           /\ \A x \in answer : x[2] <= Q!LastIssue
  <1> DEFINE dates == {x[2] : x \in answer} \cup {lastDate}
  <1>1. apiNow \in Nat /\ dates \in SUBSET Nat /\ dates # {} /\ \A n \in dates : n <= apiNow
    BY DEF QueriesInv, QueriesTypeOK
  <1>2. Q!Max(dates) \in dates /\ \A n \in dates : n <= Q!Max(dates)
    <2> HIDE DEF dates
    <2> QED
      BY <1>1, MaxIsGreatest
  <1> QED
    BY <1>1, <1>2 DEF Q!LastIssue

----------------------------------------------------------------------------
(* Queries: typing.                                                         *)

\* What a step of a query leaves alone.
LEMMA QueriesAlone ==
    ASSUME QueriesInv, [Q!Next]_queries
    PROVE  \/ \E i \in Item : Q!Appear(i)
           \/ Q!Advance
           \/ UNCHANGED queries
           \/ /\ UNCHANGED <<api, apiNow, dated>>
              /\ \/ Q!Begin \/ Q!GetEntities \/ Q!GetFileList \/ Q!SearchIssues \/ Q!Exhausted
                 \/ Q!Ingest \/ Q!Tick \/ Q!KeepWindow \/ Q!NextPage \/ Q!Write
                 \/ Q!RequestError \/ Q!Refused \/ Q!Stop \/ Q!IngestError \/ Q!AttachmentError
                 \/ Q!Crash
  BY DEF Q!Next, Q!Step, Q!Begin, Q!GetEntities, Q!GetFileList, Q!SearchIssues, Q!Exhausted,
     Q!Ingest, Q!Tick, Q!KeepWindow, Q!NextPage, Q!Write, Q!RequestError, Q!Refused, Q!Stop,
     Q!IngestError, Q!AttachmentError, Q!Crash, Q!remote

Dated == {x \in Numbered : 1 <= x[2] /\ x[2] <= apiNow}

LEMMA QueriesInit == Q!Init => QueriesInv
  <1> SUFFICES ASSUME Q!Init PROVE QueriesInv
    OBVIOUS
  <1>1. Q!Visible = {}
    BY DEF Q!Init, Q!Visible
  <1>2. QueriesTypeOK
    BY <1>1, QueriesAssumption DEF Q!Init, QueriesTypeOK, Q!IsLoki, Ingesting
  <1> QED
    BY <1>1, <1>2, QueriesAssumption DEF Q!Init, QueriesInv, LokiIsCovered, MpipIsCovered,
       JiraIsCovered, Covered, Ingesting

LEMMA QueriesTyping ==
    ASSUME QueriesInv, [Q!Next]_queries
    PROVE  QueriesTypeOK'
  <1> USE DEF Ingesting, Q!IsLoki
  <1>1. CASE \E i \in Item : Q!Appear(i)
    <2>1. PICK i \in Item : Q!Appear(i)
      BY <1>1
    <2>2. dated' = [dated EXCEPT ![i] = apiNow]
      BY <2>1 DEF Q!Appear
    <2>3. UNCHANGED <<api, apiNow, lastDate, queryAt, start, end, cursor, fetched, answer,
                      maxDate, tried, excused>>
      BY <2>1 DEF Q!Appear, Q!query
    <2>4. Q!Visible' \subseteq Dated'
      BY <2>3, VisibleNext, VisibleIs DEF Dated, Numbered, QueriesInv, QueriesTypeOK
    <2> QED
      BY <2>2, <2>3, <2>4 DEF QueriesInv, QueriesTypeOK, Dated, Numbered
  <1>2. CASE Q!Advance
    <2>1. /\ UNCHANGED <<api, dated, lastDate, queryAt, start, end, cursor, fetched, answer,
                         maxDate, tried, excused>>
          /\ apiNow' = apiNow + 1
      BY <1>2 DEF Q!Advance, Q!query
    <2>2. Dated \subseteq Dated' /\ apiNow' \in Nat \ {0}
      BY <2>1 DEF Dated, Numbered, QueriesInv, QueriesTypeOK
    <2>3. Q!Visible' = Q!Visible
      BY <2>1 DEF Q!Visible
    <2>4. (Q!Visible \cup tried \cup excused \cup answer) \subseteq Dated'
      BY <2>2 DEF QueriesInv, QueriesTypeOK, Dated, Numbered
    <2> QED
      BY <2>1, <2>2, <2>3, <2>4 DEF QueriesInv, QueriesTypeOK, Dated, Numbered
  <1>3. CASE UNCHANGED queries
    BY <1>3 DEF queries, QueriesInv, QueriesTypeOK, Q!Visible
  <1> SUFFICES ASSUME UNCHANGED <<api, apiNow, dated>>, ~ (\E i \in Item : Q!Appear(i)),
                      ~ Q!Advance, ~ UNCHANGED queries
               PROVE  QueriesTypeOK'
    BY <1>1, <1>2, <1>3, QueriesAlone
  <1>4. Q!Visible' = Q!Visible /\ Dated' = Dated
    BY DEF Q!Visible, Dated
  <1>5. /\ dated \in [Item -> Nat \cup {None}] /\ Q!Visible \subseteq Dated
        /\ tried \cup excused \cup answer \subseteq Dated
        /\ Q!InWindow \subseteq Dated /\ Q!Files \subseteq Dated /\ Q!Issues \subseteq Dated
        /\ apiNow \in Nat \ {0} /\ api \in {"loki", "lokiDefault", "mpip", "jira"}
    BY DEF QueriesInv, QueriesTypeOK, Dated, Numbered, Q!InWindow, Q!Files, Q!Issues
  <1> DEFINE Sets == tried' \cup excused' \cup answer' \subseteq Dated
             Numbers == /\ {lastDate, start, end, cursor}' \subseteq Nat
                        /\ lastDate' <= apiNow /\ start' <= apiNow /\ end' <= apiNow
                        /\ (Q!IsLoki => cursor' <= apiNow)
                        /\ maxDate' \in Nat \cup {None} /\ (maxDate' # None => maxDate' <= apiNow)
             Steps == /\ queryAt' \in {"idle", "query", "page", "tick", "keep", "write"}
                      /\ queryAt' = "idle" => ~fetched'
                      /\ Ingesting' => fetched'
                      /\ queryAt' \in {"tick", "keep"} => answer' \subseteq tried' \cup excused'
  <1>6. SUFFICES Sets /\ Numbers /\ Steps
    <2> HIDE DEF Sets, Numbers, Steps
    <2>1. (Sets /\ Numbers /\ Steps) => QueriesTypeOK'
      BY <1>4, <1>5 DEF QueriesTypeOK, Sets, Numbers, Steps, Dated, Numbered
    <2> QED
      BY <2>1
  <1>7. /\ {lastDate, start, end, cursor} \subseteq Nat
        /\ lastDate <= apiNow /\ start <= apiNow /\ end <= apiNow
        /\ (Q!IsLoki => cursor <= apiNow)
        /\ maxDate \in Nat \cup {None} /\ (maxDate # None => maxDate <= apiNow)
        /\ queryAt \in {"idle", "query", "page", "tick", "keep", "write"}
        /\ queryAt = "idle" => ~fetched
        /\ Ingesting => fetched
        /\ queryAt \in {"tick", "keep"} => answer \subseteq tried \cup excused
    BY DEF QueriesInv, QueriesTypeOK
  <1>8. CASE Q!Begin
    <2>1. UNCHANGED <<lastDate, tried, excused>>
      BY <1>8 DEF Q!Begin
    <2> QED
      BY <1>8, <2>1, <1>5, <1>7 DEF Q!Begin
  <1>9. CASE Q!GetEntities \/ Q!GetFileList \/ Q!SearchIssues
    <2>1. UNCHANGED <<lastDate, start, end, cursor, maxDate, tried>>
      BY <1>9 DEF Q!GetEntities, Q!GetFileList, Q!SearchIssues
    <2>2. /\ fetched' = TRUE /\ queryAt' = "page" /\ answer' \subseteq Dated
          /\ excused' \subseteq excused \cup Dated
      BY <1>9, <1>5 DEF Q!GetEntities, Q!GetFileList, Q!SearchIssues
    <2> QED
      BY <2>1, <2>2, <1>5, <1>7
  <1>10. CASE Q!Exhausted \/ Q!Refused
    <2>1. UNCHANGED <<lastDate, start, end, cursor, maxDate, tried, excused, answer, fetched>>
      BY <1>10 DEF Q!Exhausted, Q!Refused, Q!query
    <2> QED
      BY <1>10, <2>1, <1>5, <1>7 DEF Q!Exhausted, Q!Refused
  <1>11. CASE Q!Ingest
    <2>1. UNCHANGED <<lastDate, start, end, cursor, fetched, excused, answer>>
      BY <1>11 DEF Q!Ingest, Q!query
    <2>2. /\ Q!New \subseteq answer /\ Q!Raise(Q!New) /\ tried' = tried \cup answer
          /\ queryAt = "page" /\ queryAt' = "tick"
      BY <1>11 DEF Q!Ingest, Q!New
    <2> QED
      BY <2>1, <2>2, <1>5, <1>7, RaiseIsGreatest
  <1>12. CASE Q!Tick
    <2>1. UNCHANGED <<start, end, cursor, fetched, excused, answer, maxDate, tried>>
      BY <1>12 DEF Q!Tick, Q!query
    <2>2. lastDate' \in Nat /\ lastDate' <= apiNow
      BY <1>12, <1>7, LastIssueIsGreatest DEF Q!Tick, Q!DateOfInterest
    <2> QED
      BY <1>12, <2>1, <2>2, <1>5, <1>7 DEF Q!Tick
  <1>13. CASE Q!KeepWindow
    <2>1. UNCHANGED <<start, end, fetched, excused, answer, maxDate, tried>>
      BY <1>13 DEF Q!KeepWindow
    <2>2. lastDate' = cursor /\ cursor' = Q!WindowEnd /\ queryAt' = "query"
      BY <1>13 DEF Q!KeepWindow
    <2> QED
      BY <1>13, <2>1, <2>2, <1>5, <1>7, WindowEnds DEF Q!KeepWindow
  <1>14. CASE Q!NextPage
    <2>1. UNCHANGED <<start, end, fetched, excused, answer, maxDate, tried, lastDate>>
      BY <1>14 DEF Q!NextPage
    <2>2. queryAt' \in {"write", "query"} /\ cursor' \in {cursor, cursor + 1} /\ api = "mpip"
      BY <1>14 DEF Q!NextPage
    <2> QED
      BY <2>1, <2>2, <1>5, <1>7
  <1>15. CASE Q!Write \/ Q!Crash
    <2>1. /\ queryAt' = "idle" /\ start' = 0 /\ end' = 0 /\ cursor' = 0 /\ fetched' = FALSE
          /\ answer' = {} /\ maxDate' = None /\ tried' = tried
          /\ lastDate' = lastDate \/ (maxDate # None /\ lastDate' = maxDate)
          /\ excused' \subseteq excused \cup Q!Files
      BY <1>15 DEF Q!Write, Q!Crash, Q!EndPass, Q!Excuse
    <2> QED
      BY <2>1, <1>5, <1>7
  <1>16. CASE Q!RequestError
    <2>1. UNCHANGED <<lastDate, start, end, cursor, fetched, answer, tried>>
      BY <1>16 DEF Q!RequestError, Q!query
    <2>2. /\ excused' \subseteq excused \cup Q!Files \cup Q!InWindow /\ maxDate' \in {maxDate, None}
          /\ queryAt' = "write" \/ (queryAt' = "page" /\ fetched)
      BY <1>16 DEF Q!RequestError, Q!Excuse
    <2> QED
      BY <2>1, <2>2, <1>5, <1>7
  <1>17. CASE Q!Stop
    <2>1. UNCHANGED <<lastDate, start, end, cursor, fetched, maxDate, tried>>
      BY <1>17 DEF Q!Stop, Q!query
    <2>2. /\ excused' \subseteq excused \cup Q!Files /\ answer' \subseteq answer
          /\ queryAt' = "write" \/ (queryAt' = "page" /\ queryAt = "page")
      BY <1>17 DEF Q!Stop, Q!Excuse
    <2> QED
      BY <2>1, <2>2, <1>5, <1>7
  <1>18. CASE Q!IngestError
    <2>1. UNCHANGED <<lastDate, start, end, cursor, fetched, answer>>
      BY <1>18 DEF Q!IngestError, Q!query
    <2>2. PICK new \in SUBSET Q!New :
              /\ tried' = tried \cup new /\ Q!Raise(new)
              /\ excused' = (IF api = "mpip" THEN excused \cup Q!Files ELSE excused)
                                \cup (Q!New \ new)
      BY <1>18 DEF Q!IngestError
    <2>3. Q!New = answer \ tried /\ queryAt = "page" /\ queryAt' \in {"tick", "write"}
      BY <1>18 DEF Q!IngestError, Q!New
    <2>4. /\ maxDate' \in Nat \cup {None} /\ (maxDate' # None => maxDate' <= apiNow)
      BY <2>2, <2>3, <1>7, RaiseIsGreatest
    <2>5. Sets /\ answer' \subseteq tried' \cup excused'
      BY <2>1, <2>2, <2>3, <1>5
    <2> QED
      BY <2>1, <2>3, <2>4, <2>5, <1>7
  <1>19. CASE Q!AttachmentError
    <2>1. UNCHANGED <<lastDate, start, end, cursor, fetched, answer, maxDate, excused>>
      BY <1>19 DEF Q!AttachmentError, Q!query
    <2>2. tried' = tried \cup answer /\ queryAt' = "write"
      BY <1>19 DEF Q!AttachmentError
    <2> QED
      BY <2>1, <2>2, <1>5, <1>7
  <1> QED
    BY <1>8, <1>9, <1>10, <1>11, <1>12, <1>13, <1>14, <1>15, <1>16, <1>17, <1>18, <1>19,
       QueriesAlone

----------------------------------------------------------------------------
(* Queries: Loki, window after window.                                      *)

\* A line that appears is of no window there is.
LEMMA WindowNext ==
    ASSUME QueriesInv, [Q!Next]_queries, api = "loki", cursor' = cursor, end' = end
    PROVE  Q!InWindow' \subseteq Q!InWindow
  <1> SUFFICES ASSUME NEW x \in Q!Visible', cursor <= x[2], x[2] < Q!WindowEnd
               PROVE  x \in Q!InWindow
    BY DEF Q!InWindow, Q!WindowEnd
  <1>1. Q!WindowEnd \in Nat /\ Q!WindowEnd <= end /\ end \in Nat /\ end <= apiNow /\ apiNow \in Nat
    BY WindowEnds DEF QueriesInv, QueriesTypeOK
  <1>2. x \in Q!Visible \/ apiNow <= x[2]
    BY VisibleNext
  <1>3. x[2] \in Nat
    BY VisibleNext DEF Numbered
  <1> QED
    BY <1>1, <1>2, <1>3 DEF Q!InWindow

\* What is before the end of the window is in hand or settled.
LEMMA WindowCovers ==
    ASSUME QueriesInv, [Q!Next]_queries, api = "loki", Ingesting,
           answer \subseteq tried' \cup excused', NEW d \in Nat, d <= Q!WindowEnd
    PROVE  Covered(d)'
  <1> SUFFICES ASSUME NEW x \in Q!Visible', x[2] < d
               PROVE  x \in Settled'
    BY DEF Covered
  <1>1. /\ Q!WindowEnd \in Nat /\ Q!WindowEnd <= end
        /\ end \in Nat /\ end <= apiNow /\ apiNow \in Nat
        /\ cursor \in Nat
    BY WindowEnds DEF QueriesInv, QueriesTypeOK
  <1>2. x[2] \in Nat
    BY VisibleNext DEF Numbered
  <1>3. x \in Q!Visible
    BY <1>1, <1>2, VisibleNext
  <1>4. CASE x[2] < cursor
    BY <1>3, <1>4, SettledNext DEF QueriesInv, LokiIsCovered, Covered
  <1>5. CASE ~(x[2] < cursor)
    <2>1. x \in Q!InWindow
      BY <1>1, <1>2, <1>3, <1>5 DEF Q!InWindow
    <2>2. x \in answer \/ x \in Settled
      BY <2>1 DEF QueriesInv, LokiIsCovered
    <2> QED
      BY <2>2, SettledNext DEF Settled, Q!LetGo
  <1> QED
    BY <1>4, <1>5

LEMMA LokiStep ==
    ASSUME QueriesInv, [Q!Next]_queries
    PROVE  LokiIsCovered'
  <1> SUFFICES ASSUME api = "loki"
               PROVE  LokiIsCovered'
    BY VisibleNext DEF LokiIsCovered
  <1> USE DEF Q!IsLoki
  <1>1. /\ api' = "loki" /\ apiNow \in Nat
        /\ {lastDate, cursor, end} \subseteq Nat
        /\ lastDate <= apiNow /\ cursor <= apiNow /\ end <= apiNow
        /\ maxDate \in Nat \cup {None} /\ (maxDate # None => maxDate <= apiNow)
        /\ Covered(lastDate) /\ (maxDate # None => Covered(maxDate))
        /\ queryAt = "query" => Covered(cursor) /\ \A x \in answer : x[2] < cursor
        /\ Ingesting => /\ Covered(cursor) /\ cursor < end
                        /\ \A x \in answer : x[2] < Q!WindowEnd
                        /\ Q!InWindow \subseteq answer \cup Settled
    BY VisibleNext DEF QueriesInv, QueriesTypeOK, LokiIsCovered
  <1>2. Covered(lastDate)' \/ lastDate' # lastDate
    BY <1>1, SettledNext DEF Covered
  <1>3. maxDate # None => Covered(maxDate)' \/ maxDate' # maxDate
    BY <1>1, SettledNext DEF Covered
  <1>4. Covered(cursor) => Covered(cursor)' \/ cursor' # cursor
    BY <1>1, SettledNext DEF Covered
  <1>5. \A x \in answer : x[2] \in Nat
    BY VisibleIs DEF Numbered
  \* Steps that keep the window in hand.
  <1>6. ASSUME UNCHANGED <<cursor, end, answer>>, Ingesting
        PROVE  /\ Covered(cursor)' /\ cursor' < end'
               /\ \A x \in answer' : x[2] < Q!WindowEnd'
               /\ Q!InWindow' \subseteq answer' \cup Settled'
    <2>1. Q!WindowEnd' = Q!WindowEnd
      BY <1>6 DEF Q!WindowEnd
    <2>2. Q!InWindow' \subseteq Q!InWindow /\ Q!InWindow' \subseteq Q!Visible'
      BY <1>1, <1>6, WindowNext DEF Q!InWindow
    <2> QED
      BY <1>1, <1>4, <1>6, <2>1, <2>2, SettledNext
  <1>7. CASE UNCHANGED <<lastDate, queryAt, end, cursor, answer, maxDate>>
    <2>1. Ingesting' <=> Ingesting
      BY <1>7 DEF Ingesting
    <2> QED
      BY <1>1, <1>2, <1>3, <1>4, <1>6, <1>7, <2>1 DEF LokiIsCovered
  <1>8. CASE Q!Begin
    <2>1. /\ lastDate' = lastDate /\ cursor' = lastDate /\ answer' = {} /\ maxDate' = None
          /\ queryAt' = "query" /\ ~Ingesting'
      BY <1>8 DEF Q!Begin, Ingesting
    <2>2. Covered(lastDate)' /\ Covered(cursor)'
      BY <1>2, <2>1 DEF Covered
    <2> QED
      BY <2>1, <2>2 DEF LokiIsCovered
  <1>9. CASE Q!GetEntities
    <2>1. /\ UNCHANGED <<lastDate, end, cursor, maxDate>> /\ queryAt = "query" /\ cursor < end
          /\ queryAt' = "page" /\ answer' \subseteq Q!InWindow
          /\ excused' = excused \cup (Q!InWindow \ answer')
      BY <1>9 DEF Q!GetEntities
    <2>2. Q!WindowEnd' = Q!WindowEnd
      BY <2>1 DEF Q!WindowEnd
    <2>3. Q!InWindow' \subseteq Q!InWindow
      BY <1>1, <2>1, WindowNext
    <2>4. Q!InWindow' \subseteq answer' \cup Settled'
      BY <2>1, <2>3 DEF Settled, Q!LetGo
    <2>5. \A x \in answer' : x[2] < Q!WindowEnd'
      BY <2>1, <2>2 DEF Q!InWindow
    <2> QED
      BY <1>1, <1>2, <1>3, <1>4, <2>1, <2>4, <2>5 DEF LokiIsCovered
  <1>10. CASE Q!RequestError
    <2>1. /\ UNCHANGED <<lastDate, end, cursor, answer>> /\ queryAt = "query" /\ cursor < end
          /\ \/ queryAt' = "page" /\ maxDate' = maxDate /\ excused' = excused \cup Q!InWindow
             \/ queryAt' = "write" /\ maxDate' = None
      BY <1>1, <1>10 DEF Q!RequestError, Q!query
    <2>2. CASE queryAt' = "write"
      BY <1>1, <1>2, <2>1, <2>2 DEF LokiIsCovered, Ingesting
    <2>3. CASE queryAt' = "page"
      <3>1. Q!WindowEnd' = Q!WindowEnd /\ Q!InWindow' \subseteq Q!InWindow
        BY <1>1, <2>1, WindowNext DEF Q!WindowEnd
      <3>2. Q!InWindow' \subseteq answer' \cup Settled'
        BY <2>1, <2>3, <3>1 DEF Settled, Q!LetGo
      <3>3. \A x \in answer' : x[2] < Q!WindowEnd'
        BY <1>1, <1>5, <2>1, <3>1, WindowEnds
      <3> QED
        BY <1>1, <1>2, <1>3, <1>4, <2>1, <2>3, <3>2, <3>3 DEF LokiIsCovered
    <2> QED
      BY <2>1, <2>2, <2>3
  <1>11. CASE Q!Refused \/ Q!Exhausted \/ Q!Stop
    <2>1. queryAt' = "write" /\ UNCHANGED <<lastDate, maxDate>>
      BY <1>1, <1>11 DEF Q!Refused, Q!Exhausted, Q!Stop
    <2> QED
      BY <1>1, <1>2, <1>3, <2>1 DEF LokiIsCovered, Ingesting
  <1>12. CASE Q!Ingest \/ Q!IngestError
    <2>1. PICK new \in SUBSET Q!New :
              /\ tried' = tried \cup new /\ Q!Raise(new)
              /\ Q!New \subseteq tried' \cup excused'
      BY <1>1, <1>12 DEF Q!Ingest, Q!IngestError, Q!New
    <2>2. /\ UNCHANGED <<lastDate, cursor, end, answer>> /\ Q!New = answer \ tried
          /\ queryAt = "page" /\ queryAt' \in {"tick", "write"}
      BY <1>1, <1>12 DEF Q!Ingest, Q!IngestError, Q!New, Q!query
    <2>3. answer \subseteq tried' \cup excused' /\ Ingesting
      BY <2>1, <2>2 DEF Ingesting
    <2>4. maxDate' # None => Covered(maxDate)'
      <3>1. maxDate' = maxDate \/ \E x \in new : maxDate' = x[2]
        BY <1>1, <2>1, <2>2, RaiseIsGreatest
      <3>2. ASSUME NEW x \in answer, maxDate' = x[2] PROVE Covered(maxDate)'
        <4>1. x[2] \in Nat /\ x[2] <= Q!WindowEnd
          BY <1>1, <1>5, <2>3, WindowEnds
        <4>2. Covered(x[2])'
          BY <1>1, <2>3, <4>1, WindowCovers
        <4> QED
          BY <3>2, <4>2 DEF Covered
      <3> QED
        BY <1>3, <2>1, <2>2, <3>1, <3>2
    <2> QED
      BY <1>1, <1>2, <1>6, <2>2, <2>3, <2>4 DEF LokiIsCovered
  <1>13. CASE Q!Tick
    <2>1. /\ UNCHANGED <<cursor, end, answer, maxDate>> /\ queryAt = "tick" /\ queryAt' = "keep"
          /\ lastDate' = lastDate \/ (maxDate # None /\ lastDate' = maxDate)
      BY <1>1, <1>13 DEF Q!Tick, Q!DateOfInterest, Q!query
    <2>2. Covered(lastDate)'
      BY <1>2, <1>3, <2>1 DEF Covered
    <2> QED
      BY <1>1, <1>3, <1>6, <2>1, <2>2 DEF LokiIsCovered, Ingesting
  <1>14. CASE Q!KeepWindow
    <2>1. /\ UNCHANGED <<end, answer, maxDate, tried, excused>> /\ queryAt = "keep"
          /\ queryAt' = "query" /\ lastDate' = cursor /\ cursor' = Q!WindowEnd
      BY <1>14 DEF Q!KeepWindow
    <2>2. answer \subseteq tried' \cup excused' /\ Ingesting
      BY <2>1 DEF Ingesting, QueriesInv, QueriesTypeOK
    <2>3. Covered(lastDate)' /\ Covered(cursor)'
      <3>1. Q!WindowEnd \in Nat /\ cursor < Q!WindowEnd
        BY <1>1, <2>2, WindowEnds
      <3>2. \A d \in Nat : d <= Q!WindowEnd => Covered(d)'
        BY <1>1, <2>2, WindowCovers
      <3> QED
        BY <1>1, <2>1, <3>1, <3>2 DEF Covered
    <2> QED
      BY <1>1, <1>3, <2>1, <2>2, <2>3 DEF LokiIsCovered, Ingesting
  <1>15. CASE Q!Write \/ Q!Crash
    <2>1. /\ queryAt' = "idle" /\ maxDate' = None
          /\ lastDate' = lastDate \/ (maxDate # None /\ lastDate' = maxDate)
      BY <1>15 DEF Q!Write, Q!Crash, Q!EndPass
    <2>2. Covered(lastDate)'
      <3>1. \A d \in Nat : d <= apiNow /\ Covered(d) => Covered(d)'
        BY SettledNext
      <3> QED
        BY <1>1, <1>2, <2>1, <3>1 DEF Covered
    <2> QED
      BY <2>1, <2>2 DEF LokiIsCovered, Ingesting
  <1>16. ~(Q!GetFileList \/ Q!SearchIssues \/ Q!NextPage \/ Q!AttachmentError)
    BY <1>1 DEF Q!GetFileList, Q!SearchIssues, Q!NextPage, Q!AttachmentError
  <1>17. CASE UNCHANGED queries \/ Q!Advance \/ \E i \in Item : Q!Appear(i)
    BY <1>7, <1>17 DEF queries, Q!Advance, Q!Appear, Q!query
  <1> QED
    BY <1>8, <1>9, <1>10, <1>11, <1>12, <1>13, <1>14, <1>15, <1>16, <1>17, QueriesAlone

----------------------------------------------------------------------------
(* Queries: MPIP, page after page, the newest first.                        *)

\* The files of a pass stay, at the same rank or further from the first.
LEMMA FilesNext ==
    ASSUME QueriesInv, [Q!Next]_queries, api = "mpip", start' = start
    PROVE  \A x \in Q!Files' :
               \/ x \in Q!Files /\ Rank(x) \in Nat /\ Rank(x)' \in Nat /\ Rank(x) <= Rank(x)'
               \/ apiNow <= x[2]
  <1>1. Q!Files \subseteq Q!Files'
    BY VisibleNext DEF Q!Files
  <1>2. Q!Files' \in SUBSET Numbered /\ IsFiniteSet(Q!Files')
    <2>1. Q!Files' \in SUBSET Q!Visible'
      BY DEF Q!Files
    <2>2. Q!Visible' \in SUBSET Numbered /\ \A x \in Q!Visible' : 1 <= x[2] /\ x[2] <= apiNow'
      BY QueriesTyping DEF QueriesTypeOK, Numbered
    <2> QED
      BY <2>1, <2>2, VisibleNext, DatedIsFinite
  <1>3. ASSUME NEW x PROVE Rank(x) \in Nat /\ Rank(x)' \in Nat /\ Rank(x) <= Rank(x)'
    <2>1. Rank(x)' = Q!RankIn(Q!Files', x)
      BY DEF Rank, Q!RankIn, Q!IsAfter
    <2>2. IsFiniteSet(Q!Files) /\ Q!Files \in SUBSET Numbered
      BY <1>1, <1>2, FS_Subset
    <2> QED
      BY <1>1, <1>2, <2>1, <2>2, Ranks, RankGrows DEF Rank
  <1>4. \A x \in Q!Files' : x \in Q!Files \/ apiNow <= x[2]
    BY VisibleNext DEF Q!Files
  <1> QED
    BY <1>3, <1>4

\* What a page leaves is later than it, or there are other pages.
LEMMA PageLeaves ==
    ASSUME QueriesInv, api = "mpip", queryAt = "query", NEW x \in Q!Files,
           NEW P,
           P = {y \in Q!Files : Rank(y) \in PageSize * cursor .. PageSize * (cursor + 1) - 1},
           x \notin P
    PROVE  \/ Rank(x) < PageSize * cursor /\ \A y \in P : y[2] <= x[2]
           \/ PageSize * (cursor + 1) <= Rank(x) /\ PageSize <= Cardinality(P)
  <1>1. Q!Files \in SUBSET Numbered /\ IsFiniteSet(Q!Files)
    BY VisibleIs, FS_Subset DEF Q!Files
  <1> DEFINE m == PageSize * cursor
             n == PageSize * (cursor + 1)
  <1>2. m \in Nat /\ n \in Nat /\ n = m + PageSize /\ PageSize \in Nat
    BY QueriesAssumption DEF QueriesInv, QueriesTypeOK
  <1>3. P = {y \in Q!Files : Q!RankIn(Q!Files, y) \in m .. n - 1}
    BY DEF Rank
  <1> HIDE DEF m, n
  <1>4. \A y \in Q!Files : Rank(y) \in Nat
    BY <1>1, Ranks DEF Rank
  <1>5. CASE n <= Rank(x)
    <2>1. n - m <= Cardinality(P)
      BY <1>1, <1>2, <1>3, <1>5, PageIsFull DEF Rank
    <2>2. n - m = PageSize
      BY <1>2
    <2> QED
      BY <1>5, <2>1, <2>2 DEF n
  <1>6. CASE Rank(x) < m
    <2> SUFFICES ASSUME NEW y \in P PROVE y[2] <= x[2]
      BY <1>6 DEF m
    <2>1. y \in Q!Files /\ m <= Rank(y)
      BY <1>3, <1>4, <1>2 DEF Rank
    <2>2. ~ Q!IsAfter(y, x)
      BY <1>1, <1>2, <1>4, <1>6, <2>1, RankOrder DEF Rank
    <2> QED
      BY <1>1, <2>1, <2>2 DEF Q!IsAfter, Numbered
  <1> QED
    BY <1>2, <1>3, <1>4, <1>5, <1>6 DEF Rank

LEMMA MpipStep ==
    ASSUME QueriesInv, [Q!Next]_queries
    PROVE  MpipIsCovered'
  <1> SUFFICES ASSUME api = "mpip"
               PROVE  MpipIsCovered'
    BY VisibleNext DEF MpipIsCovered
  <1>1. /\ api' = "mpip" /\ apiNow \in Nat /\ {lastDate, start, cursor} \subseteq Nat
        /\ lastDate <= apiNow /\ start <= apiNow
        /\ maxDate \in Nat \cup {None} /\ (maxDate # None => maxDate <= apiNow)
        /\ (Ingesting => fetched) /\ (queryAt = "idle" => ~fetched)
        /\ queryAt \in {"idle", "query", "page", "tick", "keep", "write"}
        /\ \A x \in answer : x[2] \in Nat /\ x[2] <= apiNow
        /\ queryAt \in {"tick", "keep"} => answer \subseteq tried \cup excused
        /\ PageSize \in Nat
    BY VisibleNext, QueriesAssumption DEF QueriesInv, QueriesTypeOK
  <1>2. /\ queryAt = "idle" => Covered(lastDate)
        /\ queryAt # "idle" => Covered(start) /\ (~fetched => lastDate = start /\ maxDate = None)
        /\ queryAt = "query" =>
               \A x \in Q!Files \ Settled : IsLater(x) \/ PageSize * cursor <= Rank(x)
        /\ Ingesting =>
               \A x \in Q!Files \ (Settled \cup answer) :
                   \/ IsLater(x) /\ \A y \in answer : y[2] <= x[2]
                   \/ PageSize * (cursor + 1) <= Rank(x) /\ ~Q!IsLastPage
        /\ queryAt = "write" => \A x \in Q!Files \ Settled : IsLater(x)
    BY DEF QueriesInv, MpipIsCovered
  <1>3. queryAt # "idle" => Covered(start)' \/ start' # start
    BY <1>1, <1>2, SettledNext DEF Covered
  <1>4. ASSUME UNCHANGED start, NEW x \in Q!Files', x \notin Settled'
        PROVE  /\ x[2] \in Nat /\ start <= x[2]
               /\ x \in Q!Files \ Settled \/ apiNow <= x[2]
    BY <1>1, <1>4, VisibleNext, FilesNext, SettledNext DEF Q!Files, Numbered
  <1>5. ASSUME UNCHANGED start, queryAt # "idle", Q!Files \subseteq excused' \/ ~fetched,
               UNCHANGED <<lastDate, maxDate, fetched, dated>>, queryAt' = "write"
        PROVE  MpipIsCovered'
    <2>1. Q!Files' = Q!Files
      BY <1>5 DEF Q!Files, Q!Visible
    <2>2. ASSUME NEW x \in Q!Files', x \notin Settled' PROVE IsLater(x)'
      <3>1. ~fetched
        BY <1>5, <2>1, <2>2 DEF Settled, Q!LetGo
      <3> QED
        BY <1>2, <1>4, <1>5, <2>2, <3>1 DEF IsLater
    <2> QED
      BY <1>2, <1>3, <1>5, <2>2 DEF MpipIsCovered, Ingesting
  <1>6. CASE UNCHANGED <<lastDate, queryAt, start, cursor, fetched, answer, maxDate>>
    <2>1. Ingesting' <=> Ingesting
      BY <1>6 DEF Ingesting
    <2>2. queryAt = "idle" => Covered(lastDate)'
      BY <1>1, <1>2, <1>6, SettledNext DEF Covered
    <2>3. ASSUME NEW x \in Q!Files', apiNow <= x[2]
          PROVE  IsLater(x)' /\ \A y \in answer' : y[2] <= x[2]
      BY <1>1, <1>6, <2>3, VisibleNext DEF IsLater, Q!Files, Numbered
    <2>4. ASSUME queryAt = "query", NEW x \in Q!Files' \ Settled'
          PROVE  IsLater(x)' \/ PageSize * cursor' <= Rank(x)'
      <3>1. CASE apiNow <= x[2]
        BY <2>3, <3>1
      <3>2. CASE ~(apiNow <= x[2])
        <4>1. x \in Q!Files \ Settled /\ Rank(x) \in Nat /\ Rank(x)' \in Nat /\ Rank(x) <= Rank(x)'
          BY <1>4, <1>6, <3>2, FilesNext
        <4>2. IsLater(x) \/ PageSize * cursor <= Rank(x)
          BY <1>2, <2>4, <4>1
        <4>3. PageSize * cursor \in Nat
          BY <1>1
        <4> QED
          BY <1>6, <4>1, <4>2, <4>3 DEF IsLater
      <3> QED
        BY <3>1, <3>2
    <2>5. ASSUME Ingesting, NEW x \in Q!Files' \ (Settled' \cup answer')
          PROVE  \/ IsLater(x)' /\ \A y \in answer' : y[2] <= x[2]
                 \/ PageSize * (cursor' + 1) <= Rank(x)' /\ ~Q!IsLastPage'
      <3>1. CASE apiNow <= x[2]
        BY <2>3, <3>1
      <3>2. CASE ~(apiNow <= x[2])
        <4>1. x \in Q!Files \ Settled /\ Rank(x) \in Nat /\ Rank(x)' \in Nat /\ Rank(x) <= Rank(x)'
          BY <1>4, <1>6, <3>2, FilesNext
        <4>2. \/ IsLater(x) /\ \A y \in answer : y[2] <= x[2]
              \/ PageSize * (cursor + 1) <= Rank(x) /\ ~Q!IsLastPage
          BY <1>2, <1>6, <2>5, <4>1
        <4>3. PageSize * (cursor + 1) \in Nat
          BY <1>1
        <4>4. Q!IsLastPage' <=> Q!IsLastPage
          BY <1>6 DEF Q!IsLastPage
        <4>5. IsLater(x) => IsLater(x)'
          BY <1>6 DEF IsLater
        <4> QED
          BY <1>6, <4>1, <4>2, <4>3, <4>4, <4>5
      <3> QED
        BY <3>1, <3>2
    <2>6. ASSUME queryAt = "write", NEW x \in Q!Files' \ Settled'
          PROVE  IsLater(x)'
      <3>1. CASE apiNow <= x[2]
        BY <2>3, <3>1
      <3>2. CASE ~(apiNow <= x[2])
        BY <1>2, <1>4, <1>6, <2>6, <3>2 DEF IsLater
      <3> QED
        BY <3>1, <3>2
    <2> QED
      BY <1>1, <1>2, <1>3, <1>6, <2>1, <2>2, <2>4, <2>5, <2>6 DEF MpipIsCovered
  <1>7. CASE Q!Begin
    <2>1. /\ UNCHANGED <<lastDate, dated>> /\ start' = lastDate /\ cursor' = 0 /\ fetched' = FALSE
          /\ maxDate' = None /\ queryAt = "idle" /\ queryAt' = "query" /\ ~Ingesting'
      BY <1>1, <1>7 DEF Q!Begin, Ingesting, Q!IsLoki, Q!remote
    <2>2. Covered(start)'
      BY <1>1, <1>2, <2>1, SettledNext DEF Covered
    <2>3. \A x \in Q!Files' : IsLater(x)'
      BY <2>1 DEF Q!Files, IsLater
    <2> QED
      BY <2>1, <2>2, <2>3 DEF MpipIsCovered
  <1>8. CASE Q!GetFileList
    <2>1. /\ UNCHANGED <<lastDate, start, cursor, maxDate, tried, excused, dated, api>>
          /\ queryAt = "query" /\ queryAt' = "page" /\ fetched' = TRUE
          /\ answer' =
                 {x \in Q!Files : Rank(x) \in PageSize * cursor .. PageSize * (cursor + 1) - 1}
      BY <1>8 DEF Q!GetFileList, Q!remote, Rank
    <2>2. /\ Q!Files' = Q!Files /\ Settled' = Settled
          /\ Q!IsLastPage' <=> Cardinality(answer') < PageSize
      BY <2>1, CardinalityInQueries DEF Q!Files, Q!Visible, Settled, Q!LetGo, Q!Twins, Q!IsLastPage
    <2>3. \A x : (Rank(x)' = Rank(x) /\ (IsLater(x)' <=> IsLater(x)))
      BY <2>1, <2>2 DEF Rank, Q!RankIn, Q!IsAfter, IsLater
    <2>4. ASSUME NEW x \in Q!Files \ (Settled \cup answer')
          PROVE  \/ IsLater(x) /\ \A y \in answer' : y[2] <= x[2]
                 \/ PageSize * (cursor + 1) <= Rank(x) /\ ~Q!IsLastPage'
      <3>1. \/ Rank(x) < PageSize * cursor /\ \A y \in answer' : y[2] <= x[2]
            \/ PageSize * (cursor + 1) <= Rank(x) /\ PageSize <= Cardinality(answer')
        BY <2>1, PageLeaves
      <3>2. IsLater(x) \/ PageSize * cursor <= Rank(x)
        BY <1>2, <2>1
      <3>3. PageSize * cursor \in Nat /\ Rank(x) \in Nat
        <4>1. Q!Files \in SUBSET Numbered /\ IsFiniteSet(Q!Files)
          BY VisibleIs, FS_Subset DEF Q!Files
        <4> QED
          BY <1>1, <4>1, Ranks DEF Rank
      <3>4. CASE Rank(x) < PageSize * cursor /\ \A y \in answer' : y[2] <= x[2]
        BY <3>2, <3>3, <3>4
      <3>5. CASE PageSize * (cursor + 1) <= Rank(x) /\ PageSize <= Cardinality(answer')
        <4>1. Cardinality(answer') \in Nat
          <5>1. answer' \subseteq Q!Visible
            BY <2>1 DEF Q!Files
          <5> QED
            BY <5>1, VisibleIs, FS_Subset, FS_CardinalityType
        <4> QED
          BY <1>1, <2>2, <3>5, <4>1
      <3> QED
        BY <3>1, <3>4, <3>5
    <2> QED
      BY <1>2, <1>3, <2>1, <2>2, <2>3, <2>4 DEF MpipIsCovered, Ingesting
  <1>9. CASE Q!RequestError \/ Q!Stop
    <2>1. /\ UNCHANGED <<start, lastDate, maxDate, fetched, dated>> /\ queryAt # "idle"
          /\ queryAt' = "write" /\ (fetched => excused' = excused \cup Q!Files)
      BY <1>1, <1>9 DEF Q!RequestError, Q!Stop, Q!Excuse, Q!query, Q!remote, Q!IsLoki
    <2> QED
      BY <1>5, <2>1
  <1>10. CASE Q!IngestError
    <2>1. /\ UNCHANGED <<start, lastDate, fetched, dated>> /\ queryAt = "page"
          /\ queryAt' = "write" /\ Q!Files \subseteq excused'
      BY <1>1, <1>10 DEF Q!IngestError, Q!query, Q!remote
    <2>2. Q!Files' = Q!Files
      BY <2>1 DEF Q!Files, Q!Visible
    <2> QED
      BY <1>1, <1>3, <2>1, <2>2 DEF MpipIsCovered, Ingesting, Settled, Q!LetGo
  <1>11. CASE Q!Ingest
    <2>1. /\ UNCHANGED <<start, lastDate, fetched, dated, cursor, answer, excused, api>>
          /\ queryAt = "page" /\ queryAt' = "tick" /\ tried' = tried \cup answer
          /\ Q!New \subseteq answer /\ Q!Raise(Q!New)
      BY <1>11 DEF Q!Ingest, Q!query, Q!remote, Q!New
    <2>2. maxDate' = maxDate \/ \E y \in answer : maxDate' = y[2]
      BY <1>1, <2>1, RaiseIsGreatest
    <2>3. Q!Files' = Q!Files /\ (Q!IsLastPage' <=> Q!IsLastPage)
      BY <2>1 DEF Q!Files, Q!Visible, Q!IsLastPage
    <2>4. \A x : Rank(x)' = Rank(x)
      BY <2>3 DEF Rank, Q!RankIn, Q!IsAfter
    <2>5. ASSUME NEW x \in Q!Files' \ (Settled' \cup answer')
          PROVE  \/ IsLater(x)' /\ \A y \in answer' : y[2] <= x[2]
                 \/ PageSize * (cursor' + 1) <= Rank(x)' /\ ~Q!IsLastPage'
      <3>1. x \in Q!Files \ (Settled \cup answer)
        BY <2>1, <2>3, SettledNext DEF Q!Files
      <3>2. \/ IsLater(x) /\ \A y \in answer : y[2] <= x[2]
            \/ PageSize * (cursor + 1) <= Rank(x) /\ ~Q!IsLastPage
        BY <1>2, <2>1, <3>1 DEF Ingesting
      <3>3. IsLater(x) /\ (\A y \in answer : y[2] <= x[2]) => IsLater(x)'
        BY <2>1, <2>2 DEF IsLater
      <3> QED
        BY <2>1, <2>3, <2>4, <3>2, <3>3
    <2> QED
      BY <1>1, <1>3, <2>1, <2>5 DEF MpipIsCovered, Ingesting
  <1>12. CASE Q!Tick
    <2>1. /\ UNCHANGED <<start, maxDate, fetched, dated, cursor, answer, excused, tried, api>>
          /\ queryAt = "tick" /\ queryAt' = "keep"
          /\ lastDate' = IF maxDate = None THEN lastDate ELSE maxDate
      BY <1>1, <1>12 DEF Q!Tick, Q!DateOfInterest, Q!query, Q!remote
    <2>2. Q!Files' = Q!Files /\ (Q!IsLastPage' <=> Q!IsLastPage) /\ Settled' = Settled
      BY <2>1 DEF Q!Files, Q!Visible, Q!IsLastPage, Settled, Q!LetGo, Q!Twins
    <2>3. \A x : Rank(x)' = Rank(x) /\ (IsLater(x) => IsLater(x)')
      BY <2>1, <2>2 DEF Rank, Q!RankIn, Q!IsAfter, IsLater
    <2> QED
      BY <1>1, <1>2, <1>3, <2>1, <2>2, <2>3 DEF MpipIsCovered, Ingesting
  <1>13. CASE Q!NextPage
    <2>1. /\ UNCHANGED <<start, maxDate, fetched, dated, lastDate, answer, excused, tried, api>>
          /\ queryAt = "keep"
          /\ \/ queryAt' = "write" /\ Q!IsLastPage
             \/ queryAt' = "query" /\ cursor' = cursor + 1
      BY <1>13 DEF Q!NextPage, Q!remote
    <2>2. Q!Files' = Q!Files /\ Settled' = Settled
      BY <2>1 DEF Q!Files, Q!Visible, Settled, Q!LetGo, Q!Twins
    <2>3. \A x : Rank(x)' = Rank(x) /\ (IsLater(x) => IsLater(x)')
      BY <2>1, <2>2 DEF Rank, Q!RankIn, Q!IsAfter, IsLater
    <2>4. answer \subseteq Settled
      BY <1>1, <2>1 DEF Settled, Q!LetGo
    <2>5. \A x \in Q!Files \ Settled :
              IsLater(x) \/ (PageSize * (cursor + 1) <= Rank(x) /\ ~Q!IsLastPage)
      BY <1>2, <2>1, <2>4 DEF Ingesting
    <2> QED
      BY <1>1, <1>3, <2>1, <2>2, <2>3, <2>5 DEF MpipIsCovered, Ingesting
  <1>14. CASE Q!Write \/ Q!Crash
    <2>1. /\ UNCHANGED <<dated, tried, api>> /\ queryAt # "idle" /\ queryAt' = "idle"
          /\ \/ queryAt = "write" /\ lastDate' = IF maxDate = None THEN lastDate ELSE maxDate
             \/ lastDate' = lastDate /\ (fetched => excused' = excused \cup Q!Files)
      BY <1>1, <1>14 DEF Q!Write, Q!Crash, Q!EndPass, Q!Excuse, Q!remote
    <2>2. Q!Visible' = Q!Visible
      BY <2>1 DEF Q!Visible
    <2>3. ASSUME NEW x \in Q!Visible, x[2] < lastDate' PROVE x \in Settled'
      <3>1. x[2] \in Nat /\ (x \in Q!Files <=> start <= x[2])
        BY <1>1, VisibleIs DEF Q!Files
      <3>2. CASE x \notin Q!Files
        BY <1>1, <1>2, <2>1, <2>2, <3>1, <3>2, SettledNext DEF Covered
      <3>3. CASE x \in Q!Files
        <4> SUFFICES ASSUME x \notin Settled' PROVE FALSE
          OBVIOUS
        <4>1. x \notin Settled
          BY <2>2, SettledNext
        <4>2. queryAt = "write" => IsLater(x)
          BY <1>2, <3>3, <4>1
        <4>3. CASE queryAt = "write" /\ lastDate' = IF maxDate = None THEN lastDate ELSE maxDate
          BY <1>1, <2>3, <3>1, <4>2, <4>3 DEF IsLater
        <4>4. CASE lastDate' = lastDate /\ (fetched => excused' = excused \cup Q!Files)
          <5>1. ~fetched
            BY <3>3, <4>4 DEF Settled, Q!LetGo
          <5> QED
            BY <1>1, <1>2, <2>1, <2>3, <3>1, <3>3, <4>4, <5>1
        <4> QED
          BY <2>1, <4>3, <4>4
      <3> QED
        BY <3>2, <3>3
    <2> QED
      BY <2>1, <2>2, <2>3 DEF MpipIsCovered, Covered, Ingesting
  <1>15. ~(\/ Q!GetEntities \/ Q!SearchIssues \/ Q!Refused \/ Q!Exhausted \/ Q!KeepWindow
           \/ Q!AttachmentError)
    BY <1>1 DEF Q!GetEntities, Q!SearchIssues, Q!Refused, Q!Exhausted, Q!KeepWindow,
       Q!AttachmentError, Q!IsLoki
  <1>16. CASE UNCHANGED queries \/ Q!Advance \/ \E i \in Item : Q!Appear(i)
    BY <1>6, <1>16 DEF queries, Q!Advance, Q!Appear, Q!query
  <1> QED
    BY <1>7, <1>8, <1>9, <1>10, <1>11, <1>12, <1>13, <1>14, <1>15, <1>16, QueriesAlone

----------------------------------------------------------------------------
(* Queries: Jira, one search for what was updated since.                    *)

\* What a search leaves out is settled.
LEMMA SearchLeaves ==
    ASSUME QueriesInv, api = "jira", lastDate = start, NEW x \in Q!Visible \ Q!Issues
    PROVE  x \in Settled
  <1>1. /\ lastDate \in Nat /\ Covered(lastDate) /\ x[2] \in Nat /\ 1 <= x[2]
        /\ lastDate \in {0} \cup {y[2] : y \in tried \cup excused}
    BY VisibleIs DEF QueriesInv, QueriesTypeOK, JiraIsCovered
  <1>2. /\ Minute \in Nat \ {0} /\ lastDate % Minute \in Nat
        /\ x[2] <= lastDate - (lastDate % Minute)
    BY <1>1, QueriesAssumption DEF Q!Issues, Q!ToMinute
  <1>3. CASE x[2] < lastDate
    BY <1>1, <1>3 DEF Covered
  <1>4. CASE ~(x[2] < lastDate)
    <2>1. x[2] = lastDate /\ x[2] % Minute = 0
      BY <1>1, <1>2, <1>4
    <2>2. PICK y \in tried \cup excused : y[2] = x[2]
      BY <1>1, <2>1
    <2> QED
      BY <2>1, <2>2 DEF Settled, Q!LetGo, Q!Twins
  <1> QED
    BY <1>3, <1>4

\* What a signal takes out of a page is later than what it leaves in it.
LEMMA StopLeaves ==
    ASSUME QueriesInv, NEW n \in Nat, NEW P,
           P = {x \in answer : Q!Cardinality(answer) - Q!RankIn(answer, x) <= n},
           NEW x \in answer \ P, NEW y \in P
    PROVE  y[2] <= x[2]
  <1>1. IsFiniteSet(answer) /\ answer \in SUBSET Numbered
    BY VisibleIs
  <1>2. /\ Q!RankIn(answer, x) \in Nat /\ Q!RankIn(answer, y) \in Nat
        /\ Q!Cardinality(answer) \in Nat
    BY <1>1, Ranks, CardinalityInQueries, FS_CardinalityType
  <1>3. Q!RankIn(answer, x) < Q!RankIn(answer, y)
    BY <1>2
  <1>4. ~ Q!IsAfter(y, x)
    BY <1>1, <1>2, <1>3, RankOrder
  <1> QED
    BY <1>1, <1>4 DEF Q!IsAfter, Numbered

LEMMA JiraStep ==
    ASSUME QueriesInv, [Q!Next]_queries
    PROVE  JiraIsCovered'
  <1> SUFFICES ASSUME api = "jira"
               PROVE  JiraIsCovered'
    BY VisibleNext DEF JiraIsCovered
  <1>1. /\ api' = "jira" /\ apiNow \in Nat /\ {lastDate, start} \subseteq Nat /\ lastDate <= apiNow
        /\ Covered(lastDate) /\ maxDate = None
        /\ lastDate \in {0} \cup {x[2] : x \in tried \cup excused}
        /\ queryAt \in {"query", "page", "tick"} => lastDate = start
        /\ queryAt \in {"page", "tick"} =>
               \A x \in Q!Visible \ (Settled \cup answer) : \A y \in answer : y[2] <= x[2]
        /\ \A x \in answer : x[2] \in Nat /\ x[2] <= apiNow
        /\ queryAt \in {"tick", "keep"} => answer \subseteq tried \cup excused
    BY VisibleNext DEF QueriesInv, QueriesTypeOK, JiraIsCovered
  <1>2. Covered(lastDate)' \/ lastDate' # lastDate
    BY <1>1, SettledNext DEF Covered
  <1>3. lastDate \in {0} \cup {x[2] : x \in tried' \cup excused'}
    BY <1>1, SettledNext
  \* Steps that keep the page in hand, or a part of it.
  <1>4. ASSUME queryAt \in {"page", "tick"}, answer' \subseteq answer,
               \A x \in answer \ answer' : \A y \in answer' : y[2] <= x[2]
        PROVE  \A x \in Q!Visible' \ (Settled' \cup answer') : \A y \in answer' : y[2] <= x[2]
    <2> SUFFICES ASSUME NEW x \in Q!Visible', x \notin Settled', x \notin answer', NEW y \in answer'
                 PROVE  y[2] <= x[2]
      OBVIOUS
    <2>1. x \in Q!Visible \/ apiNow <= x[2]
      BY VisibleNext
    <2>2. x[2] \in Nat /\ y[2] \in Nat /\ y[2] <= apiNow
      BY <1>1, <1>4, VisibleNext DEF Numbered
    <2>3. x \notin Settled
      BY SettledNext
    <2> QED
      BY <1>1, <1>4, <2>1, <2>2, <2>3
  <1>5. CASE UNCHANGED <<lastDate, queryAt, start, answer, maxDate>>
    BY <1>1, <1>2, <1>3, <1>4, <1>5 DEF JiraIsCovered
  <1>6. CASE Q!Begin
    <2>1. lastDate' = lastDate /\ start' = lastDate /\ maxDate' = None /\ queryAt' = "query"
      BY <1>6 DEF Q!Begin
    <2> QED
      BY <1>2, <1>3, <2>1 DEF JiraIsCovered
  <1>7. CASE Q!SearchIssues
    <2>1. /\ UNCHANGED <<lastDate, start, maxDate, dated>> /\ queryAt = "query"
          /\ queryAt' = "page" /\ answer' = Q!Issues
      BY <1>7 DEF Q!SearchIssues, Q!remote
    <2>2. Q!Visible' = Q!Visible
      BY <2>1 DEF Q!Visible
    <2>3. Q!Visible' \subseteq Settled' \cup answer'
      BY <1>1, <2>1, <2>2, SearchLeaves, SettledNext
    <2> QED
      BY <1>1, <1>2, <1>3, <2>1, <2>3 DEF JiraIsCovered
  <1>8. CASE Q!RequestError \/ Q!AttachmentError
    <2>1. UNCHANGED lastDate /\ maxDate' = None /\ queryAt' = "write"
      BY <1>1, <1>8 DEF Q!RequestError, Q!AttachmentError, Q!IsLoki
    <2> QED
      BY <1>2, <1>3, <2>1 DEF JiraIsCovered
  <1>9. CASE Q!Stop
    <2>1. /\ UNCHANGED <<lastDate, start, maxDate, queryAt>> /\ queryAt = "page"
          /\ \E n \in 0 .. Q!Cardinality(answer) :
                 answer' = {x \in answer : Q!Cardinality(answer) - Q!RankIn(answer, x) <= n}
      BY <1>1, <1>9 DEF Q!Stop, Q!query
    <2>2. answer' \subseteq answer /\ \A x \in answer \ answer' : \A y \in answer' : y[2] <= x[2]
      <3>1. PICK n \in 0 .. Q!Cardinality(answer) :
                 answer' = {x \in answer : Q!Cardinality(answer) - Q!RankIn(answer, x) <= n}
        BY <2>1
      <3> QED
        BY <3>1, StopLeaves
    <2> QED
      BY <1>1, <1>2, <1>3, <1>4, <2>1, <2>2 DEF JiraIsCovered
  <1>10. CASE Q!Ingest \/ Q!IngestError
    <2>1. /\ UNCHANGED <<lastDate, start, answer>> /\ queryAt = "page" /\ queryAt' = "tick"
          /\ \E new \in SUBSET answer : Q!Raise(new)
      BY <1>1, <1>10 DEF Q!Ingest, Q!IngestError, Q!query, Q!New
    <2>2. maxDate' = maxDate
      BY <1>1, <2>1, RaiseIsGreatest
    <2> QED
      BY <1>1, <1>2, <1>3, <1>4, <2>1, <2>2 DEF JiraIsCovered
  <1>11. CASE Q!Tick
    <2>1. /\ UNCHANGED <<tried, excused, maxDate, dated>> /\ queryAt = "tick"
          /\ lastDate' = Q!LastIssue /\ queryAt' = "write"
      BY <1>1, <1>11 DEF Q!Tick, Q!DateOfInterest, Q!remote
    <2>2. Q!LastIssue = lastDate \/ \E x \in answer : Q!LastIssue = x[2]
      BY LastIssueIsGreatest
    <2>3. lastDate' \in {0} \cup {x[2] : x \in tried' \cup excused'}
      BY <1>1, <1>3, <2>1, <2>2
    <2>4. Covered(lastDate)'
      <3>1. CASE Q!LastIssue = lastDate
        BY <1>2, <2>1, <3>1
      <3>2. CASE \E y \in answer : Q!LastIssue = y[2]
        <4>1. PICK y \in answer : Q!LastIssue = y[2]
          BY <3>2
        <4>2. ASSUME NEW x \in Q!Visible, x[2] < y[2] PROVE x \in Settled
          <5>1. x[2] \in Nat /\ y[2] \in Nat
            BY <1>1, VisibleIs
          <5>2. x \in Settled \cup answer
            BY <1>1, <2>1, <4>2, <5>1
          <5> QED
            BY <1>1, <2>1, <5>2 DEF Settled, Q!LetGo
        <4>3. Covered(y[2])
          BY <4>2 DEF Covered
        <4> QED
          BY <1>1, <2>1, <4>1, <4>3, SettledNext DEF Covered
      <3> QED
        BY <2>2, <3>1, <3>2
    <2> QED
      BY <1>1, <2>1, <2>3, <2>4 DEF JiraIsCovered
  <1>12. CASE Q!Write \/ Q!Crash
    <2>1. lastDate' = lastDate /\ maxDate' = None /\ queryAt' = "idle"
      BY <1>1, <1>12 DEF Q!Write, Q!Crash, Q!EndPass
    <2> QED
      BY <1>2, <1>3, <2>1 DEF JiraIsCovered
  <1>13. ~(Q!GetEntities \/ Q!GetFileList \/ Q!Refused \/ Q!Exhausted \/ Q!KeepWindow \/ Q!NextPage)
    BY <1>1 DEF Q!GetEntities, Q!GetFileList, Q!Refused, Q!Exhausted, Q!KeepWindow, Q!NextPage,
       Q!IsLoki
  <1>14. CASE UNCHANGED queries \/ Q!Advance \/ \E i \in Item : Q!Appear(i)
    BY <1>5, <1>14 DEF queries, Q!Advance, Q!Appear, Q!query
  <1> QED
    BY <1>6, <1>7, <1>8, <1>9, <1>10, <1>11, <1>12, <1>13, <1>14, QueriesAlone

----------------------------------------------------------------------------
(* The date of the journal.                                                 *)

LEMMA QueriesStep == QueriesInv /\ [Q!Next]_queries => QueriesInv'
  BY QueriesTyping, LokiStep, MpipStep, JiraStep DEF QueriesInv

LEMMA QueriesGaps == QueriesInv => Q!OnlyExcusedGaps
  <1> SUFFICES ASSUME QueriesInv, api # "lokiDefault", NEW x \in Q!Visible, x[2] < lastDate,
                      x \notin Settled, x \notin Q!ToCome
               PROVE  FALSE
    BY DEF Q!OnlyExcusedGaps, Q!Passed, Settled
  <1>1. CASE Covered(lastDate)
    BY <1>1 DEF Covered
  <1>2. CASE ~Covered(lastDate)
    <2>1. api = "mpip" /\ queryAt # "idle"
      BY <1>2 DEF QueriesInv, QueriesTypeOK, LokiIsCovered, MpipIsCovered, JiraIsCovered
    <2>2. Covered(start) /\ (~fetched => lastDate = start)
      BY <2>1 DEF QueriesInv, MpipIsCovered
    <2>3. x \notin Q!Files
      BY <1>2, <2>1, <2>2 DEF Q!ToCome
    <2>4. x[2] < start
      BY <2>3, VisibleIs DEF Q!Files, QueriesInv, QueriesTypeOK
    <2> QED
      BY <2>2, <2>4 DEF Covered
  <1> QED
    BY <1>1, <1>2

\* The date of the journal passes what is not collected for the reasons that are known only,
\* whatever the collector.
THEOREM Gaps == CollectorsSpec => []GapsAreKnown
  <1> DEFINE Inv == ListingInv /\ QueriesInv
  <1>1. CollectorsInit => Inv
    BY ListingInit, QueriesInit DEF CollectorsInit
  <1>2. Inv /\ [CollectorsNext]_all => Inv'
    <2> SUFFICES ASSUME Inv, [CollectorsNext]_all
                 PROVE  Inv'
      OBVIOUS
    <2>1. [Next]_vars /\ [Q!Next]_queries
      BY ListingSteps, QueriesSteps
    <2>2. ListingInv'
      BY <2>1, ListingStep
    <2>3. QueriesInv'
      BY <2>1, QueriesStep
    <2> QED
      BY <2>2, <2>3
  <1>3. Inv => GapsAreKnown
    BY ListingGaps, QueriesGaps DEF GapsAreKnown
  <1> HIDE DEF Inv
  <1> QED
    BY <1>1, <1>2, <1>3, PTL DEF CollectorsSpec
===============================================================================
