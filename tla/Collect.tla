------------------------------- MODULE Collect -------------------------------
(***************************************************************************)
(* The live collection of an OData interface: the windows and the pages of *)
(* rawdata/collector/odata/query_strategy.py, the ingestion of a page by   *)
(* filecollector.py, the date of interest of journal.py, over the passes   *)
(* of httpcollector.py and the restarts of the process.                    *)
(*                                                                         *)
(* One collector: Journal tells why another one is kept out.  A product of *)
(* the remote catalogue appears in it some time after its date and is      *)
(* never changed or removed.  The catalogue sorts by date, and equal dates *)
(* always the same way.  Messages are handed to the messenger one by one;  *)
(* Messenger tells how they are grouped.                                   *)
(***************************************************************************)
EXTENDS Integers, FiniteSets

CONSTANTS
    Product,      \* products of the catalogue, numbers that break ties of date
    ProductPage,  \* product_per_page
    Window,       \* max_time_window
    StartOffset,  \* odata_start_offset
    EndOffset,    \* end_date_time_offset
    Refresh,      \* refresh_interval
    Lag,          \* the longest a product takes to appear after its date
    MaxTime,      \* bound: clock
    MaxFaults     \* bound: errors, stops and crashes

ASSUME CollectAssumption ==
    /\ Product \subseteq Nat /\ IsFiniteSet(Product)
    /\ ProductPage \in Nat \ {0} /\ Window \in Nat \ {0} /\ Refresh \in Nat
    /\ StartOffset \in Nat /\ EndOffset \in Nat /\ Lag \in Nat
    /\ Lag <= EndOffset + StartOffset
    /\ MaxTime \in Nat /\ MaxFaults \in Nat

VARIABLES
    now,       \* the clock
    date,      \* publication date of each product
    visible,   \* products that are in the catalogue
    lastDate,  \* last_date of the journal document
    origin,    \* where the collection of the interface began
    pc,        \* where the pass stands
    query,     \* the query strategy of the pass
    page,      \* products of the page being ingested
    maxDate,   \* __max_date: the date of interest of the pass
    indexed,   \* products in the database
    rejected,  \* products the database, or the model, once refused
    grouped,   \* products handed to the messenger since its last flush
    notified,  \* products named by the messages it sent
    faults     \* errors, stops and crashes so far

catalogue == <<now, date, visible>>
database == <<indexed, rejected>>
messages == <<grouped, notified>>
vars == <<catalogue, lastDate, origin, pc, query, page, maxDate, database, messages, faults>>

NoDate == -1000  \* None: older than any date of an instance
PC == {"idle", "query", "page", "tick", "keep", "write", "flush"}
Query == [seen : SUBSET Product, start : Int, end : Int, iterStart : Int, iterEnd : Int,
          skip : Nat, done : BOOLEAN]

Lesser(a, b) == IF a <= b THEN a ELSE b

NoQuery == [seen |-> {}, start |-> 0, end |-> 0, iterStart |-> 0, iterEnd |-> 0,
            skip |-> 0, done |-> FALSE]

Init ==
    /\ now = 0
    /\ date \in [Product -> 0 .. MaxTime]
    /\ visible = {}
    /\ lastDate \in {NoDate, 0} /\ origin = 0
    /\ pc = "idle" /\ query = NoQuery /\ page = {} /\ maxDate = NoDate
    /\ indexed = {} /\ rejected = {}
    /\ grouped = {} /\ notified = {}
    /\ faults = 0

Fault == faults < MaxFaults /\ faults' = faults + 1

----------------------------------------------------------------------------
(* The remote catalogue, and the clock.                                     *)

Appear(p) ==
    /\ p \notin visible /\ date[p] <= now
    /\ visible' = visible \cup {p}
    /\ UNCHANGED <<now, date, lastDate, origin, pc, query, page, maxDate, database,
                   messages, faults>>

\* A product does not take longer than Lag.
Advance ==
    /\ now < MaxTime
    /\ \A p \in Product : date[p] + Lag <= now => p \in visible
    /\ now' = now + 1
    /\ UNCHANGED <<date, visible, lastDate, origin, pc, query, page, maxDate, database,
                   messages, faults>>

Before(p, q) == date[p] < date[q] \/ (date[p] = date[q] /\ p < q)

\* Mutant: the end of the window is excluded from the query.
InWindowBefore(p) == query.iterStart <= date[p] /\ date[p] < query.iterEnd

\* `ge start and le end'
InWindow(p) == query.iterStart <= date[p] /\ date[p] <= query.iterEnd

Result == {p \in visible : InWindow(p)}
Rank(p) == Cardinality({q \in Result : Before(q, p)})

\* $orderby, $skip and $top
Page == {p \in Result : /\ ProductPage * query.skip <= Rank(p)
                        /\ Rank(p) < ProductPage * query.skip + ProductPage}

----------------------------------------------------------------------------
(* The query strategy.                                                      *)

\* Mutant: the collection is live up to now.
NoEndOffset == now

LiveEnd == now - EndOffset

\* Where the journal says to go on, or one refresh interval ago.
Start == IF lastDate = NoDate THEN LiveEnd - Refresh ELSE lastDate

Begin ==
    /\ pc = "idle"
    /\ LET start == Start - StartOffset IN
           query' = [seen |-> visible, start |-> start, end |-> LiveEnd,
                     iterStart |-> start, iterEnd |-> Lesser(start + Window, LiveEnd),
                     skip |-> 0, done |-> FALSE]
    /\ origin' = IF lastDate = NoDate THEN Start - StartOffset ELSE origin
    /\ pc' = "query" /\ maxDate' = NoDate
    /\ UNCHANGED <<catalogue, lastDate, page, database, messages, faults>>

GetEntities ==
    /\ pc = "query" /\ query.iterStart < query.end
    /\ page' = Page
    /\ pc' = "page"
    /\ UNCHANGED <<catalogue, lastDate, origin, query, maxDate, database, messages, faults>>

\* A request that fails raises out of the pass: no date of interest is stored.
RequestError ==
    /\ Fault
    /\ pc = "query" /\ query.iterStart < query.end
    /\ pc' = "write" /\ maxDate' = NoDate
    /\ UNCHANGED <<catalogue, lastDate, origin, query, page, database, messages>>

\* The query is exhausted.
Exhausted ==
    /\ pc = "query" /\ query.iterStart >= query.end
    /\ query' = [query EXCEPT !.done = TRUE]
    /\ pc' = "write"
    /\ UNCHANGED <<catalogue, lastDate, origin, page, maxDate, database, messages, faults>>

\* should_stop_loop between two pages.
Stop ==
    /\ Fault
    /\ pc \in {"query", "page"}
    /\ pc' = "write"
    /\ UNCHANGED <<catalogue, lastDate, origin, query, page, maxDate, database, messages>>

\* get_pending_document_count(): Messenger.__len__ looks for "document_ids" among
\* the values of its groups, which are dictionaries, and counts nothing.
PendingDocumentCount == 0

NextWindow ==
    query' = [query EXCEPT !.iterStart = query.iterEnd, !.skip = 0,
                           !.iterEnd = Lesser(query.iterEnd + Window, query.end)]

\* Mutant: a page of ProductPage products is taken for the last one.
ShortOrFull == Cardinality(page) <= ProductPage

Short == Cardinality(page) < ProductPage

\* The start of the window goes to the journal, then to the next page or window.
KeepWindow ==
    /\ pc = "keep"
    /\ lastDate' = IF PendingDocumentCount = 0 THEN query.iterStart ELSE lastDate
    /\ IF Short
       THEN NextWindow
       ELSE query' = IF lastDate' <= query.iterStart
                     THEN [query EXCEPT !.skip = @ + 1]
                     ELSE [query EXCEPT !.skip = 0, !.iterStart = lastDate']
    /\ pc' = "query" /\ page' = {}
    /\ UNCHANGED <<catalogue, origin, maxDate, database, messages, faults>>

----------------------------------------------------------------------------
(* The ingestion of a page.                                                 *)

New == page \ indexed

\* Results come in the order of the page, but for the documents refused.
InOrder(S, bad) == \A p \in S, q \in New \ bad : Before(q, p) => q \in S

\* iter_callback, for each document.
MaxDate(S) ==
    maxDate' = CHOOSE d \in {maxDate} \cup {date[p] : p \in S} :
                   \A e \in {maxDate} \cup {date[p] : p \in S} : e <= d

Handled(bad) == New \ bad

\* The documents created are notified, then raise the date of interest; those that
\* are already there are not, nor those the model refuses, or a bulk request that
\* fails does not store (raise_on_exception=False): they are logged.
Ingest ==
    /\ pc = "page"
    /\ \E bad \in SUBSET New :
           /\ IF bad = {} THEN UNCHANGED faults ELSE Fault
           /\ indexed' = indexed \cup (New \ bad)
           /\ rejected' = rejected \cup bad
           /\ grouped' = grouped \cup Handled(bad)
           /\ MaxDate(Handled(bad))
    /\ pc' = "tick"
    /\ UNCHANGED <<catalogue, lastDate, origin, query, page, notified>>

\* An error, of a publish for example, leaves documents indexed and not handled,
\* the threads of parallel_bulk being ahead of the loop, others not even indexed;
\* ingest_http logs it and leaves the loop normally.
IngestError ==
    /\ pc = "page" /\ Fault
    /\ \E bad \in SUBSET New : \E made \in SUBSET (New \ bad) : \E done \in SUBSET made :
           /\ InOrder(done, bad)
           /\ indexed' = indexed \cup made
           /\ rejected' = rejected \cup bad
           /\ grouped' = grouped \cup done
           /\ MaxDate(done)
    /\ pc' = "write"
    /\ UNCHANGED <<catalogue, lastDate, origin, query, page, notified>>

----------------------------------------------------------------------------
(* The journal and the end of a pass.                                       *)

StoreDate == lastDate' = IF maxDate = NoDate THEN lastDate ELSE maxDate

Tick ==
    /\ pc = "tick"
    /\ StoreDate
    /\ pc' = "keep"
    /\ UNCHANGED <<catalogue, origin, query, page, maxDate, database, messages, faults>>

\* A save that fails, or conflicts, raises out of the pass.
SaveError ==
    /\ Fault
    /\ \/ pc \in {"tick", "keep"} /\ pc' = "write"
       \/ pc = "write" /\ pc' = "flush"
    /\ maxDate' = NoDate
    /\ UNCHANGED <<catalogue, lastDate, origin, query, page, database, messages>>

Write ==
    /\ pc = "write"
    /\ StoreDate
    /\ pc' = "flush"
    /\ UNCHANGED <<catalogue, origin, query, page, maxDate, database, messages, faults>>

EndPass == pc' = "idle" /\ query' = NoQuery /\ page' = {} /\ maxDate' = NoDate

Flush ==
    /\ pc = "flush"
    /\ notified' = notified \cup grouped
    /\ grouped' = {}
    /\ EndPass
    /\ UNCHANGED <<catalogue, lastDate, origin, database, faults>>

\* The messenger keeps its groups.
FlushError ==
    /\ Fault
    /\ pc = "flush" /\ grouped # {}
    /\ EndPass
    /\ UNCHANGED <<catalogue, lastDate, origin, database, messages>>

\* The process dies, and is started again.
Crash ==
    /\ Fault
    /\ EndPass
    /\ grouped' = {}
    /\ UNCHANGED <<catalogue, lastDate, origin, database, notified>>

Pass == \/ Begin \/ GetEntities \/ Exhausted \/ KeepWindow \/ Ingest
        \/ Tick \/ Write \/ Flush

Next ==
    \/ \E p \in Product : Appear(p)
    \/ Advance \/ Pass
    \/ RequestError \/ Stop \/ IngestError \/ SaveError \/ FlushError \/ Crash

\* Passes follow one another, time passes, products appear in time.
Fairness == WF_vars(Pass) /\ WF_vars(Advance) /\ \A p \in Product : WF_vars(Appear(p))

Spec == Init /\ [][Next]_vars
FairSpec == Spec /\ Fairness

----------------------------------------------------------------------------
\* Every variable has its type; a product is notified only once it is indexed.
TypeOK ==
    /\ now \in 0 .. MaxTime
    /\ date \in [Product -> 0 .. MaxTime]
    /\ visible \in SUBSET Product
    /\ lastDate \in Int /\ origin \in Int /\ maxDate \in {NoDate} \cup 0 .. MaxTime
    /\ pc \in PC /\ query \in Query
    /\ page \in SUBSET visible
    /\ indexed \in SUBSET visible /\ rejected \in SUBSET visible
    /\ grouped \in SUBSET indexed /\ notified \in SUBSET indexed
    /\ faults \in 0 .. MaxFaults

Collected(p) == p \in indexed \cup rejected

\* The collection never goes beyond a product it has not tried to index: what is
\* dated before the next start is in the database, or was refused by it, whatever
\* failed, provided products do not appear later than the two offsets allow.
NoGap ==
    lastDate # NoDate =>
        \A p \in Product :
            origin <= date[p] /\ date[p] < lastDate - StartOffset => Collected(p)

\* A pass that exhausts its query has collected every product of its window that
\* was in the catalogue when it began, however windows, pages and equal dates cut it.
PassCoversWindow ==
    query.done =>
        \A p \in query.seen :
            query.start <= date[p] /\ date[p] <= query.end /\ query.start < query.end
            => Collected(p)

\* What is dated after the journal is collected in the end, errors or not.
EventuallyCollected ==
    \A p \in Product :
        (/\ lastDate # NoDate /\ lastDate - StartOffset <= date[p] /\ origin <= date[p]
         /\ date[p] < MaxTime - EndOffset) ~> Collected(p)
=============================================================================
