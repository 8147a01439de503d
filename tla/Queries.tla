------------------------------- MODULE Queries -------------------------------
(***************************************************************************)
(* The live collections that query an API otherwise than OData (Collect):  *)
(* loki/v1_impl.py, window after window; mpip/v1_impl.py, page after page, *)
(* the newest first; jiraxcollector.py, one search for all the issues      *)
(* updated since.  The first two are in the loop of httpcollector.py, the  *)
(* third has its own; the date of interest is the one of journal.py.       *)
(*                                                                         *)
(* A log line or a file is never changed, an issue is updated.  What the   *)
(* database refuses of a page that is ingested counts as tried (Collect    *)
(* tells more of it).                                                      *)
(***************************************************************************)
EXTENDS Integers, FiniteSets, FiniteSetsExt

CONSTANTS
    Item,      \* log lines, files or issues
    Kind,      \* among "loki", "mpip", "jira", and "lokiDefault": see Attribute
    Window,    \* max_time_window
    Limit,     \* query_limit
    PageSize,  \* product_per_page
    Minute,    \* the precision of a date of JQL
    None,
    MaxTime,   \* bound
    MaxFaults  \* bound

VARIABLES
    kind,
    now,
    date,      \* of each item: when it was logged, published or last updated
    lastDate,  \* last_date of the journal document
    pc,
    start, end, \* bounds of the query
    cursor,    \* start of the window, or number of the page
    page,      \* <<item, date>> in hand
    fetched,   \* a request of this pass was answered
    maxDate,   \* __max_date
    tried,     \* <<item, date>> whose ingestion was tried
    excused,   \* history: those that the code lets go, see the actions
    faults

remote == <<kind, now, date>>
query == <<start, end, cursor, fetched>>
vars == <<remote, lastDate, pc, query, page, maxDate, tried, excused, faults>>

IsLoki == kind \in {"loki", "lokiDefault"}
Fault == faults < MaxFaults /\ faults' = faults + 1
Visible == {<<i, date[i]>> : i \in {j \in Item : date[j] # None}}

\* Equal dates are sorted somehow.
IsAfter(x, y) == x[2] > y[2] \/ (x[2] = y[2] /\ x[1] > y[1])
RankIn(S, x) == Cardinality({y \in S : IsAfter(y, x)})

Init ==
    /\ kind \in Kind
    /\ now = 1 /\ date = [i \in Item |-> None]
    /\ lastDate = 0 /\ maxDate = None
    /\ pc = "idle" /\ start = 0 /\ end = 0 /\ cursor = 0 /\ fetched = FALSE /\ page = {}
    /\ tried = {} /\ excused = {} /\ faults = 0

----------------------------------------------------------------------------
(* The remote.                                                              *)

Appear(i) ==
    /\ IF date[i] = None THEN TRUE ELSE kind = "jira" /\ date[i] < now
    /\ date' = [date EXCEPT ![i] = now]
    /\ UNCHANGED <<kind, now, lastDate, pc, query, page, maxDate, tried, excused, faults>>

Advance ==
    /\ now < MaxTime /\ now' = now + 1
    /\ UNCHANGED <<kind, date, lastDate, pc, query, page, maxDate, tried, excused, faults>>

----------------------------------------------------------------------------
(* The queries.                                                             *)

Begin ==
    /\ pc = "idle"
    /\ start' = lastDate /\ end' = now
    /\ cursor' = IF IsLoki THEN lastDate ELSE 0
    /\ fetched' = FALSE /\ page' = {} /\ maxDate' = None
    /\ pc' = "query"
    /\ UNCHANGED <<remote, lastDate, tried, excused, faults>>

WindowEnd == Min({cursor + Window, end})
InWindow == {x \in Visible : cursor <= x[2] /\ x[2] < WindowEnd}

Files == {x \in Visible : x[2] >= start}

\* JQL has no seconds.
ToMinute(d) == d - (d % Minute)
Issues == {x \in Visible : x[2] > ToMinute(start)}

\* The newest lines of a window, as many as Loki gives.
GetEntities ==
    /\ pc = "query" /\ IsLoki /\ cursor < end
    /\ page' = {x \in InWindow : RankIn(InWindow, x) < Limit}
    /\ excused' = excused \cup (InWindow \ page')
    /\ fetched' = TRUE /\ pc' = "page"
    /\ UNCHANGED <<remote, lastDate, start, end, cursor, maxDate, tried, faults>>

GetFileList ==
    /\ pc = "query" /\ kind = "mpip"
    /\ page' = {x \in Files : RankIn(Files, x) \in PageSize * cursor .. PageSize * (cursor + 1) - 1}
    /\ fetched' = TRUE /\ pc' = "page"
    /\ UNCHANGED <<remote, lastDate, start, end, cursor, maxDate, tried, excused, faults>>

SearchIssues ==
    /\ pc = "query" /\ kind = "jira"
    /\ page' = Issues /\ fetched' = TRUE /\ pc' = "page"
    /\ UNCHANGED <<remote, lastDate, start, end, cursor, maxDate, tried, excused, faults>>

\* The newest files come first: a pass that is left has no older ones.
Excuse == excused' = IF kind = "mpip" /\ fetched THEN excused \cup Files ELSE excused

\* Loki: the request fails, the entities of the previous window are yielded once more in
\* place of those of this one; there are none in the first window, and the pass raises.
\* MPIP breaks its loop off, a search of Jira raises.
RequestError ==
    /\ pc = "query" /\ (IsLoki => cursor < end) /\ Fault
    /\ IF IsLoki /\ fetched
       THEN pc' = "page" /\ excused' = excused \cup InWindow /\ UNCHANGED maxDate
       ELSE /\ pc' = "write" /\ Excuse
            /\ maxDate' = IF kind = "mpip" THEN maxDate ELSE None
    /\ UNCHANGED <<remote, lastDate, query, page, tried>>

\* The status is not the right one: Loki breaks its loop off too.
Refused ==
    /\ pc = "query" /\ IsLoki /\ cursor < end /\ Fault
    /\ pc' = "write"
    /\ UNCHANGED <<remote, lastDate, query, page, maxDate, tried, excused>>

Exhausted ==
    /\ pc = "query" /\ IsLoki /\ cursor >= end
    /\ pc' = "write"
    /\ UNCHANGED <<remote, lastDate, query, page, maxDate, tried, excused, faults>>

\* should_stop_loop, between two pages or two issues.
Stop ==
    /\ pc \in {"query", "page"} /\ Fault
    /\ \/ kind # "jira" /\ pc' = "write" /\ Excuse /\ UNCHANGED page
       \/ /\ kind = "jira" /\ pc = "page" /\ UNCHANGED <<pc, excused>>
          /\ \E n \in 0 .. Cardinality(page) :
                 page' = {x \in page : Cardinality(page) - RankIn(page, x) <= n}
    /\ UNCHANGED <<remote, lastDate, query, maxDate, tried>>

----------------------------------------------------------------------------
(* The ingestion.                                                           *)

\* Documents that are there already, unchanged, do not count.
New == page \ tried

\* iter_callback.  The default of date_attr in lokicollector.py is ingestionTime.
Attribute(x) == IF kind = "lokiDefault" THEN now ELSE x[2]
Raise(S) ==
    LET dates == {Attribute(x) : x \in S} \cup ({maxDate} \ {None}) IN
    maxDate' = IF kind = "jira" \/ dates = {} THEN maxDate ELSE Max(dates)

Ingest ==
    /\ pc = "page"
    /\ tried' = tried \cup page /\ Raise(New)
    /\ pc' = "tick"
    /\ UNCHANGED <<remote, lastDate, query, page, excused, faults>>

\* Part of a page: ingest_http leaves its loop, and keeps the date of what was ingested, in
\* whatever order that was; ingest_issues_payload goes on.
IngestError ==
    /\ pc = "page" /\ page # {} /\ Fault
    /\ \E done \in SUBSET New :
           /\ tried' = tried \cup done /\ Raise(done)
           /\ excused' = (IF kind = "mpip" THEN excused \cup Files ELSE excused) \cup (New \ done)
    /\ pc' = IF kind = "jira" THEN "tick" ELSE "write"
    /\ UNCHANGED <<remote, lastDate, query, page>>

\* A file attached to an issue cannot be downloaded: that raises.
AttachmentError ==
    /\ pc = "page" /\ kind = "jira" /\ page # {} /\ Fault
    /\ tried' = tried \cup page /\ pc' = "write"
    /\ UNCHANGED <<remote, lastDate, query, page, maxDate, excused>>

----------------------------------------------------------------------------
(* The journal.                                                             *)

\* The date of the last issue; the journal keeps its own if that is later.
LastIssue == Max({x[2] : x \in page} \cup {lastDate})

\* Mutant: the end of the query is taken for the date of interest.
EndOfQuery == end
DateOfInterest == IF kind = "jira" THEN LastIssue ELSE IF maxDate = None THEN lastDate ELSE maxDate

Tick ==
    /\ pc = "tick"
    /\ lastDate' = DateOfInterest
    /\ pc' = IF kind = "jira" THEN "write" ELSE "keep"
    /\ UNCHANGED <<remote, query, page, maxDate, tried, excused, faults>>

\* The start of the window that was yielded goes to the journal: Messenger.__len__ finds no
\* document pending, ever (Collect tells why).
KeepWindow ==
    /\ pc = "keep" /\ IsLoki
    /\ lastDate' = cursor /\ cursor' = WindowEnd
    /\ pc' = "query"
    /\ UNCHANGED <<remote, start, end, fetched, page, maxDate, tried, excused, faults>>

\* Mutant: the first page is the last one.
IsAnyPage == TRUE
IsLastPage == Cardinality(page) < PageSize

NextPage ==
    /\ pc = "keep" /\ kind = "mpip"
    /\ IF IsLastPage THEN pc' = "write" /\ UNCHANGED cursor ELSE pc' = "query" /\ cursor' = cursor + 1
    /\ UNCHANGED <<remote, lastDate, start, end, fetched, page, maxDate, tried, excused, faults>>

EndPass ==
    /\ pc' = "idle" /\ start' = 0 /\ end' = 0 /\ cursor' = 0 /\ fetched' = FALSE
    /\ page' = {} /\ maxDate' = None

Write ==
    /\ pc = "write"
    /\ lastDate' = IF maxDate = None THEN lastDate ELSE maxDate
    /\ EndPass
    /\ UNCHANGED <<remote, tried, excused, faults>>

\* The process dies, or the last save fails.
Crash ==
    /\ pc # "idle" /\ Fault
    /\ Excuse /\ EndPass
    /\ UNCHANGED <<remote, lastDate, tried>>

Step ==
    \/ Begin \/ GetEntities \/ GetFileList \/ SearchIssues \/ Exhausted
    \/ Ingest \/ Tick \/ KeepWindow \/ NextPage \/ Write

Next ==
    \/ Step \/ Advance
    \/ RequestError \/ Refused \/ Stop \/ IngestError \/ AttachmentError \/ Crash
    \/ \E i \in Item : Appear(i)

Spec == Init /\ [][Next]_vars
FairSpec == Spec /\ WF_vars(Step) /\ WF_vars(Advance)

----------------------------------------------------------------------------
Passed == {x \in Visible : x[2] < lastDate}

\* A pass of MPIP has its older files before it.
ToCome == IF kind = "mpip" /\ fetched THEN Files ELSE {}

\* The search for what is later than a minute leaves out what is of that instant.
Twins ==
    {x \in Visible : /\ kind = "jira" /\ x[2] % Minute = 0
                     /\ \E y \in (tried \cup excused) \ {x} : y[2] = x[2]}

LetGo == excused \cup Twins

\* The date of interest only passes what was tried, or what these collectors let go: the
\* lines of a window whose request fails after another one, or beyond the limit of Loki;
\* the older files of a pass of MPIP that is left; issues whose payload fails, or updated
\* in the same instant, a minute sharp, as another one.
OnlyExcusedGaps == kind # "lokiDefault" => Passed \subseteq tried \cup LetGo \cup ToCome

\* Every item, as it was last updated, is tried in the end, unless it was let go.
EventuallyQueried == <>[]({x \in Visible : x[2] < MaxTime} \subseteq tried \cup LetGo)

\* "preserve time window so it can continue after restart": what ends a pass before its last
\* window does not take the date of interest beyond that window.
WindowIsPreserved ==
    [][IsLoki /\ pc # "idle" /\ pc' = "idle" /\ cursor < end => lastDate' <= WindowEnd]_vars
=============================================================================
