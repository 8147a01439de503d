------------------------------ MODULE Collectors ------------------------------
(***************************************************************************)
(* The collectors other than OData's: Listing, the S3 collector (Buckets), *)
(* the products of a page (Products) and the queries of Loki, MPIP and     *)
(* Jira (Queries).  Each has its own state; a behaviour is one of them,    *)
(* chosen at the start, and the others keep their first state, so that the *)
(* properties are those of the four modules.                               *)
(***************************************************************************)
EXTENDS Listing, FiniteSets

CONSTANTS
    Buckets, Keys, MaxKeys, Broken, MaxClock,             \* Buckets
    Product, Page, Validity, MaxFailures,                 \* Products
    Api, Item, Window, Limit, PageSize, Minute, LastDate  \* Queries

\* Items are numbered, which is how those of one date are told apart; queries and pages are
\* not empty.
ASSUME QueriesAssumption ==
    /\ Item \subseteq Nat /\ IsFiniteSet(Item)
    /\ Api \subseteq {"loki", "lokiDefault", "mpip", "jira"}
    /\ {Window, Limit, PageSize, Minute} \subseteq Nat \ {0}
    /\ LastDate \in Nat /\ None \notin Int

VARIABLES
    collector,
    broken, now, modified, bucketAt, bucket, startAfter, bucketPage, needNext, iterEnd,
    shouldStop, objectsIngested, troubles,
    api, apiNow, dated, lastDate, queryAt, start, end, cursor, answer, fetched, maxDate,
    tried, excused, queryFaults,
    page, at, urls, age, disk, files, extracted, mixed, ingested, failures

S3 == INSTANCE Buckets WITH
    MaxTroubles <- MaxFaults, at <- bucketAt, page <- bucketPage, ingested <- objectsIngested
Catalog == INSTANCE Products
Q == INSTANCE Queries WITH
    Kind <- Api, MaxTime <- LastDate,
    kind <- api, now <- apiNow, date <- dated, pc <- queryAt, page <- answer,
    faults <- queryFaults

buckets == <<broken, now, modified, bucketAt, bucket, startAfter, bucketPage, needNext, iterEnd,
             shouldStop, objectsIngested, troubles>>
products == <<page, at, urls, age, disk, files, extracted, mixed, ingested, failures>>
queries == <<api, apiNow, dated, lastDate, queryAt, start, end, cursor, answer, fetched,
             maxDate, tried, excused, queryFaults>>
all == <<collector, vars, buckets, products, queries>>

----------------------------------------------------------------------------
InListing(A) == collector = "listing" /\ A /\ UNCHANGED <<collector, buckets, products, queries>>
InS3(A) == collector = "s3" /\ A /\ UNCHANGED <<collector, vars, products, queries>>
InCatalog(A) == collector = "catalogue" /\ A /\ UNCHANGED <<collector, vars, buckets, queries>>
InQuery(A) == collector = "query" /\ A /\ UNCHANGED <<collector, vars, buckets, products>>

CollectorsInit ==
    /\ collector \in {"listing", "s3", "catalogue", "query"}
    /\ Init /\ S3!Init /\ Catalog!Init /\ Q!Init

ListingNext ==
    \/ InListing(Begin)
    \/ InListing(StopListing)
    \/ InListing(Extract)
    \/ InListing(Raise)
    \/ InListing(Skip)
    \/ InListing(End)
    \/ InListing(Restart)
    \/ InListing(Advance)
    \/ InListing(ServerError)
    \/ InListing(SaveError)
    \/ InListing(Stop)
    \/ InListing(Crash)
    \/ \E d \in Directory : InListing(List(d))
    \/ \E f \in File : InListing(Take(f))
    \/ \E f \in File : InListing(Appear(f))

BucketsNext ==
    \/ InS3(S3!Begin)
    \/ InS3(S3!ListObjects)
    \/ InS3(S3!Ingest)
    \/ InS3(S3!ExtractError)
    \/ InS3(S3!EndPage)
    \/ InS3(S3!End)
    \/ InS3(S3!Restart)
    \/ InS3(S3!Pass)
    \/ InS3(S3!ServerError)
    \/ InS3(S3!Stop)
    \/ \E o \in S3!Object : InS3(S3!PutObject(o))

ProductsNext ==
    \/ InCatalog(Catalog!Begin)
    \/ InCatalog(Catalog!Download)
    \/ InCatalog(Catalog!TokenExpired)
    \/ InCatalog(Catalog!EndDownload)
    \/ InCatalog(Catalog!Extract)
    \/ InCatalog(Catalog!ExtractError)
    \/ InCatalog(Catalog!Ingest)
    \/ InCatalog(Catalog!Failure)

QueriesNext ==
    \/ InQuery(Q!Begin)
    \/ InQuery(Q!GetEntities)
    \/ InQuery(Q!GetFileList)
    \/ InQuery(Q!SearchIssues)
    \/ InQuery(Q!Exhausted)
    \/ InQuery(Q!Ingest)
    \/ InQuery(Q!Tick)
    \/ InQuery(Q!KeepWindow)
    \/ InQuery(Q!NextPage)
    \/ InQuery(Q!Write)
    \/ InQuery(Q!Advance)
    \/ InQuery(Q!RequestError)
    \/ InQuery(Q!Refused)
    \/ InQuery(Q!Stop)
    \/ InQuery(Q!IngestError)
    \/ InQuery(Q!AttachmentError)
    \/ InQuery(Q!Crash)
    \/ \E i \in Item : InQuery(Q!Appear(i))

CollectorsNext == ListingNext \/ BucketsNext \/ ProductsNext \/ QueriesNext

\* One condition is the four of the modules: a process is one collector only.
CollectorsStep ==
    \/ InListing(Step)
    \/ InS3(S3!Step)
    \/ InCatalog(Catalog!Step)
    \/ InQuery(Q!Step)

CollectorsSpec == CollectorsInit /\ [][CollectorsNext]_all
Fairness == WF_all(CollectorsStep) /\ WF_all(InQuery(Q!Advance))

----------------------------------------------------------------------------
\* The properties of the modules.

\* The date of the journal passes what is not collected for the reasons that are known only:
\* ftpcollector.py, rosftpcollector.py, webdavcollector.py; loki/v1_impl.py,
\* mpip/v1_impl.py, jiraxcollector.py.
GapsAreKnown == OnlyKnownGaps /\ Q!OnlyExcusedGaps

\* The same: every file, line and issue is tried in the end, the known gaps excepted.
FoundEventuallyTried ==
    /\ collector = "listing" => EventuallyTried
    /\ collector = "query" => Q!EventuallyQueried

\* s3collector.py: every object is ingested in the end.
EventuallyIngested == collector = "s3" => S3!EventuallyIngested

\* odatacollector.py: a page and its products are ingested in the end.
EventuallyAllIngested == collector = "catalogue" => Catalog!EventuallyAllIngested

\* docs/s3collector.md:35: the buckets of the configuration are those to query or watch.
EveryBucketIsWatched == collector = "s3" => S3!EveryBucketIsWatched

\* loki/v1_impl.py:79: a pass that is stopped goes on with the windows that were left.
WindowIsPreserved == Q!WindowIsPreserved
=============================================================================
