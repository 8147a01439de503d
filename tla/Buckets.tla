------------------------------- MODULE Buckets -------------------------------
(***************************************************************************)
(* The S3 collector: rawdata/collector/s3collector.py.  Each pass pages    *)
(* through every key of every bucket, and ingests the objects that are     *)
(* dated between the first date of the configuration and the start of the  *)
(* pass: what was ingested is ingested again, and found unchanged.  A page *)
(* starts after the last key that was seen, whatever the bucket.           *)
(***************************************************************************)
EXTENDS Integers, Sequences, FiniteSets, SequencesExt

CONSTANTS
    Buckets,    \* how many buckets: they are numbered as in the configuration
    Keys,       \* keys are 1..Keys, in their order
    MaxKeys,    \* keys of a page
    Broken,     \* sets of objects whose extraction raises
    MaxClock,   \* bound
    MaxTroubles \* bound: errors, signals and deaths

Object == (1..Buckets) \X (1..Keys)

VARIABLES
    broken, now, modified,     \* of each object: its date, 0 before it is there
    at,                        \* where the pass stands
    bucket, startAfter, page, needNext, iterEnd,
    shouldStop, ingested, troubles

objects == <<broken, now, modified>>
place == <<bucket, startAfter, page, needNext>>
vars == <<objects, at, place, iterEnd, shouldStop, ingested, troubles>>

Stored == {o \in Object : modified[o] > 0}
Trouble == troubles > 0 /\ troubles' = troubles - 1

Init ==
    /\ broken \in Broken /\ now = 1 /\ modified = [o \in Object |-> 0]
    /\ at = "idle" /\ bucket = 1 /\ startAfter = 0 /\ page = <<>> /\ needNext = FALSE
    /\ iterEnd = 0 /\ shouldStop = FALSE /\ ingested = {} /\ troubles = MaxTroubles

PutObject(o) ==
    /\ modified[o] = 0 /\ modified' = [modified EXCEPT ![o] = now]
    /\ UNCHANGED <<broken, now, at, place, iterEnd, shouldStop, ingested, troubles>>

Pass ==
    /\ now < MaxClock /\ now' = now + 1
    /\ UNCHANGED <<broken, modified, at, place, iterEnd, shouldStop, ingested, troubles>>

----------------------------------------------------------------------------
Begin ==
    /\ at = "idle" /\ ~shouldStop
    /\ at' = "page" /\ bucket' = 1 /\ startAfter' = 0 /\ iterEnd' = now
    /\ UNCHANGED <<objects, page, needNext, shouldStop, ingested, troubles>>

\* list_objects_v2.
KeysAfter(b, k) == SetToSortSeq({i \in 1..Keys : i > k /\ <<b, i>> \in Stored}, <)
FirstKeys(keys) == SubSeq(keys, 1, IF Len(keys) < MaxKeys THEN Len(keys) ELSE MaxKeys)

\* Mutant: a page is never more than full.
IsOverfull(keys) == Len(keys) > MaxKeys
IsFull(keys) == Len(keys) >= MaxKeys

ListObjects ==
    LET keys == FirstKeys(KeysAfter(bucket, startAfter)) IN
    /\ at = "page" /\ bucket <= Buckets /\ ~shouldStop
    /\ page' = keys /\ needNext' = IsFull(keys) /\ at' = "objects"
    /\ UNCHANGED <<objects, bucket, startAfter, iterEnd, shouldStop, ingested, troubles>>

InTime(o) == modified[o] <= iterEnd

\* A signal stops the loops before the next object, or cuts the extraction short.  What the
\* extraction raises ends the pass.
Ingest ==
    LET o == <<bucket, Head(page)>> IN
    /\ at = "objects" /\ page # <<>>
    /\ ~(InTime(o) /\ o \in broken)
    /\ IF InTime(o) THEN ingested' \in {ingested \cup {o}, IF shouldStop THEN ingested ELSE ingested \cup {o}}
                    ELSE UNCHANGED ingested
    /\ page' = Tail(page) /\ startAfter' = o[2]
    /\ UNCHANGED <<objects, at, bucket, needNext, iterEnd, shouldStop, troubles>>

Abandon ==
    /\ at' = "idle" /\ bucket' = 1 /\ startAfter' = 0 /\ page' = <<>> /\ needNext' = FALSE
    /\ iterEnd' = 0

ExtractError ==
    /\ at = "objects" /\ page # <<>>
    /\ LET o == <<bucket, Head(page)>> IN InTime(o) /\ o \in broken
    /\ Abandon /\ UNCHANGED <<objects, shouldStop, ingested, troubles>>

\* The tick of the journal; the next page, or the next bucket.
EndPage ==
    /\ at = "objects" /\ (page = <<>> \/ shouldStop)
    /\ page' = <<>> /\ at' = "page"
    /\ bucket' = IF needNext /\ ~shouldStop THEN bucket ELSE bucket + 1
    /\ UNCHANGED <<objects, startAfter, needNext, iterEnd, shouldStop, ingested, troubles>>

\* The date the journal gets, the start of the pass, is read by nobody.
End ==
    /\ at = "page" /\ (bucket > Buckets \/ shouldStop)
    /\ Abandon /\ UNCHANGED <<objects, shouldStop, ingested, troubles>>

ServerError ==
    /\ at # "idle" /\ Trouble /\ Abandon
    /\ UNCHANGED <<objects, shouldStop, ingested>>

Stop ==
    /\ ~shouldStop /\ Trouble /\ shouldStop' = TRUE
    /\ UNCHANGED <<objects, at, place, iterEnd, ingested>>

Restart ==
    /\ at = "idle" /\ shouldStop /\ shouldStop' = FALSE
    /\ UNCHANGED <<objects, at, place, iterEnd, ingested, troubles>>

Step == Begin \/ ListObjects \/ Ingest \/ ExtractError \/ EndPage \/ End \/ Restart

Next ==
    \/ Step \/ Pass \/ ServerError \/ Stop
    \/ \E o \in Object : PutObject(o)

Spec == Init /\ [][Next]_vars
FairSpec == Spec /\ WF_vars(Step)

----------------------------------------------------------------------------
Before(o, p) == o[1] < p[1] \/ (o[1] = p[1] /\ o[2] < p[2])

\* An earlier bucket has a key that is not before its own.
Overshadowed(o) == \E p \in Stored : p[1] < o[1] /\ p[2] >= o[2]

\* An object whose extraction raises ends each pass, and is in the way of those behind.
Blocked(o) == \E p \in Stored \cap broken : p = o \/ Before(p, o)

\* Every object is ingested in the end, but those behind one that raises, and those whose
\* key an earlier bucket has passed.
EventuallyIngested ==
    <>[](\A o \in Stored : o \in ingested \/ Blocked(o) \/ Overshadowed(o))

\* docs/s3collector.md:35: the buckets of the configuration are those to query or watch.
EveryBucketIsWatched ==
    <>[](\A o \in Stored : o \in ingested \/ Blocked(o))
=============================================================================
