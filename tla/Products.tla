------------------------------ MODULE Products ------------------------------
(***************************************************************************)
(* The products a page of a catalogue names, downloaded and extracted      *)
(* before the page itself: post_process_data of odatacollector.py, which   *)
(* mpipcollector.py repeats, tools/archivetools.py and, around them,       *)
(* save_in_file_and_extract of httpcollector.py.  All the files of a page  *)
(* are written under their names in one directory, then extracted one      *)
(* after the other and removed.  An error breaks the pass off; the next    *)
(* one begins with the same page.                                          *)
(***************************************************************************)
EXTENDS Integers, Sequences, FiniteSets, SequencesExt

CONSTANTS
    Product,
    Page,        \* what a page may be, see below
    Validity,    \* how many downloads a token lasts
    MaxFailures  \* bound

(* A page: [patterns |-> for each pattern of download_file_pattern, the products it         *)
(* matches in their order; handlers |-> for each product, the configurations that match its *)
(* name; members |-> for each product and each of those, the names of the files in it, the  *)
(* product itself if it is no archive; bad |-> names of files whose extraction raises].     *)

VARIABLES
    page,
    at, urls, age,    \* the products still to download, and the age of the token
    disk,             \* of each name in the directory: the product it comes from
    files,            \* <<name, product, configuration>> to extract
    extracted,        \* history: those whose documents are indexed
    mixed,            \* history: a file was read that came from another product
    ingested,         \* the page is
    failures

vars == <<page, at, urls, age, disk, files, extracted, mixed, ingested, failures>>

NoFile == [n \in {} |-> n]
On(names, p) == [n \in names |-> p]

Init ==
    /\ page \in Page
    /\ at = "idle" /\ urls = <<>> /\ age = 0 /\ disk = NoFile /\ files = <<>>
    /\ extracted = {} /\ mixed = FALSE /\ ingested = FALSE /\ failures = MaxFailures

----------------------------------------------------------------------------
\* Mutant: the authentication is kept from one pass to the next.
KeptToken == age
NewToken == 0

\* match_file_pattern_with_product_name: a product two patterns match is there twice.
Begin ==
    /\ at = "idle" /\ ~ingested
    /\ urls' = FlattenSeq(page.patterns) /\ age' = NewToken /\ files' = <<>>
    /\ at' = "download"
    /\ UNCHANGED <<page, disk, extracted, mixed, ingested, failures>>

\* What is in the directory stays there.
BreakOff == at' = "idle" /\ urls' = <<>> /\ files' = <<>>

\* The files of a product, for every configuration its name matches.  An archive is removed.
Written(p) == UNION {page.members[p][c] : c \in ToSet(page.handlers[p])}
Overlay(f, g) == [n \in DOMAIN f \cup DOMAIN g |-> IF n \in DOMAIN f THEN f[n] ELSE g[n]]
Listed(p) ==
    FlattenSeq([i \in DOMAIN page.handlers[p] |->
        LET c == page.handlers[p][i] IN
        SetToSeq({<<n, p, c>> : n \in page.members[p][c]})])

Download ==
    LET p == Head(urls) IN
    /\ at = "download" /\ urls # <<>> /\ age < Validity
    /\ disk' = Overlay(On(Written(p), p), disk) /\ files' = files \o Listed(p)
    /\ urls' = Tail(urls) /\ age' = age + 1
    /\ UNCHANGED <<page, at, extracted, mixed, ingested, failures>>

\* The headers are made once: the server refuses the token that has expired meanwhile.
TokenExpired ==
    /\ at = "download" /\ urls # <<>> /\ age >= Validity
    /\ BreakOff /\ UNCHANGED <<page, age, disk, extracted, mixed, ingested, failures>>

EndDownload ==
    /\ at = "download" /\ urls = <<>> /\ at' = "extract"
    /\ UNCHANGED <<page, urls, age, disk, files, extracted, mixed, ingested, failures>>

\* extract_from_file_download.
Extract ==
    LET file == Head(files)
        n == file[1]
    IN
    /\ at = "extract" /\ files # <<>> /\ n \in DOMAIN disk /\ n \notin page.bad
    /\ extracted' = extracted \cup {file} /\ mixed' = (mixed \/ disk[n] # file[2])
    /\ disk' = [m \in DOMAIN disk \ {n} |-> disk[m]]
    /\ files' = Tail(files)
    /\ UNCHANGED <<page, at, urls, age, ingested, failures>>

\* The extraction raises, or the file was removed after another: then so does its removal.
ExtractError ==
    LET n == Head(files)[1] IN
    /\ at = "extract" /\ files # <<>> /\ (n \notin DOMAIN disk \/ n \in page.bad)
    /\ disk' = [m \in DOMAIN disk \ {n} |-> disk[m]]
    /\ BreakOff /\ UNCHANGED <<page, age, extracted, mixed, ingested, failures>>

\* The page itself.
Ingest ==
    /\ at = "extract" /\ files = <<>>
    /\ ingested' = TRUE /\ at' = "idle"
    /\ UNCHANGED <<page, urls, age, disk, files, extracted, mixed, failures>>

\* The server, the database, the end of the process.
Failure ==
    /\ at # "idle" /\ failures > 0 /\ failures' = failures - 1
    /\ disk' \in {disk, NoFile}
    /\ BreakOff /\ UNCHANGED <<page, age, extracted, mixed, ingested>>

Step == Begin \/ Download \/ TokenExpired \/ EndDownload \/ Extract \/ ExtractError \/ Ingest
Next == Step \/ Failure

Spec == Init /\ [][Next]_vars
FairSpec == Spec /\ WF_vars(Step)

----------------------------------------------------------------------------
AllUrls == FlattenSeq(page.patterns)
AllFiles == FlattenSeq([i \in DOMAIN AllUrls |-> Listed(AllUrls[i])])

\* A name is listed twice: two patterns or two configurations match one product, or two
\* archives hold files of one name.
Clash == \E i, j \in DOMAIN AllFiles : i # j /\ AllFiles[i][1] = AllFiles[j][1]

\* A page is ingested in the end, and then all its products are, if no name is listed twice,
\* no file is bad, and the downloads do not outlast the token; what is extracted is what was
\* downloaded for it.
EventuallyAllIngested ==
    ~Clash => /\ page.bad = {} /\ Len(AllUrls) <= Validity ~> ingested /\ ToSet(AllFiles) = extracted
              /\ [](~mixed)
=============================================================================
