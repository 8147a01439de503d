---------------------------- MODULE ServicesProofs ----------------------------
(***************************************************************************)
(* Proofs about Services, for any files, destinations, interfaces,         *)
(* retries, durations of tokens, paths and faults: what a backup reports   *)
(* is true, an interface is probed by one thread, a token is sent in time, *)
(* and a folder is what the index has.                                     *)
(***************************************************************************)
EXTENDS Services, FiniteSetTheorems, WellFoundedInduction, TLAPS

----------------------------------------------------------------------------
(* Backup.                                                                  *)

InPart == step \in {"compress", "upload", "clean"}
At(p, d) == <<file, p, d>> \in held
Everywhere(p) == \A d \in 1 .. Destinations : At(p, d)

\* What the reports of the part in hand say, and for which destinations there is one.
BatchIsTrue ==
    /\ \A r \in batch : r.status = "OK" => <<r.file, r.part, r.destination>> \in held
    /\ step \in {"upload", "clean"} => \A r \in batch : r.file = file /\ r.part = part
    /\ step = "upload" => \A d \in 1 .. destination - 1 : \E r \in batch : r.destination = d
    /\ step = "clean" /\ ~raised =>
           \A d \in 1 .. Destinations : \E r \in batch : r.destination = d

\* The parts that are done are at every destination, unless one is known to have failed.
DoneIsEverywhere ==
    /\ InPart /\ part = "sidecar" => file \in Sidecars /\ (~failed => Everywhere("data"))
    /\ step \in {"count", "write"} /\ ~failed => \A p \in B!Parts(file) : Everywhere(p)

\* A compressed copy is in use, or of a file that has failed.
CopiesAreKnown ==
    \A f, p : <<f, p>> \in compressed =>
        \/ f \in counted
        \/ f = file /\ step \in {"upload", "clean"} /\ p = part
        \/ f = file /\ step = "count" /\ failed

BackupInv ==
    /\ destination \in 1 .. Destinations
    /\ step \in {"idle", "compress", "upload", "clean", "count", "write"}
    /\ part \in B!Part /\ (raised => step = "clean")
    /\ step # "idle" => file \notin backedUp
    /\ step = "write" /\ failed => file \in counted
    /\ BatchIsTrue /\ DoneIsEverywhere /\ CopiesAreKnown /\ BackupsAreThere

----------------------------------------------------------------------------
(* Monitor.                                                                 *)

Probes(t) == thread[t].at \in {"new", "waiting", "probing"}

ThreadRecord ==
    [of : Interface \cup {"none"},
     at : {"none", "new", "waiting", "probing", "ending", "ended"},
     left : Int, told : BOOLEAN, started : BOOLEAN,
     status : {"OK", "KO"}, answered : BOOLEAN, hung : BOOLEAN]

MonitorInv ==
    /\ thread \in [M!Thread -> ThreadRecord]
    /\ ko \cap retrying = {} /\ ko \subseteq Interface
    /\ main = "start" => \E t \in M!Thread : thread[t].at = "new"
    /\ \A t \in M!Thread : Probes(t) => thread[t].of \in retrying
    /\ OneProbeEach

----------------------------------------------------------------------------
(* Token.                                                                   *)

TokenTypeOK ==
    /\ access \in Int \cup {None} /\ accessDate \in Int
    /\ (accessDate > 0 \/ tokenPc \in {"granted", "send"} => access \in Int)
    /\ tokenPc \in {"idle", "headers", "asking", "granted", "send"}
    /\ how \in {"init", "refresh"} /\ by \in {"init", "refresh"}
    /\ asked \in 0 .. MaxDelay /\ granted \in 0 .. asked
    /\ tokenPc # "granted" => granted = 0
    /\ late \in 0 .. MaxDelay
    /\ tries \in {0, 1} /\ revocations \in 0 .. MaxRevocations

\* What the client believes of its token, and what is left of it.
BeliefIsKnown ==
    T!Untouched /\ Announces =>
        /\ accessDate > 0 => access >= accessDate - (IF by = "init" THEN late ELSE 0)
        /\ tokenPc = "granted" => access = Access - granted
        /\ tokenPc \in {"asking", "granted"} => accessDate <= 0
        /\ tokenPc = "send" /\ (accessDate <= 0 \/ tries = 1) => access = Access - late
        /\ tokenPc = "headers" /\ tries = 1 => accessDate <= 0

TokenInv == TokenTypeOK /\ BeliefIsKnown /\ SentInTime

----------------------------------------------------------------------------
(* ConfigSync.                                                              *)

Listed == IF manifest \in {None, Torn} THEN {} ELSE manifest
Known == mine \cup orphans
On == F!Has(folder)

SyncTypeOK ==
    /\ manifest \in (SUBSET Path) \cup {None, Torn}
    /\ folder \in [Path -> Content \cup {None, Torn}]
    /\ indexed \in [Path -> Content \cup {None}] /\ files \in [Path -> Content \cup {None}]
    /\ F!Has(indexed) \cup F!Has(files) \cup Listed \subseteq ever /\ ever \subseteq Path
    /\ stage \in {"idle", "write", "remove", "synced"}

\* What is left to do at each stage of a sync.
WorkIsDone ==
    /\ stage = "idle" => files = F!Nothing /\ todo = {} /\ gone = {} /\ synced = {}
    /\ stage \in {"remove", "synced"} => todo = {}
    /\ stage = "synced" => gone = {} /\ synced = Listed
    /\ todo \subseteq F!Has(files) \ Reserved /\ gone \cap F!Has(files) = {}

\* A path that was written is as it was read, and will be listed.
WrittenIsCurrent ==
    /\ (F!Has(files) \ Reserved) \ todo \subseteq synced /\ synced \subseteq F!Has(files)
    /\ \A p \in (F!Has(files) \ Reserved) \ (todo \cup edited) : folder[p] = files[p]

\* Where each file of the folder comes from.
FolderIsKnown ==
    /\ On \cap Reserved = {}
    /\ On \subseteq Known \cup Listed \cup synced
    /\ stage \in {"remove", "synced"} => On \subseteq Known \cup gone \cup synced

SyncInv ==
    SyncTypeOK /\ WorkIsDone /\ WrittenIsCurrent /\ FolderIsKnown /\ FolderMirrorsIndex
----------------------------------------------------------------------------
(* A step of the services is one of each of them, or leaves it as it is.    *)

LEMMA BackupSteps == [ServicesNext]_all => [B!Next]_backup
  <1>1. BackupNext => B!Next
    BY DEF BackupNext, InBackup, B!Next
  <1>2. MonitorNext \/ CredentialsNext \/ TokenNext \/ SyncNext => UNCHANGED backup
    BY DEF MonitorNext, CredentialsNext, TokenNext, SyncNext,
       InMonitor, InCredentials, InToken, InSync
  <1> QED
    BY <1>1, <1>2 DEF ServicesNext, all

LEMMA MonitorSteps == [ServicesNext]_all => [M!Next]_monitor
  <1>1. MonitorNext => M!Next
    <2>1. M!Exit => main # "gone"
      BY DEF M!Exit
    <2> QED
      BY <2>1 DEF MonitorNext, InMonitor, M!Next, M!ManagerStep, M!Pass, M!StopStep,
         M!ThreadStep, Alive
  <1>2. BackupNext \/ CredentialsNext \/ TokenNext \/ SyncNext => UNCHANGED monitor
    BY DEF BackupNext, CredentialsNext, TokenNext, SyncNext,
       InBackup, InCredentials, InToken, InSync
  <1> QED
    BY <1>1, <1>2 DEF ServicesNext, all

LEMMA TokenSteps == [ServicesNext]_all => [T!Next]_token
  <1>1. TokenNext => T!Next
    BY DEF TokenNext, InToken, T!Next, T!Step
  <1>2. BackupNext \/ MonitorNext \/ CredentialsNext \/ SyncNext => UNCHANGED token
    BY DEF BackupNext, MonitorNext, CredentialsNext, SyncNext,
       InBackup, InMonitor, InCredentials, InSync
  <1> QED
    BY <1>1, <1>2 DEF ServicesNext, all

LEMMA SyncSteps == [ServicesNext]_all => [F!Next]_folders
  <1>1. SyncNext => F!Next
    BY DEF SyncNext, InSync, F!Next
  <1>2. BackupNext \/ MonitorNext \/ CredentialsNext \/ TokenNext => UNCHANGED folders
    BY DEF BackupNext, MonitorNext, CredentialsNext, TokenNext,
       InBackup, InMonitor, InCredentials, InToken
  <1> QED
    BY <1>1, <1>2 DEF ServicesNext, all

----------------------------------------------------------------------------
(* Backup: what a report says, and a file that is not counted, is true.     *)

LEMMA BackupInit == B!Init => BackupInv
  BY BackupAssumption DEF B!Init, BackupInv, BatchIsTrue, DoneIsEverywhere, CopiesAreKnown, InPart,
     BackupsAreThere, B!ReportsAreTrue, B!UncountedIsEverywhere, B!Part

\* A transfer to the destination at hand, with its report.
LEMMA BackupTransfer ==
    ASSUME BackupInv, B!Upload \/ B!TransferError
    PROVE  BackupInv'
  <1>1. /\ step = "upload" /\ held \subseteq held'
        /\ UNCHANGED <<file, part, reports, raised, failed, compressed, reportIndex, counted, backedUp>>
        /\ \E r \in batch' :
               /\ batch' = batch \cup {r}
               /\ r.file = file /\ r.part = part /\ r.destination = destination
               /\ r.status = "OK" => <<r.file, r.part, r.destination>> \in held'
    <2>1. CASE B!Upload
      <3>1. batch' = batch \cup {B!Report("OK")} /\ B!Report("OK") \in batch'
        BY <2>1 DEF B!Upload
      <3> QED
        BY <2>1, <3>1 DEF B!Upload, B!Report
    <2>2. CASE B!TransferError
      <3>1. batch' = batch \cup {B!Report("KO")} /\ B!Report("KO") \in batch'
        BY <2>2 DEF B!TransferError, B!Failed
      <3> QED
        BY <2>2, <3>1 DEF B!TransferError, B!Report
    <2> QED
      BY <2>1, <2>2
  <1>2. \/ destination = Destinations /\ step' = "clean" /\ destination' = destination
        \/ destination # Destinations /\ step' = "upload" /\ destination' = destination + 1
    BY DEF B!Upload, B!TransferError, B!NextDestination
  <1>3. destination \in Int /\ Destinations \in Int /\ 1 <= destination /\ destination <= Destinations
    BY BackupAssumption DEF BackupInv
  <1>4. BatchIsTrue'
    <2>1. PICK r \in batch' :
               /\ batch' = batch \cup {r}
               /\ r.file = file /\ r.part = part /\ r.destination = destination
               /\ r.status = "OK" => <<r.file, r.part, r.destination>> \in held'
      BY <1>1
    <2>2. \A d \in 1 .. destination : \E q \in batch' : q.destination = d
      <3> SUFFICES ASSUME NEW d \in 1 .. destination
                   PROVE  \E q \in batch' : q.destination = d
        OBVIOUS
      <3>1. CASE d = destination
        BY <2>1, <3>1
      <3>2. CASE d # destination
        <4>1. d \in 1 .. destination - 1
          BY <1>3, <3>2
        <4> QED
          BY <1>1, <2>1, <4>1 DEF BackupInv, BatchIsTrue
      <3> QED
        BY <3>1, <3>2
    <2>3. \A q \in batch' : /\ q.file = file /\ q.part = part
                            /\ q.status = "OK" => <<q.file, q.part, q.destination>> \in held'
      BY <1>1, <2>1 DEF BackupInv, BatchIsTrue
    <2>4. ASSUME step' = "upload" PROVE 1 .. destination' - 1 = 1 .. destination
      BY <1>2, <1>3, <2>4
    <2>5. ASSUME step' = "clean" PROVE Destinations = destination
      BY <1>2, <2>5
    <2>6. step' = "upload" => \A d \in 1 .. destination' - 1 : \E q \in batch' : q.destination = d
      BY <2>2, <2>4
    <2>7. step' = "clean" => \A d \in 1 .. Destinations : \E q \in batch' : q.destination = d
      BY <2>2, <2>5
    <2>8. file' = file /\ part' = part
      BY <1>1
    <2> QED
      BY <2>3, <2>6, <2>7, <2>8 DEF BatchIsTrue
  <1>5. DoneIsEverywhere'
    BY <1>1, <1>2 DEF BackupInv, DoneIsEverywhere, InPart, Everywhere, At
  <1>6. CopiesAreKnown'
    BY <1>1, <1>2 DEF BackupInv, CopiesAreKnown
  <1>7. BackupsAreThere'
    BY <1>1 DEF BackupInv, BackupsAreThere, B!ReportsAreTrue, B!UncountedIsEverywhere
  <1> QED
    BY <1>1, <1>2, <1>3, <1>4, <1>5, <1>6, <1>7 DEF BackupInv, B!Part

LEMMA BackupClean ==
    ASSUME BackupInv, B!Clean
    PROVE  BackupInv'
  <1>1. /\ step = "clean" /\ raised' = FALSE /\ compressed' = compressed \ {<<file, part>>}
        /\ UNCHANGED <<file, destination, batch, held, reportIndex, counted, backedUp>>
        /\ reports' \subseteq reports \cup batch
        /\ \/ part = "data" /\ file \in Sidecars /\ part' = "sidecar" /\ step' = "compress"
           \/ (part # "data" \/ file \notin Sidecars \/ failed') /\ part' = part /\ step' = "count"
    BY DEF B!Clean
  <1>2. ASSUME ~failed' PROVE Everywhere(part) /\ ~failed /\ ~raised
    <2>1. ~raised /\ ~failed /\ \A r \in batch : r.status = "OK"
      BY <1>2 DEF B!Clean, B!OrBefore, B!IsIncomplete
    <2> QED
      BY <1>1, <2>1 DEF BackupInv, BatchIsTrue, Everywhere, At
  <1>3. BatchIsTrue'
    BY <1>1 DEF BackupInv, BatchIsTrue
  <1>4. DoneIsEverywhere'
    <2>1. ASSUME step' = "compress"
          PROVE  part' = "sidecar" /\ file' \in Sidecars /\ (~failed' => Everywhere("data")')
      BY <1>1, <1>2, <2>1 DEF Everywhere, At
    <2>2. ASSUME step' = "count", ~failed', NEW p \in B!Parts(file)
          PROVE  Everywhere(p)'
      <3>1. Everywhere(p)
        BY <1>1, <1>2, <2>2 DEF B!Parts, BackupInv, DoneIsEverywhere, InPart, B!Part
      <3> QED
        BY <1>1, <3>1 DEF Everywhere, At
    <2> QED
      BY <1>1, <2>1, <2>2 DEF DoneIsEverywhere, InPart, B!Parts
  <1>5. CopiesAreKnown'
    BY <1>1 DEF BackupInv, CopiesAreKnown
  <1>6. BackupsAreThere'
    BY <1>1 DEF BackupInv, BackupsAreThere, BatchIsTrue, B!ReportsAreTrue, B!UncountedIsEverywhere
  <1> QED
    BY <1>1, <1>3, <1>4, <1>5, <1>6 DEF BackupInv, B!Part

\* The other steps.
LEMMA BackupStep == BackupInv /\ [B!Next]_backup => BackupInv'
  <1> SUFFICES ASSUME BackupInv, [B!Next]_backup
               PROVE  BackupInv'
    OBVIOUS
  <1> USE DEF BackupInv, BatchIsTrue, DoneIsEverywhere, CopiesAreKnown, InPart, Everywhere, At,
              BackupsAreThere, B!ReportsAreTrue, B!UncountedIsEverywhere, B!Part
  <1>1. ASSUME NEW f \in File, B!Begin(f)
        PROVE  BackupInv'
    BY <1>1 DEF B!Begin
  <1>2. ASSUME NEW f \in File, B!BuildError(f)
        PROVE  BackupInv'
    BY <1>2 DEF B!BuildError
  <1>3. CASE B!Compress
    BY <1>3, BackupAssumption DEF B!Compress
  <1>4. CASE B!CompressError
    BY <1>4 DEF B!CompressError
  <1>5. CASE B!Upload \/ B!TransferError
    BY <1>5, BackupTransfer
  <1>6. CASE B!OtherError
    BY <1>6 DEF B!OtherError
  <1>7. CASE B!Clean
    BY <1>7, BackupClean
  <1>8. CASE B!Count
    BY <1>8 DEF B!Count
  <1>9. CASE B!Write \/ B!WriteError
    BY <1>9 DEF B!Write, B!WriteError, B!Finish
  <1>10. CASE UNCHANGED backup
    BY <1>10 DEF backup, B!Parts
  <1> QED
    BY <1>1, <1>2, <1>3, <1>4, <1>5, <1>6, <1>7, <1>8, <1>9, <1>10 DEF B!Next

\* backup/backup.py, filecollector.py: a report that says OK is about an object its
\* destination holds, and a file the replay does not count as a failure is at every
\* destination with its sidecar, and has left no compressed copy, after any errors.
THEOREM BackedUp == ServicesSpec => []BackupsAreThere
  <1>1. ServicesInit => BackupInv
    BY BackupInit DEF ServicesInit
  <1>2. BackupInv => BackupsAreThere
    BY DEF BackupInv
  <1> QED
    BY <1>1, <1>2, BackupStep, BackupSteps, PTL DEF ServicesSpec

----------------------------------------------------------------------------
(* Token: what is sent has not expired, but for an answer that is late.     *)

LEMMA TokenInit == T!Init => TokenInv
  BY TokenAssumption DEF T!Init, TokenInv, TokenTypeOK, BeliefIsKnown, SentInTime, T!SentInTime

LEMMA SentLate ==
    ASSUME NEW a \in Int, NEW date \in Int, NEW l \in Int, NEW way \in {"init", "refresh"},
           a <= 0,
           IF date > 0 THEN a >= date - (IF way = "init" THEN l ELSE 0) ELSE a = Access - l
    PROVE  l >= Access \/ (way = "init" /\ a + l > 0)
  BY TokenAssumption

LEMMA TokenStep == TokenInv /\ [T!Next]_token => TokenInv'
  <1> SUFFICES ASSUME TokenInv, [T!Next]_token
               PROVE  TokenInv'
    OBVIOUS
  <1> USE TokenAssumption DEF TokenInv
  <1>1. TokenTypeOK'
    <2> USE DEF TokenTypeOK
    <2>1. CASE T!Tick
      BY <2>1 DEF T!Tick, T!Countdown, T!want
    <2>2. CASE T!Revoke
      BY <2>2 DEF T!Revoke, T!dates, T!asking, T!want
    <2>3. CASE T!Grant \/ T!Deny
      BY <2>3 DEF T!Grant, T!Deny, T!dates, T!asking, T!want, T!server
    <2>4. CASE T!GetToken
      BY <2>4 DEF T!GetToken, T!dates, T!asking, T!want, T!server
    <2>5. CASE T!Answer
      BY <2>5 DEF T!Answer, T!server, T!want, T!FromTheAnswer, T!FromTheRequest, T!AnnouncedDate
    <2>6. CASE T!Begin \/ T!Accepted \/ T!Unauthorized
      BY <2>6 DEF T!Begin, T!Accepted, T!Unauthorized, T!server, T!dates, T!asking, T!want
    <2>7. CASE T!Want \/ T!Rebuild
      BY <2>7 DEF T!Want, T!Rebuild, T!server, T!dates, T!asking, T!want
    <2>8. CASE UNCHANGED token
      BY <2>8 DEF token
    <2> QED
      BY <2>1, <2>2, <2>3, <2>4, <2>5, <2>6, <2>7, <2>8 DEF T!Next, T!Step
  <1>2. BeliefIsKnown'
    <2> SUFFICES ASSUME T!Untouched', Announces
                 PROVE  BeliefIsKnown'
      BY DEF BeliefIsKnown
    <2>1. T!Untouched /\ ~T!Revoke
      BY <1>1 DEF TokenTypeOK, T!Untouched, T!Revoke, T!Next, T!Step, T!Tick, T!Grant, T!Deny,
         T!GetToken, T!Answer, T!Begin, T!Accepted, T!Unauthorized, T!Want, T!Rebuild, token
    <2> USE <2>1 DEF BeliefIsKnown, TokenTypeOK
    <2>2. CASE T!Tick
      BY <2>2 DEF T!Tick, T!Countdown, T!want
    <2>3. CASE T!Grant
      BY <2>3 DEF T!Grant, T!dates, T!asking, T!want
    <2>4. CASE T!Deny
      BY <2>4 DEF T!Deny, T!dates, T!server
    <2>5. CASE T!GetToken
      BY <2>5 DEF T!GetToken, T!dates, T!server, T!asking
    <2>6. CASE T!Answer
      BY <2>6 DEF T!Answer, T!server, T!FromTheAnswer, T!FromTheRequest, T!AnnouncedDate
    <2>7. CASE T!Begin \/ T!Accepted \/ T!Unauthorized
      BY <2>7 DEF T!Begin, T!Accepted, T!Unauthorized, T!server, T!dates, T!asking
    <2>8. CASE T!Want \/ T!Rebuild
      BY <2>8 DEF T!Want, T!Rebuild, T!server, T!dates, T!asking
    <2>9. CASE UNCHANGED token
      BY <2>9 DEF token
    <2> QED
      BY <2>1, <2>2, <2>3, <2>4, <2>5, <2>6, <2>7, <2>8, <2>9 DEF T!Next, T!Step
  <1>3. T!Untouched' /\ Announces /\ told' = "refused" => MaxDelay >= Access
    <2> SUFFICES ASSUME T!Untouched', Announces, told' = "refused", told # "refused"
                 PROVE  MaxDelay >= Access
      <3>1. T!Untouched' => T!Untouched
        BY <1>1 DEF TokenTypeOK, T!Untouched, T!Revoke, T!Next, T!Step, T!Tick, T!Grant, T!Deny,
           T!GetToken, T!Answer, T!Begin, T!Accepted, T!Unauthorized, T!Want, T!Rebuild, token
      <3> QED
        BY <3>1 DEF SentInTime, T!SentInTime
    <2>1. T!Unauthorized /\ tries # 0
      BY DEF T!Revoke, T!Next, T!Step, T!Tick, T!Grant, T!Deny, T!GetToken, T!Answer, T!Begin,
         T!Accepted, T!Unauthorized, T!Want, T!Rebuild, token
    <2> QED
      BY <2>1 DEF T!Unauthorized, T!Untouched, TokenTypeOK, BeliefIsKnown
  <1>4. ASSUME T!Untouched', Announces, tokenPc' = "send", access' <= 0
        PROVE  late' >= Access \/ (by' = "init" /\ access' + late' > 0)
    <2>1. access' \in Int /\ accessDate' \in Int /\ late' \in Int /\ by' \in {"init", "refresh"}
      BY <1>1, <1>4 DEF TokenTypeOK
    <2>2. IF accessDate' > 0
          THEN access' >= accessDate' - (IF by' = "init" THEN late' ELSE 0)
          ELSE access' = Access - late'
      <3>1. /\ accessDate' > 0 => access' >= accessDate' - (IF by' = "init" THEN late' ELSE 0)
            /\ tokenPc' = "send" /\ (accessDate' <= 0 \/ tries' = 1) => access' = Access - late'
        BY <1>2, <1>4 DEF BeliefIsKnown
      <3>2. ~(accessDate' > 0) <=> accessDate' <= 0
        BY <2>1
      <3> QED
        BY <1>4, <3>1, <3>2
    <2> QED
      BY <1>4, <2>1, <2>2, SentLate
  <1> QED
    BY <1>1, <1>2, <1>3, <1>4 DEF SentInTime, T!SentInTime

\* http/authentication.py: a token that expired is only sent if its answer came after it had,
\* or is the first one, of an answer that late; and a download is not refused for good, if
\* answers take less time than a token lasts: for tokens and answers of any duration.
THEOREM Sent == ServicesSpec => []SentInTime
  <1>1. ServicesInit => TokenInv
    BY TokenInit DEF ServicesInit
  <1>2. TokenInv => SentInTime
    BY DEF TokenInv
  <1> QED
    BY <1>1, <1>2, TokenStep, TokenSteps, PTL DEF ServicesSpec

----------------------------------------------------------------------------
(* Monitor: an interface is probed by one thread.                           *)

LEMMA HasLeast ==
    ASSUME NEW k \in Nat, NEW S \in SUBSET (1 .. k), S # {}
    PROVE  \E m \in S : \A n \in S : m <= n
  <1> DEFINE U == {1 .. n - 1 : n \in S}
  <1>1. U \subseteq FiniteSubsetsOf(Nat) /\ U # {}
    <2>1. ASSUME NEW n \in S PROVE 1 .. n - 1 \in FiniteSubsetsOf(Nat)
      <3>1. IsFiniteSet(1 .. n - 1)
        BY FS_Interval
      <3> QED
        BY <3>1 DEF FiniteSubsetsOf
    <2> QED
      BY <2>1
  <1>2. PICK I \in U : \A J \in U : <<J, I>> \notin StrictSubsetOrdering(Nat)
    <2>1. IsWellFoundedOn(StrictSubsetOrdering(Nat), FiniteSubsetsOf(Nat))
      BY FS_StrictSubsetOrderingWellFounded
    <2> QED
      BY <1>1, <2>1, WFMin
  <1>3. PICK m \in S : I = 1 .. m - 1
    OBVIOUS
  <1>4. ASSUME NEW n \in S, n < m PROVE FALSE
    <2>1. 1 .. n - 1 \in U /\ 1 .. n - 1 \subseteq I /\ n \in I \ (1 .. n - 1)
      BY <1>3, <1>4
    <2>2. 1 .. n - 1 \in SUBSET Nat /\ I \in SUBSET Nat
      BY <1>3
    <2> QED
      BY <1>2, <2>1, <2>2 DEF StrictSubsetOrdering
  <1> QED
    BY <1>4

LEMMA HasGreatest ==
    ASSUME NEW k \in Nat, NEW S \in SUBSET (1 .. k), S # {}
    PROVE  \E m \in S : \A n \in S : m >= n
  <1> DEFINE U == {k + 1 - n : n \in S}
  <1>1. U \in SUBSET (1 .. k) /\ U # {}
    <2>1. ASSUME NEW n \in S PROVE k + 1 - n \in 1 .. k
      OBVIOUS
    <2> QED
      BY <2>1
  <1>2. PICK m \in U : \A n \in U : m <= n
    <2> HIDE DEF U
    <2> QED
      BY <1>1, HasLeast
  <1>3. PICK x \in S : m = k + 1 - x
    OBVIOUS
  <1>4. ASSUME NEW n \in S PROVE x >= n
    <2>1. m <= k + 1 - n
      BY <1>2
    <2> QED
      BY <1>3, <2>1
  <1> QED
    BY <1>4

\* The thread the main thread makes, and the one it starts.
LEMMA NewThread ==
    /\ M!New # {} => M!Min(M!New) \in M!New
    /\ LET new == {u \in M!Thread : thread[u].at = "new"} IN
       new # {} => M!Max(new) \in new
  <1>1. ASSUME M!New # {} PROVE M!Min(M!New) \in M!New
    <2>1. \E m \in M!New : \A n \in M!New : m <= n
      BY <1>1, HasLeast, MonitorAssumption DEF M!New, M!Thread
    <2> QED
      BY <2>1 DEF M!Min
  <1> DEFINE new == {u \in M!Thread : thread[u].at = "new"}
  <1>2. ASSUME new # {} PROVE M!Max(new) \in new
    <2>1. \E m \in new : \A n \in new : m >= n
      BY <1>2, HasGreatest, MonitorAssumption DEF M!Thread
    <2> HIDE DEF new
    <2> QED
      BY <2>1 DEF M!Max
  <1> QED
    BY <1>1, <1>2

LEMMA MonitorInit == M!Init => MonitorInv
  BY DEF M!Init, MonitorInv, ThreadRecord, M!NoThread, Probes, OneProbeEach, M!OneProbeEach

\* A thread that goes on, or ends: it keeps its interface, and resets the flag at its end.
LEMMA ThreadGoesOn ==
    ASSUME MonitorInv, NEW t \in M!Thread,
           M!Wake(t) \/ M!Probe(t) \/ M!Hang(t) \/ M!Die(t)
    PROVE  MonitorInv'
  <1> USE DEF ThreadRecord
  <1>1. thread \in [M!Thread -> ThreadRecord] /\ thread[t] \in ThreadRecord
    BY DEF MonitorInv
  <1>2. \E r \in ThreadRecord :
           /\ thread' = [thread EXCEPT ![t] = r] /\ r.of = thread[t].of
           /\ thread[t].at # "new"
           /\ \/ /\ Probes(t) /\ r.at = "ending" /\ retrying' = retrying \ {r.of}
              \/ /\ Probes(t) /\ r.at \in {"waiting", "probing"} /\ retrying' = retrying
              \/ /\ ~Probes(t) /\ r.at = "ended" /\ retrying' = retrying
    <2>1. CASE M!Wake(t)
      BY <1>1, <2>1 DEF M!Wake, M!Over, Probes
    <2>2. CASE M!Probe(t)
      <3> DEFINE up1 == thread[t].of \in up
                 r == [thread[t] EXCEPT !.answered = up1, !.left = @ - 1,
                                        !.status = M!Verdict(thread[t].of, up1, @)]
      <3>1. r \in ThreadRecord /\ r.of = thread[t].of
        <4>1. thread[t].left - 1 \in Int /\ up1 \in BOOLEAN
          BY <1>1
        <4>2. M!Verdict(thread[t].of, up1, thread[t].status) \in {"OK", "KO"}
          BY <1>1 DEF M!Verdict
        <4>3. r = [[[thread[t] EXCEPT !.answered = up1] EXCEPT !.left = thread[t].left - 1]
                       EXCEPT !.status = M!Verdict(thread[t].of, up1, thread[t].status)]
          BY <1>1
        <4> HIDE DEF r, up1
        <4> QED
          BY <1>1, <4>1, <4>2, <4>3
      <3>2. \A a \in {"waiting", "ending"} :
                /\ [r EXCEPT !.at = a] \in ThreadRecord
                /\ [r EXCEPT !.at = a].of = r.of /\ [r EXCEPT !.at = a].at = a
        BY <3>1
      <3>3. \/ thread' = [thread EXCEPT ![t] = [r EXCEPT !.at = "ending"]]
               /\ retrying' = retrying \ {r.of}
            \/ thread' = [thread EXCEPT ![t] = [r EXCEPT !.at = "waiting"]] /\ retrying' = retrying
        BY <2>2 DEF M!Probe, M!Over
      <3>4. thread[t].at = "probing"
        BY <2>2 DEF M!Probe
      <3> HIDE DEF r
      <3> QED
        BY <3>1, <3>2, <3>3, <3>4 DEF Probes
    <2>3. CASE M!Hang(t)
      <3> DEFINE r == [thread[t] EXCEPT !.hung = TRUE]
      <3>1. r \in ThreadRecord /\ r.of = thread[t].of /\ r.at = "probing" /\ thread[t].at = "probing"
        BY <1>1, <2>3 DEF M!Hang
      <3>2. thread' = [thread EXCEPT ![t] = r] /\ retrying' = retrying
        BY <2>3 DEF M!Hang
      <3> HIDE DEF r
      <3> QED
        BY <3>1, <3>2 DEF Probes
    <2>4. CASE M!Die(t)
      <3> DEFINE r == [thread[t] EXCEPT !.at = "ended"]
      <3>1. r \in ThreadRecord /\ r.of = thread[t].of /\ r.at = "ended" /\ thread[t].at = "ending"
        BY <1>1, <2>4 DEF M!Die
      <3>2. thread' = [thread EXCEPT ![t] = r] /\ retrying' = retrying
        BY <2>4 DEF M!Die
      <3> HIDE DEF r
      <3> QED
        BY <3>1, <3>2 DEF Probes
    <2> QED
      BY <2>1, <2>2, <2>3, <2>4
  <1>3. UNCHANGED <<ko, main>>
    BY DEF M!Wake, M!Probe, M!Hang, M!Die, M!OnlyThreads, M!mainVars
  <1>4. PICK r \in ThreadRecord :
           /\ thread' = [thread EXCEPT ![t] = r] /\ r.of = thread[t].of
           /\ thread[t].at # "new"
           /\ \/ /\ Probes(t) /\ r.at = "ending" /\ retrying' = retrying \ {r.of}
              \/ /\ Probes(t) /\ r.at \in {"waiting", "probing"} /\ retrying' = retrying
              \/ /\ ~Probes(t) /\ r.at = "ended" /\ retrying' = retrying
    BY <1>2
  <1>5. \A u \in M!Thread : thread'[u] = IF u = t THEN r ELSE thread[u]
    BY <1>1, <1>4
  <1>6. thread' \in [M!Thread -> ThreadRecord]
    BY <1>1, <1>4
  <1>7. \A u \in M!Thread : Probes(u)' => Probes(u) /\ thread'[u].of = thread[u].of
    BY <1>4, <1>5 DEF Probes
  <1>8. ko' \cap retrying' = {} /\ ko' \subseteq Interface
    BY <1>3, <1>4 DEF MonitorInv
  <1>9. main' = "start" => \E u \in M!Thread : thread'[u].at = "new"
    <2>1. ASSUME NEW u \in M!Thread, thread[u].at = "new" PROVE thread'[u].at = "new"
      BY <1>4, <1>5, <2>1
    <2> QED
      BY <1>3, <2>1 DEF MonitorInv
  <1>10. OneProbeEach'
    BY <1>7 DEF MonitorInv, OneProbeEach, M!OneProbeEach, Probes
  <1>11. \A u \in M!Thread : Probes(u)' => thread'[u].of \in retrying'
    <2> SUFFICES ASSUME NEW u \in M!Thread, Probes(u)'
                 PROVE  thread'[u].of \in retrying'
      OBVIOUS
    <2>1. thread[u].of \in retrying /\ thread'[u].of = thread[u].of
      BY <1>7 DEF MonitorInv
    <2>2. CASE retrying' = retrying
      BY <2>1, <2>2
    <2>3. CASE Probes(t) /\ r.at = "ending" /\ retrying' = retrying \ {r.of}
      <3>1. u # t
        BY <1>5, <2>3 DEF Probes
      <3>2. thread[u].of # thread[t].of
        BY <1>7, <2>3, <3>1 DEF MonitorInv, OneProbeEach, M!OneProbeEach, Probes
      <3> QED
        BY <1>4, <2>1, <2>3, <3>2
    <2> QED
      BY <1>4, <2>2, <2>3
  <1> QED
    BY <1>6, <1>8, <1>9, <1>10, <1>11 DEF MonitorInv

\* The main thread makes a thread for an interface whose flag is not set.
LEMMA ThreadIsMade ==
    ASSUME MonitorInv, NEW i \in Interface, M!AddRetry(i)
    PROVE  MonitorInv'
  <1> USE DEF ThreadRecord
  <1> DEFINE t == M!Min(M!New)
             new == [M!NoThread EXCEPT !.of = i, !.at = "new", !.left = Retries]
  <1>1. /\ thread' = [thread EXCEPT ![t] = new] /\ i \in ko /\ M!New # {}
        /\ retrying' = retrying \cup {i} /\ ko' = ko \ {i} /\ main' = "start"
    BY DEF M!AddRetry, M!Flagged
  <1>2. t \in M!Thread /\ thread[t].at = "none"
    BY <1>1, NewThread DEF M!New
  <1>3. /\ new \in ThreadRecord
        /\ new.of = i /\ new.at = "new"
    <2>1. M!NoThread \in ThreadRecord
      BY DEF M!NoThread
    <2>2. Retries \in Int
      BY MonitorAssumption
    <2> QED
      BY <2>1, <2>2
  <1> HIDE DEF t, new
  <1>4. thread' \in [M!Thread -> ThreadRecord]
    BY <1>1, <1>2, <1>3 DEF MonitorInv
  <1>5. \A u \in M!Thread : thread'[u] = IF u = t THEN new ELSE thread[u]
    BY <1>1, <1>2 DEF MonitorInv
  <1>6. \A u \in M!Thread : Probes(u)' =>
            \/ u = t /\ thread'[u].of = i
            \/ u # t /\ Probes(u) /\ thread'[u].of = thread[u].of /\ thread[u].of # i
    BY <1>1, <1>3, <1>5 DEF MonitorInv, Probes
  <1>7. OneProbeEach'
    BY <1>6 DEF MonitorInv, OneProbeEach, M!OneProbeEach, Probes
  <1>8. \A u \in M!Thread : Probes(u)' => thread'[u].of \in retrying'
    BY <1>1, <1>6 DEF MonitorInv
  <1>9. ko' \cap retrying' = {} /\ ko' \subseteq Interface
    BY <1>1 DEF MonitorInv
  <1>10. \E u \in M!Thread : thread'[u].at = "new"
    BY <1>2, <1>3, <1>5
  <1> QED
    BY <1>4, <1>7, <1>8, <1>9, <1>10 DEF MonitorInv

\* A thread is started, or told to stop.
LEMMA ThreadIsStarted ==
    ASSUME MonitorInv, M!Start \/ M!Tell
    PROVE  MonitorInv'
  <1> USE DEF ThreadRecord
  <1>1. UNCHANGED <<retrying, ko>> /\ main' \in {main, "retry"} /\ (M!Start => main' = "retry")
    BY DEF M!Start, M!Tell, M!OnlyStop
  <1>2. /\ DOMAIN thread' = M!Thread
        /\ \A u \in M!Thread :
              /\ thread'[u] \in ThreadRecord
              /\ thread'[u].of = thread[u].of
              /\ \/ thread'[u].at = thread[u].at
                 \/ M!Start /\ thread[u].at = "new" /\ thread'[u].at = "waiting"
    <2>1. CASE M!Start
      <3> DEFINE new == {u \in M!Thread : thread[u].at = "new"}
                 t == M!Max(new)
      <3>1. t \in M!Thread /\ thread[t].at = "new"
        <4>1. new # {}
          BY <2>1 DEF M!Start, M!Main, MonitorInv
        <4> QED
          BY <4>1, NewThread
      <3>2. thread' = [thread EXCEPT ![t].at = "waiting"]
        BY <2>1 DEF M!Start
      <3> HIDE DEF t
      <3> QED
        BY <2>1, <3>1, <3>2 DEF MonitorInv
    <2>2. CASE M!Tell
      <3>1. PICK t : thread' = [thread EXCEPT ![t].told = TRUE]
        BY <2>2 DEF M!Tell
      <3>2. ASSUME NEW u \in M!Thread
            PROVE  thread'[u] = thread[u] \/ thread'[u] = [thread[u] EXCEPT !.told = TRUE]
        BY <3>1 DEF MonitorInv
      <3>3. ASSUME NEW u \in M!Thread
            PROVE  /\ thread'[u] \in ThreadRecord
                   /\ thread'[u].of = thread[u].of /\ thread'[u].at = thread[u].at
        <4>1. thread[u] \in ThreadRecord
          BY DEF MonitorInv
        <4>2. CASE thread'[u] = thread[u]
          BY <4>1, <4>2
        <4>3. CASE thread'[u] = [thread[u] EXCEPT !.told = TRUE]
          BY <4>1, <4>3
        <4> QED
          BY <3>2, <4>2, <4>3
      <3>4. DOMAIN thread' = M!Thread
        BY <3>1 DEF MonitorInv
      <3> QED
        BY <3>3, <3>4
    <2> QED
      BY <2>1, <2>2
  <1>3. thread' \in [M!Thread -> ThreadRecord]
    <2>1. thread' = [u \in M!Thread |-> thread'[u]]
      BY <1>2 DEF M!Start, M!Tell, MonitorInv
    <2> QED
      BY <1>2, <2>1
  <1>4. \A u \in M!Thread : Probes(u)' => Probes(u) /\ thread'[u].of = thread[u].of
    BY <1>2 DEF Probes
  <1>5. OneProbeEach'
    BY <1>4 DEF MonitorInv, OneProbeEach, M!OneProbeEach, Probes
  <1>6. \A u \in M!Thread : Probes(u)' => thread'[u].of \in retrying'
    BY <1>1, <1>4 DEF MonitorInv
  <1>7. main' = "start" => \E u \in M!Thread : thread'[u].at = "new"
    BY <1>1, <1>2 DEF MonitorInv
  <1> QED
    BY <1>1, <1>3, <1>5, <1>6, <1>7 DEF MonitorInv

\* The other steps leave the threads and their flags as they are.
LEMMA MonitorStep == MonitorInv /\ [M!Next]_monitor => MonitorInv'
  <1> SUFFICES ASSUME MonitorInv, [M!Next]_monitor
               PROVE  MonitorInv'
    OBVIOUS
  <1>1. ASSUME UNCHANGED <<thread, retrying>>, main' # "start" \/ main' = main,
               ko' \subseteq ko \/ ko' = (Interface \ up) \ retrying
        PROVE  MonitorInv'
    BY <1>1 DEF MonitorInv, Probes, OneProbeEach, M!OneProbeEach
  <1>2. ASSUME NEW t \in M!Thread, M!Wake(t) \/ M!Probe(t) \/ M!Hang(t) \/ M!Die(t)
        PROVE  MonitorInv'
    BY <1>2, ThreadGoesOn
  <1>3. ASSUME NEW i \in Interface, M!AddRetry(i)
        PROVE  MonitorInv'
    BY <1>3, ThreadIsMade
  <1>4. CASE M!Start \/ M!Tell
    BY <1>4, ThreadIsStarted
  <1>5. CASE M!ManagerStep
    BY <1>1, <1>5 DEF M!ManagerStep, M!Scan, M!Put, M!Join, M!OnlyManager, M!mainVars
  <1>6. CASE M!Begin \/ M!Lock \/ M!Get \/ M!ReportRetried \/ M!IsStuck \/ M!Kill \/ M!ProbeAll
    BY <1>1, <1>6 DEF M!Begin, M!Lock, M!Get, M!ReportRetried, M!IsStuck, M!Kill, M!ProbeAll,
       M!Break, M!threads
  <1>7. CASE M!StartError \/ M!End \/ M!Finally \/ M!Signal
    BY <1>1, <1>7 DEF M!StartError, M!End, M!Finally, M!Signal, M!Break, M!threads, M!OnlyStop
  <1>8. CASE M!JoinThread \/ M!JoinError \/ M!JoinManager \/ M!Exit
    BY <1>1, <1>8 DEF M!JoinThread, M!JoinError, M!JoinManager, M!Exit, M!OnlyStop
  <1>9. ASSUME NEW i \in Interface, M!Flip(i)
        PROVE  MonitorInv'
    BY <1>1, <1>9 DEF M!Flip, M!threads, M!mainVars
  <1>10. CASE UNCHANGED monitor
    BY <1>1, <1>10 DEF monitor
  <1> QED
    BY <1>2, <1>3, <1>4, <1>5, <1>6, <1>7, <1>8, <1>9, <1>10 DEF M!Next, M!Pass, M!StopStep,
       M!ThreadStep

\* monitorcollector.py: no interface is probed by two threads, whatever signals, errors of
\* the main thread, threads that hang, and interfaces that go up and down meanwhile.
THEOREM Probed == ServicesSpec => []OneProbeEach
  <1>1. ServicesInit => MonitorInv
    BY MonitorInit DEF ServicesInit
  <1>2. MonitorInv => OneProbeEach
    BY DEF MonitorInv
  <1> QED
    BY <1>1, <1>2, MonitorStep, MonitorSteps, PTL DEF ServicesSpec


----------------------------------------------------------------------------
(* ConfigSync: what is in the folder is known to the sync, or to a user.    *)

LEMMA SyncInit == F!Init => SyncInv
  BY SyncAssumption DEF F!Init, SyncInv, SyncTypeOK, WorkIsDone, WrittenIsCurrent, FolderIsKnown,
     Known, Listed, On, F!Has, F!Nothing, F!Untouched, FolderMirrorsIndex, F!FolderMirrorsIndex

\* The index changes: what a sync has read does not.
LEMMA SyncChange ==
    ASSUME SyncInv, NEW p \in Path, NEW c \in Content \cup {None}, F!Change(p, c)
    PROVE  SyncInv'
  <1>1. /\ indexed' = [indexed EXCEPT ![p] = c] /\ ever' = ever \cup {p}
        /\ UNCHANGED <<folder, manifest, stage, files, todo, gone, synced, mine, orphans, edited>>
    BY DEF F!Change, F!disk, F!work
  <1>2. indexed' \in [Path -> Content \cup {None}] /\ F!Has(indexed)' \subseteq F!Has(indexed) \cup {p}
    BY <1>1 DEF SyncInv, SyncTypeOK, F!Has
  <1> QED
    BY <1>1, <1>2 DEF SyncInv, SyncTypeOK, WorkIsDone, WrittenIsCurrent, FolderIsKnown, Known, Listed,
       On, F!Has, F!Nothing, F!Untouched, FolderMirrorsIndex, F!FolderMirrorsIndex

\* A user edits the folder: the file is his, or it is not there any more.
LEMMA SyncEdit ==
    ASSUME SyncInv, NEW p \in Path, NEW c \in Content \cup {None}, F!Edit(p, c)
    PROVE  SyncInv'
  <1>1. /\ folder' = [folder EXCEPT ![p] = c] /\ edited' = edited \cup {p} /\ p \notin Reserved
        /\ UNCHANGED <<indexed, manifest, stage, files, todo, gone, synced, ever>>
        /\ \/ c = None /\ mine' = mine \ {p} /\ orphans' = orphans \ {p}
           \/ c # None /\ mine' = mine \cup {p} /\ orphans' = orphans
    BY DEF F!Edit, F!work
  <1>2. /\ folder' \in [Path -> Content \cup {None, Torn}]
        /\ \A q \in Path : folder'[q] = IF q = p THEN c ELSE folder[q]
    BY <1>1 DEF SyncInv, SyncTypeOK
  <1>3. \/ c = None /\ On' = On \ {p} /\ Known' = Known \ {p}
        \/ c # None /\ On' = On \cup {p} /\ Known' = Known \cup {p}
    BY <1>1, <1>2 DEF On, Known, F!Has
  <1>4. SyncTypeOK' /\ WorkIsDone'
    BY <1>1, <1>2 DEF SyncInv, SyncTypeOK, WorkIsDone, Listed, F!Has, F!Nothing
  <1>5. WrittenIsCurrent'
    BY <1>1, <1>2 DEF SyncInv, WrittenIsCurrent, F!Has
  <1>6. FolderIsKnown'
    BY <1>1, <1>3 DEF SyncInv, FolderIsKnown, Listed
  <1>7. FolderMirrorsIndex'
    BY <1>1, <1>2, <1>3 DEF SyncInv, FolderMirrorsIndex, F!FolderMirrorsIndex, F!Untouched, F!Has,
       On, Known
  <1> QED
    BY <1>4, <1>5, <1>6, <1>7 DEF SyncInv

LEMMA SyncWrite ==
    ASSUME SyncInv, NEW p \in Path, F!Write(p)
    PROVE  SyncInv'
  <1>1. /\ stage = "write" /\ p \in todo /\ folder' = [folder EXCEPT ![p] = files[p]]
        /\ synced' = synced \cup {p} /\ todo' = todo \ {p}
        /\ UNCHANGED <<indexed, manifest, stage, files, gone, mine, ever, orphans, edited>>
    BY DEF F!Write, F!Listed, F!history
  <1>2. p \in F!Has(files) \ Reserved /\ p \in ever
    BY <1>1 DEF SyncInv, SyncTypeOK, WorkIsDone
  <1>3. /\ folder' \in [Path -> Content \cup {None, Torn}]
        /\ \A q \in Path : folder'[q] = IF q = p THEN files[p] ELSE folder[q]
    BY <1>1 DEF SyncInv, SyncTypeOK
  <1>4. On' = On \cup {p}
    BY <1>2, <1>3 DEF On, F!Has
  <1>5. SyncTypeOK' /\ WorkIsDone'
    BY <1>1, <1>3 DEF SyncInv, SyncTypeOK, WorkIsDone, Listed, F!Has, F!Nothing
  <1>6. WrittenIsCurrent'
    BY <1>1, <1>2, <1>3 DEF SyncInv, WrittenIsCurrent, F!Has
  <1>7. FolderIsKnown'
    BY <1>1, <1>2, <1>4 DEF SyncInv, FolderIsKnown, Known, Listed
  <1>8. FolderMirrorsIndex'
    BY <1>1, <1>4 DEF SyncInv, FolderMirrorsIndex, F!FolderMirrorsIndex, On
  <1> QED
    BY <1>5, <1>6, <1>7, <1>8 DEF SyncInv

\* The files that are on disk and that the manifest does not list any more are to go.
LEMMA SyncReadManifest ==
    ASSUME SyncInv, F!ReadManifest
    PROVE  SyncInv'
  <1>1. /\ stage = "write" /\ todo = {} /\ gone' = Listed \ F!Has(files) /\ stage' = "remove"
        /\ UNCHANGED <<indexed, folder, manifest, files, todo, synced, mine, ever, orphans, edited>>
    BY DEF F!ReadManifest, F!Manifest, Listed, F!disk, F!history
  <1>2. On \subseteq Known \cup gone' \cup synced
    BY <1>1 DEF SyncInv, FolderIsKnown, WrittenIsCurrent
  <1> QED
    BY <1>1, <1>2 DEF SyncInv, SyncTypeOK, WorkIsDone, WrittenIsCurrent, FolderIsKnown, Known, Listed,
       On, F!Has, F!Nothing, FolderMirrorsIndex, F!FolderMirrorsIndex

LEMMA SyncRemove ==
    ASSUME SyncInv, NEW p \in Path, F!Remove(p)
    PROVE  SyncInv'
  <1>1. /\ stage = "remove" /\ p \in gone /\ folder' = [folder EXCEPT ![p] = None]
        /\ gone' = gone \ {p} /\ orphans' = orphans \ {p} /\ mine' = mine \ {p}
        /\ UNCHANGED <<indexed, manifest, stage, files, todo, synced, ever, edited>>
    BY DEF F!Remove
  <1>2. /\ folder' \in [Path -> Content \cup {None, Torn}]
        /\ \A q \in Path : folder'[q] = IF q = p THEN None ELSE folder[q]
    BY <1>1 DEF SyncInv, SyncTypeOK
  <1>3. On' = On \ {p} /\ Known' = Known \ {p}
    BY <1>1, <1>2 DEF On, Known, F!Has
  <1>4. SyncTypeOK' /\ WorkIsDone'
    BY <1>1, <1>2 DEF SyncInv, SyncTypeOK, WorkIsDone, Listed, F!Has, F!Nothing
  <1>5. WrittenIsCurrent'
    BY <1>1, <1>2 DEF SyncInv, WrittenIsCurrent, WorkIsDone, F!Has
  <1>6. FolderIsKnown'
    BY <1>1, <1>3 DEF SyncInv, FolderIsKnown, Listed
  <1>7. FolderMirrorsIndex'
    BY <1>1, <1>3 DEF SyncInv, FolderMirrorsIndex, F!FolderMirrorsIndex, On
  <1> QED
    BY <1>4, <1>5, <1>6, <1>7 DEF SyncInv

\* The sync is over: every file it read is there, and every other one is known.
LEMMA SyncWriteManifest ==
    ASSUME SyncInv, F!WriteManifest
    PROVE  SyncInv'
  <1>1. /\ stage = "remove" /\ gone = {} /\ todo = {} /\ stage' = "synced"
        /\ orphans' = orphans \ synced
        /\ UNCHANGED <<indexed, folder, files, todo, gone, synced, mine, ever, edited>>
    BY DEF F!WriteManifest, F!work, SyncInv, WorkIsDone
  <1>2. manifest' \in (SUBSET Path) \cup {None, Torn} /\ Listed' = synced
    <2>1. synced \in SUBSET Path /\ synced # None /\ synced # Torn
      BY SyncAssumption DEF SyncInv, WrittenIsCurrent, F!Has
    <2> QED
      BY <2>1 DEF F!WriteManifest, Listed
  <1>3. On \subseteq mine \cup orphans' \cup synced
    BY <1>1 DEF SyncInv, FolderIsKnown, Known
  <1>4. synced \subseteq F!Has(files) /\ F!Has(files) \subseteq ever
    BY DEF SyncInv, WrittenIsCurrent, SyncTypeOK
  <1>5. F!FolderMirrorsIndex'
    BY <1>1, <1>3, <1>4 DEF SyncInv, WrittenIsCurrent, FolderMirrorsIndex, F!FolderMirrorsIndex,
       F!Untouched, On, F!Has
  <1>6. SyncTypeOK' /\ WorkIsDone'
    BY <1>1, <1>2, <1>4 DEF SyncInv, SyncTypeOK, WorkIsDone, F!Has, F!Nothing
  <1>7. WrittenIsCurrent' /\ FolderIsKnown'
    BY <1>1, <1>2, <1>3 DEF SyncInv, WrittenIsCurrent, FolderIsKnown, Known, On, F!Has
  <1> QED
    BY <1>5, <1>6, <1>7 DEF SyncInv, FolderMirrorsIndex

\* A sync is cut short: what it has written and nothing lists is an orphan.
LEMMA SyncCrash ==
    ASSUME SyncInv, F!Crash
    PROVE  SyncInv'
  <1>1. PICK torn \in SUBSET todo :
            folder' = [p \in Path |-> IF p \in torn THEN Torn ELSE folder[p]]
    BY DEF F!Crash
  <1>2. /\ manifest' \in {manifest, Torn}
        /\ orphans' = orphans \cup ((On' \cap ever) \ Listed')
        /\ stage' = "idle" /\ files' = F!Nothing /\ todo' = {} /\ gone' = {} /\ synced' = {}
        /\ UNCHANGED <<indexed, mine, ever, edited>>
    BY DEF F!Crash, F!Leave, On, Listed
  <1>3. /\ folder' \in [Path -> Content \cup {None, Torn}]
        /\ On' = On \cup torn
    BY <1>1, SyncAssumption DEF SyncInv, SyncTypeOK, WorkIsDone, On, F!Has
  <1>4. Listed' \subseteq Listed
    BY <1>2 DEF Listed
  <1>5. F!Has(files)' = {}
    BY <1>2 DEF F!Has, F!Nothing
  <1>6. SyncTypeOK' /\ WorkIsDone' /\ WrittenIsCurrent'
    BY <1>2, <1>3, <1>4, <1>5, SyncAssumption DEF SyncInv, SyncTypeOK, WorkIsDone, WrittenIsCurrent,
       F!Has, F!Nothing
  <1>7. FolderIsKnown'
    <2>1. torn \cap Reserved = {} /\ torn \subseteq ever
      BY DEF SyncInv, SyncTypeOK, WorkIsDone
    <2>2. On' \subseteq Known \cup Listed' \cup ((On' \cap ever) \ Listed')
      BY <1>3, <2>1 DEF SyncInv, SyncTypeOK, WrittenIsCurrent, FolderIsKnown
    <2> QED
      BY <1>2, <1>3, <2>1, <2>2 DEF SyncInv, FolderIsKnown, Known
  <1>8. FolderMirrorsIndex'
    BY <1>2, <1>3 DEF SyncInv, FolderMirrorsIndex, F!FolderMirrorsIndex, On
  <1> QED
    BY <1>6, <1>7, <1>8 DEF SyncInv

LEMMA SyncStep == SyncInv /\ [F!Next]_folders => SyncInv'
  <1> SUFFICES ASSUME SyncInv, [F!Next]_folders
               PROVE  SyncInv'
    OBVIOUS
  <1>1. CASE F!Read
    BY <1>1 DEF F!Read, F!disk, SyncInv, SyncTypeOK, WorkIsDone, WrittenIsCurrent, FolderIsKnown,
       Known, Listed, On, F!Has, F!Nothing, FolderMirrorsIndex, F!FolderMirrorsIndex
  <1>2. CASE F!End
    BY <1>2 DEF F!End, F!Leave, F!disk, F!history, SyncInv, SyncTypeOK, WorkIsDone,
       WrittenIsCurrent, FolderIsKnown, Known, Listed, On, F!Has, F!Nothing, FolderMirrorsIndex,
       F!FolderMirrorsIndex
  <1>3. CASE UNCHANGED folders
    BY <1>3 DEF folders, SyncInv, SyncTypeOK, WorkIsDone, WrittenIsCurrent, FolderIsKnown, Known,
       Listed, On, F!Has, F!Nothing, F!Untouched, FolderMirrorsIndex, F!FolderMirrorsIndex
  <1> QED
    BY <1>1, <1>2, <1>3, SyncChange, SyncEdit, SyncWrite, SyncReadManifest, SyncRemove,
       SyncWriteManifest, SyncCrash DEF F!Next

\* configsync.py: after a sync, whatever was edited, changed or cut short before, the folder
\* has the files that were current, no other one is there that the sync wrote and could
\* know of, and a user's own file is left alone.
THEOREM Synced == ServicesSpec => []FolderMirrorsIndex
  <1>1. ServicesInit => SyncInv
    BY SyncInit DEF ServicesInit
  <1>2. SyncInv => FolderMirrorsIndex
    BY DEF SyncInv
  <1> QED
    BY <1>1, <1>2, SyncStep, SyncSteps, PTL DEF ServicesSpec
=============================================================================
