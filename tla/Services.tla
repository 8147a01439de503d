------------------------------ MODULE Services ------------------------------
(***************************************************************************)
(* The services around the collectors: the backup of what a replay         *)
(* ingests, the monitor, the credentials, the token of a downloader, and   *)
(* the local copy of a configuration.  Each has its own state; a behaviour *)
(* is one of them, chosen at the start, and the others keep their first    *)
(* state, so that the properties are those of the five modules.            *)
(***************************************************************************)
EXTENDS Integers, FiniteSets

CONSTANTS
    File, Sidecars, Destinations, NoFile, MaxErrors,         \* Backup
    Interface, Http, Retries, MaxThreads, MaxFlips, MaxFaults, \* Monitor
    Configs, Entry, NoEntry, Uses, Secret, Contents, Absent, MaxRotations, MaxLoadErrors,
                                                             \* Credentials
    Access, Refresh, Announces, Day, None, MaxDelay, MaxRevocations, \* Token
    Path, Reserved, Content, Torn, MaxChanges, MaxEdits, MaxMishaps  \* ConfigSync

\* A backup has a destination.
ASSUME BackupAssumption == Destinations \in Nat \ {0}

ASSUME MonitorAssumption == MaxThreads \in Nat /\ Retries \in Nat

\* A token lasts, and an answer takes some time.
ASSUME TokenAssumption ==
    /\ Access \in Nat \ {0} /\ Day \in Nat /\ None \notin Int
    /\ MaxDelay \in Nat /\ MaxRevocations \in Nat

\* The manifest that is not there, or cut short, lists no path.
ASSUME SyncAssumption ==
    /\ \A S \in SUBSET Path : S # None /\ S # Torn
    /\ None # Torn /\ None \notin Content

VARIABLES
    service,
    gzip, step, file, part, destination, batch, reports, raised, failed, compressed,
    held, reportIndex, counted, backedUp, uploadErrors,
    up, retrying, thread, retryThreads, data, mutex, main, ko, inHand, manager, finished,
    runEvent, stop, index, joining, stopping, reported, lost, flips, faults,
    provider, source, denied, pc, unread, entries, unreadable, at, previous, attributes,
    keys, client, touched, changes, errors,
    access, refresh, accessDate, refreshDate, tokenPc, how, asked, granted, late, by,
    tries, told, wanted, served, revocations,
    indexed, folder, manifest, stage, files, todo, gone, synced, mine, ever, orphans, edited,
    updates, edits, mishaps

B == INSTANCE Backup WITH
    index <- reportIndex, finished <- backedUp, errors <- uploadErrors
M == INSTANCE Monitor
C == INSTANCE Credentials WITH MaxChanges <- MaxRotations, MaxErrors <- MaxLoadErrors
T == INSTANCE Token WITH pc <- tokenPc
F == INSTANCE ConfigSync WITH
    MaxFaults <- MaxMishaps, source <- indexed, changes <- updates

backup == <<gzip, step, file, part, destination, batch, reports, raised, failed, compressed,
            held, reportIndex, counted, backedUp, uploadErrors>>
monitor == <<up, retrying, thread, retryThreads, data, mutex, main, ko, inHand, manager,
             finished, runEvent, stop, index, joining, stopping, reported, lost, flips, faults>>
credentials == <<provider, source, denied, pc, unread, entries, unreadable, at, previous,
                 attributes, keys, client, touched, changes, errors>>
token == <<access, refresh, accessDate, refreshDate, tokenPc, how, asked, granted, late, by,
           tries, told, wanted, served, revocations>>
folders == <<indexed, folder, manifest, stage, files, todo, gone, synced, mine, ever, orphans,
             edited, updates, edits, mishaps>>
all == <<service, backup, monitor, credentials, token, folders>>

----------------------------------------------------------------------------
InBackup(A) ==
    service = "backup" /\ A /\ UNCHANGED <<service, monitor, credentials, token, folders>>
InMonitor(A) ==
    service = "monitor" /\ A /\ UNCHANGED <<service, backup, credentials, token, folders>>
InCredentials(A) ==
    service = "credentials" /\ A /\ UNCHANGED <<service, backup, monitor, token, folders>>
InToken(A) ==
    service = "token" /\ A /\ UNCHANGED <<service, backup, monitor, credentials, folders>>
InSync(A) ==
    service = "sync" /\ A /\ UNCHANGED <<service, backup, monitor, credentials, token>>

ServicesInit ==
    /\ service \in {"backup", "monitor", "credentials", "token", "sync"}
    /\ B!Init /\ M!Init /\ C!Init /\ T!Init /\ F!Init

BackupNext ==
    \/ InBackup(B!Compress)
    \/ InBackup(B!CompressError)
    \/ InBackup(B!Upload)
    \/ InBackup(B!TransferError)
    \/ InBackup(B!OtherError)
    \/ InBackup(B!Clean)
    \/ InBackup(B!Count)
    \/ InBackup(B!Write)
    \/ InBackup(B!WriteError)
    \/ \E f \in File : InBackup(B!Begin(f))
    \/ \E f \in File : InBackup(B!BuildError(f))

Alive == main # "gone"
MonitorNext ==
    \/ InMonitor(Alive /\ M!Scan)
    \/ InMonitor(Alive /\ M!Put)
    \/ InMonitor(Alive /\ M!Join)
    \/ InMonitor(M!Begin)
    \/ InMonitor(M!Lock)
    \/ InMonitor(M!Get)
    \/ InMonitor(M!ReportRetried)
    \/ InMonitor(M!IsStuck)
    \/ InMonitor(M!Kill)
    \/ InMonitor(M!ProbeAll)
    \/ InMonitor(M!Start)
    \/ InMonitor(M!StartError)
    \/ InMonitor(M!End)
    \/ InMonitor(M!Finally)
    \/ InMonitor(M!Signal)
    \/ InMonitor(Alive /\ M!Tell)
    \/ InMonitor(Alive /\ M!JoinThread)
    \/ InMonitor(Alive /\ M!JoinError)
    \/ InMonitor(Alive /\ M!JoinManager)
    \/ InMonitor(M!Exit)
    \/ \E i \in Interface : InMonitor(M!AddRetry(i))
    \/ \E i \in Interface : InMonitor(M!Flip(i))
    \/ \E t \in M!Thread : InMonitor(Alive /\ M!Wake(t))
    \/ \E t \in M!Thread : InMonitor(Alive /\ M!Probe(t))
    \/ \E t \in M!Thread : InMonitor(Alive /\ M!Die(t))
    \/ \E t \in M!Thread : InMonitor(M!Hang(t))

CredentialsNext ==
    \/ InCredentials(C!Begin)
    \/ InCredentials(C!ReadFile)
    \/ InCredentials(C!Load)
    \/ InCredentials(C!Compare)
    \/ InCredentials(C!SetOne)
    \/ InCredentials(C!SetRefused)
    \/ InCredentials(C!Done)
    \/ InCredentials(C!ReadError)
    \/ InCredentials(C!Rotate)
    \/ \E c \in C!Config : InCredentials(C!Collect(c))
    \/ \E e \in Entry : InCredentials(C!ReadSecret(e))
    \/ \E e \in Entry : InCredentials(C!ChangePolicy(e))

TokenNext ==
    \/ InToken(T!Grant)
    \/ InToken(T!Deny)
    \/ InToken(T!GetToken)
    \/ InToken(T!Answer)
    \/ InToken(T!Begin)
    \/ InToken(T!Accepted)
    \/ InToken(T!Unauthorized)
    \/ InToken(T!Tick)
    \/ InToken(T!Revoke)
    \/ InToken(T!Want)
    \/ InToken(T!Rebuild)

SyncNext ==
    \/ InSync(F!Read)
    \/ InSync(F!ReadManifest)
    \/ InSync(F!WriteManifest)
    \/ InSync(F!End)
    \/ InSync(F!Crash)
    \/ \E p \in Path : InSync(F!Write(p))
    \/ \E p \in Path : InSync(F!Remove(p))
    \/ \E p \in Path, c \in Content \cup {None} : InSync(F!Change(p, c))
    \/ \E p \in Path, c \in Content \cup {None} : InSync(F!Edit(p, c))

ServicesNext == BackupNext \/ MonitorNext \/ CredentialsNext \/ TokenNext \/ SyncNext

\* The fairness of the modules: where they need a condition of one kind, one condition is
\* the conditions of all, for a behaviour is one service only.
Step ==
    \/ InMonitor(M!Pass)
    \/ InCredentials(C!Step)
    \/ InToken(T!Step)
Sometimes ==
    \/ InMonitor(M!ManagerStep)
    \/ InToken(T!Tick)

ServicesSpec == ServicesInit /\ [][ServicesNext]_all
Fairness ==
    /\ WF_all(Step) /\ SF_all(Sometimes) /\ WF_all(InMonitor(M!StopStep))
    /\ \A t \in M!Thread : WF_all(InMonitor(M!ThreadStep(t)))

----------------------------------------------------------------------------
\* The properties of the modules.

\* backup/backup.py, filecollector.py: a report that says OK is about an object that is there,
\* and a file the replay does not count as a failure is at every destination.
BackupsAreThere == B!ReportsAreTrue /\ B!UncountedIsEverywhere

\* monitorcollector.py: never two threads for an interface that may still probe it.
OneProbeEach == M!OneProbeEach

\* monitorcollector.py: what was down is reported, and a process that stops ends.
ProbesEventuallySettled == service = "monitor" => M!EventuallySettled

\* credentialmixin.py: every configuration has the credentials of the source in the end.
EventuallyCurrent == service = "credentials" => C!EventuallyCurrent

\* http/authentication.py: a token that expired is only sent if its answer was late.
SentInTime == T!SentInTime

\* transfer/download.py: every download is served in the end.
EventuallyServed == service = "token" => T!EventuallyServed

\* configsync.py: the folder has what the index has, and what others put there.
FolderMirrorsIndex == F!FolderMirrorsIndex
=============================================================================
