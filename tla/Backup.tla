-------------------------------- MODULE Backup --------------------------------
(***************************************************************************)
(* The backup of the files a replay ingests: backup/backup.py with its S3  *)
(* and local implementations, rawdata/backup_report.py, and what           *)
(* rawdata/collector/filecollector.py makes of their reports.  A file, and *)
(* its sidecar if it has one, goes to each destination in turn, compressed *)
(* or not; nothing of this may break the ingestion.                        *)
(***************************************************************************)
EXTENDS Integers, FiniteSets

CONSTANTS
    File, Sidecars,   \* files to back up, and those that have a sidecar
    Destinations,     \* how many destinations, in their order
    NoFile,
    MaxErrors         \* bound

Part == {"data", "sidecar"}
Status == {"OK", "KO"}

VARIABLES
    gzip,       \* enable_gzip
    step, file, part, destination,
    batch,      \* reports of the part in hand
    reports,    \* ... and of the parts before it
    raised,     \* what the implementation raised is on its way
    failed,     \* a part is not everywhere
    compressed, \* compressed copies on the local disk
    held,       \* <<file, part, destination>> that the destinations hold
    index,      \* reports that are stored
    counted,    \* files that backup_failures counts
    finished,   \* history: files whose backup ended
    errors

vars == <<gzip, step, file, part, destination, batch, reports, raised, failed, compressed,
          held, index, counted, finished, errors>>

Report(status) == [file |-> file, part |-> part, destination |-> destination, status |-> status]
Error == errors > 0 /\ errors' = errors - 1

Init ==
    /\ gzip \in BOOLEAN
    /\ step = "idle" /\ file = NoFile /\ part = "data" /\ destination = 1
    /\ batch = {} /\ reports = {} /\ raised = FALSE /\ failed = FALSE
    /\ compressed = {} /\ held = {} /\ index = {} /\ counted = {} /\ finished = {}
    /\ errors = MaxErrors

----------------------------------------------------------------------------
\* build_backup_block, and the object of the backup.
Begin(f) ==
    /\ step = "idle" /\ f \notin finished
    /\ file' = f /\ part' = "data" /\ batch' = {} /\ reports' = {} /\ failed' = FALSE
    /\ step' = "compress"
    /\ UNCHANGED <<gzip, destination, raised, compressed, held, index, counted, finished, errors>>

\* A key is missing, or the backup cannot be built.
BuildError(f) ==
    /\ step = "idle" /\ f \notin finished /\ Error
    /\ file' = f /\ reports' = {} /\ failed' = TRUE /\ step' = "count"
    /\ UNCHANGED <<gzip, part, destination, batch, raised, compressed, held, index, counted, finished>>

Compress ==
    /\ step = "compress"
    /\ compressed' = IF gzip THEN compressed \cup {<<file, part>>} ELSE compressed
    /\ destination' = 1 /\ batch' = {} /\ step' = "upload"
    /\ UNCHANGED <<gzip, file, part, reports, raised, failed, held, index, counted, finished, errors>>

\* The disk is full: what is compressed so far stays.
CompressError ==
    /\ step = "compress" /\ gzip /\ Error
    /\ compressed' = compressed \cup {<<file, part>>}
    /\ failed' = TRUE /\ step' = "count"
    /\ UNCHANGED <<gzip, file, part, destination, batch, reports, raised, held, index, counted, finished>>

----------------------------------------------------------------------------
(* One transfer after the other.                                            *)

NextDestination ==
    IF destination = Destinations
    THEN step' = "clean" /\ UNCHANGED destination
    ELSE destination' = destination + 1 /\ UNCHANGED step

Upload ==
    /\ step = "upload"
    /\ held' = held \cup {<<file, part, destination>>} /\ batch' = batch \cup {Report("OK")}
    /\ NextDestination
    /\ UNCHANGED <<gzip, file, part, reports, raised, failed, compressed, index, counted, finished, errors>>

\* Mutant: a transfer that was tried is a transfer.
Tried == "OK"
Failed == "KO"

\* One of TRANSFER_ERRORS: reported, and the next destination is tried all the same.
TransferError ==
    /\ step = "upload" /\ Error
    /\ held' \in {held, held \cup {<<file, part, destination>>}}
    /\ batch' = batch \cup {Report(Failed)} /\ NextDestination
    /\ UNCHANGED <<gzip, file, part, reports, raised, failed, compressed, index, counted, finished>>

\* Any other error, or the one of a handler of signals: what was transferred is not reported.
OtherError ==
    /\ step = "upload" /\ Error
    /\ raised' = TRUE /\ step' = "clean"
    /\ UNCHANGED <<gzip, file, part, destination, batch, reports, failed, compressed, held, index, counted, finished>>

\* Mutant: the sidecar answers for the file.
OfThisPart(incomplete) == incomplete
OrBefore(incomplete) == failed \/ incomplete

IsIncomplete ==
    \/ Cardinality(batch) # Destinations
    \/ \E r \in batch : r.status # "OK"

\* The compressed copy is removed in any case; then the sidecar.
Clean ==
    /\ step = "clean"
    /\ compressed' = compressed \ {<<file, part>>} /\ raised' = FALSE
    /\ reports' = IF raised THEN reports ELSE reports \cup batch
    /\ failed' = (raised \/ OrBefore(IsIncomplete))
    /\ IF ~raised /\ part = "data" /\ file \in Sidecars
       THEN part' = "sidecar" /\ step' = "compress"
       ELSE step' = "count" /\ UNCHANGED part
    /\ UNCHANGED <<gzip, file, destination, batch, held, index, counted, finished, errors>>

----------------------------------------------------------------------------
\* The replay counts the file, then the reports are stored by one bulk request.
Count ==
    /\ step = "count"
    /\ counted' = IF failed THEN counted \cup {file} ELSE counted
    /\ step' = "write"
    /\ UNCHANGED <<gzip, file, part, destination, batch, reports, raised, failed, compressed, held, index, finished, errors>>

Finish ==
    /\ finished' = finished \cup {file} /\ file' = NoFile /\ step' = "idle"
    /\ UNCHANGED <<gzip, part, destination, batch, reports, raised, failed, compressed, held, counted>>

Write == step = "write" /\ index' = index \cup reports /\ Finish /\ UNCHANGED errors

\* Some reports are refused, or all of them lost.
WriteError == step = "write" /\ Error /\ index' \in {index \cup s : s \in SUBSET reports} /\ Finish

Next ==
    \/ Compress \/ CompressError \/ Upload \/ TransferError \/ OtherError \/ Clean
    \/ Count \/ Write \/ WriteError
    \/ \E f \in File : Begin(f) \/ BuildError(f)

Spec == Init /\ [][Next]_vars

----------------------------------------------------------------------------
Parts(f) == {"data"} \cup (IF f \in Sidecars THEN {"sidecar"} ELSE {})

\* A report that says OK is about an object the destination holds, whatever happened to the
\* file at the other destinations.
ReportsAreTrue ==
    \A r \in index \cup reports : r.status = "OK" => <<r.file, r.part, r.destination>> \in held

\* A file the replay does not count as a failure is everywhere, with its sidecar; and the
\* only compressed copies that stay on the disk are of files it counts.
UncountedIsEverywhere ==
    \A f \in finished \ counted :
        /\ \A p \in Parts(f), d \in 1..Destinations : <<f, p, d>> \in held
        /\ \A p \in Part : <<f, p>> \notin compressed
=============================================================================
