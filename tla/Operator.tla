------------------------------- MODULE Operator -------------------------------
(***************************************************************************)
(* The operator worker of a service: replay lanes that share slots, and    *)
(* the thread that checks products: rawdata/operator/.                     *)
(*                                                                         *)
(* Every request is about one interface, conf is what the index says of it.*)
(* The thread of a lane (poll, acknowledgement, record, child process) is  *)
(* the one of maas-engine, modelled from how its handler is called.  Of an *)
(* override only whether it is acceptable is kept.                         *)
(***************************************************************************)
EXTENDS Integers, FiniteSets

CONSTANTS
    Request,      \* replays
    Check,        \* product checks
    Conf,         \* what the index may say of the interface
    Custom,       \* custom parts a request may carry
    Keys,         \* routing keys of the service that are used
    Denied,       \* credential entries the policy of the vault denies
    None,         \* nobody, nothing
    MaxChanges,   \* bound: changes of the index
    MaxFaults     \* bound: errors, crashes

LANES == {"short", "long"}
AnyLane == [slot : LANES \cup {"single"}, custom : BOOLEAN]
Name == {"interface", "asked"}   \* credential entries: of the interface, of an override
Class == {"odata", "jirax", "other"}
\* enabled entries of the interface, backups: current files that define the backup, version:
\* the version of the first, versions: those that still define it.
ConfType == [enabled : 0..2, class : Class, skipped : BOOLEAN,
             backups : 0..2, version : Nat, versions : SUBSET Nat]
\* credentials: an override names an entry, archive: a version, 0 for the current one.
CustomType == [acceptable : BOOLEAN, credentials : BOOLEAN, archive : Nat \cup {None}]

ASSUME OperatorAssumption ==
    /\ Conf \subseteq ConfType /\ Custom \subseteq CustomType /\ Denied \subseteq Name
    /\ Keys \subseteq [slot : LANES, custom : BOOLEAN]
    /\ None \notin Request \cup Nat \cup Class \cup AnyLane \cup Custom
    /\ None \notin [conf : Conf, custom : BOOLEAN] /\ MaxChanges \in Nat /\ MaxFaults \in Nat

VARIABLES
    single,      \* OPERATOR_SINGLE_LANE
    conf,        \* the index
    queue,       \* of each lane: the requests in it
    body,        \* of each request: what it asks
    record,      \* ... the status of its operation record
    pc,          \* where each lane stands
    job,         \* ... the request it serves
    class,       \* ... the class of the entry it found
    copy,        \* ... its copy of the configuration
    slots,       \* who holds the slot of each plain lane
    check,       \* where each check stands
    unreadable,  \* of each credential provider: what its last load was denied
    stopping,    \* stop() was called
    changes,     \* changes so far
    faults       \* faults so far

index == <<conf, changes>>
lanes == <<pc, job, class, copy, slots>>
checks == <<check, unreadable>>
vars == <<single, index, queue, body, record, lanes, checks, stopping, faults>>

----------------------------------------------------------------------------
(* Lanes and slots.                                                         *)

Lanes == IF single THEN [slot : {"single"}, custom : {FALSE}]
                   ELSE [slot : LANES, custom : BOOLEAN]
\* Mutant: a custom lane has a slot of its own.
OwnSlot(l) == IF l.custom THEN "single" ELSE l.slot
SlotOf(l) == l.slot
AcceptsCustom(l) == l.custom \/ l.slot = "single"
\* The lanes whose queue is bound to a routing key.
Bound(key) == IF single THEN Lanes ELSE {key}

\* form: "half" cannot be read, or has custom fields, or the custom name, without the other.
Body == [form : {"plain", "half"}, part : {None}] \cup [form : {"custom"}, part : Custom]

NoBody == [form |-> "half", part |-> None]
PC == {"idle", "waiting", "find", "copy", "customize", "archive", "ready", "child"}
Copy == [conf : Conf, custom : BOOLEAN]

\* The variables have their types, and a lane that waits for a request, or for its slot, has
\* no copy of the configuration: _abandon and cleanup remove it.
TypeOK ==
    /\ single \in BOOLEAN /\ conf \in Conf
    /\ queue \in [AnyLane -> SUBSET Request]
    /\ body \in [Request -> Body]
    /\ record \in [Request -> {"none", "QUEUED", "RUNNING", "DONE", "FAILED"}]
    /\ pc \in [AnyLane -> PC] /\ job \in [AnyLane -> Request \cup {None}]
    /\ class \in [AnyLane -> Class \cup {None}] /\ copy \in [AnyLane -> Copy \cup {None}]
    /\ \A l \in AnyLane : pc[l] \in {"idle", "waiting"} => copy[l] = None
    /\ slots \in [LANES \cup {"single"} -> AnyLane \cup {None}]
    /\ check \in [Check -> {"queued", "taken", "loaded", "denied", "query",
                            "reply", "answered", "dropped"}]
    /\ unreadable \in [{"handler", "checker"} -> SUBSET Name]
    /\ stopping \in BOOLEAN /\ changes \in 0..MaxChanges /\ faults \in 0..MaxFaults

Init ==
    /\ single \in BOOLEAN /\ conf \in Conf
    /\ queue = [l \in AnyLane |-> {}]
    /\ body = [r \in Request |-> NoBody]
    /\ record = [r \in Request |-> "none"]
    /\ pc = [l \in AnyLane |-> "idle"] /\ job = [l \in AnyLane |-> None]
    /\ class = [l \in AnyLane |-> None] /\ copy = [l \in AnyLane |-> None]
    /\ slots = [s \in LANES \cup {"single"} |-> None]
    /\ check = [c \in Check |-> "queued"] /\ unreadable = [p \in {"handler", "checker"} |-> {}]
    /\ stopping = FALSE /\ changes = 0 /\ faults = 0

Fault == faults < MaxFaults /\ faults' = faults + 1

\* The backend record an operation, then publishes it with the key of its kind; a
\* publisher may also use the plain key for a custom request.
Publish(r, b, key) ==
    /\ record[r] = "none"
    /\ key.custom => b.form = "custom"
    /\ record' = [record EXCEPT ![r] = "QUEUED"]
    /\ body' = [body EXCEPT ![r] = b]
    /\ queue' = [l \in AnyLane |-> IF l \in Bound(key) THEN queue[l] \cup {r} ELSE queue[l]]
    /\ UNCHANGED <<single, index, lanes, checks, stopping, faults>>

\* Configuration files are published, disabled, deleted or moved to another service.
Change(c) ==
    /\ changes < MaxChanges /\ changes' = changes + 1
    /\ conf' = c
    /\ UNCHANGED <<single, queue, body, record, lanes, checks, stopping, faults>>

----------------------------------------------------------------------------
(* A replay.                                                                *)

Fails(r) == record' = [record EXCEPT ![r] = "FAILED"]

Idle(l) ==
    /\ pc' = [pc EXCEPT ![l] = "idle"] /\ job' = [job EXCEPT ![l] = None]
    /\ class' = [class EXCEPT ![l] = None]

\* custom_part: a refusal here needs no slot.
Refuses(l, b) == b.form = "half" \/ (b.form = "custom" /\ ~AcceptsCustom(l))

\* The lane polls its queue, acknowledges the request, records that it runs, and asks the
\* handler to prepare it.
Take(l, r) ==
    /\ l \in Lanes /\ pc[l] = "idle" /\ ~stopping /\ r \in queue[l]
    /\ queue' = [queue EXCEPT ![l] = @ \ {r}]
    /\ IF Refuses(l, body[r])
       THEN Fails(r) /\ UNCHANGED lanes
       ELSE /\ record' = [record EXCEPT ![r] = "RUNNING"]
            /\ pc' = [pc EXCEPT ![l] = "waiting"] /\ job' = [job EXCEPT ![l] = r]
            /\ UNCHANGED <<class, copy, slots>>
    /\ UNCHANGED <<single, index, body, checks, stopping, faults>>

Acquire(l) ==
    /\ pc[l] = "waiting" /\ slots[SlotOf(l)] = None
    /\ slots' = [slots EXCEPT ![SlotOf(l)] = l]
    /\ pc' = [pc EXCEPT ![l] = "find"]
    /\ UNCHANGED <<single, index, queue, body, record, job, class, copy, checks, stopping, faults>>

\* Mutant: the slot of a preparation that failed is not released.
KeepSlot(l) == UNCHANGED slots
Release(l) == slots' = [slots EXCEPT ![SlotOf(l)] = None]

Remove(l) == copy' = [copy EXCEPT ![l] = None]

\* _abandon, then the refusal or the error goes to the engine.
AbandonSlot(l) == Release(l)
Abandon(l) ==
    /\ Remove(l) /\ AbandonSlot(l)
    /\ Fails(job[l]) /\ Idle(l)

Goes(l, to) == pc' = [pc EXCEPT ![l] = to] /\ UNCHANGED <<record, job, slots>>

FindEntry(l) ==
    /\ pc[l] = "find"
    /\ IF conf.enabled = 0 \/ conf.class = "other"
       THEN Abandon(l)
       ELSE /\ Goes(l, "copy")
            /\ class' = [class EXCEPT ![l] = conf.class] /\ UNCHANGED copy
    /\ UNCHANGED <<single, index, queue, body, checks, stopping, faults>>

\* Mutant: a copy that skipped files is run.
AnyCopy(c) == TRUE
Whole(c) == ~c.skipped
IsCustom(r) == body[r].form = "custom"

SyncConfigs(l) ==
    /\ pc[l] = "copy"
    /\ IF Whole(conf)
       THEN /\ copy' = [copy EXCEPT ![l] = [conf |-> conf, custom |-> FALSE]]
            /\ UNCHANGED class
            /\ Goes(l, IF IsCustom(job[l]) THEN "customize" ELSE "ready")
       ELSE Abandon(l)
    /\ UNCHANGED <<single, index, queue, body, checks, stopping, faults>>

\* Mutant: the handler and the checker share a provider.
Shared(user) == "checker"
ProviderOf(user) == user

\* A load rewrites what its provider could not read.
Load(user, names) ==
    unreadable' = [unreadable EXCEPT ![ProviderOf(user)] = names \cap Denied]

\* entry_in_copy, the credential entry, the overrides; nothing is evaluated.
Customize(l) ==
    LET part == body[job[l]].part
        one == copy[l].conf.enabled = 1 IN
    /\ pc[l] = "customize"
    /\ IF one /\ part.credentials THEN Load("handler", {"asked"}) ELSE UNCHANGED unreadable
    /\ IF /\ one /\ (part.credentials => "asked" \notin Denied)
          /\ part.acceptable /\ (part.archive # None => class[l] = "odata")
       THEN /\ Goes(l, IF part.archive = None THEN "ready" ELSE "archive")
            /\ copy' = [copy EXCEPT ![l].custom = TRUE] /\ UNCHANGED class
       ELSE Abandon(l)
    /\ UNCHANGED <<single, index, queue, body, check, stopping, faults>>

\* resolve_backup_version reads the index again, the validation reads the copy.
ResolveBackup(l) ==
    LET asked == body[job[l]].part.archive IN
    /\ pc[l] = "archive"
    /\ IF /\ conf.backups = 1 /\ (asked # 0 => asked \in conf.versions)
          /\ copy[l].conf.backups > 0
       THEN Goes(l, "ready") /\ UNCHANGED <<class, copy>>
       ELSE Abandon(l)
    /\ UNCHANGED <<single, index, queue, body, checks, stopping, faults>>

\* The index or the disk fails: whatever is raised frees the slot.
PrepareError(l) ==
    /\ pc[l] \in {"find", "copy", "customize", "archive"} /\ Fault
    /\ Abandon(l)
    /\ UNCHANGED <<single, index, queue, body, checks, stopping>>

Cleanup(l) == Remove(l) /\ Release(l)

\* Once stopped the engine starts no child, even for a request it was preparing.
Start(l) ==
    /\ pc[l] = "ready"
    /\ IF stopping
       THEN Fails(job[l]) /\ Idle(l) /\ Cleanup(l)
       ELSE Goes(l, "child") /\ UNCHANGED <<class, copy>>
    /\ UNCHANGED <<single, index, queue, body, checks, stopping, faults>>

\* The child exits, or is killed at its deadline or by a stop.  It refuses an interface its
\* copy does not have, or has under another class.
ChildEnds(l, status) ==
    /\ pc[l] = "child" /\ status \in {"DONE", "FAILED"}
    /\ (copy[l].conf.enabled = 0 \/ copy[l].conf.class # class[l]) => status = "FAILED"
    /\ record' = [record EXCEPT ![job[l]] = status]
    /\ Cleanup(l) /\ Idle(l)
    /\ UNCHANGED <<single, index, queue, body, checks, stopping, faults>>

----------------------------------------------------------------------------
(* Checks: one thread.                                                      *)

Checking == {c \in Check : check[c] \in {"taken", "loaded", "denied", "query", "reply"}}
Checks(c, from, to) == check[c] = from /\ check' = [check EXCEPT ![c] = to]

\* One that has no reply_to is dropped; a malformed one gets an answer without a check.
TakeCheck(c, to) ==
    /\ ~stopping /\ Checking = {} /\ Checks(c, "queued", to)
    /\ to \in {"taken", "reply", "dropped"}
    /\ UNCHANGED <<single, index, queue, body, record, lanes, unreadable, stopping, faults>>

CheckConfig(c) ==
    /\ IF conf.enabled > 0 /\ conf.class = "odata"
       THEN Checks(c, "taken", "loaded") /\ Load("checker", {"interface"})
       ELSE Checks(c, "taken", "reply") /\ UNCHANGED unreadable
    /\ UNCHANGED <<single, index, queue, body, record, lanes, stopping, faults>>

\* The denied entries are read from the provider after the load.
SetCredentials(c) ==
    /\ Checks(c, "loaded", IF unreadable["checker"] # {} THEN "denied" ELSE "query")
    /\ UNCHANGED <<single, index, queue, body, record, lanes, unreadable, stopping, faults>>

\* query_remote, would_store, stored_source: an error of any of them is a reply too.
QueryRemote(c) ==
    /\ Checks(c, "query", "reply")
    /\ UNCHANGED <<single, index, queue, body, record, lanes, unreadable, stopping, faults>>

\* A refusal is a reply of status "error".
Reply(c) ==
    /\ \E from \in {"denied", "reply"} : Checks(c, from, "answered")
    /\ UNCHANGED <<single, index, queue, body, record, lanes, unreadable, stopping, faults>>

\* The broker does not take the reply: the thread connects again.
ReplyError(c) ==
    /\ \E from \in {"denied", "reply"} : Checks(c, from, "dropped")
    /\ Fault
    /\ UNCHANGED <<single, index, queue, body, record, lanes, unreadable, stopping>>

----------------------------------------------------------------------------
Stop ==
    /\ ~stopping /\ stopping' = TRUE
    /\ UNCHANGED <<single, index, queue, body, record, lanes, checks, faults>>

\* The worker dies, with its children, and is started again.
Crash ==
    /\ Fault
    /\ pc' = [l \in AnyLane |-> "idle"] /\ job' = [l \in AnyLane |-> None]
    /\ class' = [l \in AnyLane |-> None] /\ copy' = [l \in AnyLane |-> None]
    /\ slots' = [s \in LANES \cup {"single"} |-> None]
    /\ check' = [c \in Check |-> IF c \in Checking THEN "dropped" ELSE check[c]]
    /\ unreadable' = [p \in {"handler", "checker"} |-> {}]
    /\ stopping' = FALSE
    /\ UNCHANGED <<single, index, queue, body, record>>

Step(l) ==
    \/ Acquire(l) \/ FindEntry(l) \/ SyncConfigs(l) \/ Customize(l)
    \/ ResolveBackup(l) \/ Start(l)
    \/ \E status \in {"DONE", "FAILED"} : ChildEnds(l, status)

CheckStep(c) ==
    \/ \E to \in {"taken", "reply", "dropped"} : TakeCheck(c, to)
    \/ CheckConfig(c) \/ SetCredentials(c) \/ QueryRemote(c) \/ Reply(c)

Next ==
    \/ \E r \in Request, b \in Body, key \in Keys : Publish(r, b, key)
    \/ \E c \in Conf : Change(c)
    \/ \E l \in AnyLane, r \in Request : Take(l, r)
    \/ \E l \in AnyLane : Step(l) \/ PrepareError(l)
    \/ \E c \in Check : CheckStep(c) \/ ReplyError(c)
    \/ Stop \/ Crash

\* The thread of a lane goes on; a child ends, by itself or at its deadline.
Fairness == \A l \in AnyLane : WF_vars(Step(l) \/ \E r \in Request : Take(l, r))

Spec == Init /\ [][Next]_vars /\ Fairness

----------------------------------------------------------------------------
Holding == {"find", "copy", "customize", "archive", "ready", "child"}
InSlot(s) == {l \in AnyLane : l.slot = s /\ pc[l] \in Holding}

\* A plain lane and the custom lane beside it never both have a replay past its wait, and a
\* slot is held by nobody else: handler.prepare takes it, whatever prepare raises frees it,
\* cleanup frees it once.
SlotsAreHeld ==
    \A s \in LANES \cup {"single"} :
        InSlot(s) = IF slots[s] = None THEN {} ELSE {slots[s]}

\* The child of a custom request, and no other, runs on a customized copy, that had one
\* entry to customize and defines the backup it archives to; no child runs on a copy that
\* skipped files, whatever the index became while the request was prepared.
RunsWhatIsAsked ==
    \A l \in AnyLane : pc[l] = "child" =>
        LET part == body[job[l]].part IN
        /\ ~copy[l].conf.skipped
        /\ copy[l].custom <=> part # None
        /\ part # None => /\ AcceptsCustom(l) /\ copy[l].conf.enabled = 1
                          /\ part.archive # None => copy[l].conf.backups > 0

\* A check is refused for credentials exactly when an entry of its interface is denied,
\* though replays load other entries meanwhile (cli/operator_worker.py:183).
DeniedIsRefused ==
    \A c \in Check :
        /\ check[c] = "denied" => "interface" \in Denied
        /\ check[c] = "query" => "interface" \notin Denied

\* Every replay that is taken ends, by the death of the worker at the latest: the slot it
\* waits for is freed by every way out of prepare and of the child.
EveryReplayEnds ==
    <>[](\A l \in AnyLane : job[l] = None)

\* What the backend is promised: the module Replays, where a replay of the record RUNNING
\* that no lane has is lost.
AsReplays == INSTANCE Replays WITH
    Slot <- LANES \cup {"single"},
    running <- {<<l.slot, job[l]>> : l \in {k \in AnyLane : pc[k] = "child"}},
    lost <- {r \in Request : record[r] = "RUNNING" /\ \A l \in AnyLane : job[l] # r}
ImplementsReplays == AsReplays!Spec
=============================================================================
