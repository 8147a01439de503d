---------------------------- MODULE ConfigRefresh ----------------------------
(***************************************************************************)
(* The collectors that load their configuration from the index of          *)
(* ConfigStore: rawdata/configprovider.py, and the start and the refresh   *)
(* of rawdata/collector/filecollector.py.  A collector that finds another  *)
(* loadable configuration exits with code 75; the orchestrator starts it   *)
(* again, as after any exit.  A read is two searches.                      *)
(*                                                                         *)
(* One collector per service watched; a configuration is the set of its    *)
(* <<path, version>>, which is also its fingerprint.                       *)
(***************************************************************************)
EXTENDS ConfigStore

CONSTANTS
    Watched,    \* services whose collector has CONFIG_BACKEND=opensearch
    Unloadable  \* contents a collector refuses though the store accepts them

ASSUME ConfigRefreshAssumption == Watched \subseteq Service /\ Unloadable \subseteq Content

VARIABLES
    process,     \* where each collector stands
    candidates,  \* paths the first search of its read found
    running,     \* the configuration it runs: _config_fingerprint
    rejected,    \* _rejected_config_fingerprint
    begun        \* versions visible when its read began

collector == <<process, candidates, running, rejected, begun>>
allVars == <<vars, collector>>

Process == {"stopped", "loading", "running", "checking"}
Fingerprint == SUBSET (Path \X Nat)
Reading(s) == process[s] \in {"loading", "checking"}

RefreshInit ==
    /\ Init
    /\ process = [s \in Watched |-> "stopped"]
    /\ candidates = [s \in Watched |-> {}]
    /\ running = [s \in Watched |-> {}]
    /\ rejected = [s \in Watched |-> {}]
    /\ begun = [s \in Watched |-> [p \in Path |-> 0]]

----------------------------------------------------------------------------
(* current_documents, the read of a service.                                *)

Flagged(s, p) == \E v \in index[p].latest : s \in docs[p][v].services

\* The collector starts, or its refresh period has elapsed between two loops.
ReadCandidates(s) ==
    /\ ~Reading(s)
    /\ process' = [process EXCEPT ![s] = IF @ = "stopped" THEN "loading" ELSE "checking"]
    /\ candidates' = [candidates EXCEPT ![s] = {p \in Path : Flagged(s, p)}]
    /\ begun' = [begun EXCEPT ![s] = [p \in Path |-> index[p].count]]
    /\ UNCHANGED <<vars, running, rejected>>

\* Mutant: the current version is picked among those of the service.
NewestOfService(s, p) ==
    LET found == {v \in index[p].latest : s \in docs[p][v].services} IN
    IF found = {} THEN 0 ELSE CHOOSE v \in found : \A u \in found : u <= v

Newest(s, p) == Current(p)

Sources(s) == {<<p, Newest(s, p)>> : p \in {q \in candidates[s] : Loads(s, q, Newest(s, q))}}

\* setup() can load them: no reference dangles, and every content is good for it.
Loadable(sources) ==
    LET files == {File(x[1], docs[x[1]][x[2]].content) : x \in sources} IN
    /\ sources # {}
    /\ Sound(files)
    /\ \A f \in files : f.content \notin Unloadable

EndRead(s) ==
    /\ candidates' = [candidates EXCEPT ![s] = {}]
    /\ begun' = [begun EXCEPT ![s] = [p \in Path |-> 0]]

\* The process ends: what it knew is lost.
Exit(s) ==
    /\ process' = [process EXCEPT ![s] = "stopped"]
    /\ running' = [running EXCEPT ![s] = {}]
    /\ rejected' = [rejected EXCEPT ![s] = {}]

Keep(s) == process' = [process EXCEPT ![s] = "running"] /\ UNCHANGED running

\* load_config: what cannot be loaded ends the process.
Load(s) ==
    LET sources == Sources(s) IN
    /\ process[s] = "loading"
    /\ \/ ~Loadable(sources) /\ Exit(s)
       \/ /\ Loadable(sources)
          /\ process' = [process EXCEPT ![s] = "running"]
          /\ running' = [running EXCEPT ![s] = sources]
          /\ UNCHANGED rejected
    /\ EndRead(s)
    /\ UNCHANGED vars

\* Mutant: after a rejection the configuration is not looked at again.
KnownAfterRejection(s, sources) == sources = running[s] \/ rejected[s] # {}

Known(s, sources) == sources \in {running[s], rejected[s]}

\* check_config_changes: a service without sources is an error, the configuration kept.
Check(s) ==
    LET sources == Sources(s) IN
    /\ process[s] = "checking"
    /\ \/ sources = {} /\ Keep(s) /\ UNCHANGED rejected
       \/ sources # {} /\ Known(s, sources) /\ Keep(s) /\ UNCHANGED rejected
       \/ /\ sources # {} /\ ~Known(s, sources) /\ ~Loadable(sources)
          /\ Keep(s)
          /\ rejected' = [rejected EXCEPT ![s] = sources]
       \/ ~Known(s, sources) /\ Loadable(sources) /\ Exit(s)
    /\ EndRead(s)
    /\ UNCHANGED vars

\* A search fails: a start ends, a check is for the next period.
ReadError(s) ==
    /\ Fault
    /\ Reading(s)
    /\ IF process[s] = "loading" THEN Exit(s) ELSE Keep(s) /\ UNCHANGED rejected
    /\ EndRead(s)
    /\ UNCHANGED <<store, pc, request, reports, raced, requests>>

\* The pod is moved, or the process dies.
Restart(s) ==
    /\ Fault
    /\ ~Reading(s)
    /\ Exit(s)
    /\ UNCHANGED <<store, pc, request, reports, raced, requests, candidates, begun>>

CollectorStep(s) == ReadCandidates(s) \/ Load(s) \/ Check(s)

RefreshNext ==
    \/ Next /\ UNCHANGED collector
    \/ \E s \in Watched : CollectorStep(s) \/ ReadError(s) \/ Restart(s)

\* Collectors loop for ever, the index is refreshed, writers end.
RefreshFairness ==
    /\ \A s \in Watched : WF_allVars(CollectorStep(s))
    /\ WF_allVars(Refresh /\ UNCHANGED collector)
    /\ \A w \in Writer : WF_allVars(Step(w) /\ UNCHANGED collector)

RefreshSpec == RefreshInit /\ [][RefreshNext]_allVars /\ RefreshFairness

----------------------------------------------------------------------------
\* Every variable has its type; a collector runs, and rejects, what is in the index.
RefreshTypeOK ==
    /\ process \in [Watched -> Process]
    /\ candidates \in [Watched -> SUBSET Path]
    /\ running \in [Watched -> Fingerprint] /\ rejected \in [Watched -> Fingerprint]
    /\ begun \in [Watched -> [Path -> Nat]]
    /\ \A s \in Watched : \A x \in running[s] \cup rejected[s] :
           x[2] \in DOMAIN docs[x[1]] /\ s \in docs[x[1]][x[2]].services

\* A read sees each path as it was at some moment between its first search and the
\* end of its second one: never an older version, which the flags of a publish that
\* is not over, or that crashed, could show, nor a file the service lost
\* (current_documents).
ReadIsCurrent ==
    \A s \in Watched : Reading(s) =>
        \A p \in Path : \E v \in begun[s][p] .. index[p].count :
            {x \in Sources(s) : x[1] = p} = IF Loads(s, p, v) THEN {<<p, v>>} ELSE {}

\* Once nothing is published any more, a collector ends up running the configuration
\* of its service, if that can be loaded, whatever it rejected before.
EventuallyApplied ==
    \A s \in Watched :
        LET loaded == {p \in Path : Loads(s, p, Len(docs[p]))}
            stored == {<<p, Len(docs[p])>> : p \in loaded} IN
        <>[](Loadable(stored) => running[s] = stored)
=============================================================================
