------------------------------- MODULE Monitor -------------------------------
(***************************************************************************)
(* The monitor of the interfaces: rawdata/collector/monitorcollector.py.   *)
(* The main thread probes the interfaces, reports those that answer, and   *)
(* starts a thread for each of the others.  Such a thread probes again a   *)
(* few times; the manager gives what it ends with to the main thread, that *)
(* reports it.  A signal is handled in the main thread, wherever it is.    *)
(***************************************************************************)
EXTENDS Integers, Sequences, FiniteSets, SequencesExt, FiniteSetsExt

CONSTANTS
    Interface,
    Http,         \* extra_http_probes: their probe writes the status, the others do not
    Retries,      \* max_retry
    MaxThreads,   \* bound: threads a process starts
    MaxFlips,     \* bound: an interface goes down or up
    MaxFaults     \* bound: signals, changes of configuration, and what fails

VARIABLES
    up,         \* interfaces that answer
    retrying,   \* interfaces whose flag says that a thread probes them
    thread,
    retryThreads,
    data,       \* the queue to the main thread
    mutex,      \* ... is held
    main, ko, inHand,
    manager, finished,
    runEvent,
    stop, index,  \* where stop_ko_manager was called, and its place in the list
    joining,      \* ... the thread it waits for, or 0
    stopping,
    reported, lost, \* history: threads whose result is reported, is not and never will be
    flips, faults

threads == <<retrying, thread, retryThreads>>
queue == <<data, mutex>>
mainVars == <<main, ko, inHand>>
managerVars == <<manager, finished>>
stopVars == <<runEvent, stop, index, joining, stopping>>
history == <<reported, lost>>
vars == <<up, threads, queue, mainVars, managerVars, stopVars, history, flips, faults>>

Thread == 1..MaxThreads
NoThread ==
    [of |-> "none", at |-> "none", left |-> 0, told |-> FALSE, started |-> FALSE,
     status |-> "KO", answered |-> FALSE, hung |-> FALSE]

\* Python's is_alive: from start to the return of run.
IsAlive(t) == thread[t].at \in {"waiting", "probing", "ending"}

Init ==
    /\ up = Interface /\ retrying = {} /\ thread = [t \in Thread |-> NoThread]
    /\ retryThreads = <<>> /\ data = <<>> /\ mutex = FALSE
    /\ main = "idle" /\ ko = {} /\ inHand = {}
    /\ manager = "scan" /\ finished = <<>>
    /\ runEvent = TRUE /\ stop = "off" /\ index = 1 /\ joining = 0 /\ stopping = FALSE
    /\ reported = {} /\ lost = {}
    /\ flips = MaxFlips /\ faults = MaxFaults

Fault == faults > 0 /\ faults' = faults - 1

Flip(i) ==
    /\ flips > 0 /\ main # "gone" /\ flips' = flips - 1
    /\ up' = IF i \in up THEN up \ {i} ELSE up \cup {i}
    /\ UNCHANGED <<threads, queue, mainVars, managerVars, stopVars, history, faults>>

----------------------------------------------------------------------------
(* RetryThread.run.                                                         *)


\* The last statement of the thread resets the flag, then it is over.
Over(t, record) ==
    /\ thread' = [thread EXCEPT ![t] = [record EXCEPT !.at = "ending"]]
    /\ retrying' = retrying \ {record.of}

OnlyThreads == UNCHANGED <<up, retryThreads, queue, mainVars, managerVars, stopVars, history, flips>>

\* After retry_interval, or at once when it is told to stop.
Wake(t) ==
    /\ thread[t].at = "waiting"
    /\ \/ /\ thread[t].told /\ Over(t, thread[t])
       \/ /\ ~thread[t].told
          /\ thread' = [thread EXCEPT ![t].at = "probing", ![t].started = TRUE]
          /\ UNCHANGED retrying
    /\ OnlyThreads /\ UNCHANGED faults

\* The record is the one of the first probe: its status is filled.
Verdict(i, answered, status) == IF ~answered THEN "KO" ELSE IF i \in Http THEN "OK" ELSE status

Probe(t) ==
    LET answered == thread[t].of \in up
        record == [thread[t] EXCEPT !.answered = answered, !.left = @ - 1,
                                    !.status = Verdict(thread[t].of, answered, @)]
    IN
    /\ thread[t].at = "probing" /\ ~thread[t].hung
    /\ IF record.status = "OK" \/ record.left = 0
       THEN Over(t, record)
       ELSE /\ thread' = [thread EXCEPT ![t] = [record EXCEPT !.at = "waiting"]]
            /\ UNCHANGED retrying
    /\ OnlyThreads /\ UNCHANGED faults

\* A probe that never returns.
Hang(t) ==
    /\ thread[t].at = "probing" /\ ~thread[t].hung /\ Fault
    /\ thread' = [thread EXCEPT ![t].hung = TRUE]
    /\ OnlyThreads /\ UNCHANGED retrying

Die(t) ==
    /\ thread[t].at = "ending" /\ thread' = [thread EXCEPT ![t].at = "ended"]
    /\ OnlyThreads /\ UNCHANGED <<retrying, faults>>

----------------------------------------------------------------------------
(* KOManagerThread.run.                                                     *)

OnlyManager == UNCHANGED <<up, retrying, thread, mainVars, stopVars, history, flips, faults>>

\* Mutant: a thread that did not succeed is left in the list.
IsFinishedWell(t) == ~IsAlive(t) /\ thread[t].status = "OK"
IsFinished(t) == ~IsAlive(t)

\* Mutant: the manager runs for ever.
RunsForEver == TRUE
Runs == runEvent

Scan ==
    /\ manager = "scan"
    /\ \/ /\ ~Runs /\ manager' = "ended" /\ UNCHANGED finished
       \/ /\ Runs /\ finished' = SelectSeq(retryThreads, IsFinished) /\ finished' # <<>>
          /\ manager' = "put"
    /\ OnlyManager /\ UNCHANGED <<queue, retryThreads>>

Put ==
    /\ manager = "put" /\ ~mutex
    /\ data' = Append(data, Head(finished)) /\ manager' = "join"
    /\ retryThreads' = Remove(retryThreads, Head(finished))
    /\ OnlyManager /\ UNCHANGED <<mutex, finished>>

\* A thread that is in the list before it is started cannot be joined: that is the end
\* of the manager, and nobody looks.
Join ==
    LET t == Head(finished) IN
    /\ manager = "join" /\ ~IsAlive(t)
    /\ manager' = IF thread[t].at = "new" THEN "dead" ELSE IF Tail(finished) = <<>> THEN "scan" ELSE "put"
    /\ finished' = Tail(finished)
    /\ OnlyManager /\ UNCHANGED <<queue, retryThreads>>

----------------------------------------------------------------------------
(* The loop, and ingest_monitoring.                                         *)

Main(at) == main = at /\ stop = "off"
OnlyMain == UNCHANGED <<up, managerVars, runEvent, index, joining, flips>>

\* loop_body logs what a pass raises.
Break == main' = "idle" /\ ko' = {} /\ inHand' = {}

Begin ==
    /\ Main("idle") /\ ~stopping /\ main' = "drain"
    /\ OnlyMain /\ UNCHANGED <<threads, queue, ko, inHand, stop, stopping, history, faults>>

\* The queue is Python code that holds a lock.
Lock ==
    /\ Main("drain") /\ ~mutex /\ mutex' = TRUE /\ main' = "get"
    /\ OnlyMain /\ UNCHANGED <<threads, data, ko, inHand, stop, stopping, history, faults>>

Get ==
    /\ Main("get")
    /\ inHand' = ToSet(data) /\ data' = <<>> /\ mutex' = FALSE
    /\ main' = IF data = <<>> THEN "stuck" ELSE "retried"
    /\ OnlyMain /\ UNCHANGED <<threads, ko, stop, stopping, history, faults>>

ReportRetried ==
    /\ Main("retried")
    /\ \/ /\ reported' = reported \cup inHand /\ inHand' = {} /\ main' = "stuck"
          /\ UNCHANGED <<ko, lost, faults>>
       \/ /\ Fault /\ lost' = lost \cup inHand /\ Break /\ UNCHANGED reported
    /\ OnlyMain /\ UNCHANGED <<threads, queue, stop, stopping>>

\* Of the first thread of the list that makes the answer: one that has not probed yet has
\* no last_start, that is an error; one that hangs is stuck.
LooksAt(t) == ~thread[t].started \/ thread[t].hung

IsStuck ==
    LET seen == SelectSeq(retryThreads, LooksAt) IN
    /\ Main("stuck")
    /\ IF seen = <<>> THEN main' = "probe" /\ UNCHANGED <<ko, inHand>>
       ELSE IF thread[Head(seen)].started THEN main' = "asleep" /\ UNCHANGED <<ko, inHand>>
       ELSE Break
    /\ OnlyMain /\ UNCHANGED <<threads, queue, stop, stopping, history, faults>>

\* The main thread sleeps until the orchestrator kills the pod.
Kill ==
    /\ main = "asleep" /\ main' = "gone"
    /\ OnlyMain /\ UNCHANGED <<threads, queue, ko, inHand, stop, stopping, history, faults>>

\* An interface that is down is not reported now; the others are.
ProbeAll ==
    /\ Main("probe")
    /\ \/ /\ ko' = (Interface \ up) \ retrying /\ main' = "retry" /\ UNCHANGED <<inHand, faults>>
       \/ /\ up \ retrying # {} /\ Fault /\ Break
    /\ OnlyMain /\ UNCHANGED <<threads, queue, stop, stopping, history>>

New == {t \in Thread : thread[t].at = "none"}

\* Mutant: the flag is not set.
Unflagged(i) == retrying
Flagged(i) == retrying \cup {i}

AddRetry(i) ==
    /\ Main("retry") /\ i \in ko /\ New # {}
    /\ retrying' = Flagged(i) /\ ko' = ko \ {i}
    /\ LET t == Min(New) IN
       /\ thread' = [thread EXCEPT ![t] = [NoThread EXCEPT !.of = i, !.at = "new", !.left = Retries]]
       /\ retryThreads' = Append(retryThreads, t)
    /\ main' = "start"
    /\ OnlyMain /\ UNCHANGED <<queue, inHand, stop, stopping, history, faults>>

Start ==
    LET t == Max({u \in Thread : thread[u].at = "new"}) IN
    /\ Main("start")
    /\ thread' = [thread EXCEPT ![t].at = "waiting"] /\ main' = "retry"
    /\ OnlyMain /\ UNCHANGED <<retrying, retryThreads, queue, ko, inHand, stop, stopping, history, faults>>

\* The system refuses a thread.
StartError ==
    /\ Main("start") /\ Fault /\ Break
    /\ lost' = lost \cup {t \in Thread : thread[t].at = "new"}
    /\ OnlyMain /\ UNCHANGED <<threads, queue, stop, stopping, reported>>

\* Beyond MaxThreads the bound ends the pass.
End ==
    /\ Main("retry") /\ (ko = {} \/ New = {}) /\ Break
    /\ OnlyMain /\ UNCHANGED <<threads, queue, stop, stopping, history, faults>>

----------------------------------------------------------------------------
(* stop_ko_manager, in the handler of a signal and at the end of run.       *)

OnlyStop == UNCHANGED <<up, retrying, retryThreads, queue, ko, inHand, managerVars, history, flips>>

Signal ==
    /\ main # "gone" /\ main # "exit" /\ stop = "off" /\ ~stopping /\ Fault
    /\ stopping' = TRUE /\ runEvent' = FALSE /\ stop' = "handler" /\ index' = 1
    /\ OnlyStop /\ UNCHANGED <<thread, joining, main>>

\* The end of run: after a signal, or because the configuration has changed.
Finally ==
    /\ Main("idle")
    /\ \/ stopping /\ UNCHANGED faults
       \/ ~stopping /\ Fault
    /\ stopping' = TRUE /\ runEvent' = FALSE /\ stop' = "finally" /\ index' = 1
    /\ OnlyStop /\ UNCHANGED <<thread, joining, main>>

Calling == stop \in {"handler", "finally"}

Tell ==
    LET t == retryThreads[index] IN
    /\ Calling /\ joining = 0 /\ index <= Len(retryThreads)
    /\ thread' = [thread EXCEPT ![t].told = TRUE] /\ joining' = t
    /\ OnlyStop /\ UNCHANGED <<runEvent, stop, index, stopping, main, faults>>

\* The manager may remove a thread meanwhile: the next one is then not looked at.
JoinThread ==
    /\ Calling /\ joining # 0 /\ ~IsAlive(joining) /\ thread[joining].at # "new"
    /\ index' = index + 1 /\ joining' = 0
    /\ OnlyStop /\ UNCHANGED <<thread, runEvent, stop, stopping, main, faults>>

\* A thread that is not started cannot be joined: the error goes to the loop, or ends run.
JoinError ==
    /\ Calling /\ joining # 0 /\ thread[joining].at = "new"
    /\ main' = IF stop = "handler" THEN "idle" ELSE "exit"
    /\ joining' = 0 /\ stop' = "off"
    /\ OnlyStop /\ UNCHANGED <<thread, runEvent, index, stopping, faults>>

JoinManager ==
    /\ Calling /\ joining = 0 /\ index > Len(retryThreads) /\ manager \in {"ended", "dead"}
    /\ main' = IF stop = "handler" THEN main ELSE "exit"
    /\ stop' = "off"
    /\ OnlyStop /\ UNCHANGED <<thread, runEvent, index, joining, stopping, faults>>

\* The process ends with the last of its threads.
Exit ==
    /\ main = "exit" /\ manager \in {"ended", "dead"} /\ \A t \in Thread : ~IsAlive(t)
    /\ main' = "gone"
    /\ OnlyStop /\ UNCHANGED <<thread, runEvent, stop, index, joining, stopping, faults>>

----------------------------------------------------------------------------
ThreadStep(t) == main # "gone" /\ (Wake(t) \/ Probe(t) \/ Die(t))
ManagerStep == main # "gone" /\ (Scan \/ Put \/ Join)
Pass ==
    \/ Begin \/ Lock \/ Get \/ ReportRetried \/ IsStuck \/ Kill \/ ProbeAll
    \/ Start \/ End \/ Finally
    \/ \E i \in Interface : AddRetry(i)
StopStep == main # "gone" /\ (Tell \/ JoinThread \/ JoinError \/ JoinManager \/ Exit)

Next ==
    \/ ManagerStep \/ Pass \/ StopStep \/ StartError \/ Signal
    \/ \E t \in Thread : ThreadStep(t) \/ Hang(t)
    \/ \E i \in Interface : Flip(i)

Spec == Init /\ [][Next]_vars

\* Every thread runs; so does the loop, whatever its errors.  The manager gets the lock of
\* the queue in the end: a pass holds it for an instant.
FairSpec ==
    /\ Spec /\ WF_vars(Pass) /\ SF_vars(ManagerStep) /\ WF_vars(StopStep)
    /\ \A t \in Thread : WF_vars(ThreadStep(t))

----------------------------------------------------------------------------
\* Never two threads for an interface that may still probe it.
OneProbeEach ==
    \A t, u \in Thread :
        /\ t # u /\ {thread[t].at, thread[u].at} \subseteq {"new", "waiting", "probing"}
        => thread[t].of # thread[u].of

SomeHangs == \E t \in Thread : thread[t].hung

\* Every thread of a retry ends with its report, but what an error of a report or of a start
\* drops, what the manager leaves when it has died or waits for a thread that hangs, and the
\* end of the process; its interface is then probed again with the others.
Retried(t) ==
    \/ t \in reported /\ thread[t].of \notin retrying
    \/ t \in lost \/ SomeHangs \/ manager = "dead" \/ stopping \/ main = "gone"

\* The handler interrupted the queue, and the manager waits for it.
Deadlocked == stop = "handler" /\ mutex /\ manager = "put"

\* Every interface that was down is reported after its retries, and a process that stops
\* ends, but in that case, or with a thread that hangs.
EventuallySettled ==
    <>[](/\ \A t \in Thread : thread[t].at # "none" => Retried(t)
         /\ stopping => main = "gone" \/ Deadlocked \/ SomeHangs)
=============================================================================
