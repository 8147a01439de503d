------------------------------- MODULE MCFlush -------------------------------
(***************************************************************************)
(* What a collector holds back until a flush: the messages of Messenger,   *)
(* and the moves of Inbox in the collectors of an SFTP server.  A          *)
(* behaviour is one of the two, chosen at the start, and the other keeps   *)
(* its first state.  Sizes: three destinations, chunked by two, by three   *)
(* or not, and fed by two indices; two collectors, and a file that two     *)
(* configurations match, with two faults, or without any with a file that  *)
(* one matches.                                                            *)
(***************************************************************************)
EXTENDS Inbox, Messenger, TLC

CONSTANTS f1, f2, k1, k2, c1, c2

VARIABLE part

MCConfigs == f1 :> {k1, k2} @@ f2 :> {k1}
MCScenario == {[files |-> {f1}, faults |-> 2], [files |-> {f1, f2}, faults |-> 0]}

MCDocument == 1 .. 5
MCDestinationOf == [d \in MCDocument |-> IF d <= 3 THEN "pairs" ELSE
                                         IF d = 4 THEN "large" ELSE "single"]
MCIndexOf == [d \in MCDocument |-> IF d = 2 THEN "i2" ELSE "i1"]
MCDestination == {"pairs", "large", "single"}
MCChunk == [g \in MCDestination |-> CASE g = "pairs" -> 2 [] g = "large" -> 3
                                      [] g = "single" -> 0]

all == <<part, vars, messenger>>

----------------------------------------------------------------------------
InMessenger == part = "messenger" /\ UNCHANGED <<part, vars>>
InInbox == part = "inbox" /\ UNCHANGED <<part, messenger>>

MCInit ==
    /\ part \in {"messenger", "inbox"}
    /\ MessengerInit
    /\ Init /\ (part # "inbox" => faults = 0)

MCNext ==
    \/ InMessenger /\ FlushInterface
    \/ InMessenger /\ EndBody
    \/ InMessenger /\ Loop
    \/ InMessenger /\ Signal
    \/ InMessenger /\ SignalRaises
    \/ \E d \in MCDocument : InMessenger /\ HandleSingle(d)
    \/ \E d \in MCDocument : InMessenger /\ Handle(d)
    \/ \E f \in File : InInbox /\ Deliver(f)
    \/ \E f \in File : InInbox /\ Age(f)
    \/ \E c \in Collector : InInbox /\ List(c)
    \/ \E c \in Collector : InInbox /\ Download(c)
    \/ \E c \in Collector : InInbox /\ Reject(c)
    \/ \E c \in Collector : InInbox /\ Rejected(c)
    \/ \E c \in Collector : InInbox /\ Finish(c)
    \/ \E c \in Collector : InInbox /\ Flush(c)
    \/ \E c \in Collector : InInbox /\ ClearTarget(c)
    \/ \E c \in Collector : InInbox /\ Move(c)
    \/ \E c \in Collector : InInbox /\ EndFlush(c)
    \/ \E c \in Collector : InInbox /\ Exit(c)
    \/ \E c \in Collector : \E held \in aged[c] : InInbox /\ HandleTooOld(c, held)
    \/ \E c \in Collector : \E n \in todo[c] : InInbox /\ Claim(c, n)
    \/ \E c \in Collector : \E config \in left[c] : InInbox /\ Extract(c, config)
    \/ \E c \in Collector : InInbox /\ FlushError(c)
    \/ \E c \in Collector : InInbox /\ MoveError(c)
    \/ \E c \in Collector : InInbox /\ ServerError(c)
    \/ \E c \in Collector : InInbox /\ Stop(c)
    \/ \E c \in Collector : InInbox /\ Crash(c)

\* The fairness of the two modules: the loop of a messenger and a collector are one condition.
MCSpec ==
    /\ MCInit /\ [][MCNext]_all
    /\ WF_all((InMessenger /\ Loop) \/ (InInbox /\ Step(c1)))
    /\ WF_all(InInbox /\ Step(c2)) /\ SF_all(InMessenger /\ EndBody)
    /\ \A f \in File : WF_all(InInbox /\ Age(f))

----------------------------------------------------------------------------
\* messenger.py: what is handed over is sent in the end; sftpcollector.py: every file that is
\* delivered leaves the inbox in the end.
EventuallyFlushed == <>[](Delivered /\ Settled)
=============================================================================
