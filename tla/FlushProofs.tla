----------------------------- MODULE FlushProofs -----------------------------
(***************************************************************************)
(* Proofs about what a collector holds back until a flush.  Inbox, for any *)
(* files, configurations and number of collectors, faults and takeovers:   *)
(* its typing, that what is moved was sent, that a file is ingested by one *)
(* collector at a time, and how one can leave the server.  Messenger, for  *)
(* any documents, destinations, indices, chunk sizes, failures and         *)
(* signals: its typing, that no document is dropped but the one a signal   *)
(* catches, and that messages name the indices of their documents.         *)
(***************************************************************************)
EXTENDS Inbox, Messenger, TLAPS

----------------------------------------------------------------------------
(* Inbox: the inductive invariants.                                         *)


\* What collector c keeps of the configurations it went through.
KeptBy(c) == sent \cup unsent[c]

\* A file that is moved, or is about to, has all its documents in a message.
ExtractedIsKept ==
    \A c \in Collector :
        pc[c] = "extract" /\ ~failed[c] /\ ~stopping[c] =>
            {current[c][1]} \X (Configs[current[c][1]] \ left[c]) \subseteq KeptBy(c)

MovesAreKept ==
    \A c \in Collector : \A i \in DOMAIN moves[c] :
        {moves[c][i][1]} \X Configs[moves[c][i][1]] \subseteq
            (IF stopping[c] \/ pc[c] = "moves" THEN sent ELSE KeptBy(c))

\* A file rejected by one configuration, that another one rejects.
TwiceIsKnown ==
    \A c \in Collector : pc[c] = "reject" /\ failed[c] => current[c][1] \in twice

\* A step of collector c, an error, a signal or a death.
Acts(c) ==
    Step(c) \/ FlushError(c) \/ MoveError(c) \/ ServerError(c) \/ Stop(c) \/ Crash(c)

SentInv == ExtractedIsKept /\ MovesAreKept /\ MovedIsDone

----------------------------------------------------------------------------
(* InboxTyping.                                                                  *)

LEMMA ClaimIsSome == \A held \in Claims : held # None /\ held[1] \in File /\ held[2] \in Nat
  BY InboxAssumption DEF Claims

LEMMA PairIsPair == \A f \in File : \A config \in Configs[f] : <<f, config>> \in Pairs
  BY DEF Pairs

LEMMA InitIsTyped == Init => TypeOK
  <1> SUFFICES ASSUME Init
               PROVE  TypeOK
    OBVIOUS
  <1>1. /\ aged \in [Collector -> SUBSET Claims] /\ todo \in [Collector -> SUBSET Name]
        /\ left \in [Collector -> SUBSET UNION {Configs[f] : f \in File}]
        /\ unsent \in [Collector -> SUBSET Pairs]
    BY DEF Init, Empty
  <1>2. moves \in [Collector -> Seq(Claims)]
    BY DEF Init
  <1>3. faults \in Nat /\ place \in [File -> {"elsewhere", "coming", "inbox", "claimed", "forced", "ingested", "rejected", "removed"}]
    BY InboxAssumption DEF Init
  <1>4. \A c \in Collector : todo[c] = {}
    BY DEF Init, Empty
  <1> QED
    BY <1>1, <1>2, <1>3, <1>4 DEF Init, TypeOK, PC

\* A step of one collector, that leaves the others as they are: what is left to show.
Typed(c) ==
    /\ pc[c] \in PC /\ aged[c] \subseteq Claims /\ todo[c] \subseteq Name
    /\ current[c] \in Claims \cup {None} /\ moves[c] \in Seq(Claims)
    /\ left[c] \subseteq UNION {Configs[f] : f \in File} /\ unsent[c] \subseteq Pairs
    /\ pc[c] = "idle" => todo[c] = {}
    /\ current[c] = None <=> pc[c] \in {"idle", "aging", "files", "flush", "moves"}
    /\ left[c] # {} => current[c] # None /\ left[c] \subseteq Configs[current[c][1]]

Functions ==
    /\ pc \in [Collector -> PC]
    /\ aged \in [Collector -> SUBSET Claims] /\ todo \in [Collector -> SUBSET Name]
    /\ current \in [Collector -> Claims \cup {None}] /\ moves \in [Collector -> Seq(Claims)]
    /\ left \in [Collector -> SUBSET UNION {Configs[f] : f \in File}]
    /\ unsent \in [Collector -> SUBSET Pairs]

Shared ==
    /\ place \in [File -> {"elsewhere", "coming", "inbox", "claimed", "forced", "ingested", "rejected", "removed"}]
    /\ claim \in [File -> Nat] /\ old \in [File -> BOOLEAN]
    /\ failed \in [Collector -> BOOLEAN] /\ cleared \in [Collector -> BOOLEAN]
    /\ stopping \in [Collector -> BOOLEAN]
    /\ sent \subseteq Pairs /\ twice \subseteq File /\ overtaken \subseteq File
    /\ faults \in Nat

LEMMA TypeParts == TypeOK <=> Shared /\ Functions /\ \A c \in Collector : Typed(c)
  <1>1. TypeOK => Shared /\ Functions
    BY DEF TypeOK, Shared, Functions
  <1>2. TypeOK => \A c \in Collector : Typed(c)
    BY DEF TypeOK, Typed
  <1>3. Shared /\ Functions /\ (\A c \in Collector : Typed(c)) => TypeOK
    BY DEF TypeOK, Shared, Functions, Typed
  <1> QED
    BY <1>1, <1>2, <1>3

LEMMA ClaimInHand ==
    ASSUME TypeOK, NEW c \in Collector, pc[c] \in {"download", "extract", "reject", "rejecting"}
    PROVE  current[c] \in Claims /\ current[c] # None /\ current[c][1] \in File
  BY ClaimIsSome DEF TypeOK

LEMMA MoveInHand ==
    ASSUME TypeOK, NEW c \in Collector, moves[c] # <<>>
    PROVE  /\ Head(moves[c]) \in Claims /\ Head(moves[c])[1] \in File
           /\ Tail(moves[c]) \in Seq(Claims)
  BY ClaimIsSome DEF TypeOK

LEMMA ClearIsTyped ==
    ASSUME Shared, NEW f, NEW target, Clear(f, target)
    PROVE  place' \in [File -> {"elsewhere", "coming", "inbox", "claimed", "forced", "ingested", "rejected", "removed"}]
  BY DEF Shared, Clear, Place

LEMMA SharedIsTyped ==
    ASSUME TypeOK, [Next]_vars
    PROVE  Shared'
  <1> USE DEF server, work, flushing, history
  <1>1. Shared
    BY TypeParts
  <1>2. CASE UNCHANGED vars
    BY <1>1, <1>2 DEF vars, Shared
  <1>3. ASSUME NEW f \in File, Deliver(f) \/ Age(f)
        PROVE  Shared'
    BY <1>1, <1>3 DEF Deliver, Age, Place, Shared
  <1>4. ASSUME NEW c \in Collector, NEW held \in aged[c], HandleTooOld(c, held)
        PROVE  Shared'
    <2>1. held[1] \in File
      BY ClaimIsSome DEF TypeOK
    <2> QED
      BY <1>1, <1>4, <2>1 DEF HandleTooOld, Place, Shared
  <1>5. ASSUME NEW c \in Collector, NEW n \in todo[c], Claim(c, n)
        PROVE  Shared'
    BY <1>1, <1>5 DEF Claim, Place, Shared
  <1>6. ASSUME NEW c \in Collector, Download(c)
        PROVE  Shared'
    <2>1. old' \in [File -> BOOLEAN]
      <3>1. current[c][1] \in File
        BY <1>6, ClaimInHand DEF Download
      <3>2. old[current[c][1]] \in BOOLEAN /\ old \in [File -> BOOLEAN]
        BY <1>1, <3>1 DEF Shared
      <3>3. CASE UNCHANGED old
        BY <3>2, <3>3
      <3>4. CASE \E atime \in {FALSE, old[current[c][1]]} : old' = [old EXCEPT ![current[c][1]] = atime]
        <4>1. PICK atime \in BOOLEAN : old' = [old EXCEPT ![current[c][1]] = atime]
          BY <3>2, <3>4
        <4> QED
          BY <3>2, <4>1
      <3> QED
        BY <1>6, <3>3, <3>4 DEF Download
    <2>2. failed' \in [Collector -> BOOLEAN]
      BY <1>1, <1>6 DEF Download, GiveUp, Shared
    <2> QED
      BY <1>1, <1>6, <2>1, <2>2 DEF Download, Shared
  <1>7. ASSUME NEW c \in Collector, NEW config \in left[c], Extract(c, config)
        PROVE  Shared'
    <2>1. current[c][1] \in File
      BY <1>7, ClaimInHand DEF Extract
    <2> QED
      BY <1>1, <1>7, <2>1 DEF Extract, Shared
  <1>8. ASSUME NEW c \in Collector, Reject(c) \/ ClearTarget(c)
        PROVE  Shared'
    <2>1. place' \in [File -> {"elsewhere", "coming", "inbox", "claimed", "forced", "ingested", "rejected", "removed"}]
      BY <1>1, <1>8, ClearIsTyped DEF Reject, ClearTarget
    <2> QED
      BY <1>1, <1>8, <2>1 DEF Reject, ClearTarget, Shared
  <1>9. ASSUME NEW c \in Collector, Rejected(c) \/ Finish(c) \/ ServerError(c)
        PROVE  Shared'
    <2>1. failed' \in [Collector -> BOOLEAN]
      BY <1>1, <1>9 DEF Rejected, Finish, ServerError, GiveUp, Shared
    <2>2. place' \in [File -> {"elsewhere", "coming", "inbox", "claimed", "forced", "ingested", "rejected", "removed"}]
      BY <1>1, <1>9 DEF Rejected, Finish, ServerError, Place, Shared
    <2>3. faults' \in Nat
      BY <1>1, <1>9 DEF Rejected, Finish, ServerError, Fault, Shared
    <2> QED
      BY <1>1, <1>9, <2>1, <2>2, <2>3 DEF Rejected, Finish, ServerError, Shared
  <1>12. ASSUME NEW c \in Collector, Move(c) \/ MoveError(c)
        PROVE  Shared'
    <2>1. place' \in [File -> {"elsewhere", "coming", "inbox", "claimed", "forced", "ingested", "rejected", "removed"}]
      BY <1>1, <1>12 DEF Move, MoveError, Place, Shared
    <2>2. faults' \in Nat
      BY <1>1, <1>12 DEF Move, MoveError, Fault, Shared
    <2>3. cleared' \in [Collector -> BOOLEAN]
      BY <1>1, <1>12 DEF Move, MoveError, Shared
    <2> QED
      BY <1>1, <1>12, <2>1, <2>2, <2>3 DEF Move, MoveError, Shared
  <1>10. ASSUME NEW c \in Collector, List(c) \/ Flush(c) \/ FlushError(c) \/ EndFlush(c)
        PROVE  Shared'
    BY <1>1, <1>10 DEF List, Flush, FlushError, EndFlush, Send, Fault, Shared, TypeOK
  <1>11. ASSUME NEW c \in Collector, Stop(c) \/ Exit(c) \/ Crash(c)
        PROVE  Shared'
    <2>1. /\ failed' \in [Collector -> BOOLEAN] /\ cleared' \in [Collector -> BOOLEAN]
          /\ stopping' \in [Collector -> BOOLEAN]
      BY <1>1, <1>11 DEF Stop, Exit, Crash, Restart, Shared
    <2>2. faults' \in Nat /\ sent' \subseteq Pairs
      BY <1>1, <1>11 DEF Stop, Exit, Crash, Restart, Send, Fault, Shared, TypeOK
    <2> QED
      BY <1>1, <1>11, <2>1, <2>2 DEF Stop, Exit, Crash, Restart, Shared
  <1> QED
    BY <1>2, <1>3, <1>4, <1>5, <1>6, <1>7, <1>8, <1>9, <1>10, <1>11, <1>12 DEF Next, Step

\* A step of one collector, that leaves what the others have.
Only(c) ==
    /\ pc' = [pc EXCEPT ![c] = pc'[c]] /\ aged' = [aged EXCEPT ![c] = aged'[c]]
    /\ todo' = [todo EXCEPT ![c] = todo'[c]] /\ current' = [current EXCEPT ![c] = current'[c]]
    /\ moves' = [moves EXCEPT ![c] = moves'[c]] /\ left' = [left EXCEPT ![c] = left'[c]]
    /\ unsent' = [unsent EXCEPT ![c] = unsent'[c]]

LEMMA OneChanges ==
    ASSUME TypeOK, NEW c \in Collector, Only(c), Typed(c)'
    PROVE  Functions' /\ \A k \in Collector : Typed(k)'
  <1>1. Functions'
    BY TypeParts DEF Functions, Only, Typed
  <1>2. ASSUME NEW k \in Collector, k # c
        PROVE  Typed(k)'
    <2>1. UNCHANGED <<pc[k], aged[k], todo[k], current[k], moves[k], left[k], unsent[k]>>
      BY <1>2, TypeParts DEF Functions, Only
    <2> QED
      BY <2>1, TypeParts DEF Typed
  <1> QED
    BY <1>1, <1>2

LEMMA GiveUpDoes ==
    ASSUME TypeOK, NEW c \in Collector, GiveUp(c)
    PROVE  /\ pc' = [pc EXCEPT ![c] = "files"] /\ pc'[c] = "files"
           /\ current' = [current EXCEPT ![c] = None] /\ current'[c] = None
           /\ left' = [left EXCEPT ![c] = {}] /\ left'[c] = {}
  BY DEF GiveUp, Goto, TypeOK

LEMMA OnlyOne ==
    ASSUME TypeOK, NEW c \in Collector, Acts(c)
    PROVE  Only(c)
  <1> USE DEF server, work, flushing, history, Only
  <1>1. CASE List(c)
    BY <1>1 DEF List, Goto, TypeOK
  <1>2. ASSUME NEW held \in aged[c], HandleTooOld(c, held)
        PROVE  Only(c)
    BY <1>2 DEF HandleTooOld, Goto, TypeOK
  <1>3. ASSUME NEW n \in todo[c], Claim(c, n)
        PROVE  Only(c)
    BY <1>3 DEF Claim, Goto, TypeOK
  <1>4. CASE Download(c)
    BY <1>4 DEF Download, GiveUp, Goto, TypeOK
  <1>5. ASSUME NEW config \in left[c], Extract(c, config)
        PROVE  Only(c)
    BY <1>5 DEF Extract, Goto, TypeOK
  <1>6. CASE Reject(c) \/ ClearTarget(c)
    BY <1>6 DEF Reject, ClearTarget, Goto, TypeOK
  <1>7. CASE Rejected(c)
    BY <1>7 DEF Rejected, GiveUp, Goto, TypeOK
  <1>8. CASE Finish(c)
    BY <1>8 DEF Finish, Goto, TypeOK
  <1>9. CASE Flush(c)
    BY <1>9 DEF Flush, Send, Goto, TypeOK
  <1>10. CASE FlushError(c) \/ EndFlush(c)
    BY <1>10 DEF FlushError, EndFlush, Goto, TypeOK
  <1>11. CASE Move(c) \/ MoveError(c)
    BY <1>11 DEF Move, MoveError, Goto, TypeOK
  <1>12. CASE Stop(c)
    BY <1>12 DEF Stop, Send, TypeOK
  <1>13. CASE Exit(c) \/ Crash(c)
    BY <1>13 DEF Exit, Crash, Restart, Goto, TypeOK
  <1>14. CASE ServerError(c)
    BY <1>14 DEF ServerError, GiveUp, Goto, TypeOK
  <1> QED
    BY <1>1, <1>2, <1>3, <1>4, <1>5, <1>6, <1>7, <1>8, <1>9, <1>10, <1>11, <1>12, <1>13, <1>14
       DEF Acts, Step

LEMMA CollectorIsTyped ==
    ASSUME TypeOK, NEW c \in Collector, Acts(c)
    PROVE  Typed(c)'
  <1> USE DEF server, work, flushing, history
  <1>0. Typed(c)
    BY TypeParts
  <1>1. CASE List(c)
    <2>1. aged'[c] = {<<f, claim[f]>> : f \in TooOld} /\ todo'[c] = {n \in Name : place[n[1]] = n[2]}
      BY <1>1 DEF List, TypeOK
    <2>2. aged'[c] \subseteq Claims /\ todo'[c] \subseteq Name
      BY <2>1 DEF TooOld, TypeOK, Claims
    <2>3. pc[c] = "idle" /\ pc'[c] \in {"files", "aging"}
      BY <1>1 DEF List, Goto, TypeOK
    <2> QED
      BY <1>0, <1>1, <2>2, <2>3 DEF List, Typed, PC
  <1>2. ASSUME NEW held \in aged[c], HandleTooOld(c, held)
        PROVE  Typed(c)'
    <2>1. <<held[1], "forced">> \in Name
      BY <1>0, ClaimIsSome DEF Name, Typed
    <2>2. pc[c] = "aging" /\ pc'[c] \in {"files", "aging"}
      BY <1>2 DEF HandleTooOld, Goto, TypeOK
    <2>3. aged'[c] \subseteq aged[c] /\ todo'[c] \subseteq todo[c] \cup {<<held[1], "forced">>}
      BY <1>2 DEF HandleTooOld, TypeOK
    <2> QED
      BY <1>0, <1>2, <2>1, <2>2, <2>3 DEF HandleTooOld, Typed, PC
  <1>3. ASSUME NEW n \in todo[c], Claim(c, n)
        PROVE  Typed(c)'
    <2>1. n[1] \in File
      BY <1>0 DEF Name, Typed
    <2>2. <<n[1], claim[n[1]] + 1>> \in Claims
      BY <2>1 DEF TypeOK, Claims
    <2>3. todo'[c] \subseteq todo[c] /\ pc[c] = "files"
      BY <1>3 DEF Claim, TypeOK
    <2>4. \/ current'[c] = <<n[1], claim[n[1]] + 1>> /\ pc'[c] = "download"
          \/ UNCHANGED <<current, pc>>
      BY <1>3 DEF Claim, Goto, TypeOK
    <2> QED
      BY <1>0, <1>3, <2>2, <2>3, <2>4, ClaimIsSome DEF Claim, Typed, PC
  <1>4. CASE Download(c)
    <2>1. CASE GiveUp(c)
      BY <1>0, <1>4, <2>1, GiveUpDoes DEF Download, Typed, PC
    <2>2. CASE Goto(c, "extract") /\ left' = [left EXCEPT ![c] = Configs[current[c][1]]] /\ UNCHANGED current
      <3>1. current[c] # None /\ current[c][1] \in File
        BY <1>4, ClaimInHand DEF Download
      <3>2. Configs[current[c][1]] \subseteq UNION {Configs[f] : f \in File}
        BY <3>1
      <3>3. pc'[c] = "extract" /\ left'[c] = Configs[current[c][1]]
        BY <2>2 DEF Goto, TypeOK
      <3> QED
        BY <1>0, <1>4, <2>2, <3>1, <3>2, <3>3 DEF Download, Typed, PC
    <2> QED
      BY <1>4, <2>1, <2>2 DEF Download
  <1>5. ASSUME NEW config \in left[c], Extract(c, config)
        PROVE  Typed(c)'
    <2>1. current[c] # None /\ current[c][1] \in File /\ pc[c] = "extract"
      BY <1>5, ClaimInHand DEF Extract
    <2>2. <<current[c][1], config>> \in Pairs
      BY <1>0, <2>1, PairIsPair DEF Typed
    <2>3. unsent'[c] \subseteq unsent[c] \cup {<<current[c][1], config>>}
      BY <1>5 DEF Extract, TypeOK
    <2>4. pc'[c] \in {"extract", "reject"} /\ left'[c] \subseteq left[c]
      BY <1>5, <2>1 DEF Extract, Goto, TypeOK
    <2> QED
      BY <1>0, <1>5, <2>1, <2>2, <2>3, <2>4 DEF Extract, Typed, PC
  <1>6. CASE Reject(c)
    <2>1. pc[c] = "reject" /\ pc'[c] = "rejecting"
      BY <1>6 DEF Reject, Goto, TypeOK
    <2> QED
      BY <1>0, <1>6, <2>1 DEF Reject, Typed, PC
  <1>7. CASE Rejected(c)
    <2>1. CASE GiveUp(c)
      BY <1>0, <1>7, <2>1, GiveUpDoes DEF Rejected, Typed, PC
    <2>2. CASE Goto(c, "extract") /\ UNCHANGED <<current, left>>
      <3>1. pc[c] = "rejecting" /\ pc'[c] = "extract"
        BY <1>7, <2>2 DEF Rejected, Goto, TypeOK
      <3> QED
        BY <1>0, <1>7, <2>2, <3>1 DEF Rejected, Typed, PC
    <2> QED
      BY <1>7, <2>1, <2>2 DEF Rejected
  <1>8. CASE Finish(c)
    <2>1. current[c] \in Claims /\ left[c] = {} /\ UNCHANGED left
      BY <1>8, ClaimInHand DEF Finish
    <2>2. moves'[c] = moves[c] \/ moves'[c] = Append(moves[c], current[c])
      BY <1>8 DEF Finish, TypeOK
    <2>3. moves'[c] \in Seq(Claims)
      BY <1>0, <2>1, <2>2 DEF Typed
    <2>4. pc'[c] \in {"flush", "files"} /\ current'[c] = None
      BY <1>8 DEF Finish, Goto, TypeOK
    <2> QED
      BY <1>0, <1>8, <2>1, <2>3, <2>4 DEF Finish, Typed, PC
  <1>9. CASE Flush(c) \/ FlushError(c) \/ EndFlush(c) \/ MoveError(c)
    <2>1. current[c] = None
      BY <1>0, <1>9 DEF Flush, FlushError, EndFlush, MoveError, Flushes, Typed
    <2>2. pc'[c] \in {"idle", "files", "moves"} /\ (pc'[c] = "idle" => todo[c] = {})
      BY <1>9 DEF Flush, FlushError, EndFlush, MoveError, Back, AfterError, Goto, TypeOK
    <2>3. moves'[c] \in Seq(Claims)
      <3>1. CASE UNCHANGED moves
        BY <1>0, <3>1 DEF Typed
      <3>2. CASE moves[c] # <<>> /\ moves' = [moves EXCEPT ![c] = Tail(@)]
        BY <3>2, MoveInHand DEF TypeOK
      <3> QED
        BY <1>9, <3>1, <3>2 DEF Flush, FlushError, EndFlush, MoveError
    <2>4. unsent'[c] \subseteq unsent[c]
      BY <1>9 DEF Flush, FlushError, EndFlush, MoveError, Send, TypeOK
    <2>5. UNCHANGED <<aged, todo, current, left>>
      BY <1>9 DEF Flush, FlushError, EndFlush, MoveError
    <2> QED
      BY <1>0, <2>1, <2>2, <2>3, <2>4, <2>5 DEF Typed, PC
  <1>10. CASE Move(c)
    <2>1. moves[c] # <<>> /\ moves'[c] = Tail(moves[c])
      BY <1>10 DEF Move, Moving, Pop, TypeOK
    <2> QED
      BY <1>0, <1>10, <2>1, MoveInHand DEF Move, Typed
  <1>11. CASE Stop(c)
    <2>1. unsent'[c] = {}
      BY <1>11 DEF Stop, Send, TypeOK
    <2> QED
      BY <1>0, <1>11, <2>1 DEF Stop, Typed
  <1>12. CASE ServerError(c)
    BY <1>0, <1>12, GiveUpDoes DEF ServerError, Typed, PC
  <1>13. CASE Exit(c) \/ Crash(c)
    <2>1. /\ pc'[c] = "idle" /\ aged'[c] = {} /\ todo'[c] = {} /\ current'[c] = None
          /\ left'[c] = {} /\ moves'[c] = <<>> /\ unsent'[c] = {}
      BY <1>13 DEF Exit, Crash, Restart, Goto, TypeOK
    <2> QED
      BY <2>1 DEF Typed, PC
  <1>14. CASE ClearTarget(c)
    BY <1>0, <1>14 DEF ClearTarget, Typed
  <1> QED
    BY <1>1, <1>2, <1>3, <1>4, <1>5, <1>6, <1>7, <1>8, <1>9, <1>10, <1>11, <1>12, <1>13, <1>14
       DEF Acts, Step

LEMMA StepIsTyped ==
    ASSUME TypeOK, [Next]_vars
    PROVE  TypeOK'
  <1>1. Functions' /\ \A c \in Collector : Typed(c)'
    <2>1. CASE UNCHANGED <<pc, aged, todo, current, moves, left, unsent>>
      <3>1. Functions /\ \A k \in Collector : Typed(k)
        BY TypeParts
      <3> QED
        BY <2>1, <3>1 DEF Functions, Typed
    <2>2. ASSUME NEW f \in File, Deliver(f) \/ Age(f)
          PROVE  Functions' /\ \A c \in Collector : Typed(c)'
      BY <2>1, <2>2 DEF Deliver, Age, work, flushing
    <2>3. CASE UNCHANGED vars
      BY <2>1, <2>3 DEF vars, work, flushing
    <2> QED
      BY <2>2, <2>3, OnlyOne, CollectorIsTyped, OneChanges DEF Next, Acts
  <1>2. Shared'
    BY SharedIsTyped
  <1> QED
    BY <1>1, <1>2 DEF TypeOK, Shared, Functions, Typed

----------------------------------------------------------------------------
(* What is moved was sent.                                                  *)

\* Another collector, of which a step changes nothing but, maybe, what is sent.
Unchanged(d) == UNCHANGED <<pc[d], current[d], moves[d], left[d], unsent[d], failed[d], stopping[d]>>

KeptOf(c) ==
    /\ pc[c] = "extract" /\ ~failed[c] /\ ~stopping[c] =>
           {current[c][1]} \X (Configs[current[c][1]] \ left[c]) \subseteq KeptBy(c)
    /\ \A i \in DOMAIN moves[c] :
           {moves[c][i][1]} \X Configs[moves[c][i][1]] \subseteq
               (IF stopping[c] \/ pc[c] = "moves" THEN sent ELSE KeptBy(c))

LEMMA KeptOfAll == ExtractedIsKept /\ MovesAreKept <=> \A c \in Collector : KeptOf(c)
  BY DEF ExtractedIsKept, MovesAreKept, KeptOf

LEMMA OthersKeep ==
    ASSUME NEW d \in Collector, KeptOf(d), sent \subseteq sent', Unchanged(d)
    PROVE  KeptOf(d)'
  <1>1. UNCHANGED <<pc[d], current[d], moves[d], left[d], unsent[d], failed[d], stopping[d]>>
    BY DEF Unchanged
  <1>2. KeptBy(d) \subseteq KeptBy(d)'
    BY <1>1 DEF KeptBy
  <1> QED
    BY <1>1, <1>2 DEF KeptOf

LEMMA SentGrows ==
    ASSUME [Next]_vars
    PROVE  sent \subseteq sent'
  <1>1. UNCHANGED sent \/ \E c \in Collector : Send(c)
    <2>1. ASSUME NEW c \in Collector, Step(c)
          PROVE  UNCHANGED sent \/ Send(c)
      BY <2>1 DEF Step, history, List, HandleTooOld, Claim, Download, Extract, Reject,
                  Rejected, Finish, Flush, ClearTarget, Move, EndFlush, Exit, Restart
    <2>2. ASSUME NEW c \in Collector,
                 FlushError(c) \/ MoveError(c) \/ ServerError(c) \/ Stop(c) \/ Crash(c)
          PROVE  UNCHANGED sent \/ Send(c)
      BY <2>2 DEF history, FlushError, MoveError, EndFlush, ServerError, Stop, Crash, Restart
    <2>3. ASSUME NEW f \in File, Deliver(f) \/ Age(f)
          PROVE  UNCHANGED sent
      BY <2>3 DEF history, Deliver, Age
    <2> QED
      BY <2>1, <2>2, <2>3 DEF Next, vars, history
  <1> QED
    BY <1>1 DEF Send

LEMMA OthersAreUnchanged ==
    ASSUME TypeOK, NEW c \in Collector, Acts(c),
           NEW d \in Collector, d # c
    PROVE  Unchanged(d)
  <1>1. UNCHANGED <<pc[d], current[d], moves[d], left[d], unsent[d]>>
    BY OnlyOne DEF Only, TypeOK
  <1>2. UNCHANGED failed[d]
    <2>1. CASE failed' = [failed EXCEPT ![c] = failed'[c]]
      BY <2>1 DEF TypeOK
    <2>2. UNCHANGED failed \/ (\E b : failed' = [failed EXCEPT ![c] = b])
      BY DEF Acts, Step, work, List, HandleTooOld, Claim, Download, Extract, Reject, Rejected, Finish,
             Flush, FlushError, ClearTarget, Move, MoveError, EndFlush, ServerError, GiveUp, Stop,
             Exit, Crash, Restart
    <2> QED
      BY <2>2 DEF TypeOK
  <1>3. UNCHANGED stopping[d]
    <2>1. UNCHANGED stopping \/ (\E b : stopping' = [stopping EXCEPT ![c] = b])
      BY DEF Acts, Step, List, HandleTooOld, Claim, Download, Extract, Reject, Rejected, Finish,
             Flush, FlushError, ClearTarget, Move, MoveError, EndFlush, ServerError, Stop,
             Exit, Crash, Restart
    <2> QED
      BY <2>1 DEF TypeOK
  <1> QED
    BY <1>1, <1>2, <1>3 DEF Unchanged

LEMMA CollectorKeeps ==
    ASSUME TypeOK, NEW c \in Collector, KeptOf(c),
           Acts(c)
    PROVE  KeptOf(c)'
  <1> USE DEF server, work, flushing, history
  <1>0. sent \subseteq sent'
    BY SentGrows DEF Next, Acts
  <1>1. CASE /\ UNCHANGED <<moves, unsent, stopping>> /\ pc'[c] # "extract"
             /\ pc[c] = "moves" => pc'[c] = "moves" \/ moves[c] = <<>>
             /\ pc'[c] = "moves" => pc[c] = "moves"
    BY <1>0, <1>1 DEF KeptOf, KeptBy
  <1>2. CASE List(c) \/ Reject(c)
    <2>1. pc[c] \in {"idle", "reject"} /\ pc'[c] \in {"files", "aging", "rejecting"}
      BY <1>2 DEF List, Reject, Goto, TypeOK
    <2> QED
      BY <1>1, <1>2, <2>1 DEF List, Reject
  <1>3. ASSUME NEW held \in aged[c], HandleTooOld(c, held)
        PROVE  KeptOf(c)'
    <2>1. pc[c] = "aging" /\ pc'[c] \in {"files", "aging"}
      BY <1>3 DEF HandleTooOld, Goto, TypeOK
    <2> QED
      BY <1>1, <1>3, <2>1 DEF HandleTooOld
  <1>4. ASSUME NEW n \in todo[c], Claim(c, n)
        PROVE  KeptOf(c)'
    <2>1. pc[c] = "files" /\ pc'[c] \in {"files", "download"}
      BY <1>4 DEF Claim, Goto, TypeOK
    <2> QED
      BY <1>1, <1>4, <2>1 DEF Claim
  <1>5. CASE Download(c)
    <2>1. CASE GiveUp(c)
      BY <1>1, <1>5, <2>1, GiveUpDoes DEF Download
    <2>2. CASE Goto(c, "extract") /\ left' = [left EXCEPT ![c] = Configs[current[c][1]]] /\ UNCHANGED current
      <3>1. pc'[c] = "extract" /\ left'[c] = Configs[current[c][1]] /\ pc[c] = "download"
        BY <1>5, <2>2 DEF Download, Goto, TypeOK
      <3> QED
        BY <1>0, <1>5, <2>2, <3>1 DEF Download, KeptOf, KeptBy
    <2> QED
      BY <1>5, <2>1, <2>2 DEF Download
  <1>6. ASSUME NEW config \in left[c], Extract(c, config)
        PROVE  KeptOf(c)'
    <2>1. /\ pc[c] = "extract" /\ pc'[c] \in {"extract", "reject"}
          /\ left'[c] = left[c] \ {config} /\ unsent[c] \subseteq unsent'[c]
          /\ pc'[c] = "extract" /\ ~stopping[c] => <<current[c][1], config>> \in unsent'[c]
      BY <1>6 DEF Extract, Goto, TypeOK
    <2>2. UNCHANGED <<current, moves, stopping, failed>>
      BY <1>6 DEF Extract
    <2>3. KeptBy(c) \subseteq KeptBy(c)'
      BY <1>0, <2>1 DEF KeptBy
    <2>4. pc'[c] = "extract" /\ ~failed'[c] /\ ~stopping'[c] =>
              {current'[c][1]} \X (Configs[current'[c][1]] \ left'[c]) \subseteq KeptBy(c)'
      <3>1. pc'[c] = "extract" /\ ~failed[c] /\ ~stopping[c] =>
                {current[c][1]} \X (Configs[current[c][1]] \ left'[c]) \subseteq KeptBy(c)'
        BY <2>1, <2>3 DEF KeptOf, KeptBy
      <3> QED
        BY <2>2, <3>1
    <2>5. \A i \in DOMAIN moves'[c] : {moves'[c][i][1]} \X Configs[moves'[c][i][1]] \subseteq
              (IF stopping'[c] \/ pc'[c] = "moves" THEN sent' ELSE KeptBy(c)')
      BY <1>0, <2>1, <2>2, <2>3 DEF KeptOf
    <2> QED
      BY <2>4, <2>5 DEF KeptOf
  <1>7. CASE Rejected(c)
    <2>1. CASE GiveUp(c)
      BY <1>1, <1>7, <2>1, GiveUpDoes DEF Rejected
    <2>2. CASE Goto(c, "extract") /\ failed' = [failed EXCEPT ![c] = TRUE]
      <3>1. pc'[c] = "extract" /\ pc[c] = "rejecting" /\ failed'[c]
        BY <1>7, <2>2 DEF Rejected, Goto, TypeOK
      <3> QED
        BY <1>0, <1>7, <2>2, <3>1 DEF Rejected, KeptOf, KeptBy
    <2> QED
      BY <1>7, <2>1, <2>2 DEF Rejected
  <1>8. CASE Finish(c)
    <2>1. /\ pc[c] = "extract" /\ left[c] = {} /\ pc'[c] \in {"flush", "files"}
          /\ UNCHANGED <<sent, unsent, stopping>>
      BY <1>8 DEF Finish, Goto, TypeOK
    <2>2. KeptBy(c)' = KeptBy(c)
      BY <2>1 DEF KeptBy
    <2>3. ASSUME NEW i \in DOMAIN moves'[c]
          PROVE  {moves'[c][i][1]} \X Configs[moves'[c][i][1]] \subseteq
                     (IF stopping[c] THEN sent ELSE KeptBy(c))
      <3>1. CASE ~stopping[c] /\ ~failed[c]
        <4>1. moves'[c] = Append(moves[c], current[c])
          BY <1>8, <3>1 DEF Finish, TypeOK
        <4>2. CASE i \in DOMAIN moves[c] /\ moves'[c][i] = moves[c][i]
          BY <2>1, <3>1, <4>2 DEF KeptOf
        <4>3. CASE moves'[c][i] = current[c]
          BY <2>1, <3>1, <4>3 DEF KeptOf
        <4> QED
          <5>1. current[c] \in Claims
            BY <1>8, ClaimInHand DEF Finish
          <5>2. moves[c] \in Seq(Claims)
            BY DEF TypeOK
          <5> QED
            BY <4>1, <4>2, <4>3, <5>1, <5>2
      <3>2. CASE UNCHANGED moves
        BY <2>1, <2>3, <3>2 DEF KeptOf
      <3> QED
        BY <1>8, <3>1, <3>2 DEF Finish
    <2> QED
      BY <2>1, <2>2, <2>3 DEF KeptOf
  <1>9. CASE Flush(c)
    <2>1. sent' = sent \cup unsent[c] /\ UNCHANGED <<moves, stopping>> /\ pc'[c] # "extract"
      BY <1>9 DEF Flush, Send, Goto, Back, TypeOK
    <2>2. KeptBy(c) \subseteq sent'
      BY <2>1 DEF KeptBy
    <2> QED
      BY <1>0, <2>1, <2>2 DEF KeptOf, KeptBy
  <1>10. CASE FlushError(c) \/ EndFlush(c)
    <2>1. UNCHANGED <<moves, unsent, stopping>> /\ pc'[c] \in {"idle", "files"}
      BY <1>10 DEF FlushError, EndFlush, AfterError, Back, Goto, TypeOK
    <2>2. pc[c] = "moves" => moves[c] = <<>>
      BY <1>10 DEF FlushError, EndFlush, Flushes
    <2> QED
      BY <1>1, <2>1, <2>2
  <1>11. CASE Move(c) \/ MoveError(c)
    <2>1. moves[c] # <<>> /\ moves'[c] = Tail(moves[c])
      BY <1>11 DEF Move, Moving, MoveError, Pop, TypeOK
    <2>2. UNCHANGED <<current, left, unsent, stopping, failed, sent>>
      BY <1>11 DEF Move, MoveError
    <2>3. (stopping[c] \/ pc[c] = "moves") /\ (pc'[c] = pc[c] \/ pc'[c] \in {"idle", "files"})
      BY <1>11 DEF Move, Moving, MoveError, Goto, Back, TypeOK
    <2>4. \A i \in DOMAIN moves'[c] : {moves'[c][i][1]} \X Configs[moves'[c][i][1]] \subseteq sent
      <3>1. \A i \in DOMAIN moves'[c] : i + 1 \in DOMAIN moves[c] /\ moves'[c][i] = moves[c][i + 1]
        BY <2>1 DEF TypeOK
      <3> QED
        BY <2>3, <3>1 DEF KeptOf
    <2> QED
      BY <2>2, <2>3, <2>4 DEF KeptOf, KeptBy
  <1>12. CASE Stop(c)
    <2>1. sent' = sent \cup unsent[c] /\ stopping'[c] /\ UNCHANGED moves
      BY <1>12 DEF Stop, Send, TypeOK
    <2> QED
      BY <2>1 DEF KeptOf, KeptBy
  <1>13. CASE ServerError(c)
    <2>1. UNCHANGED <<moves, unsent, stopping>> /\ pc'[c] = "files" /\ pc[c] # "moves"
      BY <1>13, GiveUpDoes DEF ServerError
    <2> QED
      BY <1>1, <2>1
  <1>14. CASE Exit(c) \/ Crash(c)
    <2>1. moves'[c] = <<>> /\ pc'[c] = "idle"
      BY <1>14 DEF Exit, Crash, Restart, Goto, TypeOK
    <2> QED
      BY <2>1 DEF KeptOf
  <1>15. CASE ClearTarget(c)
    BY <1>0, <1>15 DEF ClearTarget, KeptOf, KeptBy
  <1> QED
    BY <1>2, <1>3, <1>4, <1>5, <1>6, <1>7, <1>8, <1>9, <1>10, <1>11, <1>12, <1>13, <1>14, <1>15
       DEF Acts, Step

\* A file goes to the directory of the ingested ones only by a move.
LEMMA OnlyMoves ==
    ASSUME TypeOK, [Next]_vars, NEW f \in File, place'[f] = "ingested", place[f] # "ingested"
    PROVE  \E c \in Collector : Move(c) /\ Head(moves[c])[1] = f
  <1> USE DEF server, work, flushing, history
  <1>1. CASE UNCHANGED place
    BY <1>1
  <1>2. ASSUME NEW g \in File, Deliver(g) \/ Age(g)
        PROVE  FALSE
    BY <1>2 DEF Deliver, Age, Place, TypeOK
  <1>3. ASSUME NEW c \in Collector, NEW held \in aged[c], HandleTooOld(c, held)
        PROVE  FALSE
    BY <1>3 DEF HandleTooOld, Place, TypeOK
  <1>4. ASSUME NEW c \in Collector, NEW n \in todo[c], Claim(c, n)
        PROVE  FALSE
    BY <1>4 DEF Claim, Place, TypeOK
  <1>5. ASSUME NEW c \in Collector, Reject(c) \/ Rejected(c) \/ ClearTarget(c)
        PROVE  FALSE
    BY <1>5 DEF Reject, Rejected, ClearTarget, Clear, Place, TypeOK
  <1>6. ASSUME NEW c \in Collector, Move(c)
        PROVE  Head(moves[c])[1] = f
    BY <1>6 DEF Move, Place, TypeOK
  <1>7. ASSUME NEW c \in Collector,
               \/ List(c) \/ Download(c) \/ Finish(c) \/ Flush(c) \/ EndFlush(c) \/ Exit(c)
               \/ (\E config \in left[c] : Extract(c, config))
               \/ FlushError(c) \/ MoveError(c) \/ ServerError(c) \/ Stop(c) \/ Crash(c)
        PROVE  UNCHANGED place
    BY <1>7 DEF List, Download, Finish, Flush, EndFlush, Exit, Extract, FlushError, MoveError,
                ServerError, Stop, Crash, Restart
  <1> QED
    BY <1>1, <1>2, <1>3, <1>4, <1>5, <1>6, <1>7 DEF Next, Step, vars

LEMMA StepKeepsSent ==
    ASSUME TypeOK, SentInv, [Next]_vars
    PROVE  SentInv'
  <1>1. \A c \in Collector : KeptOf(c)
    BY KeptOfAll DEF SentInv
  <1>2. \A c \in Collector : KeptOf(c)'
    <2>1. CASE UNCHANGED <<pc, current, moves, left, unsent, failed, stopping>>
      BY <1>1, <2>1, SentGrows, OthersKeep DEF Unchanged
    <2>2. ASSUME NEW f \in File, Deliver(f) \/ Age(f)
          PROVE  \A c \in Collector : KeptOf(c)'
      BY <2>1, <2>2 DEF Deliver, Age, work, flushing
    <2>3. CASE UNCHANGED vars
      BY <2>1, <2>3 DEF vars, work, flushing
    <2>4. ASSUME NEW c \in Collector,
                 Acts(c)
          PROVE  \A d \in Collector : KeptOf(d)'
      BY <1>1, <2>4, CollectorKeeps, OthersAreUnchanged, OthersKeep, SentGrows
    <2> QED
      BY <2>2, <2>3, <2>4 DEF Next, Acts
  <1>3. MovedIsDone'
    <2> SUFFICES ASSUME NEW f \in File, place'[f] = "ingested"
                 PROVE  {f} \X Configs[f] \subseteq sent'
      BY DEF MovedIsDone
    <2>1. CASE place[f] = "ingested"
      BY <2>1, SentGrows DEF SentInv, MovedIsDone
    <2>2. CASE place[f] # "ingested"
      <3>1. PICK c \in Collector : Move(c) /\ Head(moves[c])[1] = f
        BY <2>2, OnlyMoves
      <3>2. moves[c] # <<>> /\ (stopping[c] \/ pc[c] = "moves") /\ sent' = sent
        BY <3>1 DEF Move, Moving, history
      <3>3. 1 \in DOMAIN moves[c] /\ Head(moves[c]) = moves[c][1]
        BY <3>2 DEF TypeOK
      <3> QED
        BY <1>1, <3>1, <3>2, <3>3 DEF KeptOf
    <2> QED
      BY <2>1, <2>2
  <1> QED
    BY <1>2, <1>3 DEF SentInv, KeptOf, ExtractedIsKept, MovesAreKept

----------------------------------------------------------------------------
(* Who holds a claim.                                                       *)

\* The moves of a collector after a step: those it had, or, less the first one; and maybe
\* the file it has ingested.
LEMMA MovesAfter ==
    ASSUME TypeOK, NEW c \in Collector, Acts(c)
    PROVE  \/ moves'[c] = moves[c]
           \/ moves[c] # <<>> /\ moves'[c] = Tail(moves[c]) /\ UNCHANGED <<current, claim, failed>>
           \/ /\ Finish(c) /\ moves'[c] = Append(moves[c], current[c]) /\ ~failed[c]
              /\ current[c] \in Claims /\ current'[c] = None
           \/ moves'[c] = <<>>
  <1> USE DEF server, work, flushing, history
  <1>1. CASE Finish(c)
    BY <1>1, ClaimInHand DEF Finish, TypeOK
  <1>2. CASE Move(c) \/ MoveError(c)
    BY <1>2 DEF Move, MoveError, Moving, Pop, TypeOK
  <1>3. CASE Exit(c) \/ Crash(c)
    BY <1>3 DEF Exit, Crash, Restart, TypeOK
  <1>4. CASE \/ List(c) \/ Download(c) \/ Reject(c) \/ Rejected(c) \/ Flush(c) \/ EndFlush(c)
             \/ ClearTarget(c) \/ (\E held \in aged[c] : HandleTooOld(c, held))
             \/ (\E n \in todo[c] : Claim(c, n)) \/ (\E k \in left[c] : Extract(c, k))
             \/ FlushError(c) \/ ServerError(c) \/ Stop(c)
    BY <1>4 DEF List, Download, Reject, Rejected, Flush, EndFlush, ClearTarget, HandleTooOld,
                Claim, Extract, FlushError, ServerError, Stop
  <1> QED
    BY <1>1, <1>2, <1>3, <1>4 DEF Acts, Step

\* The claim of a collector after a step: its own, none, or a new one.
LEMMA CurrentAfter ==
    ASSUME TypeOK, NEW c \in Collector, Acts(c)
    PROVE  \/ current'[c] = current[c] /\ UNCHANGED claim
           \/ current'[c] = None /\ UNCHANGED claim
           \/ \E n \in todo[c] :
                  /\ Claim(c, n) /\ StillThere(n) /\ n[1] \in File
                  /\ current'[c] = <<n[1], claim[n[1]] + 1>>
                  /\ claim' = [claim EXCEPT ![n[1]] = @ + 1]
                  /\ place' = [place EXCEPT ![n[1]] = "claimed"]
  <1> USE DEF server, work, flushing, history
  <1>1. ASSUME NEW n \in todo[c], Claim(c, n)
        PROVE  \/ current'[c] = current[c] /\ UNCHANGED claim
               \/ /\ Claim(c, n) /\ StillThere(n) /\ n[1] \in File
                  /\ current'[c] = <<n[1], claim[n[1]] + 1>>
                  /\ claim' = [claim EXCEPT ![n[1]] = @ + 1]
                  /\ place' = [place EXCEPT ![n[1]] = "claimed"]
    <2>1. n[1] \in File
      BY DEF TypeOK, Name
    <2> QED
      BY <1>1, <2>1 DEF Claim, Place, TypeOK
  <1>2. CASE Download(c) \/ Rejected(c) \/ ServerError(c)
    BY <1>2, GiveUpDoes DEF Download, Rejected, ServerError
  <1>3. CASE Finish(c) \/ Exit(c) \/ Crash(c)
    BY <1>3 DEF Finish, Exit, Crash, Restart, TypeOK
  <1>4. CASE \/ List(c) \/ Reject(c) \/ Flush(c) \/ EndFlush(c) \/ ClearTarget(c) \/ Move(c)
             \/ (\E held \in aged[c] : HandleTooOld(c, held))
             \/ (\E k \in left[c] : Extract(c, k))
             \/ FlushError(c) \/ MoveError(c) \/ Stop(c)
    BY <1>4 DEF List, Reject, Flush, EndFlush, ClearTarget, Move, HandleTooOld, Extract,
                FlushError, MoveError, Stop
  <1> QED
    BY <1>1, <1>2, <1>3, <1>4 DEF Acts, Step

\* A claim in the hands of c: the one it ingests, or one it is to move.
Has(c, held) == held \in Claims /\ (current[c] = held \/ IsMove(held, c))

\* After a step of c, what it has it had, but for a claim that is new.
LEMMA HadBefore ==
    ASSUME TypeOK, NEW c \in Collector, Acts(c),
           NEW held, Has(c, held)'
    PROVE  \/ Has(c, held)
           \/ \E n \in todo[c] : /\ Claim(c, n) /\ held = <<n[1], claim[n[1]] + 1>>
                                 /\ current'[c] = held /\ n[1] \in File
  <1>1. held \in Claims
    BY DEF Has, Claims
  <1>2. CASE current'[c] = held
    BY <1>1, <1>2, CurrentAfter, ClaimIsSome DEF Has
  <1>3. CASE IsMove(held, c)'
    <2>1. PICK i \in DOMAIN moves'[c] : moves'[c][i] = held
      BY <1>3 DEF IsMove
    <2>2. moves[c] \in Seq(Claims)
      BY DEF TypeOK
    <2>3. CASE moves'[c] = moves[c]
      BY <1>1, <2>1, <2>3 DEF Has, IsMove
    <2>4. CASE moves[c] # <<>> /\ moves'[c] = Tail(moves[c])
      <3>1. i + 1 \in DOMAIN moves[c] /\ moves[c][i + 1] = held
        BY <2>1, <2>2, <2>4
      <3> QED
        BY <1>1, <3>1 DEF Has, IsMove
    <2>5. CASE moves'[c] = Append(moves[c], current[c]) /\ current[c] \in Claims
      <3>1. held = current[c] \/ (i \in DOMAIN moves[c] /\ moves[c][i] = held)
        BY <2>1, <2>2, <2>5
      <3> QED
        BY <1>1, <3>1 DEF Has, IsMove
    <2>6. CASE moves'[c] = <<>>
      BY <2>1, <2>6
    <2> QED
      BY <2>3, <2>4, <2>5, <2>6, MovesAfter
  <1> QED
    BY <1>2, <1>3 DEF Has

LEMMA OthersHave ==
    ASSUME TypeOK, NEW c \in Collector, Acts(c),
           NEW d \in Collector, d # c
    PROVE  UNCHANGED <<current[d], moves[d], pc[d], failed[d]>>
  BY OthersAreUnchanged DEF Unchanged

LEMMA ClaimsGrow ==
    ASSUME TypeOK, NEW c \in Collector, Acts(c),
           NEW f \in File
    PROVE  claim[f] <= claim'[f]
  <1>1. CASE UNCHANGED claim
    BY <1>1 DEF TypeOK
  <1>2. CASE \E g \in File : claim' = [claim EXCEPT ![g] = @ + 1]
    BY <1>2 DEF TypeOK
  <1> QED
    BY <1>1, <1>2, CurrentAfter

\* A claim that is in hand was made, and is in one place.
OneClaim ==
    /\ \A c \in Collector : \A held \in Claims : Has(c, held) => held[2] <= claim[held[1]]
    /\ \A c, d \in Collector : \A held \in Claims : Has(c, held) /\ Has(d, held) => c = d
    /\ \A c \in Collector : \A i \in DOMAIN moves[c] : current[c] # moves[c][i]
    /\ \A c \in Collector : \A i, j \in DOMAIN moves[c] : moves[c][i] = moves[c][j] => i = j

LEMMA StepKeepsSingle ==
    ASSUME TypeOK, OneClaim, NEW c \in Collector,
           Acts(c)
    PROVE  OneClaim'
  <1>1. \A d \in Collector : d # c => \A held : Has(d, held)' <=> Has(d, held)
    BY OthersHave DEF Has, IsMove, Claims
  <1>2. ASSUME NEW n \in todo[c], Claim(c, n), n[1] \in File
        PROVE  \A d \in Collector : ~Has(d, <<n[1], claim[n[1]] + 1>>)
    <2>1. claim[n[1]] \in Nat
      BY <1>2 DEF TypeOK
    <2> QED
      BY <2>1 DEF OneClaim, Has
  <1>3. ASSUME NEW d \in Collector, NEW held \in Claims, Has(d, held)'
        PROVE  held[2] <= claim'[held[1]]
    <2>1. held[1] \in File /\ held[2] \in Nat /\ claim[held[1]] \in Nat /\ claim'[held[1]] \in Nat
      <3>1. claim' \in [File -> Nat]
        <4>1. \A g \in File : [claim EXCEPT ![g] = @ + 1] \in [File -> Nat]
          BY DEF TypeOK
        <4>2. claim \in [File -> Nat]
          BY DEF TypeOK
        <4> QED
          BY <4>1, <4>2, CurrentAfter
      <3> QED
        BY <3>1, ClaimIsSome DEF TypeOK
    <2>2. CASE Has(d, held)
      BY <2>1, <2>2, ClaimsGrow DEF OneClaim
    <2>3. CASE ~Has(d, held)
      <3>1. d = c
        BY <1>1, <1>3, <2>3
      <3>2. PICK n \in todo[c] : /\ Claim(c, n) /\ held = <<n[1], claim[n[1]] + 1>>
                                 /\ current'[c] = held /\ n[1] \in File
        BY <1>3, <2>3, <3>1, HadBefore
      <3>3. claim' = [claim EXCEPT ![n[1]] = @ + 1]
        <4>1. current[c] = None /\ held # None
          BY <3>2, ClaimIsSome DEF Claim, TypeOK
        <4> QED
          BY <3>2, <4>1 DEF Claim
      <3> QED
        BY <2>1, <3>2, <3>3 DEF TypeOK
    <2> QED
      BY <2>2, <2>3
  <1>4. ASSUME NEW d \in Collector, NEW e \in Collector, NEW held \in Claims,
               Has(d, held)', Has(e, held)'
        PROVE  d = e
    <2>1. CASE Has(d, held) /\ Has(e, held)
      BY <2>1 DEF OneClaim
    <2>2. CASE d # c /\ e # c
      BY <1>1, <1>4, <2>1, <2>2
    <2>3. CASE d = c /\ e # c
      BY <1>1, <1>2, <1>4, <2>1, <2>3, HadBefore
    <2>4. CASE d # c /\ e = c
      BY <1>1, <1>2, <1>4, <2>1, <2>4, HadBefore
    <2> QED
      BY <2>2, <2>3, <2>4
  <1>5. moves[c] \in Seq(Claims)
    BY DEF TypeOK
  <1>6. ASSUME NEW i \in DOMAIN moves'[c]
        PROVE  current'[c] # moves'[c][i]
    <2>1. CASE moves'[c] = moves[c]
      <3>1. moves[c][i] \in Claims /\ Has(c, moves[c][i])
        BY <1>5, <1>6, <2>1 DEF Has, IsMove
      <3>2. CASE current'[c] = current[c] \/ current'[c] = None
        BY <1>6, <2>1, <3>1, <3>2, ClaimIsSome DEF OneClaim
      <3>3. ASSUME NEW n \in todo[c], Claim(c, n), n[1] \in File,
                   current'[c] = <<n[1], claim[n[1]] + 1>>
            PROVE  current'[c] # moves'[c][i]
        BY <1>2, <2>1, <3>1, <3>3
      <3> QED
        BY <3>2, <3>3, CurrentAfter
    <2>2. CASE moves[c] # <<>> /\ moves'[c] = Tail(moves[c]) /\ UNCHANGED current
      <3>1. i + 1 \in DOMAIN moves[c] /\ moves'[c][i] = moves[c][i + 1]
        BY <1>5, <1>6, <2>2
      <3> QED
        BY <2>2, <3>1 DEF OneClaim
    <2>3. CASE moves'[c] = Append(moves[c], current[c]) /\ current[c] \in Claims /\ current'[c] = None
      <3>1. moves'[c][i] \in Claims
        BY <1>5, <1>6, <2>3
      <3> QED
        BY <2>3, <3>1, ClaimIsSome
    <2>4. CASE moves'[c] = <<>>
      BY <1>6, <2>4
    <2> QED
      BY <2>1, <2>2, <2>3, <2>4, MovesAfter
  <1>7. ASSUME NEW i \in DOMAIN moves'[c], NEW j \in DOMAIN moves'[c], moves'[c][i] = moves'[c][j]
        PROVE  i = j
    <2>1. CASE moves'[c] = moves[c]
      BY <1>7, <2>1 DEF OneClaim
    <2>2. CASE moves[c] # <<>> /\ moves'[c] = Tail(moves[c])
      <3>1. /\ i + 1 \in DOMAIN moves[c] /\ moves'[c][i] = moves[c][i + 1]
            /\ j + 1 \in DOMAIN moves[c] /\ moves'[c][j] = moves[c][j + 1]
            /\ i \in Nat /\ j \in Nat
        BY <1>5, <1>7, <2>2
      <3>2. i + 1 = j + 1
        BY <1>7, <3>1 DEF OneClaim
      <3> QED
        BY <3>1, <3>2
    <2>3. CASE moves'[c] = Append(moves[c], current[c]) /\ current[c] \in Claims
      <3>1. \A k \in DOMAIN moves'[c] :
                \/ k \in DOMAIN moves[c] /\ moves'[c][k] = moves[c][k]
                \/ k = Len(moves[c]) + 1 /\ moves'[c][k] = current[c]
        BY <1>5, <2>3
      <3> QED
        BY <1>7, <3>1 DEF OneClaim
    <2>4. CASE moves'[c] = <<>>
      BY <1>7, <2>4
    <2> QED
      BY <2>1, <2>2, <2>3, <2>4, MovesAfter
  <1>8. ASSUME NEW d \in Collector, d # c
        PROVE  UNCHANGED <<current[d], moves[d]>>
    BY <1>8, OthersHave
  <1> QED
    BY <1>3, <1>4, <1>6, <1>7, <1>8 DEF OneClaim

----------------------------------------------------------------------------
(* What is in hand is on the server.                                        *)

\* Unless it was taken back, a file in hand is there under the name of its claim, or has
\* been rejected by its collector.
IsIntact(c, held) ==
    Has(c, held) /\ held[1] \notin overtaken =>
        IF current[c] = held /\ failed[c]
        THEN place[held[1]] \in {"rejected", "removed"}
        ELSE IsThere(held)

Intact == \A c \in Collector : \A held \in Claims : IsIntact(c, held)
FailedIsInHand == \A c \in Collector : failed[c] => current[c] # None

LEMMA HistoryGrows ==
    ASSUME TypeOK, [Next]_vars
    PROVE  overtaken \subseteq overtaken' /\ twice \subseteq twice'
  <1>1. ASSUME NEW c \in Collector, Step(c)
        PROVE  overtaken \subseteq overtaken' /\ twice \subseteq twice'
    <2>1. ASSUME NEW n \in todo[c], Claim(c, n)
          PROVE  overtaken \subseteq overtaken' /\ twice \subseteq twice'
      BY <2>1 DEF Claim, history
    <2>2. ASSUME NEW held \in aged[c], HandleTooOld(c, held)
          PROVE  overtaken \subseteq overtaken' /\ twice \subseteq twice'
      BY <2>2 DEF HandleTooOld, history
    <2>3. ASSUME NEW config \in left[c], Extract(c, config)
          PROVE  overtaken \subseteq overtaken' /\ twice \subseteq twice'
      BY <2>3 DEF Extract, history
    <2>4. ASSUME \/ List(c) \/ Download(c) \/ Reject(c) \/ Rejected(c) \/ Finish(c)
                 \/ Flush(c) \/ ClearTarget(c) \/ Move(c) \/ EndFlush(c) \/ Exit(c)
          PROVE  overtaken \subseteq overtaken' /\ twice \subseteq twice'
      BY <2>4 DEF List, Download, Reject, Rejected, Finish, Flush, ClearTarget, Move, EndFlush,
                  Exit, Restart, history
    <2> QED
      BY <1>1, <2>1, <2>2, <2>3, <2>4 DEF Step
  <1>2. ASSUME NEW c \in Collector,
               FlushError(c) \/ MoveError(c) \/ ServerError(c) \/ Stop(c) \/ Crash(c)
        PROVE  overtaken \subseteq overtaken' /\ twice \subseteq twice'
    BY <1>2 DEF FlushError, MoveError, EndFlush, ServerError, Stop, Crash, Restart, history
  <1>3. ASSUME NEW f \in File, Deliver(f) \/ Age(f)
        PROVE  overtaken \subseteq overtaken' /\ twice \subseteq twice'
    BY <1>3 DEF Deliver, Age, history
  <1> QED
    BY <1>1, <1>2, <1>3 DEF Next, vars, history

\* What a step of a collector does to a file on the server.
LEMMA PlaceAfter ==
    ASSUME TypeOK, NEW c \in Collector, Acts(c), NEW f \in File
    PROVE  \/ place'[f] = place[f] /\ claim'[f] = claim[f]
           \/ /\ place[f] = "claimed" /\ place'[f] = "forced" /\ UNCHANGED current
              /\ Held(<<f, claim[f]>>) => f \in overtaken'
           \/ place[f] \in {"inbox", "forced"} /\ place'[f] = "claimed"
           \/ /\ place[f] = "rejected" /\ place'[f] = "removed" /\ claim'[f] = claim[f]
              /\ pc[c] = "reject" /\ current[c][1] = f /\ UNCHANGED work
           \/ IsThere(current[c]) /\ current[c][1] = f /\ Rejected(c)
           \/ /\ place[f] = "ingested" /\ place'[f] = "removed"
              /\ moves[c] # <<>> /\ moves[c][1][1] = f
           \/ /\ IsThere(moves[c][1]) /\ moves[c][1][1] = f /\ moves[c] # <<>>
              /\ moves'[c] = Tail(moves[c]) /\ UNCHANGED current
              /\ place'[f] = "ingested"
  <1> USE DEF server, work, flushing, history
  <1>1. ASSUME NEW held \in aged[c], HandleTooOld(c, held)
        PROVE  \/ place'[f] = place[f] /\ claim'[f] = claim[f]
               \/ /\ place[f] = "claimed" /\ place'[f] = "forced" /\ UNCHANGED current
                  /\ Held(<<f, claim[f]>>) => f \in overtaken'
    <2>1. held = <<held[1], held[2]>> /\ held[1] \in File
      BY DEF TypeOK, Claims
    <2>2. CASE IsThere(held) /\ held[1] = f /\ UNCHANGED current /\ place' = [place EXCEPT ![f] = "forced"]
      <3>1. held = <<f, claim[f]>>
        BY <2>1, <2>2 DEF IsThere
      <3>2. Held(held) => f \in overtaken'
        <4>1. place' # place
          BY <2>1, <2>2 DEF IsThere, TypeOK
        <4> QED
          BY <1>1, <2>2, <4>1 DEF HandleTooOld
      <3> QED
        BY <2>2, <3>1, <3>2 DEF IsThere, TypeOK
    <2> QED
      BY <1>1, <2>1, <2>2 DEF HandleTooOld, Place, TypeOK
  <1>2. ASSUME NEW n \in todo[c], Claim(c, n)
        PROVE  \/ place'[f] = place[f] /\ claim'[f] = claim[f]
               \/ place[f] \in {"inbox", "forced"} /\ place'[f] = "claimed"
    <2>1. n[1] \in File /\ n[2] \in {"inbox", "forced"}
      BY DEF TypeOK, Name
    <2> QED
      BY <1>2, <2>1 DEF Claim, StillThere, Place, TypeOK
  <1>3. CASE Reject(c)
    <2>1. current[c][1] \in File
      BY <1>3, ClaimInHand DEF Reject
    <2> QED
      BY <1>3, <2>1 DEF Reject, Clear, Place, TypeOK
  <1>4. CASE Rejected(c)
    BY <1>4 DEF Rejected, Place, TypeOK
  <1>5. CASE ClearTarget(c) \/ Move(c)
    <2>1. moves[c] # <<>> /\ Head(moves[c]) = moves[c][1] /\ moves[c][1][1] \in File
      BY <1>5, MoveInHand DEF ClearTarget, Move, Moving, TypeOK
    <2>2. CASE ClearTarget(c)
      BY <2>1, <2>2 DEF ClearTarget, Clear, Place, TypeOK
    <2>3. CASE Move(c)
      BY <2>1, <2>3 DEF Move, Pop, Place, TypeOK
    <2> QED
      BY <1>5, <2>2, <2>3
  <1>6. CASE \/ List(c) \/ Download(c) \/ Finish(c) \/ Flush(c) \/ EndFlush(c) \/ Exit(c)
             \/ (\E config \in left[c] : Extract(c, config))
             \/ FlushError(c) \/ MoveError(c) \/ ServerError(c) \/ Stop(c) \/ Crash(c)
    <2> UNCHANGED <<place, claim>>
      BY <1>6 DEF List, Download, Finish, Flush, EndFlush, Exit, Extract, FlushError, MoveError,
                  ServerError, Stop, Crash, Restart
    <2> QED
      OBVIOUS
  <1> QED
    BY <1>1, <1>2, <1>3, <1>4, <1>5, <1>6 DEF Acts, Step

\* What a step of a collector does to its own failure.
LEMMA FailedAfter ==
    ASSUME TypeOK, NEW c \in Collector, Acts(c)
    PROVE  \/ failed'[c] = failed[c] /\ (current'[c] = current[c] \/ current[c] = None)
           \/ failed'[c] = FALSE /\ current'[c] = None
           \/ /\ Rejected(c) /\ IsThere(current[c])
              /\ current[c] # None /\ current'[c] = current[c]
              /\ failed'[c] = TRUE /\ place'[current[c][1]] = "rejected"
  <1> USE DEF server, work, flushing, history
  <1>1. CASE Rejected(c)
    <2>1. current[c] # None /\ current[c][1] \in File
      BY <1>1, ClaimInHand, ClaimIsSome DEF Rejected
    <2> QED
      BY <1>1, <2>1 DEF Rejected, GiveUp, Place, TypeOK
  <1>2. CASE Download(c) \/ ServerError(c)
    <2>1. CASE GiveUp(c)
      BY <2>1 DEF GiveUp, TypeOK
    <2>2. CASE UNCHANGED <<current, failed>>
      BY <2>2
    <2> QED
      BY <1>2, <2>1, <2>2 DEF Download, ServerError
  <1>3. CASE Finish(c) \/ Exit(c) \/ Crash(c)
    BY <1>3 DEF Finish, Exit, Crash, Restart, TypeOK
  <1>4. ASSUME NEW n \in todo[c], Claim(c, n)
        PROVE  failed'[c] = failed[c] /\ current[c] = None
    BY <1>4 DEF Claim, TypeOK
  <1>5. CASE \/ List(c) \/ Reject(c) \/ Flush(c) \/ EndFlush(c) \/ ClearTarget(c) \/ Move(c)
             \/ (\E held \in aged[c] : HandleTooOld(c, held))
             \/ (\E k \in left[c] : Extract(c, k))
             \/ FlushError(c) \/ MoveError(c) \/ Stop(c)
    BY <1>5 DEF List, Reject, Flush, EndFlush, ClearTarget, Move, HandleTooOld, Extract,
                FlushError, MoveError, Stop
  <1> QED
    BY <1>1, <1>2, <1>3, <1>4, <1>5 DEF Acts, Step

LEMMA StepKeepsInHand ==
    ASSUME TypeOK, FailedIsInHand, NEW c \in Collector, Acts(c)
    PROVE  FailedIsInHand'
  <1>1. failed'[c] => current'[c] # None
    BY FailedAfter DEF FailedIsInHand
  <1> QED
    BY <1>1, OthersHave DEF FailedIsInHand, Acts

\* A claim that d has after a step of c, and had before it, is as intact as it was.
LEMMA StaysIntact ==
    ASSUME TypeOK, OneClaim, FailedIsInHand, NEW c \in Collector, Acts(c),
           NEW d \in Collector, NEW held \in Claims, IsIntact(d, held),
           Has(d, held), Has(d, held)', held[1] \notin overtaken', overtaken \subseteq overtaken'
    PROVE  IsIntact(d, held)'
  <1> DEFINE f == held[1]
  <1>1. f \in File /\ held = <<f, held[2]>> /\ held # None
    BY ClaimIsSome DEF Claims
  <1>2. (current[d] = held /\ failed[d]) \/ IsThere(held)
    BY DEF IsIntact
  <1>3. (current[d] = held /\ failed[d]) => place[f] \in {"rejected", "removed"}
    BY DEF IsIntact
  <1>4. IsThere(held) => place[f] = "claimed" /\ held = <<f, claim[f]>>
    BY <1>1 DEF IsThere
  <1>5. CASE Rejected(c) /\ IsThere(current[c]) /\ current[c][1] = f
    <2>1. current[c] \in Claims /\ current[c] = <<current[c][1], current[c][2]>>
      BY <1>5, ClaimInHand DEF Rejected, Claims
    <2>2. IsThere(held) /\ current[c] = held
      BY <1>2, <1>3, <1>4, <1>5, <2>1 DEF IsThere
    <2>3. d = c
      BY <2>2 DEF OneClaim, Has
    <2>4. /\ failed'[c] = TRUE /\ current'[c] = current[c] /\ place'[f] = "rejected"
      BY <1>1, <1>5, <2>2 DEF Rejected, Place, TypeOK
    <2> QED
      BY <2>2, <2>3, <2>4 DEF IsIntact
  <1>6. CASE ~(Rejected(c) /\ IsThere(current[c]) /\ current[c][1] = f)
    <2>1. CASE place'[f] = place[f] /\ claim'[f] = claim[f]
      <3>1. IsThere(held)' <=> IsThere(held)
        BY <2>1 DEF IsThere
      <3>2. CASE current[d] = held /\ failed[d]
        <4>1. current'[d] = held => failed'[d]
          BY <1>1, <3>2, FailedAfter, OthersHave
        <4>2. ~IsMove(held, d)'
          <5> SUFFICES ASSUME NEW i \in DOMAIN moves'[d], moves'[d][i] = held
                       PROVE  FALSE
            BY DEF IsMove
          <5>1. moves[d] \in Seq(Claims) /\ \A j \in DOMAIN moves[d] : moves[d][j] # held
            BY <3>2 DEF OneClaim, TypeOK
          <5>2. d = c
            BY <5>1, OthersHave
          <5>3. CASE moves'[c] = moves[c] \/ moves'[c] = <<>>
            BY <5>1, <5>2, <5>3
          <5>4. CASE moves[c] # <<>> /\ moves'[c] = Tail(moves[c])
            <6>1. i + 1 \in DOMAIN moves[d] /\ moves[d][i + 1] = held
              BY <5>1, <5>2, <5>4
            <6> QED
              BY <5>1, <6>1
          <5> QED
            BY <3>2, <5>2, <5>3, <5>4, MovesAfter
        <4>3. place'[f] \in {"rejected", "removed"}
          BY <1>3, <2>1, <3>2
        <4> QED
          BY <4>1, <4>2, <4>3 DEF IsIntact, Has
      <3>3. CASE ~(current[d] = held /\ failed[d])
        <4>1. ~(current'[d] = held /\ failed'[d])
          <5> SUFFICES ASSUME current'[d] = held, failed'[d]
                       PROVE  FALSE
            OBVIOUS
          <5>1. d = c
            BY <3>3, OthersHave
          <5>2. current[c] = held
            BY <1>1, <5>1, FailedAfter DEF FailedIsInHand
          <5> QED
            BY <1>6, <3>3, <5>1, <5>2, FailedAfter
        <4> QED
          BY <1>2, <3>1, <3>3, <4>1 DEF IsIntact
      <3> QED
        BY <3>2, <3>3
    <2>2. CASE /\ place[f] = "claimed" /\ place'[f] = "forced" /\ UNCHANGED current
               /\ Held(<<f, claim[f]>>) => f \in overtaken'
      <3>1. IsThere(held) /\ ~Held(held)
        BY <1>2, <1>3, <1>4, <2>2
      <3> QED
        BY <3>1 DEF Held, Has
    <2>3. CASE place[f] \in {"inbox", "forced", "ingested"}
      BY <1>2, <1>3, <1>4, <2>3
    <2>4. CASE /\ place[f] = "rejected" /\ place'[f] = "removed" /\ UNCHANGED work
      <3>1. current[d] = held /\ failed[d]
        BY <1>2, <1>4, <2>4
      <3> QED
        BY <2>4, <3>1 DEF IsIntact, work
    <2>5. CASE /\ IsThere(moves[c][1]) /\ moves[c][1][1] = f /\ moves[c] # <<>>
               /\ moves'[c] = Tail(moves[c]) /\ UNCHANGED current
      <3>1. moves[c] \in Seq(Claims) /\ 1 \in DOMAIN moves[c] /\ moves[c][1] \in Claims
        BY <2>5 DEF TypeOK
      <3>2. moves[c][1] = <<f, claim[f]>>
        BY <2>5, <3>1 DEF IsThere, Claims
      <3>3. moves[c][1] = held
        BY <1>2, <1>3, <1>4, <2>5, <3>2 DEF IsThere
      <3>4. d = c /\ current[c] # held
        BY <3>1, <3>3 DEF OneClaim, Has, IsMove
      <3>5. \A i \in DOMAIN Tail(moves[c]) : Tail(moves[c])[i] # held
        <4> SUFFICES ASSUME NEW i \in DOMAIN Tail(moves[c])
                     PROVE  Tail(moves[c])[i] # held
          OBVIOUS
        <4>1. i + 1 \in DOMAIN moves[c] /\ Tail(moves[c])[i] = moves[c][i + 1] /\ i + 1 # 1
          BY <3>1
        <4> QED
          BY <3>1, <3>3, <4>1 DEF OneClaim
      <3> QED
        BY <2>5, <3>4, <3>5 DEF Has, IsMove
    <2> QED
      BY <1>1, <1>6, <2>1, <2>2, <2>3, <2>4, <2>5, PlaceAfter
  <1> QED
    BY <1>5, <1>6

LEMMA StepKeepsIntact ==
    ASSUME TypeOK, OneClaim, Intact, FailedIsInHand, [Next]_vars
    PROVE  Intact'
  <1> USE DEF server, work, flushing, history
  <1>0. overtaken \subseteq overtaken'
    BY HistoryGrows
  <1>1. CASE UNCHANGED <<current, moves, failed, overtaken, claim>> /\
             \A f \in File : place'[f] = place[f] \/ place[f] = "coming"
    <2> SUFFICES ASSUME NEW c \in Collector, NEW held \in Claims
                 PROVE  IsIntact(c, held)'
      BY DEF Intact
    <2>1. IsIntact(c, held) /\ held[1] \in File
      BY ClaimIsSome DEF Intact
    <2>2. Has(c, held)' <=> Has(c, held)
      BY <1>1 DEF Has, IsMove
    <2> QED
      BY <1>1, <2>1, <2>2 DEF IsIntact, IsThere
  <1>2. CASE UNCHANGED vars
    BY <1>1, <1>2 DEF vars
  <1>3. ASSUME NEW f \in File, Deliver(f) \/ Age(f)
        PROVE  Intact'
    BY <1>1, <1>3 DEF Deliver, Age, Place, TypeOK
  <1>4. ASSUME NEW c \in Collector, Acts(c)
        PROVE  Intact'
    <2> SUFFICES ASSUME NEW d \in Collector, NEW held \in Claims, Has(d, held)',
                        held[1] \notin overtaken'
                 PROVE  IsIntact(d, held)'
      BY DEF Intact, IsIntact
    <2>1. CASE Has(d, held)
      BY <1>0, <1>4, <2>1, StaysIntact DEF Intact
    <2>2. CASE ~Has(d, held)
      <3>1. d = c
        BY <1>4, <2>2, OthersHave DEF Has, IsMove
      <3>2. PICK n \in todo[c] : /\ Claim(c, n) /\ held = <<n[1], claim[n[1]] + 1>>
                                 /\ current'[c] = held /\ n[1] \in File
        BY <1>4, <2>2, <3>1, HadBefore
      <3>3. current[c] = None /\ failed'[c] = failed[c]
        BY <3>2 DEF Claim, TypeOK
      <3>4. StillThere(n)
        BY <3>2, <3>3, ClaimIsSome DEF Claim
      <3>5. IsThere(held)'
        BY <3>2, <3>4 DEF Claim, Place, IsThere, TypeOK
      <3> QED
        BY <3>1, <3>3, <3>5 DEF FailedIsInHand, IsIntact
    <2> QED
      BY <2>1, <2>2
  <1> QED
    BY <1>2, <1>3, <1>4 DEF Next, Acts

----------------------------------------------------------------------------
(* One collector for a file, and what is lost.                              *)

\* Nobody claims a file that another one ingests, unless it was taken back.
LEMMA ClaimIsFree ==
    ASSUME TypeOK, Intact, NEW d \in Collector, current[d] # None,
           place[current[d][1]] \in {"inbox", "forced"}
    PROVE  current[d][1] \in overtaken
  <1>1. current[d] \in Claims /\ Has(d, current[d])
    BY DEF TypeOK, Has
  <1> QED
    BY <1>1 DEF Intact, IsIntact, IsThere

LEMMA StepKeepsOne ==
    ASSUME TypeOK, Intact, OneAtATime, [Next]_vars
    PROVE  OneAtATime'
  <1> USE DEF server, work, flushing, history
  <1>0. overtaken \subseteq overtaken'
    BY HistoryGrows
  <1>1. CASE UNCHANGED current
    BY <1>0, <1>1 DEF OneAtATime
  <1>2. CASE UNCHANGED vars
    BY <1>1, <1>2 DEF vars
  <1>3. ASSUME NEW f \in File, Deliver(f) \/ Age(f)
        PROVE  OneAtATime'
    BY <1>1, <1>3 DEF Deliver, Age
  <1>4. ASSUME NEW c \in Collector, Acts(c)
        PROVE  OneAtATime'
    <2>1. \A d \in Collector : d # c => UNCHANGED current[d]
      BY <1>4, OthersHave
    <2>2. CASE current'[c] = current[c] \/ current'[c] = None
      BY <1>0, <2>1, <2>2 DEF OneAtATime
    <2>3. ASSUME NEW n \in todo[c], StillThere(n), n[1] \in File,
                 current'[c] = <<n[1], claim[n[1]] + 1>>
          PROVE  OneAtATime'
      <3>1. place[n[1]] \in {"inbox", "forced"}
        BY <2>3 DEF StillThere, TypeOK, Name
      <3>2. \A d \in Collector : current[d] # None /\ current[d][1] = n[1] => n[1] \in overtaken
        BY <3>1, ClaimIsFree
      <3> QED
        BY <1>0, <2>1, <2>3, <3>2 DEF OneAtATime
    <2> QED
      BY <1>4, <2>2, <2>3, CurrentAfter
  <1> QED
    BY <1>2, <1>3, <1>4 DEF Next, Acts

LEMMA StepKeepsTwice ==
    ASSUME TypeOK, TwiceIsKnown, [Next]_vars
    PROVE  TwiceIsKnown'
  <1> USE DEF server, work, flushing, history
  <1>0. twice \subseteq twice'
    BY HistoryGrows
  <1>1. CASE UNCHANGED <<pc, failed, current>>
    BY <1>0, <1>1 DEF TwiceIsKnown
  <1>2. CASE UNCHANGED vars
    BY <1>1, <1>2 DEF vars
  <1>3. ASSUME NEW f \in File, Deliver(f) \/ Age(f)
        PROVE  TwiceIsKnown'
    BY <1>1, <1>3 DEF Deliver, Age
  <1>4. ASSUME NEW c \in Collector, Acts(c)
        PROVE  TwiceIsKnown'
    <2>1. \A d \in Collector : d # c => UNCHANGED <<pc[d], failed[d], current[d]>>
      BY <1>4, OthersHave
    <2>2. CASE pc'[c] # "reject"
      BY <1>0, <2>1, <2>2 DEF TwiceIsKnown
    <2>3. CASE UNCHANGED <<pc[c], failed[c], current[c]>>
      BY <1>0, <2>1, <2>3 DEF TwiceIsKnown
    <2>4. ASSUME NEW config \in left[c], Extract(c, config)
          PROVE  pc'[c] # "reject" \/ (failed'[c] => current'[c][1] \in twice')
      BY <2>4 DEF Extract, Goto, TypeOK
    <2>5. CASE \E config \in left[c] : Extract(c, config)
      BY <1>0, <2>1, <2>4, <2>5 DEF TwiceIsKnown
    <2>6. CASE List(c) \/ Download(c) \/ Reject(c) \/ Rejected(c) \/ Finish(c) \/ Flush(c)
               \/ EndFlush(c) \/ Exit(c) \/ FlushError(c) \/ MoveError(c) \/ ServerError(c) \/ Crash(c)
      <3>1. pc'[c] # "reject"
        BY <2>6 DEF List, Download, Reject, Rejected, Finish, Flush, EndFlush, Exit, FlushError,
                    MoveError, ServerError, Crash, Restart, GiveUp, AfterError, Back, Goto, TypeOK
      <3> QED
        BY <2>2, <3>1
    <2>7. CASE ClearTarget(c) \/ Move(c) \/ Stop(c)
      BY <2>3, <2>7 DEF ClearTarget, Move, Stop
    <2>8. CASE \/ \E held \in aged[c] : HandleTooOld(c, held)
               \/ \E n \in todo[c] : Claim(c, n)
      <3>1. pc'[c] # "reject"
        BY <2>8 DEF HandleTooOld, Claim, Goto, TypeOK
      <3> QED
        BY <2>2, <3>1
    <2> QED
      BY <1>4, <2>5, <2>6, <2>7, <2>8 DEF Acts, Step
  <1> QED
    BY <1>2, <1>3, <1>4 DEF Next, Acts

LEMMA StepKeepsLost ==
    ASSUME TypeOK, Intact, TwiceIsKnown, LostOnlyByTakeover, [Next]_vars
    PROVE  LostOnlyByTakeover'
  <1> USE DEF server, work, flushing, history
  <1>0. overtaken \subseteq overtaken' /\ twice \subseteq twice'
    BY HistoryGrows
  <1> SUFFICES ASSUME NEW f \in File, place'[f] = "removed"
               PROVE  f \in overtaken' \cup twice'
    BY DEF LostOnlyByTakeover
  <1>1. CASE place[f] = "removed"
    BY <1>0, <1>1 DEF LostOnlyByTakeover
  <1>2. CASE UNCHANGED vars
    BY <1>1, <1>2 DEF vars
  <1>3. ASSUME NEW g \in File, Deliver(g) \/ Age(g)
        PROVE  place[f] = "removed"
    BY <1>3 DEF Deliver, Age, Place, TypeOK
  <1>4. ASSUME NEW c \in Collector, Acts(c), place[f] # "removed"
        PROVE  f \in overtaken \cup twice
    <2>1. CASE place[f] = "rejected" /\ pc[c] = "reject" /\ current[c][1] = f
      <3>1. current[c] \in Claims /\ Has(c, current[c])
        BY <2>1, ClaimInHand DEF Has
      <3>2. CASE failed[c]
        BY <2>1, <3>2 DEF TwiceIsKnown
      <3>3. CASE ~failed[c]
        BY <2>1, <3>1, <3>3 DEF Intact, IsIntact, IsThere
      <3> QED
        BY <3>2, <3>3
    <2>2. CASE place[f] = "ingested" /\ moves[c] # <<>> /\ moves[c][1][1] = f
      <3>1. moves[c][1] \in Claims /\ Has(c, moves[c][1])
        BY <2>2 DEF TypeOK, Has, IsMove
      <3> QED
        BY <2>2, <3>1 DEF Intact, IsIntact, IsThere
    <2>3. CASE Rejected(c) /\ current[c][1] = f
      BY <1>4, <2>3 DEF Rejected, Place, TypeOK
    <2> QED
      BY <1>4, <2>1, <2>2, <2>3, PlaceAfter
  <1> QED
    BY <1>0, <1>1, <1>2, <1>3, <1>4 DEF Next, Acts

----------------------------------------------------------------------------
HeldInv == OneClaim /\ FailedIsInHand /\ Intact /\ TwiceIsKnown
IInv == TypeOK /\ SentInv /\ HeldInv /\ OneAtATime /\ LostOnlyByTakeover

LEMMA InitIsFit == Init => IInv
  <1> SUFFICES ASSUME Init
               PROVE  IInv
    OBVIOUS
  <1>1. TypeOK
    BY InitIsTyped
  <1>2. /\ \A c \in Collector : /\ current[c] = None /\ ~failed[c] /\ moves[c] = <<>>
                                /\ pc[c] = "idle"
        /\ \A f \in File : place[f] \in {"coming", "elsewhere"}
    BY DEF Init
  <1>3. \A c \in Collector : \A held \in Claims : ~Has(c, held)
    BY <1>2, ClaimIsSome DEF Has, IsMove
  <1>4. SentInv
    BY <1>2 DEF SentInv, ExtractedIsKept, MovesAreKept, MovedIsDone
  <1>5. HeldInv
    BY <1>2, <1>3 DEF HeldInv, OneClaim, FailedIsInHand, Intact, IsIntact, TwiceIsKnown
  <1> QED
    BY <1>1, <1>2, <1>4, <1>5 DEF IInv, OneAtATime, LostOnlyByTakeover

LEMMA StepIsFit == IInv /\ [Next]_vars => IInv'
  <1> SUFFICES ASSUME IInv, [Next]_vars
               PROVE  IInv'
    OBVIOUS
  <1> USE DEF IInv, HeldInv
  <1>1. TypeOK' /\ SentInv'
    BY StepIsTyped, StepKeepsSent
  <1>2. OneClaim' /\ FailedIsInHand'
    <2>1. CASE UNCHANGED <<current, moves, failed, claim>>
      BY <2>1 DEF OneClaim, FailedIsInHand, Has, IsMove
    <2>2. CASE UNCHANGED vars
      BY <2>1, <2>2 DEF vars, server, work, flushing
    <2>3. ASSUME NEW f \in File, Deliver(f) \/ Age(f)
          PROVE  UNCHANGED <<current, moves, failed, claim>>
      BY <2>3 DEF Deliver, Age, work, flushing
    <2>4. ASSUME NEW c \in Collector, Acts(c)
          PROVE  OneClaim' /\ FailedIsInHand'
      BY <2>4, StepKeepsSingle, StepKeepsInHand
    <2> QED
      BY <2>1, <2>2, <2>3, <2>4 DEF Next, Acts
  <1>3. Intact' /\ OneAtATime' /\ TwiceIsKnown' /\ LostOnlyByTakeover'
    BY StepKeepsIntact, StepKeepsOne, StepKeepsTwice, StepKeepsLost
  <1> QED
    BY <1>1, <1>2, <1>3

LEMMA Fit == Spec => []IInv
  BY InitIsFit, StepIsFit, PTL DEF Spec

\* Every variable keeps its type, and a collector holds a claim exactly while it ingests.
THEOREM InboxTyping == Spec => []TypeOK
  <1>1. IInv => TypeOK
    BY DEF IInv
  <1> QED
    BY <1>1, Fit, PTL

\* A file moved to the directory of the ingested ones has the documents of every
\* configuration that matches it in a message (process_file_moves after the flush).
THEOREM Moved == Spec => []MovedIsDone
  <1>1. IInv => MovedIsDone
    BY DEF IInv, SentInv
  <1> QED
    BY <1>1, Fit, PTL

\* Two collectors ingest a file at a time only after the claim of one was taken back while
\* it was at work (the rename in ingest_sftp_file).
THEOREM Ownership == Spec => []OneAtATime
  <1>1. IInv => OneAtATime
    BY DEF IInv
  <1> QED
    BY <1>1, Fit, PTL

\* A file leaves the server only if it was taken back so, or if two configurations refused
\* it (the removal of a target before each rename).
THEOREM Losses == Spec => []LostOnlyByTakeover
  <1>1. IInv => LostOnlyByTakeover
    BY DEF IInv
  <1> QED
    BY <1>1, Fit, PTL

----------------------------------------------------------------------------
(* Messenger: the inductive invariants.                                     *)


\* handle_message is at work on a document.
Busy == at \in {"found", "loop", "sent", "trimmed"}

\* What the loop has in hand, and what the signal handler takes from it.
HandInv ==
    /\ Busy => /\ doc \in handled /\ ChunkSize > 0 /\ phase = "collect"
               /\ attached => DestinationOf[doc] \in registered
    /\ ~attached => registered = {}
    /\ at = "flush" => phase # "over" /\ (attached => toVisit \subseteq registered)
    /\ at = "found" /\ ~attached => doc \in caught

\* Documents that no accident excuses.
Due == handled \ (notSent \cup caught)

\* They are sent, or still in a group, or about to be put in one.
DueIsKept == \A d \in Due : named[d] > 0 \/ Grouped(d) \/ (at = "found" /\ doc = d)

\* Each flush of the end of the loop that left one of them has failed.
FlushesFailed ==
    \A d \in Due : named[d] = 0 =>
        /\ phase = "loop" => failures >= 1
        /\ phase = "final" => failures >= 2
        /\ phase = "over" => failures >= 3

\* The groups a flush has visited, and the chunk about to be trimmed, are sent.
SentBeforeGone ==
    /\ at = "flush" /\ attached =>
           \A g \in registered \ toVisit : \A d \in ToSet(groups[g].ids) : named[d] > 0
    /\ at = "sent" => \A d \in ToSet(Take(InHand.ids, ChunkSize)) : named[d] > 0

\* The lists name the index of each identifier, and are no longer than the identifiers.
Matched(l) ==
    /\ \A d \in ToSet(l.ids) : IndexOf[d] \in ToSet(l.indices)
    /\ Len(l.indices) <= Len(l.ids)

\* Lists in hand: a chunk is never more than what the limit lets in, so that it is cut whole.
Cut ==
    /\ at = "found" => Matched(InHand) /\ Len(InHand.ids) < ChunkSize
    /\ at = "loop" => Matched(InHand) /\ Len(InHand.ids) <= ChunkSize
    /\ at = "sent" => Matched(InHand) /\ Len(InHand.ids) = ChunkSize
    /\ at = "trimmed" => InHand.ids = <<>> /\ Len(InHand.indices) <= ChunkSize

\* The other lists, at rest.
Rests(g) ==
    /\ Matched(groups[g])
    /\ groups[g].ids = <<>> \/ Len(groups[g].ids) < Chunk[g]

\* Until a publish raises, the lists of a destination are cut in step.
InStep ==
    failures = 0 =>
        /\ unindexed = {}
        /\ Cut
        /\ \A g \in Destination : Rests(g) \/ (Busy /\ attached /\ g = DestinationOf[doc])


----------------------------------------------------------------------------
(* Lists.                                                                   *)

LEMMA AppendedSet ==
    ASSUME NEW S, NEW s \in Seq(S), NEW x \in S
    PROVE  /\ Append(s, x) \in Seq(S) /\ Len(Append(s, x)) = Len(s) + 1 /\ Len(s) \in Nat
           /\ ToSet(Append(s, x)) = ToSet(s) \cup {x}
  <1>1. /\ Append(s, x) \in Seq(S) /\ Len(Append(s, x)) = Len(s) + 1 /\ Len(s) \in Nat
        /\ DOMAIN s = 1 .. Len(s) /\ DOMAIN Append(s, x) = 1 .. Len(s) + 1
        /\ Append(s, x)[Len(s) + 1] = x
        /\ \A i \in 1 .. Len(s) : Append(s, x)[i] = s[i]
    OBVIOUS
  <1>2. ToSet(Append(s, x)) \subseteq ToSet(s) \cup {x}
    BY <1>1 DEF ToSet
  <1>3. x \in ToSet(Append(s, x)) /\ ToSet(s) \subseteq ToSet(Append(s, x))
    BY <1>1 DEF ToSet
  <1> QED
    BY <1>1, <1>2, <1>3

\* What is cut off a list, and what stays.
LEMMA CutList ==
    ASSUME NEW S, NEW s \in Seq(S), NEW n \in Nat
    PROVE  /\ Take(s, n) \in Seq(S) /\ Drop(s, n) \in Seq(S)
           /\ ToSet(s) \subseteq ToSet(Take(s, n)) \cup ToSet(Drop(s, n))
           /\ IsInjective(s) => IsInjective(Drop(s, n))
  <1>0. Len(s) \in Nat /\ DOMAIN s = 1 .. Len(s)
    OBVIOUS
  <1>1. CASE n >= Len(s)
    BY <1>0, <1>1 DEF Take, Drop, ToSet, IsInjective
  <1>2. CASE n < Len(s)
    <2>1. /\ Take(s, n) = SubSeq(s, 1, n) /\ Drop(s, n) = SubSeq(s, n + 1, Len(s))
          /\ SubSeq(s, 1, n) \in Seq(S) /\ SubSeq(s, n + 1, Len(s)) \in Seq(S)
      BY <1>0, <1>2 DEF Take, Drop
    <2>2. /\ DOMAIN SubSeq(s, 1, n) = 1 .. n
          /\ DOMAIN SubSeq(s, n + 1, Len(s)) = 1 .. Len(s) - n
          /\ \A i \in 1 .. n : SubSeq(s, 1, n)[i] = s[i]
          /\ \A i \in 1 .. Len(s) - n : SubSeq(s, n + 1, Len(s))[i] = s[n + i]
      BY <1>0, <1>2
    <2>3. ASSUME NEW x \in ToSet(s) PROVE x \in ToSet(Take(s, n)) \cup ToSet(Drop(s, n))
      <3>1. PICK i \in 1 .. Len(s) : x = s[i]
        BY <1>0 DEF ToSet
      <3>2. CASE i <= n
        <4>1. i \in 1 .. n /\ SubSeq(s, 1, n)[i] = x
          BY <2>2, <3>1, <3>2
        <4> QED
          BY <2>1, <2>2, <4>1 DEF ToSet
      <3>3. CASE i > n
        <4>1. i - n \in 1 .. Len(s) - n /\ n + (i - n) = i
          BY <1>0, <3>3
        <4>2. SubSeq(s, n + 1, Len(s))[i - n] = x
          BY <2>2, <3>1, <4>1
        <4> QED
          BY <2>1, <2>2, <4>1, <4>2 DEF ToSet
      <3> QED
        BY <3>2, <3>3
    <2>4. ASSUME IsInjective(s) PROVE IsInjective(Drop(s, n))
      <3>1. \A i \in 1 .. Len(s) - n : n + i \in 1 .. Len(s)
        BY <1>0
      <3>2. ASSUME NEW i \in 1 .. Len(s) - n, NEW j \in 1 .. Len(s) - n, s[n + i] = s[n + j]
            PROVE  i = j
        <4>1. n + i = n + j
          BY <1>0, <2>4, <3>1, <3>2 DEF IsInjective
        <4> QED
          BY <1>0, <4>1
      <3> QED
        <4> DEFINE rest == SubSeq(s, n + 1, Len(s))
        <4>1. DOMAIN rest = 1 .. Len(s) - n /\ Drop(s, n) = rest
          BY <2>1, <2>2
        <4>2. ASSUME NEW i \in 1 .. Len(s) - n, NEW j \in 1 .. Len(s) - n, rest[i] = rest[j]
              PROVE  i = j
          <5>1. rest[i] = s[n + i] /\ rest[j] = s[n + j]
            BY <2>2
          <5> QED
            BY <3>2, <4>2, <5>1
        <4> HIDE DEF rest
        <4> QED
          BY <4>1, <4>2 DEF IsInjective
    <2> QED
      BY <2>1, <2>3, <2>4
  <1> QED
    BY <1>0, <1>1, <1>2

LEMMA AppendNewType ==
    ASSUME NEW S, NEW s \in Seq(S), IsInjective(s), NEW x \in S
    PROVE  /\ AppendNew(s, x) \in Seq(S) /\ IsInjective(AppendNew(s, x))
           /\ ToSet(AppendNew(s, x)) = ToSet(s) \cup {x}
           /\ Len(AppendNew(s, x)) \in {Len(s), Len(s) + 1}
  <1>1. CASE x \in ToSet(s)
    BY <1>1 DEF AppendNew
  <1>2. CASE x \notin ToSet(s)
    <2>1. /\ DOMAIN s = 1 .. Len(s) /\ DOMAIN Append(s, x) = 1 .. Len(s) + 1 /\ Len(s) \in Nat
          /\ Append(s, x)[Len(s) + 1] = x
          /\ \A i \in 1 .. Len(s) : Append(s, x)[i] = s[i]
      OBVIOUS
    <2>2. \A i \in 1 .. Len(s) : s[i] # x
      BY <1>2, <2>1 DEF ToSet
    <2>3. IsInjective(Append(s, x))
      BY <2>1, <2>2 DEF IsInjective
    <2> QED
      BY <1>2, <2>3, AppendedSet DEF AppendNew
  <1> QED
    BY <1>1, <1>2

LEMMA NoListsType == NoLists \in Lists /\ ToSet(NoLists.ids) = {} /\ Matched(NoLists)
  <1>1. ToSet(<<>>) = {} /\ IsInjective(<<>>)
    BY DEF ToSet, IsInjective
  <1> QED
    BY <1>1 DEF NoLists, Lists, Matched

----------------------------------------------------------------------------
(* Publishing, and ending what is done.                                     *)

LEMMA Published ==
    ASSUME MessengerTypeOK, NEW messages, Publish(messages)
    PROVE  /\ named' \in [Document -> 0 .. 2] /\ unindexed' \in SUBSET Document
           /\ \A d \in Document : named[d] > 0 => named'[d] > 0
           /\ \A m \in messages : \A d \in Document : d \in ToSet(m.ids) => named'[d] > 0
           /\ (\A m \in messages : \A d \in ToSet(m.ids) : IndexOf[d] \in ToSet(m.indices))
              => unindexed' = unindexed
  <1> DEFINE naming(d) == {m \in messages : d \in ToSet(m.ids)}
  <1>1. \A d \in Document : named[d] \in 0 .. 2
    BY DEF MessengerTypeOK
  <1>2. named' = [d \in Document |->
                     IF naming(d) = {} THEN named[d] ELSE IF named[d] = 0 THEN 1 ELSE 2]
    BY DEF Publish
  <1>3. unindexed' = unindexed \cup
            {d \in Document : \E m \in naming(d) : IndexOf[d] \notin ToSet(m.indices)}
    BY DEF Publish
  <1>4. unindexed \in SUBSET Document
    BY DEF MessengerTypeOK
  <1> QED
    BY <1>1, <1>2, <1>3, <1>4

LEMMA Ended ==
    ASSUME MessengerTypeOK, HandInv, NEW raised \in BOOLEAN, Done(raised)
    PROVE  /\ at' = "idle" /\ doc' = NoDocument /\ toVisit' = {} /\ phase' \in Phase
           /\ phase' = phase
              \/ /\ at = "flush"
                 /\ \/ phase = "post" /\ phase' = "loop"
                    \/ phase = "loop" /\ phase' = "collect" /\ ~raised
                    \/ phase = "loop" /\ phase' = "final"
                    \/ phase = "final" /\ phase' = "over"
  <1>1. CASE at # "flush"
    BY <1>1 DEF Done, MessengerTypeOK
  <1>2. CASE at = "flush"
    <2>1. phase' \in AfterFlush(raised) /\ phase \in {"collect", "post", "loop", "final"}
      BY <1>2 DEF Done, HandInv, MessengerTypeOK, Phase
    <2>2. phase = "collect" => phase' = "collect"
      BY <2>1 DEF AfterFlush
    <2>3. phase = "post" => phase' = "loop"
      BY <2>1 DEF AfterFlush
    <2>4. phase = "loop" => phase' = "final" \/ (phase' = "collect" /\ ~raised)
      BY <2>1 DEF AfterFlush
    <2>5. phase = "final" => phase' = "over"
      BY <2>1 DEF AfterFlush
    <2> QED
      BY <1>2, <2>1, <2>2, <2>3, <2>4, <2>5 DEF Done, Phase
  <1> QED
    BY <1>1, <1>2

LEMMA InHandType ==
    ASSUME MessengerTypeOK, HandInv
    PROVE  /\ Busy => /\ doc \in Document /\ DestinationOf[doc] \in Destination
                      /\ ChunkSize \in Nat /\ IndexOf[doc] \in Index
                      /\ InHand \in Lists
           /\ \A g \in Destination : groups[g] \in Lists /\ Chunk[g] \in Nat
  <1>1. Busy => doc \in Document
    BY DEF HandInv, MessengerTypeOK
  <1> QED
    BY <1>1, MessengerAssumption DEF InHand, MessengerTypeOK, ChunkSize

\* What the lists in hand become.
LEMMA SetType ==
    ASSUME MessengerTypeOK, HandInv, Busy, NEW l \in Lists, SetInHand(l), attached' = attached,
           doc' = doc
    PROVE  /\ groups' \in [Destination -> Lists] /\ loose' \in Lists /\ InHand' = l
           /\ ~attached => groups' = groups
           /\ \A g \in Destination : g # DestinationOf[doc] => groups'[g] = groups[g]
           /\ attached => groups'[DestinationOf[doc]] = l /\ InHand = groups[DestinationOf[doc]]
  <1>1. DestinationOf[doc] \in Destination
    BY InHandType
  <1>2. groups \in [Destination -> Lists] /\ loose \in Lists
    BY DEF MessengerTypeOK
  <1>3. CASE attached
    BY <1>1, <1>2, <1>3 DEF SetInHand, InHand
  <1>4. CASE ~attached
    BY <1>1, <1>2, <1>4 DEF SetInHand, InHand
  <1> QED
    BY <1>3, <1>4

----------------------------------------------------------------------------
(* MessengerTyping, and what is in hand.                                             *)

TypeHand == MessengerTypeOK /\ HandInv

LEMMA InitTypeHand == MessengerInit => TypeHand
  <1> SUFFICES ASSUME MessengerInit
               PROVE  TypeHand
    OBVIOUS
  <1>1. named \in [Document -> 0 .. 2] /\ failures \in 0 .. MaxFailures
        /\ signals \in 0 .. MaxSignals
    BY MessengerAssumption DEF MessengerInit
  <1>2. MessengerTypeOK
    BY <1>1, NoListsType DEF MessengerInit, MessengerTypeOK, Position, Phase
  <1>3. HandInv
    BY DEF MessengerInit, HandInv, Busy
  <1> QED
    BY <1>2, <1>3 DEF TypeHand

LEMMA HandleTypeHand ==
    ASSUME TypeHand, NEW d \in Document, HandleSingle(d) \/ Handle(d)
    PROVE  TypeHand'
  <1> USE DEF TypeHand
  <1>1. CASE HandleSingle(d)
    <2>1. named' \in [Document -> 0 .. 2] /\ unindexed' \in SUBSET Document
      <3>1. CASE Publish(Single(d))
        BY <3>1, Published
      <3> QED
        BY <1>1, <3>1 DEF HandleSingle, MessengerTypeOK
    <2>2. failures' \in 0 .. MaxFailures
      BY <1>1, MessengerAssumption DEF HandleSingle, MessengerTypeOK, Failure
    <2>3. MessengerTypeOK'
      BY <1>1, <2>1, <2>2 DEF HandleSingle, MessengerTypeOK, queues, control
    <2>4. HandInv'
      BY <1>1 DEF HandleSingle, HandInv, Busy, ChunkSize, queues, control
    <2> QED
      BY <2>3, <2>4
  <1>2. CASE Handle(d)
    <2>1. MessengerTypeOK'
      BY <1>2, NoListsType, MessengerAssumption DEF Handle, MessengerTypeOK, results, Position
    <2>2. HandInv'
      <3>1. ChunkSize' > 0
        BY <1>2 DEF Handle, ChunkSize
      <3> QED
        BY <1>2, <3>1 DEF Handle, HandInv, Busy
    <2> QED
      BY <2>1, <2>2
  <1> QED
    BY <1>1, <1>2

LEMMA ListsTypeHand ==
    ASSUME TypeHand, Group \/ TrimChunk
    PROVE  TypeHand'
  <1> USE DEF TypeHand
  <1> DEFINE grouped == [ids |-> Append(InHand.ids, doc),
                         indices |-> AppendNew(InHand.indices, IndexOf[doc])]
             trimmed == [InHand EXCEPT !.indices = Drop(@, ChunkSize)]
  <1>1. /\ Busy /\ doc \in Document /\ IndexOf[doc] \in Index /\ ChunkSize \in Nat
        /\ InHand.ids \in Seq(Document) /\ InHand.indices \in Seq(Index)
        /\ IsInjective(InHand.indices) /\ InHand = [ids |-> InHand.ids, indices |-> InHand.indices]
    BY InHandType DEF Group, TrimChunk, Busy, Lists
  <1>2. grouped \in Lists /\ TrimIds \in Lists /\ trimmed \in Lists
    BY <1>1, AppendedSet, AppendNewType, CutList DEF Lists, TrimIds
  <1>3. /\ attached' = attached /\ doc' = doc /\ registered' = registered /\ handled' = handled
        /\ phase' = phase /\ caught' = caught /\ toVisit' = toVisit /\ UNCHANGED results
        /\ stop' = stop /\ signals' = signals /\ at' \in {"loop", "trimmed"}
        /\ \E l \in Lists : SetInHand(l)
    BY <1>2 DEF Group, TrimChunk
  <1>4. groups' \in [Destination -> Lists] /\ loose' \in Lists
    BY <1>1, <1>3, SetType
  <1>5. MessengerTypeOK'
    BY <1>3, <1>4 DEF MessengerTypeOK, results, Position
  <1>6. HandInv'
    BY <1>1, <1>3 DEF HandInv, Busy, ChunkSize
  <1> QED
    BY <1>5, <1>6

LEMMA SendTypeHand ==
    ASSUME TypeHand, SendChunk \/ Handled
    PROVE  TypeHand'
  <1> USE DEF TypeHand
  <1>1. /\ UNCHANGED <<queues, notSent, stop, handled, caught, signals>>
        /\ at = "loop"
        /\ Done(TRUE) \/ Done(FALSE) \/ (at' = "sent" /\ UNCHANGED <<doc, toVisit, phase>>)
        /\ failures' = failures \/ Failure
        /\ UNCHANGED <<named, unindexed>> \/ \E m : Publish(m)
    BY DEF SendChunk, Handled, results
  <1>2. named' \in [Document -> 0 .. 2] /\ unindexed' \in SUBSET Document
    BY <1>1, Published DEF MessengerTypeOK
  <1>3. failures' \in 0 .. MaxFailures
    BY <1>1, MessengerAssumption DEF MessengerTypeOK, Failure
  <1>4. \/ at' = "sent" /\ UNCHANGED <<doc, toVisit, phase>>
        \/ at' = "idle" /\ doc' = NoDocument /\ toVisit' = {} /\ phase' \in Phase
    BY <1>1, Ended
  <1>5. MessengerTypeOK'
    BY <1>1, <1>2, <1>3, <1>4 DEF MessengerTypeOK, queues, Position
  <1>6. HandInv'
    BY <1>1, <1>4 DEF HandInv, Busy, ChunkSize, queues
  <1> QED
    BY <1>5, <1>6

LEMMA FlushTypeHand ==
    ASSUME TypeHand,
           FlushInterface \/ EndBody \/ FlushAgain \/ FlushOne \/ EndOfFlush \/ FlushDisturbed
    PROVE  TypeHand'
  <1> USE DEF TypeHand
  <1>1. CASE FlushInterface \/ EndBody \/ FlushAgain
    <2>1. PICK p \in {"collect", "post", "loop", "final"} : StartFlush(p)
      BY <1>1 DEF FlushInterface, EndBody, FlushAgain
    <2>2. MessengerTypeOK'
      BY <2>1 DEF StartFlush, MessengerTypeOK, results, Position, Phase
    <2>3. HandInv'
      BY <2>1 DEF StartFlush, HandInv, Busy
    <2> QED
      BY <2>2, <2>3
  <1>2. CASE FlushOne
    <2>1. PICK g \in toVisit :
              /\ \/ toVisit' = toVisit \ {g} /\ UNCHANGED <<at, doc, phase>>
                 \/ Done(TRUE)
              /\ failures' = failures \/ Failure
              /\ UNCHANGED <<named, unindexed>> \/ Publish({groups[g]})
      BY <1>2 DEF FlushOne
    <2>2. named' \in [Document -> 0 .. 2] /\ unindexed' \in SUBSET Document
      BY <2>1, Published DEF MessengerTypeOK
    <2>3. failures' \in 0 .. MaxFailures
      BY <2>1, MessengerAssumption DEF MessengerTypeOK, Failure
    <2>4. \/ toVisit' = toVisit \ {g} /\ UNCHANGED <<at, doc, phase>>
          \/ at' = "idle" /\ doc' = NoDocument /\ toVisit' = {} /\ phase' \in Phase
      BY <2>1, Ended
    <2>5. UNCHANGED <<queues, notSent, stop, handled, caught, signals>> /\ at = "flush"
      BY <1>2 DEF FlushOne
    <2>6. MessengerTypeOK'
      BY <2>2, <2>3, <2>4, <2>5 DEF MessengerTypeOK, queues, Position
    <2>7. HandInv'
      BY <2>4, <2>5 DEF HandInv, Busy, queues
    <2> QED
      BY <2>6, <2>7
  <1>3. CASE EndOfFlush
    <2>1. at' = "idle" /\ doc' = NoDocument /\ toVisit' = {} /\ phase' \in Phase
      BY <1>3, Ended DEF EndOfFlush
    <2>2. MessengerTypeOK'
      BY <1>3, <2>1, NoListsType DEF EndOfFlush, ClearGroups, MessengerTypeOK, results, Position
    <2>3. HandInv'
      BY <1>3, <2>1 DEF EndOfFlush, ClearGroups, HandInv, Busy
    <2> QED
      BY <2>2, <2>3
  <1>4. CASE FlushDisturbed
    <2>1. at' = "idle" /\ doc' = NoDocument /\ toVisit' = {} /\ phase' \in Phase
      BY <1>4, Ended DEF FlushDisturbed
    <2>2. MessengerTypeOK'
      BY <1>4, <2>1 DEF FlushDisturbed, queues, MessengerTypeOK, results, Position
    <2>3. HandInv'
      BY <1>4, <2>1 DEF FlushDisturbed, queues, HandInv, Busy
    <2> QED
      BY <2>2, <2>3
  <1> QED
    BY <1>1, <1>2, <1>3, <1>4

LEMMA SignalTypeHand ==
    ASSUME TypeHand, Signal \/ SignalRaises
    PROVE  TypeHand'
  <1> USE DEF TypeHand
  <1>1. PICK m : Publish(m)
    BY DEF Signal, SignalRaises
  <1>2. named' \in [Document -> 0 .. 2] /\ unindexed' \in SUBSET Document
    BY <1>1, Published
  <1>3. /\ signals' \in 0 .. MaxSignals /\ stop' \in BOOLEAN /\ caught \subseteq caught'
        /\ caught' \in SUBSET Document /\ (at = "found" => doc \in caught')
    <2>1. /\ signals < MaxSignals /\ signals' = signals + 1 /\ stop' = TRUE
          /\ caught' = caught \cup (IF at = "found" THEN {doc} ELSE {})
      BY DEF Signal, SignalRaises, Catch
    <2>2. signals' \in 0 .. MaxSignals
      BY <2>1, MessengerAssumption DEF MessengerTypeOK
    <2>3. at = "found" => doc \in Document
      BY InHandType DEF Busy
    <2> QED
      BY <2>1, <2>2, <2>3 DEF MessengerTypeOK
  <1>4. CASE Signal
    <2>1. groups' \in [Destination -> Lists] /\ loose' \in Lists
      BY <1>4, NoListsType, InHandType DEF Signal, ClearGroups, MessengerTypeOK, Busy
    <2>2. MessengerTypeOK'
      BY <1>2, <1>3, <1>4, <2>1 DEF Signal, ClearGroups, MessengerTypeOK, control
    <2>3. attached' => attached /\ registered = {}
      BY <1>4 DEF Signal
    <2>4. HandInv'
      BY <1>3, <1>4, <2>3 DEF Signal, ClearGroups, HandInv, Busy, ChunkSize, control
    <2> QED
      BY <2>2, <2>4
  <1>5. CASE SignalRaises
    <2>1. at' = "idle" /\ doc' = NoDocument /\ toVisit' = {} /\ phase' \in Phase
      BY <1>5, Ended DEF SignalRaises
    <2>2. failures' \in 0 .. MaxFailures
      BY <1>5, MessengerAssumption DEF SignalRaises, MessengerTypeOK, Failure
    <2>3. MessengerTypeOK'
      BY <1>2, <1>3, <1>5, <2>1, <2>2 DEF SignalRaises, MessengerTypeOK, queues, Position
    <2>4. HandInv'
      BY <1>5, <2>1 DEF SignalRaises, HandInv, Busy, queues
    <2> QED
      BY <2>3, <2>4
  <1> QED
    BY <1>4, <1>5

LEMMA StepTypeHand == TypeHand /\ [MessengerNext]_messenger => TypeHand'
  <1> SUFFICES ASSUME TypeHand, [MessengerNext]_messenger
               PROVE  TypeHand'
    OBVIOUS
  <1>1. CASE UNCHANGED messenger
    BY <1>1 DEF messenger, queues, results, control, TypeHand, MessengerTypeOK, HandInv, Busy,
       ChunkSize
  <1> QED
    BY <1>1, HandleTypeHand, ListsTypeHand, SendTypeHand, FlushTypeHand, SignalTypeHand
       DEF MessengerNext, Loop

\* Every variable keeps its type: the indices of a destination stay unique.
THEOREM MessengerTyping == MessengerSpec => []MessengerTypeOK
  <1>1. TypeHand => MessengerTypeOK
    BY DEF TypeHand
  <1> QED
    BY <1>1, InitTypeHand, StepTypeHand, PTL DEF MessengerSpec

----------------------------------------------------------------------------
(* What is handed over is kept until it is sent.                            *)

KeptInv == DueIsKept /\ FlushesFailed /\ SentBeforeGone

\* A flush that raises counts.
LEMMA FlushRaised ==
    ASSUME TypeHand, FlushesFailed, Failure, Done(TRUE), Due' \subseteq Due,
           \A d \in Document : named[d] > 0 => named'[d] > 0, named' \in [Document -> 0 .. 2]
    PROVE  FlushesFailed'
  <1> SUFFICES ASSUME NEW d \in Due', named'[d] = 0
               PROVE  /\ phase' = "loop" => failures' >= 1
                      /\ phase' = "final" => failures' >= 2
                      /\ phase' = "over" => failures' >= 3
    BY DEF FlushesFailed
  <1>1. d \in Due /\ d \in Document
    BY DEF Due, TypeHand, MessengerTypeOK
  <1>2. named[d] = 0
    BY <1>1 DEF TypeHand, MessengerTypeOK
  <1>3. failures' = failures + 1 /\ failures \in Nat
    BY DEF Failure, TypeHand, MessengerTypeOK
  <1>4. \/ phase' = phase
        \/ phase = "post" /\ phase' = "loop"
        \/ phase = "loop" /\ phase' = "collect"
        \/ phase = "loop" /\ phase' = "final"
        \/ phase = "final" /\ phase' = "over"
    BY Ended DEF TypeHand
  <1> QED
    BY <1>1, <1>2, <1>3, <1>4 DEF FlushesFailed

\* Nothing is left to count.
LEMMA AllSent ==
    ASSUME \A d \in Due' : named'[d] > 0
    PROVE  DueIsKept' /\ FlushesFailed'
  BY DEF DueIsKept, FlushesFailed

LEMMA HandleKept ==
    ASSUME TypeHand, KeptInv, NEW c \in Document, HandleSingle(c) \/ Handle(c)
    PROVE  KeptInv'
  <1> USE DEF TypeHand, KeptInv
  <1>1. CASE HandleSingle(c)
    <2>1. /\ UNCHANGED <<groups, registered, at, doc, phase, caught, loose, attached>>
          /\ handled' = handled \cup {c} /\ at = "idle" /\ phase = "collect"
      BY <1>1 DEF HandleSingle, queues, control
    <2>2. ASSUME NEW d \in Due'
          PROVE  named'[d] > 0 \/ (d \in Due /\ named'[d] = named[d]) \/ Grouped(d)
      <3>1. CASE Publish(Single(c)) /\ notSent' = notSent
        <4>1. [ids |-> <<c>>, indices |-> <<IndexOf[c]>>] \in Single(c)
          BY DEF Single
        <4>2. c \in ToSet(<<c>>)
          BY DEF ToSet
        <4>3. named'[c] > 0
          BY <3>1, <4>1, <4>2, Published
        <4>4. d \in Document /\ (d = c \/ d \in Due)
          BY <2>1, <3>1 DEF Due, MessengerTypeOK
        <4>5. d \in Due => named[d] > 0 \/ Grouped(d)
          BY <2>1 DEF DueIsKept
        <4> QED
          BY <3>1, <4>3, <4>4, <4>5, Published
      <3>2. CASE notSent' = notSent \cup {c} /\ named' = named
        BY <2>1, <3>2 DEF Due
      <3> QED
        BY <1>1, <3>1, <3>2 DEF HandleSingle
    <2>3. DueIsKept'
      BY <2>1, <2>2 DEF DueIsKept, Grouped
    <2>4. FlushesFailed'
      BY <2>1 DEF FlushesFailed
    <2>5. SentBeforeGone'
      BY <2>1 DEF SentBeforeGone
    <2> QED
      BY <2>3, <2>4, <2>5
  <1>2. CASE Handle(c)
    <2>1. /\ UNCHANGED <<groups, phase, caught, notSent, named, failures>> /\ at = "idle"
          /\ handled' = handled \cup {c} /\ registered \subseteq registered'
          /\ at' = "found" /\ doc' = c /\ phase = "collect"
      BY <1>2 DEF Handle, results
    <2>2. DueIsKept'
      BY <2>1 DEF DueIsKept, Grouped, Due
    <2>3. FlushesFailed' /\ SentBeforeGone'
      BY <2>1 DEF FlushesFailed, SentBeforeGone
    <2> QED
      BY <2>2, <2>3
  <1> QED
    BY <1>1, <1>2

LEMMA GroupKept ==
    ASSUME TypeHand, KeptInv, Group
    PROVE  KeptInv'
  <1> USE DEF TypeHand, KeptInv
  <1> DEFINE grouped == [ids |-> Append(InHand.ids, doc),
                         indices |-> AppendNew(InHand.indices, IndexOf[doc])]
  <1>1. /\ Busy /\ doc \in Document /\ IndexOf[doc] \in Index
        /\ InHand.ids \in Seq(Document) /\ InHand.indices \in Seq(Index)
        /\ IsInjective(InHand.indices)
    BY InHandType DEF Group, Busy, Lists
  <1>2. /\ attached' = attached /\ doc' = doc /\ registered' = registered /\ handled' = handled
        /\ phase' = phase /\ caught' = caught /\ UNCHANGED <<named, notSent, failures>>
        /\ at = "found" /\ at' = "loop" /\ SetInHand(grouped)
    BY DEF Group, results
  <1>3. grouped \in Lists
    BY <1>1, AppendedSet, AppendNewType DEF Lists
  <1>4. /\ \A g \in Destination : g # DestinationOf[doc] => groups'[g] = groups[g]
        /\ attached => groups'[DestinationOf[doc]] = grouped /\ InHand = groups[DestinationOf[doc]]
    BY <1>1, <1>2, <1>3, SetType
  <1>5. ToSet(grouped.ids) = ToSet(InHand.ids) \cup {doc}
    BY <1>1, AppendedSet
  <1>6. ASSUME NEW d \in Due PROVE named[d] > 0 \/ Grouped(d)'
    <2>1. CASE Grouped(d)
      <3>1. PICK g \in registered : d \in ToSet(groups[g].ids)
        BY <2>1 DEF Grouped
      <3>2. attached /\ g \in Destination
        BY <3>1 DEF HandInv, MessengerTypeOK
      <3>3. d \in ToSet(groups'[g].ids)
        <4>1. CASE g = DestinationOf[doc]
          BY <1>4, <1>5, <3>1, <3>2, <4>1
        <4>2. CASE g # DestinationOf[doc]
          BY <1>4, <3>1, <3>2, <4>2
        <4> QED
          BY <4>1, <4>2
      <3> QED
        BY <1>2, <3>1, <3>3 DEF Grouped
    <2>2. CASE doc = d
      <3>1. attached /\ DestinationOf[doc] \in registered
        BY <1>1, <1>2, <2>2 DEF HandInv, Due
      <3> QED
        BY <1>2, <1>4, <1>5, <2>2, <3>1 DEF Grouped
    <2> QED
      BY <2>1, <2>2 DEF DueIsKept
  <1>7. DueIsKept'
    BY <1>2, <1>6 DEF DueIsKept, Due
  <1>8. FlushesFailed' /\ SentBeforeGone'
    BY <1>2 DEF FlushesFailed, SentBeforeGone, Due
  <1> QED
    BY <1>7, <1>8

LEMMA ChunkKept ==
    ASSUME TypeHand, KeptInv, SendChunk \/ Handled
    PROVE  KeptInv'
  <1> USE DEF TypeHand, KeptInv
  <1>1. /\ UNCHANGED <<groups, registered, loose, attached, notSent, handled, caught>>
        /\ at = "loop" /\ phase = "collect"
    BY DEF SendChunk, Handled, queues, results, HandInv, Busy
  <1>2. CASE Handled
    <2>1. at' = "idle" /\ phase' = phase /\ named' = named
      BY <1>1, <1>2, Ended DEF Handled, results
    <2>2. DueIsKept'
      BY <1>1, <2>1 DEF DueIsKept, Grouped, Due
    <2> QED
      BY <1>1, <2>1, <2>2 DEF FlushesFailed, SentBeforeGone
  <1>3. CASE SendChunk /\ ~Done(TRUE)
    <2>1. /\ Publish({[ids |-> Take(InHand.ids, ChunkSize),
                       indices |-> Take(InHand.indices, ChunkSize)]})
          /\ at' = "sent" /\ UNCHANGED <<doc, phase>>
      BY <1>3 DEF SendChunk
    <2>2. ASSUME NEW d \in Document, named[d] > 0 \/ d \in ToSet(Take(InHand.ids, ChunkSize))
          PROVE  named'[d] > 0
      <3> DEFINE m == [ids |-> Take(InHand.ids, ChunkSize),
                       indices |-> Take(InHand.indices, ChunkSize)]
      <3>1. m.ids = Take(InHand.ids, ChunkSize)
        OBVIOUS
      <3>2. m \in {m}
        OBVIOUS
      <3> HIDE DEF m
      <3>3. Publish({m})
        BY <2>1 DEF m
      <3> QED
        BY <2>2, <3>1, <3>2, <3>3, Published
    <2>3. Due \subseteq Document /\ Due' = Due
      BY <1>1 DEF Due, MessengerTypeOK
    <2>4. DueIsKept'
      BY <1>1, <2>2, <2>3 DEF DueIsKept, Grouped
    <2>5. InHand' = InHand /\ ChunkSize' = ChunkSize
      BY <1>1, <2>1 DEF InHand, ChunkSize
    <2>6. ToSet(Take(InHand.ids, ChunkSize)) \subseteq Document
      <3>1. InHand.ids \in Seq(Document) /\ ChunkSize \in Nat
        BY <1>1, InHandType DEF Busy, Lists
      <3>2. Take(InHand.ids, ChunkSize) \in Seq(Document)
        BY <3>1, CutList
      <3> QED
        BY <3>2 DEF ToSet
    <2>7. SentBeforeGone'
      BY <2>1, <2>2, <2>5, <2>6 DEF SentBeforeGone
    <2> QED
      BY <1>1, <2>1, <2>4, <2>7 DEF FlushesFailed
  <1>4. CASE SendChunk /\ Done(TRUE)
    <2>1. at' = "idle" /\ phase' = phase
      BY <1>1, <1>4, Ended
    <2>2. \A d \in Document : named[d] > 0 => named'[d] > 0
      BY <1>4, Published DEF SendChunk
    <2>3. Due \subseteq Document /\ Due' = Due
      BY <1>1 DEF Due, MessengerTypeOK
    <2>4. DueIsKept'
      BY <1>1, <2>1, <2>2, <2>3 DEF DueIsKept, Grouped
    <2> QED
      BY <1>1, <2>1, <2>4 DEF FlushesFailed, SentBeforeGone
  <1> QED
    BY <1>2, <1>3, <1>4

LEMMA TrimKept ==
    ASSUME TypeHand, KeptInv, TrimChunk
    PROVE  KeptInv'
  <1> USE DEF TypeHand, KeptInv
  <1> DEFINE trimmed == [InHand EXCEPT !.indices = Drop(@, ChunkSize)]
  <1>1. /\ Busy /\ doc \in Document /\ ChunkSize \in Nat /\ InHand \in Lists
        /\ InHand.ids \in Seq(Document) /\ InHand.indices \in Seq(Index)
        /\ IsInjective(InHand.indices)
    BY InHandType DEF TrimChunk, Busy, Lists
  <1>2. /\ attached' = attached /\ doc' = doc /\ registered' = registered /\ handled' = handled
        /\ phase' = phase /\ caught' = caught /\ UNCHANGED <<named, notSent, failures>>
        /\ \/ at = "sent" /\ SetInHand(TrimIds) /\ at' = "trimmed"
           \/ at = "trimmed" /\ SetInHand(trimmed) /\ at' = "loop"
    BY DEF TrimChunk, results
  <1>3. /\ TrimIds \in Lists /\ TrimIds.ids = Drop(InHand.ids, ChunkSize)
        /\ trimmed \in Lists /\ trimmed.ids = InHand.ids
    BY <1>1, CutList DEF Lists, TrimIds
  <1>4. PICK l \in Lists :
            /\ SetInHand(l)
            /\ \A d \in ToSet(InHand.ids) : named[d] > 0 \/ d \in ToSet(l.ids)
    <2>1. CASE at = "sent"
      <3>1. \A d \in ToSet(Take(InHand.ids, ChunkSize)) : named[d] > 0
        BY <2>1 DEF SentBeforeGone
      <3>2. ToSet(InHand.ids) \subseteq
                ToSet(Take(InHand.ids, ChunkSize)) \cup ToSet(TrimIds.ids)
        BY <1>1, <1>3, CutList
      <3> QED
        BY <1>2, <1>3, <2>1, <3>1, <3>2
    <2>2. CASE at = "trimmed"
      BY <1>2, <1>3, <2>2
    <2> QED
      BY <1>2, <2>1, <2>2
  <1>5. /\ \A g \in Destination : g # DestinationOf[doc] => groups'[g] = groups[g]
        /\ attached => groups'[DestinationOf[doc]] = l /\ InHand = groups[DestinationOf[doc]]
    BY <1>1, <1>2, <1>4, SetType
  <1>6. ASSUME NEW d \in Due PROVE named[d] > 0 \/ Grouped(d)'
    <2>1. CASE Grouped(d)
      <3>1. PICK g \in registered : d \in ToSet(groups[g].ids)
        BY <2>1 DEF Grouped
      <3>2. attached /\ g \in Destination
        BY <3>1 DEF HandInv, MessengerTypeOK
      <3>3. named[d] > 0 \/ d \in ToSet(groups'[g].ids)
        <4>1. CASE g = DestinationOf[doc]
          BY <1>4, <1>5, <3>1, <3>2, <4>1
        <4>2. CASE g # DestinationOf[doc]
          BY <1>5, <3>1, <3>2, <4>2
        <4> QED
          BY <4>1, <4>2
      <3> QED
        BY <1>2, <3>1, <3>3 DEF Grouped
    <2> QED
      BY <1>2, <2>1 DEF DueIsKept
  <1>7. DueIsKept'
    BY <1>2, <1>6 DEF DueIsKept, Due
  <1>8. FlushesFailed' /\ SentBeforeGone'
    BY <1>2 DEF FlushesFailed, SentBeforeGone, Due
  <1> QED
    BY <1>7, <1>8

LEMMA FlushKept ==
    ASSUME TypeHand, KeptInv,
           FlushInterface \/ EndBody \/ FlushAgain \/ FlushOne \/ EndOfFlush \/ FlushDisturbed
    PROVE  KeptInv'
  <1> USE DEF TypeHand, KeptInv
  <1>0. Due \subseteq Document /\ registered \subseteq Destination
    BY DEF Due, MessengerTypeOK
  <1>1. CASE FlushInterface \/ EndBody \/ FlushAgain
    <2>1. PICK p \in Phase : StartFlush(p) /\ (p = phase \/ p \in {"collect", "post"}) /\ at = "idle"
      BY <1>1 DEF FlushInterface, EndBody, FlushAgain, Phase
    <2>2. /\ UNCHANGED <<groups, registered, notSent, handled, caught, named, failures>>
          /\ phase' = p /\ at' = "flush" /\ toVisit' = registered
      BY <2>1 DEF StartFlush, results
    <2>3. DueIsKept'
      BY <2>1, <2>2 DEF DueIsKept, Grouped, Due
    <2>4. FlushesFailed' /\ SentBeforeGone'
      BY <2>1, <2>2 DEF FlushesFailed, SentBeforeGone, Due
    <2> QED
      BY <2>3, <2>4
  <1>2. CASE FlushOne
    <2>1. /\ UNCHANGED <<groups, registered, loose, attached, notSent, handled, caught>>
          /\ at = "flush" /\ attached /\ Due' = Due
      BY <1>2 DEF FlushOne, queues, Due
    <2>2. PICK g \in toVisit :
              \/ /\ IF HasIds(g) THEN Publish({groups[g]}) ELSE UNCHANGED <<named, unindexed>>
                 /\ toVisit' = toVisit \ {g}
                 /\ UNCHANGED <<at, doc, phase, failures>>
              \/ /\ HasIds(g) /\ Failure /\ Done(TRUE)
                 /\ UNCHANGED <<named, unindexed>>
      BY <1>2 DEF FlushOne
    <2>3. CASE Failure /\ Done(TRUE) /\ UNCHANGED <<named, unindexed>>
      <3>1. at' = "idle"
        BY <2>3, Ended
      <3>2. FlushesFailed'
        BY <2>1, <2>3, FlushRaised DEF MessengerTypeOK
      <3>3. DueIsKept'
        BY <2>1, <2>3 DEF DueIsKept, Grouped
      <3> QED
        BY <3>1, <3>2, <3>3 DEF SentBeforeGone
    <2>4. CASE /\ IF HasIds(g) THEN Publish({groups[g]}) ELSE UNCHANGED <<named, unindexed>>
               /\ toVisit' = toVisit \ {g}
               /\ UNCHANGED <<at, doc, phase, failures>>
      <3>0. g \in Destination /\ groups[g].ids \in Seq(Document)
        BY InHandType DEF MessengerTypeOK, Lists
      <3>1. \A d \in Document : named[d] > 0 => named'[d] > 0
        BY <2>4, Published
      <3>2. named' \in [Document -> 0 .. 2]
        BY <2>4, Published DEF MessengerTypeOK
      <3>3. \A d \in ToSet(groups[g].ids) : d \in Document /\ named'[d] > 0
        <4>1. CASE HasIds(g)
          <5>1. ToSet(groups[g].ids) \subseteq Document
            BY <3>0 DEF ToSet
          <5> QED
            BY <2>4, <4>1, <5>1, Published
        <4>2. CASE ~HasIds(g)
          BY <4>2 DEF HasIds, ToSet
        <4> QED
          BY <4>1, <4>2
      <3>4. DueIsKept'
        BY <1>0, <2>1, <2>4, <3>1 DEF DueIsKept, Grouped
      <3>5. FlushesFailed'
        <4>1. \A d \in Due : named'[d] = 0 => named[d] = 0
          BY <1>0, <3>1, <3>2 DEF MessengerTypeOK
        <4> QED
          BY <2>1, <2>4, <4>1 DEF FlushesFailed
      <3>6. ASSUME NEW h \in registered \ toVisit', NEW d \in ToSet(groups[h].ids)
            PROVE  named'[d] > 0
        <4>1. CASE h = g
          BY <3>3, <3>6, <4>1
        <4>2. CASE h # g
          <5>1. h \in registered \ toVisit /\ h \in Destination
            BY <1>0, <2>4, <3>6, <4>2
          <5>2. groups[h].ids \in Seq(Document)
            BY <5>1, InHandType DEF Lists
          <5>3. d \in Document
            BY <3>6, <5>2 DEF ToSet
          <5> QED
            BY <2>1, <3>1, <3>6, <5>1, <5>3 DEF SentBeforeGone
        <4> QED
          BY <4>1, <4>2
      <3>7. SentBeforeGone'
        BY <2>1, <2>4, <3>6 DEF SentBeforeGone
      <3> QED
        BY <3>4, <3>5, <3>7
    <2> QED
      BY <2>2, <2>3, <2>4
  <1>3. CASE EndOfFlush
    <2>1. /\ UNCHANGED <<notSent, handled, caught, named>> /\ Due' = Due
          /\ at = "flush" /\ attached /\ toVisit = {} /\ Done(FALSE)
      BY <1>3 DEF EndOfFlush, results, Due
    <2>2. \A d \in Due' : named'[d] > 0
      BY <2>1 DEF DueIsKept, Grouped, SentBeforeGone
    <2>3. at' = "idle"
      BY <2>1, Ended
    <2> QED
      BY <2>2, <2>3, AllSent DEF SentBeforeGone
  <1>4. CASE FlushDisturbed
    <2>1. /\ UNCHANGED <<notSent, handled, caught, named>> /\ Due' = Due
          /\ at = "flush" /\ ~attached /\ Done(TRUE)
      BY <1>4 DEF FlushDisturbed, results, Due
    <2>2. \A d \in Due' : named'[d] > 0
      BY <2>1 DEF DueIsKept, Grouped, HandInv
    <2>3. at' = "idle"
      BY <2>1, Ended
    <2> QED
      BY <2>2, <2>3, AllSent DEF SentBeforeGone
  <1> QED
    BY <1>1, <1>2, <1>3, <1>4

LEMMA SignalKept ==
    ASSUME TypeHand, KeptInv, Signal \/ SignalRaises
    PROVE  KeptInv'
  <1> USE DEF TypeHand, KeptInv
  <1>1. /\ UNCHANGED <<notSent, handled>> /\ caught \subseteq caught'
        /\ at = "found" => doc \in caught'
    BY DEF Signal, SignalRaises, Catch
  <1>2. /\ Due' \subseteq Due /\ Due \subseteq Document
        /\ \A d \in Due' : named[d] > 0 \/ Grouped(d)
    BY <1>1 DEF Due, DueIsKept, MessengerTypeOK
  <1>3. CASE Signal
    <2>1. /\ Publish({groups[g] : g \in Pending}) /\ registered' = {}
          /\ attached' = (attached /\ registered = {})
          /\ Busy => loose' = InHand
          /\ UNCHANGED <<at, doc>>
      BY <1>3 DEF Signal, ClearGroups, control, Busy
    <2>2. ASSUME NEW d \in Due' PROVE named'[d] > 0
      <3>1. CASE named[d] > 0
        BY <1>2, <2>1, <3>1, Published
      <3>2. CASE Grouped(d)
        <4>1. PICK g \in registered : d \in ToSet(groups[g].ids)
          BY <3>2 DEF Grouped
        <4>2. g \in Pending
          BY <4>1 DEF Pending, HasIds, ToSet
        <4> QED
          BY <1>2, <2>1, <4>1, <4>2, Published
      <3> QED
        BY <1>2, <3>1, <3>2
    <2>3. SentBeforeGone'
      <3>1. at = "sent" => InHand' = InHand /\ ChunkSize' = ChunkSize
        BY <2>1 DEF HandInv, Busy, InHand, ChunkSize
      <3>2. ASSUME at = "sent", NEW d \in ToSet(Take(InHand.ids, ChunkSize))
            PROVE  named'[d] > 0
        <4>1. InHand.ids \in Seq(Document) /\ ChunkSize \in Nat
          BY <3>2, InHandType DEF Busy, Lists
        <4>2. Take(InHand.ids, ChunkSize) \in Seq(Document)
          BY <4>1, CutList
        <4>3. d \in Document
          BY <3>2, <4>2 DEF ToSet
        <4> QED
          BY <2>1, <3>2, <4>3, Published DEF SentBeforeGone
      <3> QED
        BY <2>1, <3>1, <3>2 DEF SentBeforeGone
    <2> QED
      BY <2>2, <2>3, AllSent
  <1>4. CASE SignalRaises
    <2>1. /\ UNCHANGED <<groups, registered>> /\ Failure /\ Done(TRUE) /\ \E m : Publish(m)
      BY <1>4 DEF SignalRaises, queues
    <2>2. /\ \A d \in Document : named[d] > 0 => named'[d] > 0
          /\ named' \in [Document -> 0 .. 2]
      BY <2>1, Published
    <2>3. at' = "idle"
      BY <2>1, Ended
    <2>4. FlushesFailed'
      BY <1>2, <2>1, <2>2, FlushRaised
    <2>5. DueIsKept'
      BY <1>2, <2>1, <2>2 DEF DueIsKept, Grouped
    <2> QED
      BY <2>3, <2>4, <2>5 DEF SentBeforeGone
  <1> QED
    BY <1>3, <1>4

LEMMA StepKept ==
    ASSUME TypeHand, KeptInv, [MessengerNext]_messenger
    PROVE  KeptInv'
  <1>1. CASE UNCHANGED messenger
    BY <1>1 DEF messenger, queues, results, control, KeptInv, DueIsKept, FlushesFailed,
       SentBeforeGone, Due, Grouped, InHand, ChunkSize
  <1> QED
    BY <1>1, HandleKept, GroupKept, ChunkKept, TrimKept, FlushKept, SignalKept
       DEF MessengerNext, Loop

\* A document handed to the messenger is sent, or waits in a group, unless a signal caught
\* it in hand, its own publish raised, or the three flushes of the end failed.
THEOREM Keeps == MessengerSpec => []OnlyCaughtIsDropped
  <1>1. MessengerInit => KeptInv
    BY DEF MessengerInit, KeptInv, DueIsKept, FlushesFailed, SentBeforeGone, Due
  <1>2. TypeHand /\ KeptInv => OnlyCaughtIsDropped
    <2> SUFFICES ASSUME TypeHand, KeptInv, NEW d \in Due
                 PROVE  named[d] > 0 \/ Kept(d) \/ (phase = "over" /\ failures >= 3)
      BY DEF OnlyCaughtIsDropped, Due
    <2>1. d \in Document
      BY DEF Due, TypeHand, MessengerTypeOK
    <2>2. named[d] > 0 \/ named[d] = 0
      BY <2>1 DEF TypeHand, MessengerTypeOK
    <2> QED
      BY <2>2 DEF KeptInv, DueIsKept, FlushesFailed, Kept
  <1>3. TypeHand /\ KeptInv /\ [MessengerNext]_messenger => KeptInv'
    BY StepKept
  <1> QED
    BY <1>1, <1>2, <1>3, InitTypeHand, StepTypeHand, PTL DEF MessengerSpec

----------------------------------------------------------------------------
(* The indices of a message are those of its documents.                     *)

LEMMA HandleInStep ==
    ASSUME TypeHand, InStep, NEW c \in Document, HandleSingle(c) \/ Handle(c)
    PROVE  InStep'
  <1> USE DEF TypeHand
  <1> SUFFICES ASSUME failures' = 0
               PROVE  /\ unindexed' = {}
                      /\ Cut'
                      /\ \A g \in Destination :
                             Rests(g)' \/ (Busy /\ attached /\ g = DestinationOf[doc])'
    BY DEF InStep
  <1>0. failures' = failures \/ Failure
    BY DEF HandleSingle, Handle, results
  <1>1. failures = 0 /\ failures' = failures
    BY <1>0 DEF Failure, MessengerTypeOK
  <1>2. at = "idle" /\ ~Busy /\ groups' = groups
    BY DEF HandleSingle, Handle, Busy, queues
  <1>3. unindexed = {} /\ \A g \in Destination : Rests(g) /\ Rests(g)'
    BY <1>1, <1>2 DEF InStep, Rests
  <1>4. CASE HandleSingle(c)
    <2>1. Publish(Single(c))
      BY <1>1, <1>4 DEF HandleSingle, Failure, MessengerTypeOK
    <2>2. ASSUME NEW m \in Single(c), NEW d \in ToSet(m.ids)
          PROVE  IndexOf[d] \in ToSet(m.indices)
      <3>1. m.ids = <<c>> /\ m.indices = <<IndexOf[c]>>
        BY DEF Single
      <3>2. d = c /\ IndexOf[c] \in ToSet(<<IndexOf[c]>>)
        BY <2>2, <3>1 DEF ToSet
      <3> QED
        BY <3>1, <3>2
    <2>3. unindexed' = {}
      BY <1>3, <2>1, <2>2, Published
    <2>4. at' = "idle"
      BY <1>2, <1>4 DEF HandleSingle, control
    <2> QED
      BY <1>3, <2>3, <2>4 DEF Cut
  <1>5. CASE Handle(c)
    <2>1. /\ at' = "found" /\ doc' = c /\ attached' = TRUE /\ unindexed' = unindexed
          /\ Chunk[DestinationOf[c]] > 0
      BY <1>5 DEF Handle, results
    <2>2. InHand' = groups[DestinationOf[c]] /\ ChunkSize' = Chunk[DestinationOf[c]]
      BY <1>2, <2>1 DEF InHand, ChunkSize
    <2>3. DestinationOf[c] \in Destination
      BY MessengerAssumption
    <2>4. Matched(InHand)' /\ (Len(InHand.ids) < ChunkSize)'
      BY <1>3, <2>1, <2>2, <2>3 DEF Rests, Matched
    <2>5. Cut'
      BY <2>1, <2>4 DEF Cut
    <2> QED
      BY <1>3, <2>1, <2>5
  <1> QED
    BY <1>4, <1>5

LEMMA ListsInStep ==
    ASSUME TypeHand, InStep, Group \/ TrimChunk
    PROVE  InStep'
  <1> USE DEF TypeHand
  <1> SUFFICES ASSUME failures' = 0
               PROVE  /\ unindexed' = {}
                      /\ Cut'
                      /\ \A g \in Destination :
                             Rests(g)' \/ (Busy /\ attached /\ g = DestinationOf[doc])'
    BY DEF InStep
  <1> DEFINE grouped == [ids |-> Append(InHand.ids, doc),
                         indices |-> AppendNew(InHand.indices, IndexOf[doc])]
             trimmed == [InHand EXCEPT !.indices = Drop(@, ChunkSize)]
             n == ChunkSize
  <1>1. /\ Busy /\ doc \in Document /\ IndexOf[doc] \in Index /\ n \in Nat /\ InHand \in Lists
        /\ InHand.ids \in Seq(Document) /\ InHand.indices \in Seq(Index)
        /\ Len(InHand.ids) \in Nat /\ Len(InHand.indices) \in Nat
        /\ IsInjective(InHand.indices)
    BY InHandType DEF Group, TrimChunk, Busy, Lists
  <1>2. /\ grouped \in Lists /\ TrimIds \in Lists /\ trimmed \in Lists
        /\ TrimIds.ids = Drop(InHand.ids, n) /\ TrimIds.indices = InHand.indices
        /\ trimmed.ids = InHand.ids /\ trimmed.indices = Drop(InHand.indices, n)
    BY <1>1, AppendedSet, AppendNewType, CutList DEF Lists, TrimIds
  <1>3. /\ attached' = attached /\ doc' = doc /\ unindexed' = unindexed
        /\ failures' = failures
        /\ \/ at = "found" /\ at' = "loop" /\ SetInHand(grouped)
           \/ at = "sent" /\ at' = "trimmed" /\ SetInHand(TrimIds)
           \/ at = "trimmed" /\ at' = "loop" /\ SetInHand(trimmed)
    BY DEF Group, TrimChunk, results
  <1>4. /\ unindexed = {} /\ Cut
        /\ \A g \in Destination : Rests(g) \/ (attached /\ g = DestinationOf[doc])
    BY <1>3 DEF InStep
  <1>5. PICK l \in Lists :
            /\ SetInHand(l)
            /\ at' = "loop" => Matched(l) /\ Len(l.ids) <= n
            /\ at' = "trimmed" => l.ids = <<>> /\ Len(l.indices) <= n
    <2>1. CASE at = "found"
      <3>1. Matched(InHand) /\ Len(InHand.ids) < n
        BY <1>4, <2>1 DEF Cut
      <3>2. /\ ToSet(grouped.ids) = ToSet(InHand.ids) \cup {doc}
            /\ Len(grouped.ids) = Len(InHand.ids) + 1
            /\ ToSet(grouped.indices) = ToSet(InHand.indices) \cup {IndexOf[doc]}
            /\ Len(grouped.indices) \in {Len(InHand.indices), Len(InHand.indices) + 1}
        <4>1. /\ grouped.ids = Append(InHand.ids, doc)
              /\ grouped.indices = AppendNew(InHand.indices, IndexOf[doc])
          OBVIOUS
        <4> HIDE DEF grouped
        <4> QED
          BY <1>1, <4>1, AppendedSet, AppendNewType
      <3>3. Matched(grouped)
        <4>1. Len(grouped.indices) <= Len(grouped.ids)
          BY <1>1, <3>1, <3>2 DEF Matched
        <4>2. \A d \in ToSet(grouped.ids) : IndexOf[d] \in ToSet(grouped.indices)
          BY <3>1, <3>2 DEF Matched
        <4> HIDE DEF grouped
        <4> QED
          BY <4>1, <4>2 DEF Matched
      <3>4. Len(grouped.ids) <= n
        BY <1>1, <3>1, <3>2
      <3> HIDE DEF grouped
      <3> QED
        BY <1>2, <1>3, <2>1, <3>3, <3>4
    <2>2. CASE at = "sent"
      <3>1. Matched(InHand) /\ Len(InHand.ids) = n
        BY <1>4, <2>2 DEF Cut
      <3>2. TrimIds.ids = <<>> /\ Len(TrimIds.indices) <= n
        BY <1>1, <1>2, <3>1 DEF Drop, Matched
      <3> QED
        BY <1>2, <1>3, <2>2, <3>2
    <2>3. CASE at = "trimmed"
      <3>1. InHand.ids = <<>> /\ Len(InHand.indices) <= n
        BY <1>4, <2>3 DEF Cut
      <3>2. trimmed.ids = <<>> /\ trimmed.indices = <<>>
        BY <1>1, <1>2, <3>1 DEF Drop
      <3>3. Matched(trimmed) /\ Len(trimmed.ids) <= n
        <4> HIDE DEF trimmed
        <4> QED
          BY <1>1, <3>2 DEF Matched, ToSet
      <3> HIDE DEF trimmed
      <3> QED
        BY <1>2, <1>3, <2>3, <3>3
    <2> QED
      BY <1>3, <2>1, <2>2, <2>3
  <1>6. /\ InHand' = l /\ (~attached => groups' = groups)
        /\ \A g \in Destination : g # DestinationOf[doc] => groups'[g] = groups[g]
    BY <1>1, <1>3, <1>5, SetType
  <1>7. ChunkSize' = n /\ Busy' /\ at' \in {"loop", "trimmed"}
    BY <1>3 DEF ChunkSize, Busy
  <1>8. Cut'
    BY <1>5, <1>6, <1>7 DEF Cut, Matched
  <1>9. ASSUME NEW g \in Destination
        PROVE  Rests(g)' \/ (Busy /\ attached /\ g = DestinationOf[doc])'
    BY <1>3, <1>4, <1>6, <1>7 DEF Rests
  <1> QED
    BY <1>3, <1>4, <1>8, <1>9

LEMMA ChunkInStep ==
    ASSUME TypeHand, InStep, SendChunk \/ Handled
    PROVE  InStep'
  <1> USE DEF TypeHand
  <1> SUFFICES ASSUME failures' = 0
               PROVE  /\ unindexed' = {}
                      /\ Cut'
                      /\ \A g \in Destination :
                             Rests(g)' \/ (Busy /\ attached /\ g = DestinationOf[doc])'
    BY DEF InStep
  <1>0. failures' = failures \/ Failure
    BY DEF SendChunk, Handled, results
  <1>1. failures = 0 /\ ~Failure
    BY <1>0 DEF Failure, MessengerTypeOK
  <1>2. /\ UNCHANGED <<groups, loose, attached>> /\ at = "loop" /\ Busy
    BY DEF SendChunk, Handled, queues, Busy
  <1>3. /\ unindexed = {} /\ Matched(InHand) /\ Len(InHand.ids) <= ChunkSize
        /\ \A g \in Destination : Rests(g) \/ (attached /\ g = DestinationOf[doc])
    BY <1>1, <1>2 DEF InStep, Cut
  <1>4. /\ InHand.ids \in Seq(Document) /\ InHand.indices \in Seq(Index)
        /\ Len(InHand.ids) \in Nat /\ Len(InHand.indices) \in Nat /\ ChunkSize \in Nat
    BY <1>2, InHandType DEF Lists
  <1>5. CASE SendChunk
    <2>1. /\ Publish({[ids |-> Take(InHand.ids, ChunkSize),
                       indices |-> Take(InHand.indices, ChunkSize)]})
          /\ at' = "sent" /\ doc' = doc /\ Full
      BY <1>1, <1>5 DEF SendChunk
    <2>2. Len(InHand.ids) = ChunkSize /\ Len(InHand.indices) <= ChunkSize
      BY <1>3, <1>4, <2>1 DEF Full, Matched
    <2>3. Take(InHand.ids, ChunkSize) = InHand.ids /\ Take(InHand.indices, ChunkSize) = InHand.indices
      BY <1>4, <2>2 DEF Take
    <2>4. Publish({[ids |-> InHand.ids, indices |-> InHand.indices]})
      BY <2>1, <2>3
    <2>5. \A m \in {[ids |-> InHand.ids, indices |-> InHand.indices]} :
              \A d \in ToSet(m.ids) : IndexOf[d] \in ToSet(m.indices)
      BY <1>3 DEF Matched
    <2>6. unindexed' = {}
      BY <1>3, <2>4, <2>5, Published
    <2>7. InHand' = InHand /\ ChunkSize' = ChunkSize
      BY <1>2, <2>1 DEF InHand, ChunkSize
    <2>8. Cut'
      BY <1>3, <2>1, <2>2, <2>7 DEF Cut, Matched
    <2> QED
      BY <1>2, <1>3, <2>1, <2>6, <2>8 DEF Rests, Busy
  <1>6. CASE Handled
    <2>1. at' = "idle" /\ unindexed' = unindexed /\ Len(InHand.ids) < ChunkSize
      <3>1. at' = "idle"
        BY <1>6, Ended DEF Handled
      <3>2. unindexed' = unindexed /\ ~Full
        BY <1>6 DEF Handled, results
      <3> QED
        BY <1>4, <3>1, <3>2 DEF Full
    <2>2. ASSUME NEW g \in Destination PROVE Rests(g)'
      <3>1. attached /\ g = DestinationOf[doc] => Rests(g)
        BY <1>3, <2>1 DEF Rests, InHand, ChunkSize
      <3> QED
        BY <1>2, <1>3, <3>1 DEF Rests
    <2> QED
      BY <1>3, <2>1, <2>2 DEF Cut
  <1> QED
    BY <1>5, <1>6

LEMMA FlushInStep ==
    ASSUME TypeHand, InStep,
           FlushInterface \/ EndBody \/ FlushAgain \/ FlushOne \/ EndOfFlush \/ FlushDisturbed
    PROVE  InStep'
  <1> USE DEF TypeHand
  <1> SUFFICES ASSUME failures' = 0
               PROVE  /\ unindexed' = {}
                      /\ Cut'
                      /\ \A g \in Destination : Rests(g)'
    BY DEF InStep
  <1>0. /\ failures' = failures \/ Failure
        /\ at \in {"idle", "flush"}
        /\ at' = "flush" \/ Done(TRUE) \/ Done(FALSE)
    BY DEF FlushInterface, EndBody, FlushAgain, StartFlush, FlushOne, EndOfFlush, FlushDisturbed,
       results
  <1>1. failures = 0 /\ ~Failure /\ at' \in {"idle", "flush"}
    <2>1. at' \in {"idle", "flush"}
      BY <1>0, Ended
    <2>2. failures \in Nat
      BY MessengerAssumption DEF MessengerTypeOK
    <2> QED
      BY <1>0, <2>1, <2>2 DEF Failure
  <1>2. unindexed = {} /\ \A g \in Destination : Rests(g)
    BY <1>0, <1>1 DEF InStep, Busy
  <1>3. CASE groups' = groups
    <2>1. unindexed' = {}
      <3>1. CASE unindexed' = unindexed
        BY <1>2, <3>1
      <3>2. ASSUME NEW g \in toVisit, Publish({groups[g]})
            PROVE  unindexed' = {}
        <4>1. Matched(groups[g])
          BY <1>2 DEF Rests, MessengerTypeOK
        <4>2. \A m \in {groups[g]} : \A d \in ToSet(m.ids) : IndexOf[d] \in ToSet(m.indices)
          BY <4>1 DEF Matched
        <4> QED
          BY <1>2, <3>2, <4>2, Published
      <3> QED
        BY <3>1, <3>2 DEF FlushInterface, EndBody, FlushAgain, StartFlush, FlushOne, EndOfFlush,
           FlushDisturbed, results
    <2> QED
      BY <1>1, <1>2, <1>3, <2>1 DEF Cut, Rests
  <1>4. CASE EndOfFlush
    <2>1. groups' = [g \in Destination |-> NoLists] /\ unindexed' = unindexed
      BY <1>4 DEF EndOfFlush, ClearGroups, results
    <2>2. \A g \in Destination : Rests(g)'
      BY <2>1, NoListsType DEF Rests, NoLists, Matched
    <2> QED
      BY <1>1, <1>2, <2>1, <2>2 DEF Cut
  <1> QED
    BY <1>3, <1>4 DEF FlushInterface, EndBody, FlushAgain, StartFlush, FlushOne, FlushDisturbed,
       queues

LEMMA SignalInStep ==
    ASSUME TypeHand, InStep, Signal \/ SignalRaises
    PROVE  InStep'
  <1> USE DEF TypeHand
  <1> SUFFICES ASSUME failures' = 0
               PROVE  /\ unindexed' = {}
                      /\ Cut'
                      /\ \A g \in Destination : Rests(g)'
    BY DEF InStep
  <1>1. failures' = failures \/ (Failure /\ SignalRaises)
    BY DEF Signal, SignalRaises
  <1>2. failures = 0 /\ Signal /\ failures' = failures
    <2>1. failures \in Nat
      BY MessengerAssumption DEF MessengerTypeOK
    <2>2. ~Failure
      BY <2>1 DEF Failure
    <2> QED
      BY <1>1, <2>2 DEF SignalRaises
  <1>3. /\ Publish({groups[g] : g \in Pending}) /\ groups' = [g \in Destination |-> NoLists]
        /\ attached' = (attached /\ registered = {})
        /\ Busy => loose' = InHand
        /\ UNCHANGED <<at, doc>>
    BY <1>2 DEF Signal, ClearGroups, control, Busy
  <1>4. /\ unindexed = {} /\ Cut
        /\ \A g \in Destination : Rests(g) \/ (Busy /\ attached /\ g = DestinationOf[doc])
    BY <1>2 DEF InStep
  <1>5. ASSUME NEW g \in Pending PROVE Matched(groups[g])
    <2>1. g \in Destination /\ groups[g].ids # <<>>
      BY DEF Pending, HasIds, MessengerTypeOK
    <2>2. CASE Rests(g)
      BY <2>2 DEF Rests
    <2>3. CASE Busy /\ attached /\ g = DestinationOf[doc]
      <3>1. groups[g] = InHand
        BY <2>3 DEF InHand
      <3> QED
        BY <1>4, <2>1, <2>3, <3>1 DEF Cut, Busy
    <2> QED
      BY <1>4, <2>1, <2>2, <2>3
  <1>6. unindexed' = {}
    <2>1. \A m \in {groups[g] : g \in Pending} :
              \A d \in ToSet(m.ids) : IndexOf[d] \in ToSet(m.indices)
      BY <1>5 DEF Matched
    <2> QED
      BY <1>3, <1>4, <2>1, Published
  <1>7. Busy => InHand' = InHand /\ ChunkSize' = ChunkSize
    BY <1>3 DEF HandInv, InHand, ChunkSize
  <1>8. Cut'
    BY <1>3, <1>4, <1>7 DEF Cut, Matched, Busy
  <1>9. \A g \in Destination : Rests(g)'
    BY <1>3, NoListsType DEF Rests, NoLists, Matched
  <1> QED
    BY <1>6, <1>8, <1>9

LEMMA StepInStep ==
    ASSUME TypeHand, InStep, [MessengerNext]_messenger
    PROVE  InStep'
  <1>1. CASE UNCHANGED messenger
    BY <1>1 DEF messenger, queues, results, control, InStep, Cut, Rests, Busy, InHand, ChunkSize,
       Matched
  <1> QED
    BY <1>1, HandleInStep, ListsInStep, ChunkInStep, FlushInStep, SignalInStep
       DEF MessengerNext, Loop

\* Until a publish raises, the consumer finds each document in one of the indices that its
\* message names, whatever the chunks, the flushes and the signals.
THEOREM Names == MessengerSpec => []IndexIsNamed
  <1>1. MessengerInit => InStep
    BY NoListsType DEF MessengerInit, InStep, Cut, Rests, NoLists
  <1>2. TypeHand /\ InStep => IndexIsNamed
    BY DEF TypeHand, MessengerTypeOK, InStep, IndexIsNamed
  <1>3. TypeHand /\ InStep /\ [MessengerNext]_messenger => InStep'
    BY StepInStep
  <1> QED
    BY <1>1, <1>2, <1>3, InitTypeHand, StepTypeHand, PTL DEF MessengerSpec
==============================================================================
