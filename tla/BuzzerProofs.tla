---------------------------- MODULE BuzzerProofs ----------------------------
(***************************************************************************)
(* Proofs about Buzzer, for any number of players, sockets and rounds and  *)
(* any number of messages on their way.  The browsers only add to what the *)
(* server does, so everything RoundsProofs shows of Spec holds of          *)
(* BuzzerSpec.  HubMatchesTable and RoundViewsAgree need a host who waits  *)
(* for each request to be answered: OneRequest.                            *)
(***************************************************************************)
EXTENDS Buzzer, RoundsProofs

\* One slot for host requests: no two are ever under way together.
OneRequest == \A h, k \in Requests : h = k

----------------------------------------------------------------------------
(* The inductive invariants *)

NoneOpen == \A r \in RoundIds : rounds[r].state # "open"

OpenIs(x) == \A r \in RoundIds : rounds[r].state = "open" <=> r = x

\* What the table says of the hub's round at each step of the one request.
HubFollowsTable ==
  /\ (\A h \in Requests : hpc[h] \in {"idle", "enable", "stop_open", "allow", "persist"})
       => OpenIs(current)
  /\ \A h \in Requests :
       /\ hpc[h] \in {"insert", "clear", "say"} => NoneOpen
       /\ hpc[h] = "arm" => OpenIs(target[h])
       /\ hpc[h] \in {"allow", "persist", "clear"} => current = target[h]
       /\ hpc[h] = "say" => current = NoRound

\* The round a message leaves a browser with, unless it is an answer_winner.
LeavesRound(m) == IF m.type = "allow_answer" THEN m.round ELSE NoRound

OnlyWinners(q, from) == \A i \in from..Len(q) : q[i].type = "answer_winner"

\* Once its queue is delivered, browser c will show round x: the last message of
\* the queue that is not an answer_winner says so, or it shows x already.
Expects(c, x) ==
  \/ OnlyWinners(down[c], 1) /\ view[c].round = x
  \/ \E i \in 1..Len(down[c]) : /\ down[c][i].type # "answer_winner"
                                /\ LeavesRound(down[c][i]) = x
                                /\ OnlyWinners(down[c], i + 1)

\* Except between the hub's change and its broadcast, the browsers that were told
\* of the round will show the hub's; the others will show none.
BrowsersFollow ==
  /\ (\A h \in Requests : hpc[h] \notin {"allow", "say"}) =>
       \A c \in told : Expects(c, current)
  /\ \A c \in Clients \ told : Expects(c, NoRound)

ServerInv == BuzzerTypeOK /\ IInv

ViewsInv == ServerInv /\ HubFollowsTable /\ BrowsersFollow


USE ConstantsAssumption, BuzzerAssumption

----------------------------------------------------------------------------
(* Every step of Buzzer is a step of Rounds *)

LEMMA StepRefines ==
  ASSUME BuzzerTypeOK, [BuzzerNext]_allVars
  PROVE  [Next]_vars
  <1>1. ASSUME NEW s \in Sockets, Receive(s) PROVE [Next]_vars
    <2>1. up[s] \in Seq({ms \in ElapsedMs : ms >= 0}) /\ up[s] # <<>>
      BY <1>1 DEF BuzzerTypeOK, Receive
    <2>2. Head(up[s]) \in ElapsedMs  BY <2>1
    <2>. QED  BY <1>1, <2>2 DEF Receive, Next
  <1>2. ASSUME NEW s \in Sockets, ReaderWork(s) PROVE [Next]_vars
    <2>1. CASE Receive(s)  BY <1>1, <2>1
    <2>2. CASE SayWinner(s)  BY <2>2 DEF SayWinner, Next, ReaderStep
    <2>3. CASE ReaderStep(s)  BY <2>3 DEF Next
    <2>. QED  BY <1>2, <2>1, <2>2, <2>3 DEF ReaderWork, ReaderStep
  <1>3. ASSUME NEW h \in Requests, HostWork(h) PROVE [Next]_vars
    <2>1. HostStep(h)  BY <1>3 DEF HostWork, SayAllow, SayStop, HostStep
    <2>. QED  BY <2>1 DEF Next
  <1>4. ASSUME NEW h \in Requests, ClickStart(h) \/ ClickStop(h) PROVE [Next]_vars
    BY <1>4 DEF ClickStart, ClickStop, Next
  <1>5. ASSUME NEW enabled \in BOOLEAN, SetAnswers(enabled) PROVE [Next]_vars
    BY <1>5 DEF Next
  <1>6. ASSUME NEW s \in Sockets, NEW ms, Buzz(s, ms) PROVE [Next]_vars
    BY <1>6 DEF Buzz
  <1>7. ASSUME NEW c \in Clients, Deliver(c) \/ Leave(c) \/ Enter(c) PROVE [Next]_vars
    BY <1>7 DEF Deliver, Leave, Enter
  <1>8. CASE UNCHANGED allVars  BY <1>8 DEF allVars
  <1>. QED  BY <1>2, <1>3, <1>4, <1>5, <1>6, <1>7, <1>8 DEF BuzzerNext

----------------------------------------------------------------------------
(* Type correctness *)

LEMMA ShownTyped == \A slot \in Slot : Shown(slot) \in ShownSlot
  BY DEF ShownSlot

LEMMA NothingShown == {} \in Slot /\ Shown({}) = {}
  BY DEF Slot, Shown

LEMMA BroadcastTyped ==
  ASSUME BuzzerTypeOK, NEW type \in {"allow_answer", "stop_answer", "answer_winner"},
         NEW r \in RoundIds, NEW slot \in Slot, Broadcast(type, r, slot)
  PROVE  down' \in [Clients -> Seq(Message)]
  <1> DEFINE m == [type |-> type, round |-> r, winner |-> Shown(slot)]
  <1>1. m \in Message  BY ShownTyped DEF Message
  <1>2. down' = [c \in Clients |-> IF c \in online THEN Append(down[c], m) ELSE down[c]]
    BY DEF Broadcast
  <1> HIDE DEF m
  <1>3. \A c \in Clients : down[c] \in Seq(Message)  BY DEF BuzzerTypeOK
  <1>4. \A c \in Clients : Append(down[c], m) \in Seq(Message)  BY <1>1, <1>3
  <1>. QED  BY <1>2, <1>3, <1>4

\* What a request or an answer about to be broadcast carries.
LEMMA AnnouncedTyped ==
  ASSUME IInv
  PROVE  /\ \A h \in Requests : hpc[h] \in {"allow", "say"} => target[h] \in RoundIds
         /\ \A h \in Requests : seen[h] \in Slot
         /\ \A s \in Sockets : pc[s] = "announce" => /\ candidate[s].round \in RoundIds
                                                     /\ {candidate[s]} \in Slot
  <1>1. \A h \in Requests : hpc[h] \in {"allow", "say"} => target[h] \in RoundIds
    BY DEF IInv, HostsConsistent, Started
  <1>2. \A h \in Requests : seen[h] \in Slot  BY DEF IInv, TypeOK
  <1>3. \A s \in Sockets : pc[s] = "announce" => candidate[s].round \in RoundIds
    BY DEF IInv, ReadersConsistent, Started
  <1>4. \A s \in Sockets : candidate[s] \in Row  BY DEF IInv, TypeOK
  <1>5. \A s \in Sockets : {candidate[s]} \in Slot  BY <1>4 DEF Slot
  <1>. QED  BY <1>1, <1>2, <1>3, <1>5

LEMMA StepBuzzerTypes ==
  ASSUME ServerInv, [BuzzerNext]_allVars, TypeOK'
  PROVE  BuzzerTypeOK'
  <1> USE DEF ServerInv, clientVars
  <1>0. /\ down \in [Clients -> Seq(Message)]
        /\ up \in [Sockets -> Seq({ms \in ElapsedMs : ms >= 0})]
        /\ view \in [Clients -> [round : RoundIds \cup {NoRound}, winner : ShownSlot]]
        /\ online \subseteq Clients
        /\ told \subseteq online
    BY DEF BuzzerTypeOK
  <1>1. ASSUME NEW s \in Sockets, Receive(s) PROVE BuzzerTypeOK'
    <2>1. up' = [up EXCEPT ![s] = Tail(@)] /\ up[s] # <<>>  BY <1>1 DEF Receive
    <2>2. up[s] \in Seq({ms \in ElapsedMs : ms >= 0})  BY <1>0
    <2>3. Tail(up[s]) \in Seq({ms \in ElapsedMs : ms >= 0})  BY <2>1, <2>2
    <2>4. up' \in [Sockets -> Seq({ms \in ElapsedMs : ms >= 0})]  BY <1>0, <2>1, <2>3
    <2>. QED  BY <1>0, <1>1, <2>4 DEF Receive, BuzzerTypeOK
  <1>2. ASSUME NEW s \in Sockets, SayWinner(s) PROVE BuzzerTypeOK'
    <2>1. pc[s] = "announce"  BY <1>2 DEF SayWinner, AnswerAnnounce
    <2>2. down' \in [Clients -> Seq(Message)]
      BY <1>2, <2>1, AnnouncedTyped, BroadcastTyped DEF SayWinner
    <2>. QED  BY <1>0, <1>2, <2>2 DEF SayWinner, BuzzerTypeOK
  <1>3. ASSUME NEW h \in Requests, SayAllow(h) PROVE BuzzerTypeOK'
    <2>1. hpc[h] = "allow"  BY <1>3 DEF SayAllow, StartAllow
    <2>2. down' \in [Clients -> Seq(Message)]
      BY <1>3, <2>1, AnnouncedTyped, BroadcastTyped, NothingShown DEF SayAllow
    <2>. QED  BY <1>0, <1>3, <2>2 DEF SayAllow, BuzzerTypeOK
  <1>4. ASSUME NEW h \in Requests, SayStop(h) PROVE BuzzerTypeOK'
    <2>1. hpc[h] = "say"  BY <1>4 DEF SayStop, StopSay
    <2>2. down' \in [Clients -> Seq(Message)]
      BY <1>4, <2>1, AnnouncedTyped, BroadcastTyped DEF SayStop
    <2>. QED  BY <1>0, <1>4, <2>2 DEF SayStop, BuzzerTypeOK
  <1>5. ASSUME UNCHANGED clientVars PROVE BuzzerTypeOK'
    BY <1>0, <1>5 DEF BuzzerTypeOK
  <1>6. ASSUME NEW s \in Sockets, NEW ms \in {e \in ElapsedMs : e >= 0}, Buzz(s, ms)
        PROVE  BuzzerTypeOK'
    <2>1. up' = [up EXCEPT ![s] = Append(@, ms)]  BY <1>6 DEF Buzz
    <2>2. Append(up[s], ms) \in Seq({e \in ElapsedMs : e >= 0})  BY <1>0
    <2>3. up' \in [Sockets -> Seq({e \in ElapsedMs : e >= 0})]  BY <1>0, <2>1, <2>2
    <2>. QED  BY <1>0, <1>6, <2>3 DEF Buzz, BuzzerTypeOK
  <1>7. ASSUME NEW c \in Clients, Deliver(c) PROVE BuzzerTypeOK'
    <2>1. /\ down[c] \in Seq(Message) /\ down[c] # <<>>
          /\ view' = [view EXCEPT ![c] = Shows(@, Head(down[c]))]
          /\ down' = [down EXCEPT ![c] = Tail(@)]
      BY <1>0, <1>7 DEF Deliver
    <2>2. Head(down[c]) \in Message /\ Tail(down[c]) \in Seq(Message)  BY <2>1
    <2>3. view[c] \in [round : RoundIds \cup {NoRound}, winner : ShownSlot]  BY <1>0
    <2>4. {} \in ShownSlot  BY NothingShown, ShownTyped
    <2>5. Shows(view[c], Head(down[c])) \in [round : RoundIds \cup {NoRound}, winner : ShownSlot]
      BY <2>2, <2>3, <2>4 DEF Shows, Message
    <2>6. view' \in [Clients -> [round : RoundIds \cup {NoRound}, winner : ShownSlot]]
      BY <1>0, <2>1, <2>5
    <2>7. down' \in [Clients -> Seq(Message)]  BY <1>0, <2>1, <2>2
    <2>. QED  BY <1>0, <1>7, <2>6, <2>7 DEF Deliver, BuzzerTypeOK
  <1>8. ASSUME NEW c \in Clients, Leave(c) PROVE BuzzerTypeOK'
    <2>1. up' \in [Sockets -> Seq({ms \in ElapsedMs : ms >= 0})]
      <3>1. CASE c \in Sockets
        <4>1. PICK n \in 0..Len(up[c]) : up' = [up EXCEPT ![c] = SubSeq(@, 1, n)]
          BY <1>8, <3>1 DEF Leave
        <4>2. up[c] \in Seq({ms \in ElapsedMs : ms >= 0})  BY <1>0, <3>1
        <4>3. SubSeq(up[c], 1, n) \in Seq({ms \in ElapsedMs : ms >= 0})  BY <4>2
        <4>. QED  BY <1>0, <4>1, <4>3
      <3>2. CASE c \notin Sockets  BY <1>0, <1>8, <3>2 DEF Leave
      <3>. QED  BY <3>1, <3>2
    <2>2. Unaware \in [round : RoundIds \cup {NoRound}, winner : ShownSlot]
      BY NothingShown, ShownTyped DEF Unaware
    <2>3. view' \in [Clients -> [round : RoundIds \cup {NoRound}, winner : ShownSlot]]
      BY <1>0, <1>8, <2>2 DEF Leave
    <2>4. down' \in [Clients -> Seq(Message)]  BY <1>0, <1>8 DEF Leave
    <2>5. online' \subseteq Clients /\ told' \subseteq online'  BY <1>0, <1>8 DEF Leave
    <2>. QED  BY <2>1, <2>3, <2>4, <2>5 DEF BuzzerTypeOK
  <1>9. ASSUME NEW c \in Clients, Enter(c) PROVE BuzzerTypeOK'
    BY <1>0, <1>9 DEF Enter, BuzzerTypeOK
  <1>10. ASSUME NEW s \in Sockets, ReaderWork(s) PROVE BuzzerTypeOK'
    BY <1>1, <1>2, <1>5, <1>10 DEF ReaderWork
  <1>11. ASSUME NEW h \in Requests, ClickStart(h) \/ ClickStop(h) \/ HostWork(h)
         PROVE  BuzzerTypeOK'
    BY <1>3, <1>4, <1>5, <1>11 DEF ClickStart, ClickStop, HostWork
  <1>12. CASE UNCHANGED allVars  BY <1>5, <1>12 DEF allVars
  <1>. QED
    BY <1>5, <1>6, <1>7, <1>8, <1>9, <1>10, <1>11, <1>12 DEF BuzzerNext

LEMMA InitServer == BuzzerInit => ServerInv
  <1> SUFFICES ASSUME BuzzerInit PROVE ServerInv  OBVIOUS
  <1>1. IInv  BY InitInv DEF BuzzerInit
  <1>2. Unaware \in [round : RoundIds \cup {NoRound}, winner : ShownSlot]
    BY NothingShown, ShownTyped DEF Unaware
  <1>3. BuzzerTypeOK  BY <1>1, <1>2 DEF BuzzerInit, BuzzerTypeOK, IInv
  <1>. QED  BY <1>1, <1>3 DEF ServerInv

LEMMA StepServer == ServerInv /\ [BuzzerNext]_allVars => ServerInv'
  <1> SUFFICES ASSUME ServerInv, [BuzzerNext]_allVars PROVE ServerInv'  OBVIOUS
  <1>1. [Next]_vars  BY StepRefines DEF ServerInv
  <1>2. IInv'  BY <1>1, StepInv DEF ServerInv
  <1>3. BuzzerTypeOK'  BY <1>2, StepBuzzerTypes DEF IInv
  <1>. QED  BY <1>2, <1>3 DEF ServerInv

----------------------------------------------------------------------------
(* The hub and the table *)

\* Steps of readers and browsers and set_answers leave all of this alone.
LEMMA HubKept ==
  ASSUME HubFollowsTable, UNCHANGED <<rounds, current, hpc, target>>
  PROVE  HubFollowsTable'
  BY DEF HubFollowsTable, NoneOpen, OpenIs

LEMMA HubKeptByHost ==
  ASSUME OneRequest, TypeOK, HubFollowsTable, NEW h \in Requests,
         StartBegin(h) \/ StopRead(h) \/ HostStep(h)
  PROVE  HubFollowsTable'
  <1> USE DEF dbVars, hubVars, readerVars, hostVars
  <1>1. \A k \in Requests : k = h  BY DEF OneRequest
  <1>2. /\ rounds \in [RoundIds -> RoundRow]
        /\ hpc \in [Requests -> HostSteps] /\ target \in [Requests -> RoundIds \cup {NoRound}]
    BY DEF TypeOK
  \* The invariant, said of the only request there is.
  <1> DEFINE Here ==
        /\ hpc[h] \in {"idle", "enable", "stop_open", "allow", "persist"} => OpenIs(current)
        /\ hpc[h] \in {"insert", "clear", "say"} => NoneOpen
        /\ hpc[h] = "arm" => OpenIs(target[h])
        /\ hpc[h] \in {"allow", "persist", "clear"} => current = target[h]
        /\ hpc[h] = "say" => current = NoRound
  <1>3. Here  BY <1>1 DEF HubFollowsTable
  <1>4. Here' => HubFollowsTable'  BY <1>1 DEF HubFollowsTable
  <1> USE DEF NoneOpen, OpenIs
  <1>5. CASE StartBegin(h)  BY <1>2, <1>3, <1>4, <1>5 DEF StartBegin, HostGoto
  <1>6. CASE StartEnable(h)  BY <1>2, <1>3, <1>4, <1>6 DEF StartEnable, HostGoto
  <1>7. CASE StartStopOpen(h)
    <2>1. \A r \in RoundIds : rounds'[r].state # "open"
      BY <1>2, <1>7 DEF StartStopOpen, RoundRow
    <2>. QED  BY <1>2, <1>4, <1>7, <2>1 DEF StartStopOpen, HostGoto
  <1>8. CASE StartInsert(h)
    <2>1. PICK r \in RoundIds : /\ rounds' = [rounds EXCEPT ![r].state = "open"]
                                /\ target' = [target EXCEPT ![h] = r]
      BY <1>8 DEF StartInsert
    <2>2. hpc[h] = "insert" /\ hpc'[h] = "arm" /\ target'[h] = r
      BY <1>2, <1>8, <2>1 DEF StartInsert, HostGoto
    <2>3. \A q \in RoundIds : rounds'[q].state = "open" <=> q = r
      BY <1>2, <1>3, <2>1, <2>2 DEF RoundRow
    <2>. QED  BY <1>4, <2>2, <2>3
  <1>9. CASE StartArm(h)  BY <1>2, <1>3, <1>4, <1>9 DEF StartArm, HostGoto
  <1>10. CASE StartAllow(h)  BY <1>2, <1>3, <1>4, <1>10 DEF StartAllow, HostReturn
  <1>11. CASE StopRead(h)  BY <1>2, <1>3, <1>4, <1>11 DEF StopRead, HostGoto
  <1>12. CASE StopPersist(h)
    <2>1. hpc[h] = "persist" /\ hpc'[h] = "clear" /\ UNCHANGED <<current, target>>
      BY <1>2, <1>12 DEF StopPersist, HostGoto
    <2>2. \A r \in RoundIds : rounds'[r].state # "open"
      BY <1>2, <1>3, <1>12, <2>1 DEF StopPersist, RoundRow
    <2>. QED  BY <1>3, <1>4, <2>1, <2>2
  <1>13. CASE StopClear(h)  BY <1>2, <1>3, <1>4, <1>13 DEF StopClear, HostGoto
  <1>14. CASE StopSay(h)  BY <1>2, <1>3, <1>4, <1>14 DEF StopSay, HostReturn
  <1>. QED
    BY <1>5, <1>6, <1>7, <1>8, <1>9, <1>10, <1>11, <1>12, <1>13, <1>14 DEF HostStep

LEMMA InitHub == Init => HubFollowsTable
  BY DEF Init, HubFollowsTable, NoneOpen, OpenIs

LEMMA ReaderLeavesHub ==
  ASSUME NEW s \in Sockets, ReaderStep(s)
  PROVE  UNCHANGED <<rounds, current, hpc, target, seen>>
  BY DEF ReaderStep, AnswerCheck, AnswerRefused, AnswerInsert, AnswerUpdate, AnswerLost,
         AnswerUnreported, AnswerDecide, AnswerTooLate, AnswerAnnounce,
         dbVars, hubVars, readerVars, hostVars

LEMMA HubInvMatches == HubFollowsTable => HubMatchesTable
  BY DEF HubFollowsTable, HubMatchesTable, OpenIs

----------------------------------------------------------------------------
(* What a browser will show *)

\* The round named by a broadcast settles what its receivers will show, unless
\* it is an answer_winner, which changes nothing.
LEMMA AppendSettles ==
  ASSUME NEW c, NEW m, NEW x, down[c] \in Seq(Message),
         down'[c] = Append(down[c], m), view'[c] = view[c]
  PROVE  /\ m.type # "answer_winner" /\ LeavesRound(m) = x => Expects(c, x)'
         /\ m.type = "answer_winner" /\ Expects(c, x) => Expects(c, x)'
  <1> DEFINE q == down[c]
  <1>1. /\ Len(q) \in Nat /\ Len(down'[c]) = Len(q) + 1
        /\ \A i \in 1..Len(q) : down'[c][i] = q[i]
        /\ down'[c][Len(q) + 1] = m
    OBVIOUS
  <1>2. ASSUME m.type # "answer_winner", LeavesRound(m) = x PROVE Expects(c, x)'
    <2>1. OnlyWinners(down'[c], Len(q) + 2)  BY <1>1 DEF OnlyWinners
    <2>2. Len(q) + 1 \in 1..Len(down'[c])  BY <1>1
    <2>. QED  BY <1>1, <1>2, <2>1, <2>2 DEF Expects, LeavesRound
  <1>3. ASSUME m.type = "answer_winner", NEW from \in Nat \ {0}, OnlyWinners(q, from)
        PROVE  OnlyWinners(down'[c], from)
    BY <1>1, <1>3 DEF OnlyWinners
  <1>4. ASSUME m.type = "answer_winner", Expects(c, x) PROVE Expects(c, x)'
    <2>1. CASE OnlyWinners(q, 1) /\ view[c].round = x
      BY <1>3, <1>4, <2>1 DEF Expects
    <2>2. ASSUME NEW i \in 1..Len(q), q[i].type # "answer_winner", LeavesRound(q[i]) = x,
                 OnlyWinners(q, i + 1)
          PROVE  Expects(c, x)'
      <3>1. OnlyWinners(down'[c], i + 1)  BY <1>1, <1>3, <1>4, <2>2
      <3>2. i \in 1..Len(down'[c]) /\ down'[c][i] = q[i]  BY <1>1
      <3>. QED  BY <2>2, <3>1, <3>2 DEF Expects, LeavesRound
    <2>. QED  BY <1>4, <2>1, <2>2 DEF Expects
  <1>. QED  BY <1>2, <1>4

\* Delivering the next message does not change what a browser will show.
LEMMA DeliverSettles ==
  ASSUME NEW c, NEW x, down[c] \in Seq(Message), down[c] # <<>>, Expects(c, x),
         down'[c] = Tail(down[c]), view'[c] = Shows(view[c], Head(down[c]))
  PROVE  Expects(c, x)'
  <1> DEFINE q == down[c]
  <1>1. /\ Len(q) \in Nat \ {0} /\ Len(down'[c]) = Len(q) - 1
        /\ \A i \in 1..(Len(q) - 1) : down'[c][i] = q[i + 1]
        /\ Head(q) = q[1] /\ q[1] \in Message
    OBVIOUS
  <1>2. ASSUME NEW from \in Nat \ {0}, OnlyWinners(q, from + 1)
        PROVE  OnlyWinners(down'[c], from)
    BY <1>1, <1>2 DEF OnlyWinners
  <1>3. view'[c].round = IF q[1].type = "answer_winner" THEN view[c].round
                         ELSE LeavesRound(q[1])
    <2>1. q[1].type \in {"allow_answer", "stop_answer", "answer_winner"}
      BY <1>1 DEF Message
    <2>2. view'[c] = Shows(view[c], q[1])  BY <1>1
    <2>3. CASE q[1].type = "allow_answer"  BY <2>2, <2>3 DEF Shows, LeavesRound
    <2>4. CASE q[1].type = "stop_answer"  BY <2>2, <2>4 DEF Shows, LeavesRound
    <2>5. CASE q[1].type = "answer_winner"  BY <2>2, <2>5 DEF Shows
    <2>. QED  BY <2>1, <2>3, <2>4, <2>5
  <1>4. CASE OnlyWinners(q, 1) /\ view[c].round = x
    <2>1. q[1].type = "answer_winner" /\ OnlyWinners(q, 2)
      BY <1>1, <1>4 DEF OnlyWinners
    <2>. QED  BY <1>2, <1>3, <1>4, <2>1 DEF Expects
  <1>5. ASSUME NEW i \in 1..Len(q), q[i].type # "answer_winner", LeavesRound(q[i]) = x,
               OnlyWinners(q, i + 1)
        PROVE  Expects(c, x)'
    <2>1. CASE i = 1
      <3>1. OnlyWinners(down'[c], 1)  BY <1>2, <1>5, <2>1
      <3>. QED  BY <1>3, <1>5, <2>1, <3>1 DEF Expects
    <2>2. CASE i # 1
      <3>1. i - 1 \in 1..Len(down'[c]) /\ down'[c][i - 1] = q[i] /\ i - 1 \in Nat \ {0}
        BY <1>1, <1>5, <2>2
      <3>2. OnlyWinners(down'[c], i)  BY <1>2, <1>5
      <3>3. (i - 1) + 1 = i  BY <1>1
      <3>4. OnlyWinners(down'[c], (i - 1) + 1)  BY <3>2, <3>3
      <3>5. down'[c][i - 1].type # "answer_winner" /\ LeavesRound(down'[c][i - 1]) = x
        BY <1>5, <3>1
      <3>. QED  BY <3>1, <3>4, <3>5 DEF Expects, LeavesRound
    <2>. QED  BY <2>1, <2>2
  <1>. QED  BY <1>4, <1>5 DEF Expects

LEMMA ExpectsKept ==
  ASSUME NEW c, NEW x, Expects(c, x), down'[c] = down[c], view'[c].round = view[c].round
  PROVE  Expects(c, x)'
  BY DEF Expects

\* A page that shows no round and has nothing on its way will show none.
LEMMA UnawareExpects ==
  ASSUME NEW c, down'[c] = <<>>, view'[c] = Unaware
  PROVE  Expects(c, NoRound)'
  BY DEF Expects, OnlyWinners, Unaware

\* With an empty queue what it will show is what it shows.
LEMMA QuietExpects ==
  ASSUME NEW c, NEW x, Expects(c, x), down[c] = <<>>
  PROVE  view[c].round = x
  BY DEF Expects

----------------------------------------------------------------------------
(* The browsers follow the hub *)

\* A broadcast reaches the browsers with a connection and no other.
LEMMA BroadcastReaches ==
  ASSUME NEW type, NEW r, NEW slot, Broadcast(type, r, slot), NEW c \in Clients
  PROVE  down'[c] = IF c \in online
                    THEN Append(down[c], [type |-> type, round |-> r, winner |-> Shown(slot)])
                    ELSE down[c]
  BY DEF Broadcast

\* Steps that leave channels, pages and history alone.
LEMMA FollowKept ==
  ASSUME BrowsersFollow, UNCHANGED <<current, down, view, told>>,
         (\A h \in Requests : hpc'[h] \notin {"allow", "say"}) =>
            (\A h \in Requests : hpc[h] \notin {"allow", "say"})
  PROVE  BrowsersFollow'
  BY DEF BrowsersFollow, Expects

LEMMA FollowByReader ==
  ASSUME ViewsInv, NEW s \in Sockets,
         ReaderWork(s) \/ \E ms \in {e \in ElapsedMs : e >= 0} : Buzz(s, ms)
  PROVE  BrowsersFollow'
  <1>1. CASE SayWinner(s)
    <2>1. UNCHANGED <<rounds, current, hpc, target, seen, view, told>>
      BY <1>1, ReaderLeavesHub DEF SayWinner, ReaderStep
    <2>2. ASSUME NEW c \in Clients, NEW x, Expects(c, x) PROVE Expects(c, x)'
      <3> DEFINE m == [type |-> "answer_winner", round |-> candidate[s].round,
                       winner |-> Shown({candidate[s]})]
      <3>1. down'[c] = IF c \in online THEN Append(down[c], m) ELSE down[c]
        BY <1>1, BroadcastReaches DEF SayWinner
      <3>2. m.type = "answer_winner"  OBVIOUS
      <3>3. down[c] \in Seq(Message)  BY DEF ViewsInv, ServerInv, BuzzerTypeOK
      <3> HIDE DEF m
      <3>4. CASE c \in online  BY <2>1, <2>2, <3>1, <3>2, <3>3, <3>4, AppendSettles
      <3>5. CASE c \notin online  BY <2>1, <2>2, <3>1, <3>5, ExpectsKept
      <3>. QED  BY <3>4, <3>5
    <2>3. told \subseteq Clients  BY DEF ViewsInv, ServerInv, BuzzerTypeOK
    <2>. QED  BY <2>1, <2>2, <2>3 DEF ViewsInv, BrowsersFollow
  <1>2. CASE Receive(s)
    <2>1. UNCHANGED <<current, hpc, down, view, told>>
      BY <1>2 DEF Receive, AnswerBegin, dbVars, hubVars, hostVars, vars
    <2>. QED  BY <2>1, FollowKept DEF ViewsInv
  <1>3. CASE ReaderStep(s) /\ UNCHANGED clientVars
    <2>1. UNCHANGED <<current, hpc, down, view, told>>
      BY <1>3, ReaderLeavesHub DEF clientVars
    <2>. QED  BY <2>1, FollowKept DEF ViewsInv
  <1>4. CASE \E ms \in {e \in ElapsedMs : e >= 0} : Buzz(s, ms)
    <2>1. UNCHANGED <<current, hpc, down, view, told>>
      BY <1>4 DEF Buzz, hubVars, hostVars, vars
    <2>. QED  BY <2>1, FollowKept DEF ViewsInv
  <1>. QED  BY <1>1, <1>2, <1>3, <1>4 DEF ReaderWork, ReaderStep

\* The two broadcasts of a host request: every browser that is told of a round,
\* or of its end, will show what the hub then holds.
LEMMA FollowBySay ==
  ASSUME OneRequest, ViewsInv, NEW h \in Requests, SayAllow(h) \/ SayStop(h)
  PROVE  BrowsersFollow'
  <1>1. \A c \in Clients : down[c] \in Seq(Message)
    BY DEF ViewsInv, ServerInv, BuzzerTypeOK
  <1>2. told \subseteq online /\ online \subseteq Clients
    BY DEF ViewsInv, ServerInv, BuzzerTypeOK
  <1>3. CASE SayAllow(h)
    <2> DEFINE m == [type |-> "allow_answer", round |-> target[h], winner |-> Shown({})]
    <2>1. hpc[h] = "allow" /\ current' = current /\ view' = view /\ told' = online
      BY <1>3 DEF SayAllow, StartAllow, hubVars
    <2>2. current = target[h]  BY <2>1 DEF ViewsInv, HubFollowsTable
    <2>3. m.type # "answer_winner" /\ LeavesRound(m) = current'
      BY <2>1, <2>2 DEF LeavesRound
    <2>4. \A c \in Clients : down'[c] = IF c \in online THEN Append(down[c], m) ELSE down[c]
      BY <1>3, BroadcastReaches DEF SayAllow
    <2> HIDE DEF m
    <2>5. ASSUME NEW c \in told', NEW x, x = current' PROVE Expects(c, x)'
      BY <1>1, <1>2, <2>1, <2>3, <2>4, <2>5, AppendSettles
    <2>6. ASSUME NEW c \in Clients \ told' PROVE Expects(c, NoRound)'
      <3>1. c \in Clients \ told /\ down'[c] = down[c] /\ view'[c] = view[c]
        BY <1>2, <2>1, <2>4, <2>6
      <3>2. Expects(c, NoRound)  BY <3>1 DEF ViewsInv, BrowsersFollow
      <3>. QED  BY <3>1, <3>2, ExpectsKept
    <2>. QED  BY <2>5, <2>6 DEF BrowsersFollow
  <1>4. CASE SayStop(h)
    <2> DEFINE m == [type |-> "stop_answer", round |-> target[h], winner |-> Shown(seen[h])]
    <2>1. hpc[h] = "say" /\ current' = current /\ view' = view /\ told' = told
      BY <1>4 DEF SayStop, StopSay, hubVars
    <2>2. current = NoRound  BY <2>1 DEF ViewsInv, HubFollowsTable
    <2>3. m.type # "answer_winner" /\ LeavesRound(m) = NoRound  BY DEF LeavesRound
    <2>4. \A c \in Clients : down'[c] = IF c \in online THEN Append(down[c], m) ELSE down[c]
      BY <1>4, BroadcastReaches DEF SayStop
    <2> HIDE DEF m
    <2>5. ASSUME NEW c \in Clients, c \in online PROVE Expects(c, NoRound)'
      BY <1>1, <2>1, <2>3, <2>4, <2>5, AppendSettles
    <2>6. ASSUME NEW c \in Clients, c \notin online PROVE Expects(c, NoRound)'
      <3>1. c \in Clients \ told /\ down'[c] = down[c] /\ view'[c] = view[c]
        BY <1>2, <2>1, <2>4, <2>6
      <3>2. Expects(c, NoRound)  BY <3>1 DEF ViewsInv, BrowsersFollow
      <3>. QED  BY <3>1, <3>2, ExpectsKept
    <2>7. current' = NoRound /\ told' \subseteq Clients  BY <1>2, <2>1, <2>2
    <2>. QED  BY <2>5, <2>6, <2>7 DEF BrowsersFollow
  <1>. QED  BY <1>3, <1>4

\* The steps of a request before its broadcast: only StartArm and StopClear
\* change the hub's round, and both lead to a broadcast.
LEMMA FollowByHost ==
  ASSUME OneRequest, ViewsInv, NEW h \in Requests,
         StartBegin(h) \/ StopRead(h) \/ (HostStep(h) /\ ~StartAllow(h) /\ ~StopSay(h)),
         UNCHANGED clientVars
  PROVE  BrowsersFollow'
  <1> USE DEF dbVars, hubVars, readerVars, hostVars
  <1>1. hpc \in [Requests -> HostSteps]  BY DEF ViewsInv, ServerInv, IInv, TypeOK
  <1>2. UNCHANGED <<down, view, told>>  BY DEF clientVars
  <1>3. CASE StartArm(h) \/ StopClear(h)
    <2>1. hpc'[h] \in {"allow", "say"}  BY <1>1, <1>3 DEF StartArm, StopClear, HostGoto
    <2>2. \A c \in Clients \ told : Expects(c, NoRound)  BY DEF ViewsInv, BrowsersFollow
    <2>3. \A c \in Clients \ told' : Expects(c, NoRound)'  BY <1>2, <2>2 DEF Expects
    <2>. QED  BY <2>1, <2>3 DEF BrowsersFollow
  <1>4. CASE StartBegin(h) \/ StartEnable(h) \/ StartStopOpen(h) \/ StartInsert(h)
             \/ StopRead(h) \/ StopPersist(h)
    <2>1. current' = current
      BY <1>4
      DEF StartBegin, StartEnable, StartStopOpen, StartInsert, StopRead, StopPersist
    <2>2. hpc[h] \notin {"allow", "say"}
      BY <1>4
      DEF StartBegin, StartEnable, StartStopOpen, StartInsert, StopRead, StopPersist
    <2>3. \A k \in Requests : k = h  BY DEF OneRequest
    <2>. QED  BY <1>2, <2>1, <2>2, <2>3, FollowKept DEF ViewsInv
  <1>. QED  BY <1>3, <1>4 DEF HostStep

LEMMA FollowByBrowser ==
  ASSUME ViewsInv, NEW c \in Clients, Deliver(c) \/ Leave(c) \/ Enter(c)
  PROVE  BrowsersFollow'
  <1>1. /\ down \in [Clients -> Seq(Message)]
        /\ view \in [Clients -> [round : RoundIds \cup {NoRound}, winner : ShownSlot]]
        /\ told \subseteq Clients
    BY DEF ViewsInv, ServerInv, BuzzerTypeOK
  <1>2. UNCHANGED <<current, hpc>>
    BY DEF Deliver, Leave, Enter, vars, hubVars, hostVars
  <1>3. CASE Deliver(c)
    <2>1. told' = told  BY <1>3 DEF Deliver
    <2>2. ASSUME NEW b \in Clients, NEW x, Expects(b, x) PROVE Expects(b, x)'
      <3>1. CASE b = c
        <4>1. /\ down[c] # <<>> /\ down'[c] = Tail(down[c])
              /\ view'[c] = Shows(view[c], Head(down[c]))
          BY <1>1, <1>3 DEF Deliver
        <4>2. down[c] \in Seq(Message)  BY <1>1
        <4>. QED  BY <2>2, <3>1, <4>1, <4>2, DeliverSettles
      <3>2. CASE b # c
        <4>1. down'[b] = down[b] /\ view'[b] = view[b]  BY <1>1, <1>3, <3>2 DEF Deliver
        <4>. QED  BY <2>2, <4>1, ExpectsKept
      <3>. QED  BY <3>1, <3>2
    <2>. QED  BY <1>1, <1>2, <2>1, <2>2 DEF ViewsInv, BrowsersFollow
  <1>4. CASE Leave(c)
    <2>1. told' = told \ {c} /\ down'[c] = <<>> /\ view'[c] = Unaware
      BY <1>1, <1>4 DEF Leave
    <2>2. Expects(c, NoRound)'  BY <2>1, UnawareExpects
    <2>3. ASSUME NEW b \in Clients, b # c, NEW x, Expects(b, x) PROVE Expects(b, x)'
      <3>1. down'[b] = down[b] /\ view'[b] = view[b]  BY <1>1, <1>4, <2>3 DEF Leave
      <3>. QED  BY <2>3, <3>1, ExpectsKept
    <2>. QED  BY <1>1, <1>2, <2>1, <2>2, <2>3 DEF ViewsInv, BrowsersFollow
  <1>5. CASE Enter(c)
    <2>1. UNCHANGED <<down, view, told>>  BY <1>5 DEF Enter
    <2>. QED  BY <1>2, <2>1, FollowKept DEF ViewsInv
  <1>. QED  BY <1>3, <1>4, <1>5

LEMMA InitViews == BuzzerInit => ViewsInv
  <1> SUFFICES ASSUME BuzzerInit PROVE ViewsInv  OBVIOUS
  <1>1. ServerInv  BY InitServer
  <1>2. HubFollowsTable  BY InitHub DEF BuzzerInit
  <1>3. /\ told = Clients /\ current = NoRound
        /\ \A c \in Clients : down[c] = <<>> /\ view[c].round = NoRound
    BY DEF BuzzerInit, Init, Unaware
  <1>4. BrowsersFollow  BY <1>3 DEF BrowsersFollow, Expects, OnlyWinners
  <1>. QED  BY <1>1, <1>2, <1>4 DEF ViewsInv

LEMMA StepViews == OneRequest /\ ViewsInv /\ [BuzzerNext]_allVars => ViewsInv'
  <1> SUFFICES ASSUME OneRequest, ViewsInv, [BuzzerNext]_allVars PROVE ViewsInv'
    OBVIOUS
  <1>1. ServerInv'  BY StepServer DEF ViewsInv
  <1>2. TypeOK  BY DEF ViewsInv, ServerInv, IInv
  <1>3. ASSUME NEW s \in Sockets,
               ReaderWork(s) \/ \E ms \in {e \in ElapsedMs : e >= 0} : Buzz(s, ms)
        PROVE  ViewsInv'
    <2>1. UNCHANGED <<rounds, current, hpc, target>>
      <3>1. CASE Receive(s)
        BY <3>1 DEF Receive, AnswerBegin, dbVars, hubVars, hostVars, vars
      <3>2. CASE ReaderStep(s)  BY <3>2, ReaderLeavesHub
      <3>3. CASE \E ms \in {e \in ElapsedMs : e >= 0} : Buzz(s, ms)
        BY <3>3 DEF Buzz, dbVars, hubVars, hostVars, vars
      <3>. QED  BY <1>3, <3>1, <3>2, <3>3 DEF ReaderWork, SayWinner, ReaderStep
    <2>2. HubFollowsTable'  BY <2>1, HubKept DEF ViewsInv
    <2>. QED  BY <1>1, <1>3, <2>2, FollowByReader DEF ViewsInv
  <1>4. ASSUME NEW h \in Requests, ClickStart(h) \/ ClickStop(h) \/ HostWork(h)
        PROVE  ViewsInv'
    <2>1. StartBegin(h) \/ StopRead(h) \/ HostStep(h)
      BY <1>4 DEF ClickStart, ClickStop, HostWork, SayAllow, SayStop, HostStep
    <2>2. HubFollowsTable'  BY <1>2, <2>1, HubKeptByHost DEF ViewsInv
    <2>3. CASE SayAllow(h) \/ SayStop(h)
      BY <1>1, <2>2, <2>3, FollowBySay DEF ViewsInv
    <2>4. CASE ~(SayAllow(h) \/ SayStop(h))
      <3>1. UNCHANGED clientVars
        BY <1>4, <2>4 DEF ClickStart, ClickStop, HostWork
      <3>2. StartBegin(h) \/ StopRead(h) \/ (HostStep(h) /\ ~StartAllow(h) /\ ~StopSay(h))
        BY <1>4, <2>4
        DEF ClickStart, ClickStop, HostWork, HostStep, StartBegin, StopRead,
            StartEnable, StartStopOpen, StartInsert, StartArm, StopPersist, StopClear,
            StartAllow, StopSay
      <3>. QED  BY <1>1, <2>2, <3>1, <3>2, FollowByHost DEF ViewsInv
    <2>. QED  BY <2>3, <2>4
  <1>5. ASSUME NEW enabled \in BOOLEAN, SetAnswers(enabled), UNCHANGED clientVars
        PROVE  ViewsInv'
    <2>1. UNCHANGED <<rounds, current, hpc, target, down, view, told>>
      BY <1>5 DEF SetAnswers, hubVars, hostVars, clientVars
    <2>. QED  BY <1>1, <2>1, HubKept, FollowKept DEF ViewsInv
  <1>6. ASSUME NEW c \in Clients, Deliver(c) \/ Leave(c) \/ Enter(c) PROVE ViewsInv'
    <2>1. UNCHANGED <<rounds, current, hpc, target>>
      BY <1>6 DEF Deliver, Leave, Enter, vars, dbVars, hubVars, hostVars
    <2>. QED  BY <1>1, <1>6, <2>1, HubKept, FollowByBrowser DEF ViewsInv
  <1>7. CASE UNCHANGED allVars
    <2>1. UNCHANGED <<rounds, current, hpc, target, down, view, told>>
      BY <1>7 DEF allVars, clientVars, vars, dbVars, hubVars, hostVars
    <2>. QED  BY <1>1, <2>1, HubKept, FollowKept DEF ViewsInv
  <1>. QED  BY <1>3, <1>4, <1>5, <1>6, <1>7 DEF BuzzerNext

----------------------------------------------------------------------------
(* The theorems *)

\* Every reachable state satisfies the types and the invariant of Rounds.
THEOREM ServerInvHolds == BuzzerSpec => []ServerInv
  BY InitServer, StepServer, PTL DEF BuzzerSpec

\* Queues, pages and answers on their way keep their types: what a request or a
\* reader task broadcasts always names a real round and a winner that fits.
THEOREM BuzzerTypeCorrect == BuzzerSpec => []BuzzerTypeOK
  <1>1. ServerInv => BuzzerTypeOK  BY DEF ServerInv
  <1>. QED  BY <1>1, ServerInvHolds, PTL

\* The browsers add nothing to what the server can do: every behaviour with them
\* is one of Rounds, whose theorems therefore hold of it.
THEOREM BuzzerPlaysRounds == BuzzerSpec => Spec
  <1>1. BuzzerInit => Init  BY DEF BuzzerInit
  <1>2. ServerInv /\ [BuzzerNext]_allVars => [Next]_vars  BY StepRefines DEF ServerInv
  <1>. QED  BY <1>1, <1>2, ServerInvHolds, PTL DEF BuzzerSpec, Spec

\* With the browsers too the winner slot only moves as the abstract one may, and
\* holds the best answer on record.
THEOREM BuzzerKeepsSlot == BuzzerSpec => ImplementsSlot /\ []WinnerIsBest
  BY BuzzerPlaysRounds, RoundsImplementSlot, WinnerIsBestHolds, PTL

\* Every reachable state of a host who waits satisfies the views' invariant.
THEOREM ViewsInvHolds == OneRequest => (BuzzerSpec => []ViewsInv)
  <1> SUFFICES ASSUME OneRequest PROVE BuzzerSpec => []ViewsInv  OBVIOUS
  <1>1. ViewsInv /\ [BuzzerNext]_allVars => ViewsInv'  BY StepViews
  <1>. QED  BY <1>1, InitViews, PTL DEF BuzzerSpec

\* Between two requests of a host who waits, the open row of the rounds table is
\* the hub's round and there is no other.
THEOREM HubMatchesTableHolds == OneRequest => (BuzzerSpec => []HubMatchesTable)
  <1> SUFFICES ASSUME OneRequest PROVE BuzzerSpec => []HubMatchesTable  OBVIOUS
  <1>1. ViewsInv => HubMatchesTable  BY HubInvMatches DEF ViewsInv
  <1>. QED  BY <1>1, ViewsInvHolds, PTL

\* Once everything is delivered, each browser connected since the round began
\* shows the hub's round and the others show none, however many there are and
\* whatever answers, winners, reloads and drops came in between.
THEOREM RoundViewsAgreeHolds == OneRequest => (BuzzerSpec => []RoundViewsAgree)
  <1> SUFFICES ASSUME OneRequest PROVE BuzzerSpec => []RoundViewsAgree  OBVIOUS
  <1>1. ASSUME ViewsInv, Quiet, NEW c \in online
        PROVE  view[c].round = (IF c \in told THEN current ELSE NoRound)
    <2>1. c \in Clients /\ down[c] = <<>>
      BY <1>1 DEF ViewsInv, ServerInv, BuzzerTypeOK, Quiet
    <2>2. \A h \in Requests : hpc[h] \notin {"allow", "say"}  BY <1>1 DEF Quiet
    <2>3. CASE c \in told
      <3>1. Expects(c, current)  BY <1>1, <2>2, <2>3 DEF ViewsInv, BrowsersFollow
      <3>. QED  BY <2>1, <2>3, <3>1 DEF Expects
    <2>4. CASE c \notin told
      <3>1. Expects(c, NoRound)  BY <1>1, <2>1, <2>4 DEF ViewsInv, BrowsersFollow
      <3>. QED  BY <2>1, <2>4, <3>1, QuietExpects
    <2>. QED  BY <2>3, <2>4
  <1>2. ViewsInv => RoundViewsAgree  BY <1>1 DEF RoundViewsAgree
  <1>. QED  BY <1>2, ViewsInvHolds, PTL

\* The same of the server alone, for any clicks of the host: without crashes and
\* abandoned requests a host who waits always finds table and hub in step.
THEOREM HubMatchesTableAlone ==
  OneRequest /\ ~Faults => (Spec => []HubMatchesTable)
  <1> SUFFICES ASSUME OneRequest, ~Faults PROVE Spec => []HubMatchesTable  OBVIOUS
  <1>1. ASSUME TypeOK, HubFollowsTable, [Next]_vars PROVE HubFollowsTable'
    <2>1. ASSUME NEW s \in Sockets, NEW ms, AnswerBegin(s, ms)
          PROVE  UNCHANGED <<rounds, current, hpc, target>>
      BY <2>1 DEF AnswerBegin, dbVars, hubVars, hostVars
    <2>2. ASSUME NEW enabled, SetAnswers(enabled)
          PROVE  UNCHANGED <<rounds, current, hpc, target>>
      BY <2>2 DEF SetAnswers, hubVars, hostVars
    <2>3. CASE UNCHANGED vars
      BY <1>1, <2>3, HubKept DEF vars, dbVars, hubVars, hostVars
    <2>4. ~Restart /\ \A h \in Requests : ~HostAbandon(h)  BY DEF Restart, HostAbandon
    <2>. QED
      BY <1>1, <2>1, <2>2, <2>3, <2>4, HubKept, HubKeptByHost, ReaderLeavesHub DEF Next
  <1>2. Init => HubFollowsTable  BY InitHub
  <1>3. HubFollowsTable => HubMatchesTable  BY HubInvMatches
  <1>. QED  BY <1>1, <1>2, <1>3, TypeCorrect, PTL DEF Spec

=============================================================================
