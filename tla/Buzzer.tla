------------------------------- MODULE Buzzer -------------------------------
(***************************************************************************)
(* Rounds together with the browsers: the messages broadcast to every      *)
(* connected client, the round each browser believes is live, the answers  *)
(* players send and the buttons of the host (static/app.js).               *)
(*                                                                         *)
(* A client's mpsc channel, WebSocket and event queue are one FIFO.  A page *)
(* that is reloaded forgets its round and comes back with the credentials  *)
(* it saved; nothing the server sends to a new connection tells it of a    *)
(* round.  A tab whose connection breaks goes to the landing page and can  *)
(* only come back as somebody new (module Client).  A session_state        *)
(* broadcast only makes a browser render again, which unlocks the buzzer a *)
(* press had locked: Buzz is therefore possible whenever the handler's own *)
(* test lets it through.                                                   *)
(***************************************************************************)
EXTENDS Rounds, Sequences

CONSTANTS
  Host,   \* the host's browser; the players' are named after their sockets
  MaxUp   \* bound: answers of one player that may be on their way at a time

ASSUME BuzzerAssumption == Host \notin Sockets /\ MaxUp \in Nat \ {0}

VARIABLES
  down,  \* messages on their way to each browser
  up,    \* elapsed_ms of the answers on their way from each player; the wire
         \* format does not carry the round they were measured in
  view,  \* each browser's state.currentRound and state.winner
  online, \* the browsers with a registered connection
  told   \* history: those connected without a break since the last allow_answer

clientVars == <<down, up, view, online, told>>
allVars == <<vars, clientVars>>

Clients == Sockets \cup {Host}

\* The fields of an entry that are put on the wire, Option<Winner>.
Shown(slot) == {[participant |-> w.participant, elapsed |-> w.elapsed] : w \in slot}

ShownSlot == {Shown(slot) : slot \in Slot}

Message == [type : {"allow_answer", "stop_answer", "answer_winner"},
            round : RoundIds, winner : ShownSlot]

\* The state is well formed: what is on its way to a browser names a round and what
\* a slot can show, answers on their way are not negative.
BuzzerTypeOK ==
  /\ TypeOK
  /\ down \in [Clients -> Seq(Message)]
  /\ up \in [Sockets -> Seq({ms \in ElapsedMs : ms >= 0})]
  /\ view \in [Clients -> [round : RoundIds \cup {NoRound}, winner : ShownSlot]]
  /\ online \subseteq Clients
  /\ told \subseteq online

\* What a page that has just loaded shows.
Unaware == [round |-> NoRound, winner |-> {}]

----------------------------------------------------------------------------
BuzzerInit ==
  /\ Init
  /\ down = [c \in Clients |-> <<>>]
  /\ up = [s \in Sockets |-> <<>>]
  /\ view = [c \in Clients |-> Unaware]
  /\ online = Clients
  /\ told = Clients

\* broadcast: every connection's channel gets the message, under the mutex.
Broadcast(type, r, slot) ==
  down' = [c \in Clients |->
             IF c \in online
             THEN Append(down[c], [type |-> type, round |-> r, winner |-> Shown(slot)])
             ELSE down[c]]

\* Two faulty variants of definitions below, never used: a stop_answer that
\* names the hub's round, which has just been cleared, and a client that only
\* takes the winner from it.
SayStopOfHub(h) ==
  /\ StopSay(h)
  /\ Broadcast("stop_answer", current, seen[h])
  /\ UNCHANGED <<up, view, online, told>>

StopShowsWinnerOnly(v, m) ==
  CASE m.type = "allow_answer"  -> [round |-> m.round, winner |-> {}]
    [] m.type = "stop_answer"   -> [v EXCEPT !.winner = IF m.winner = {} THEN @ ELSE m.winner]
    [] m.type = "answer_winner" -> [v EXCEPT !.winner = m.winner]

\* broadcast_allow_answer, answer_winner and broadcast_stop_answer.
SayAllow(h) ==
  /\ StartAllow(h)
  /\ Broadcast("allow_answer", target[h], {})
  /\ told' = online
  /\ UNCHANGED <<up, view, online>>

SayStop(h) ==
  /\ StopSay(h)
  /\ Broadcast("stop_answer", target[h], seen[h])
  /\ UNCHANGED <<up, view, online, told>>

SayWinner(s) ==
  /\ AnswerAnnounce(s)
  /\ Broadcast("answer_winner", candidate[s].round, {candidate[s]})
  /\ UNCHANGED <<up, view, online, told>>

\* handleServerMsg does not look at the round_id of stop_answer and
\* answer_winner; a stop_answer without a winner leaves the one shown.
Shows(v, m) ==
  CASE m.type = "allow_answer"  -> [round |-> m.round, winner |-> {}]
    [] m.type = "stop_answer"   -> [round |-> NoRound,
                                    winner |-> IF m.winner = {} THEN v.winner ELSE m.winner]
    [] m.type = "answer_winner" -> [v EXCEPT !.winner = m.winner]

Deliver(c) ==
  /\ down[c] # <<>>
  /\ view' = [view EXCEPT ![c] = Shows(@, Head(down[c]))]
  /\ down' = [down EXCEPT ![c] = Tail(@)]
  /\ UNCHANGED <<vars, up, online, told>>

\* A press counts while the browser shows a live round without a winner.
Buzz(s, ms) ==
  /\ view[s].round # NoRound
  /\ view[s].winner = {}
  /\ Len(up[s]) < MaxUp
  /\ up' = [up EXCEPT ![s] = Append(@, ms)]
  /\ UNCHANGED <<vars, down, view, online, told>>

\* The player's reader task takes the next answer; without a live round it is
\* refused.
Receive(s) ==
  /\ up[s] # <<>>
  /\ \/ AnswerBegin(s, Head(up[s]))
     \/ pc[s] = "idle" /\ current = NoRound /\ UNCHANGED vars
  /\ up' = [up EXCEPT ![s] = Tail(@)]
  /\ UNCHANGED <<down, view, online, told>>

\* A page is reloaded or closed, or its connection breaks, for good: its round is
\* forgotten, what was on the way to it is gone, its answers still arrive up to
\* some point.  A host request that is under way runs to its end (HostAbandon is
\* the other case).
Leave(c) ==
  /\ c \in online
  /\ online' = online \ {c}
  /\ told' = told \ {c}
  /\ view' = [view EXCEPT ![c] = Unaware]
  /\ down' = [down EXCEPT ![c] = <<>>]
  /\ IF c \in Sockets THEN \E n \in 0..Len(up[c]) : up' = [up EXCEPT ![c] = SubSeq(@, 1, n)]
     ELSE UNCHANGED up
  /\ UNCHANGED vars

\* The reloaded page connects, here only once its old reader task has returned:
\* Welcome and Participants do not mention the live round.
Enter(c) ==
  /\ c \notin online
  /\ c \in Sockets => up[c] = <<>> /\ pc[c] = "idle"
  /\ online' = online \cup {c}
  /\ UNCHANGED <<vars, down, up, view, told>>

\* The host's buttons follow the browser's round.  A stop_round request without
\* a live round only gets an error message.
ClickStart(h) ==
  /\ Host \in online
  /\ view[Host].round = NoRound
  /\ StartBegin(h)
  /\ UNCHANGED clientVars

ClickStop(h) ==
  /\ view[Host].round # NoRound
  /\ StopRead(h)
  /\ UNCHANGED clientVars

----------------------------------------------------------------------------
ReaderWork(s) ==
  \/ Receive(s) \/ SayWinner(s)
  \/ /\ \/ AnswerCheck(s) \/ AnswerRefused(s) \/ AnswerInsert(s) \/ AnswerUpdate(s)
        \/ AnswerLost(s) \/ AnswerUnreported(s) \/ AnswerDecide(s) \/ AnswerTooLate(s)
     /\ UNCHANGED clientVars

HostWork(h) ==
  \/ SayAllow(h) \/ SayStop(h)
  \/ /\ \/ StartEnable(h) \/ StartStopOpen(h) \/ StartInsert(h) \/ StartArm(h)
        \/ StopPersist(h) \/ StopClear(h)
     /\ UNCHANGED clientVars

BuzzerNext ==
  \/ \E s \in Sockets : ReaderWork(s) \/ \E ms \in {e \in ElapsedMs : e >= 0} : Buzz(s, ms)
  \/ \E h \in Requests : ClickStart(h) \/ ClickStop(h) \/ HostWork(h)
  \/ \E enabled \in BOOLEAN : SetAnswers(enabled) /\ UNCHANGED clientVars
  \/ \E c \in Clients : Deliver(c) \/ Leave(c) \/ Enter(c)

BuzzerSpec == BuzzerInit /\ [][BuzzerNext]_allVars

\* The runtime schedules every task that can run and the network delivers what
\* was sent to a page that stays; nobody has to press, click, toggle, leave or
\* come back.
Fairness ==
  /\ \A s \in Sockets : WF_allVars(ReaderWork(s))
  /\ \A h \in Requests : WF_allVars(HostWork(h))
  /\ \A c \in Clients : WF_allVars(Deliver(c))

FairBuzzerSpec == BuzzerSpec /\ Fairness

----------------------------------------------------------------------------
(* Properties *)

\* Nothing is on its way from the server.
Quiet ==
  /\ \A h \in Requests : hpc[h] = "idle"
  /\ \A s \in Sockets : pc[s] # "announce"
  /\ \A c \in Clients : down[c] = <<>>

\* messages.rs: allow_answer means "players should arm their answer button",
\* stop_answer that the server is "accepting no more": once everything is
\* delivered the round of every browser that was connected when it began is the
\* hub's, whoever connected later shows none, no buzzer is armed for a round that
\* has ended and the host's buttons match.  It takes a host who waits for
\* each answer: the stop_answer of one request may overtake the allow_answer of
\* another, and clients do not compare their round ids.
RoundViewsAgree ==
  Quiet => \A c \in online : view[c].round = (IF c \in told THEN current ELSE NoRound)

\* messages.rs on answer_winner: "everyone updates UI accordingly", so once
\* everything is delivered the winner on the screens is the holder of the slot.
\* The message leaves after the mutex is released: the one of a better answer
\* may overtake the one it displaces.
WinnerViewsAgree ==
  Quiet /\ current # NoRound => \A c \in told : view[c].winner = Shown(winner)

\* An answer that reaches the server while a round is live is not lost: unless
\* the host ends that round, switches answers off or the player leaves, the slot
\* gets a winner.
BuzzCounts ==
  \A s \in Sockets, r \in RoundIds :
    up[s] # <<>> /\ current = r ~>
      winner # {} \/ current # r \/ ~answersEnabled \/ s \notin online
=============================================================================
