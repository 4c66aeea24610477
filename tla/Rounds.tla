------------------------------- MODULE Rounds -------------------------------
(***************************************************************************)
(* The buzzer of one session: the round the hub holds in memory            *)
(* (SessionRuntime.current_round), the rounds and answers tables, the      *)
(* handle_answer tasks of the players' sockets and the host's start_round, *)
(* stop_round and answers_enabled requests.                                *)
(*                                                                         *)
(* A step of a task is what it does between two points where another task  *)
(* can run: one SQL statement, or one critical section under the runtime's *)
(* mutex.  Replies to the caller alone (error messages, HTTP bodies) and   *)
(* session_state broadcasts change nothing here and are left out.          *)
(* The three round messages leave in steps of their own (AnswerAnnounce,   *)
(* StartAllow, StopSay); module Buzzer adds the clients' channels they go  *)
(* into and the browsers that read them.  The session row itself stays     *)
(* open: ending a session is another component.                            *)
(***************************************************************************)
EXTENDS AnswerOrder

CONSTANTS
  Players,   \* participant ids (UUIDs, compared by answer_is_better)
  Sockets,   \* WebSocket reader tasks; a player may have several (tabs, reloads)
  Owner,     \* Owner[s] is the player socket s was opened for
  Requests,  \* slots for concurrent host requests
  RoundIds,  \* ids Uuid::new_v4 may give to a round
  NoRound,   \* no round
  ElapsedMs, \* values of elapsed_ms in a client's answer
  Times,     \* readings of the database clock
  Faults     \* may statements fail and clients abandon their requests?

ASSUME ConstantsAssumption ==
  /\ Players \subseteq Int
  /\ Owner \in [Sockets -> Players]
  /\ NoRound \notin RoundIds
  /\ ElapsedMs \subseteq Int
  /\ Times \subseteq Int
  /\ Faults \in BOOLEAN

VARIABLES
  answersEnabled, \* sessions.answers_enabled
  rounds,         \* the rounds table
  answers,        \* the answers table, a set of rows
  lost,           \* history: rows whose statement was reported as failed
  current,        \* current_round.round_id, or NoRound
  winner,         \* current_round.winner, a set of at most one row
  pc, candidate,  \* each reader task: where it is, the answer it carries
  hpc, target,    \* each host request: where it is, the round it is about
  seen            \* the winner a stop_round request has read

dbVars == <<answersEnabled, rounds, answers, lost>>
hubVars == <<current, winner>>
readerVars == <<pc, candidate>>
hostVars == <<hpc, target, seen>>
vars == <<dbVars, hubVars, readerVars, hostVars>>

----------------------------------------------------------------------------
(* Types *)

Row == [round : RoundIds \cup {NoRound}, participant : Players,
        elapsed : {0} \cup {ms \in ElapsedMs : ms >= 0}, received : {0} \cup Times]

Slot == {{}} \cup {{a} : a \in Row}

WinnerIds == {{}} \cup {{p} : p \in Players}

RoundRow == [state : {"absent", "open", "stopped"}, winner_id : WinnerIds]

ReaderSteps == {"idle", "check", "record", "decide", "announce"}

HostSteps == {"idle", "enable", "stop_open", "insert", "arm", "allow",
              "persist", "clear", "say"}

\* The state is well formed; a negative elapsed_ms gets no further than the wire.
TypeOK ==
  /\ answersEnabled \in BOOLEAN
  /\ rounds \in [RoundIds -> RoundRow]
  /\ answers \subseteq Row
  /\ lost \subseteq Row
  /\ current \in RoundIds \cup {NoRound}
  /\ winner \in Slot
  /\ pc \in [Sockets -> ReaderSteps]
  /\ candidate \in [Sockets -> Row]
  /\ hpc \in [Requests -> HostSteps]
  /\ target \in [Requests -> RoundIds \cup {NoRound}]
  /\ seen \in [Requests -> Slot]

----------------------------------------------------------------------------
(* Helpers *)

Blank(s) == [round |-> NoRound, participant |-> Owner[s], elapsed |-> 0, received |-> 0]

ReaderGoto(s, step) == pc' = [pc EXCEPT ![s] = step]

ReaderReturn(s) ==
  /\ pc' = [pc EXCEPT ![s] = "idle"]
  /\ candidate' = [candidate EXCEPT ![s] = Blank(s)]

HostGoto(h, step) == hpc' = [hpc EXCEPT ![h] = step]

HostReturn(h) ==
  /\ hpc' = [hpc EXCEPT ![h] = "idle"]
  /\ target' = [target EXCEPT ![h] = NoRound]
  /\ seen' = [seen EXCEPT ![h] = {}]

Least(x, y) == IF x < y THEN x ELSE y

\* The row the unique index (round_id, participant_id) lets a candidate meet.
SameKey(a, b) == a.round = b.round /\ a.participant = b.participant

----------------------------------------------------------------------------
(* Faulty variants of the steps below, never part of Next: each is a mistake  *)
(* the code could plausibly contain, and breaks one of the properties.        *)

NoNegativeCheck(s, ms) ==
  /\ pc[s] = "idle"
  /\ current # NoRound
  /\ ReaderGoto(s, "check")
  /\ candidate' = [candidate EXCEPT ![s].round = current, ![s].elapsed = ms]
  /\ UNCHANGED <<dbVars, hubVars, hostVars>>

InsertWithoutConflict(s) ==
  /\ pc[s] = "record"
  /\ \E now \in Times :
       /\ candidate' = [candidate EXCEPT ![s].received = now]
       /\ answers' = answers \cup {candidate'[s]}
  /\ ReaderGoto(s, "decide")
  /\ UNCHANGED <<answersEnabled, rounds, lost, hubVars, hostVars>>

UpdateRestamps(s) ==
  /\ pc[s] = "record"
  /\ \E a \in answers, now \in Times :
       /\ SameKey(a, candidate[s])
       /\ candidate' = [candidate EXCEPT ![s].received = now]
       /\ answers' = (answers \ {a}) \cup
                       {[a EXCEPT !.elapsed = Least(@, candidate[s].elapsed)]}
  /\ lost' = lost \cap answers'
  /\ ReaderGoto(s, "decide")
  /\ UNCHANGED <<answersEnabled, rounds, hubVars, hostVars>>

DecideForAnyRound(s) ==
  /\ pc[s] = "decide"
  /\ current # NoRound
  /\ winner' = Settle(winner, candidate[s])
  /\ IF winner' = winner THEN ReaderReturn(s)
     ELSE ReaderGoto(s, "announce") /\ UNCHANGED candidate
  /\ UNCHANGED <<dbVars, current, hostVars>>

ArmOnlyIfIdle(h) ==
  /\ hpc[h] = "arm"
  /\ IF current = NoRound THEN current' = target[h] /\ winner' = {}
     ELSE UNCHANGED hubVars
  /\ HostGoto(h, "allow")
  /\ UNCHANGED <<dbVars, readerVars, target, seen>>

PersistWithoutGuard(h) ==
  /\ hpc[h] = "persist"
  /\ rounds' = [rounds EXCEPT ![target[h]] =
                  [state |-> "stopped", winner_id |-> {w.participant : w \in seen[h]}]]
  /\ HostGoto(h, "clear")
  /\ UNCHANGED <<answersEnabled, answers, lost, hubVars, readerVars, target, seen>>

PersistRereadsSlot(h) ==
  /\ hpc[h] = "persist"
  /\ IF rounds[target[h]].state = "open"
     THEN rounds' = [rounds EXCEPT ![target[h]] =
                       [state |-> "stopped",
                        winner_id |-> {w.participant : w \in winner}]]
     ELSE UNCHANGED rounds
  /\ HostGoto(h, "clear")
  /\ UNCHANGED <<answersEnabled, answers, lost, hubVars, readerVars, target, seen>>

ClearForgotten(h) ==
  /\ hpc[h] = "clear"
  /\ HostGoto(h, "say")
  /\ UNCHANGED <<dbVars, hubVars, readerVars, target, seen>>

----------------------------------------------------------------------------
Init ==
  /\ answersEnabled = FALSE
  /\ rounds = [r \in RoundIds |-> [state |-> "absent", winner_id |-> {}]]
  /\ answers = {}
  /\ lost = {}
  /\ current = NoRound
  /\ winner = {}
  /\ pc = [s \in Sockets |-> "idle"]
  /\ candidate = [s \in Sockets |-> Blank(s)]
  /\ hpc = [h \in Requests |-> "idle"]
  /\ target = [h \in Requests |-> NoRound]
  /\ seen = [h \in Requests |-> {}]

----------------------------------------------------------------------------
(* handle_answer, run by the reader task of a player's socket *)

\* A non-negative answer while a round is current; anything else is refused
\* with an error message.
AnswerBegin(s, ms) ==
  /\ pc[s] = "idle"
  /\ ms >= 0
  /\ current # NoRound
  /\ ReaderGoto(s, "check")
  /\ candidate' = [candidate EXCEPT ![s].round = current, ![s].elapsed = ms]
  /\ UNCHANGED <<dbVars, hubVars, hostVars>>

\* The cross-check of answers_enabled lets the answer through when the
\* session row cannot be read.
AnswerCheck(s) ==
  /\ pc[s] = "check"
  /\ answersEnabled \/ Faults
  /\ ReaderGoto(s, "record")
  /\ UNCHANGED <<dbVars, hubVars, candidate, hostVars>>

AnswerRefused(s) ==
  /\ pc[s] = "check"
  /\ ~answersEnabled
  /\ ReaderReturn(s)
  /\ UNCHANGED <<dbVars, hubVars, hostVars>>

\* INSERT ... ON CONFLICT DO UPDATE ... RETURNING server_received: the first
\* answer of a player is stamped with the database clock (which may tie or step
\* back), a further one keeps that timestamp and the smaller time.  The
\* candidate takes the row's timestamp but its own elapsed_ms.
\* (A row that is replaced leaves the history of lost ones.)
AnswerInsert(s) ==
  /\ pc[s] = "record"
  /\ ~\E a \in answers : SameKey(a, candidate[s])
  /\ \E now \in Times :
       /\ candidate' = [candidate EXCEPT ![s].received = now]
       /\ answers' = answers \cup {candidate'[s]}
  /\ ReaderGoto(s, "decide")
  /\ UNCHANGED <<answersEnabled, rounds, lost, hubVars, hostVars>>

AnswerUpdate(s) ==
  /\ pc[s] = "record"
  /\ \E a \in answers :
       /\ SameKey(a, candidate[s])
       /\ candidate' = [candidate EXCEPT ![s].received = a.received]
       /\ answers' = (answers \ {a}) \cup
                       {[a EXCEPT !.elapsed = Least(@, candidate[s].elapsed)]}
  /\ lost' = lost \cap answers'
  /\ ReaderGoto(s, "decide")
  /\ UNCHANGED <<answersEnabled, rounds, hubVars, hostVars>>

AnswerLost(s) ==
  /\ Faults
  /\ pc[s] = "record"
  /\ ReaderReturn(s)
  /\ UNCHANGED <<dbVars, hubVars, hostVars>>

\* The statement is committed but its reply is lost: the task reports a failure
\* and returns, the row stays.
AnswerUnreported(s) ==
  /\ Faults
  /\ pc[s] = "decide"
  /\ lost' = lost \cup {a \in answers : /\ SameKey(a, candidate[s])
                                       /\ a.elapsed = candidate[s].elapsed}
  /\ ReaderReturn(s)
  /\ UNCHANGED <<answersEnabled, rounds, answers, hubVars, hostVars>>

\* "Atomically decide the winner": under the mutex, for the round read at the
\* beginning only.
AnswerDecide(s) ==
  /\ pc[s] = "decide"
  /\ current = candidate[s].round
  /\ winner' = Settle(winner, candidate[s])
  /\ IF winner' = winner THEN ReaderReturn(s)
     ELSE ReaderGoto(s, "announce") /\ UNCHANGED candidate
  /\ UNCHANGED <<dbVars, current, hostVars>>

AnswerTooLate(s) ==
  /\ pc[s] = "decide"
  /\ current # candidate[s].round
  /\ ReaderReturn(s)
  /\ UNCHANGED <<dbVars, hubVars, hostVars>>

AnswerAnnounce(s) ==
  /\ pc[s] = "announce"
  /\ ReaderReturn(s)
  /\ UNCHANGED <<dbVars, hubVars, hostVars>>

----------------------------------------------------------------------------
(* Host requests *)

SetAnswers(enabled) ==
  /\ answersEnabled' = enabled
  /\ UNCHANGED <<rounds, answers, lost, hubVars, readerVars, hostVars>>

\* start_round: assert_host returns the row whose answers_enabled is tested.
StartBegin(h) ==
  /\ hpc[h] = "idle"
  /\ HostGoto(h, IF answersEnabled THEN "stop_open" ELSE "enable")
  /\ UNCHANGED <<dbVars, hubVars, readerVars, target, seen>>

StartEnable(h) ==
  /\ hpc[h] = "enable"
  /\ answersEnabled' = TRUE
  /\ HostGoto(h, "stop_open")
  /\ UNCHANGED <<rounds, answers, lost, hubVars, readerVars, target, seen>>

\* db::start_round, two statements without a transaction.
StartStopOpen(h) ==
  /\ hpc[h] = "stop_open"
  /\ rounds' = [r \in RoundIds |->
                  IF rounds[r].state = "open"
                  THEN [rounds[r] EXCEPT !.state = "stopped"] ELSE rounds[r]]
  /\ HostGoto(h, "insert")
  /\ UNCHANGED <<answersEnabled, answers, lost, hubVars, readerVars, target, seen>>

StartInsert(h) ==
  /\ hpc[h] = "insert"
  /\ \E r \in RoundIds :
       /\ rounds[r].state = "absent"
       /\ rounds' = [rounds EXCEPT ![r].state = "open"]
       /\ target' = [target EXCEPT ![h] = r]
  /\ HostGoto(h, "arm")
  /\ UNCHANGED <<answersEnabled, answers, lost, hubVars, readerVars, seen>>

\* broadcast_allow_answer: the slot is replaced under the mutex, the message
\* goes out under a second lock.
StartArm(h) ==
  /\ hpc[h] = "arm"
  /\ current' = target[h]
  /\ winner' = {}
  /\ HostGoto(h, "allow")
  /\ UNCHANGED <<dbVars, readerVars, target, seen>>

StartAllow(h) ==
  /\ hpc[h] = "allow"
  /\ HostReturn(h)
  /\ UNCHANGED <<dbVars, hubVars, readerVars>>

\* stop_round: the round and its winner so far are read under the mutex ...
StopRead(h) ==
  /\ hpc[h] = "idle"
  /\ current # NoRound
  /\ target' = [target EXCEPT ![h] = current]
  /\ seen' = [seen EXCEPT ![h] = winner]
  /\ HostGoto(h, "persist")
  /\ UNCHANGED <<dbVars, hubVars, readerVars>>

\* ... written to the round's row unless that was stopped before ...
StopPersist(h) ==
  /\ hpc[h] = "persist"
  /\ IF rounds[target[h]].state = "open"
     THEN rounds' = [rounds EXCEPT ![target[h]] =
                       [state |-> "stopped",
                        winner_id |-> {w.participant : w \in seen[h]}]]
     ELSE UNCHANGED rounds
  /\ HostGoto(h, "clear")
  /\ UNCHANGED <<answersEnabled, answers, lost, hubVars, readerVars, target, seen>>

\* ... and broadcast_stop_answer empties the slot if it is still that round's.
StopClear(h) ==
  /\ hpc[h] = "clear"
  /\ IF current = target[h] THEN current' = NoRound /\ winner' = {}
     ELSE UNCHANGED hubVars
  /\ HostGoto(h, "say")
  /\ UNCHANGED <<dbVars, readerVars, target, seen>>

StopSay(h) ==
  /\ hpc[h] = "say"
  /\ HostReturn(h)
  /\ UNCHANGED <<dbVars, hubVars, readerVars>>

\* A statement fails and `?` returns, or the HTTP client goes away and the
\* handler is dropped at its next await.
HostAbandon(h) ==
  /\ Faults
  /\ hpc[h] # "idle"
  /\ HostReturn(h)
  /\ UNCHANGED <<dbVars, hubVars, readerVars>>

\* The process stops and starts again: the tables stay, the hub, the tasks and
\* the channels are gone.
Restart ==
  /\ Faults
  /\ current' = NoRound
  /\ winner' = {}
  /\ pc' = [s \in Sockets |-> "idle"]
  /\ candidate' = [s \in Sockets |-> Blank(s)]
  /\ hpc' = [h \in Requests |-> "idle"]
  /\ target' = [h \in Requests |-> NoRound]
  /\ seen' = [h \in Requests |-> {}]
  /\ UNCHANGED dbVars

----------------------------------------------------------------------------
ReaderStep(s) ==
  \/ AnswerCheck(s) \/ AnswerRefused(s)
  \/ AnswerInsert(s) \/ AnswerUpdate(s) \/ AnswerLost(s) \/ AnswerUnreported(s)
  \/ AnswerDecide(s) \/ AnswerTooLate(s) \/ AnswerAnnounce(s)

HostStep(h) ==
  \/ StartEnable(h) \/ StartStopOpen(h) \/ StartInsert(h) \/ StartArm(h) \/ StartAllow(h)
  \/ StopPersist(h) \/ StopClear(h) \/ StopSay(h)

Next ==
  \/ \E s \in Sockets : \/ \E ms \in ElapsedMs : AnswerBegin(s, ms)
                        \/ ReaderStep(s)
  \/ \E enabled \in BOOLEAN : SetAnswers(enabled)
  \/ \E h \in Requests : StartBegin(h) \/ StopRead(h) \/ HostStep(h) \/ HostAbandon(h)
  \/ Restart

Spec == Init /\ [][Next]_vars

----------------------------------------------------------------------------
(* Properties *)

\* A recorded answer some task still has to bring before the winner slot.
Unsettled(a) ==
  \E s \in Sockets : /\ pc[s] = "decide"
                     /\ SameKey(candidate[s], a)
                     /\ candidate[s].elapsed = a.elapsed

\* The slot of the live round holds the best answer on record: no row of the
\* answers table beats it (lower elapsed_ms, then earlier, then smaller id),
\* except rows whose task has not reached the slot yet and rows whose statement
\* was reported as failed.  This is what reading the round, recording and
\* deciding in three separate steps could break.
WinnerIsBest ==
  \A a \in answers \ lost :
    a.round = current => Unsettled(a) \/ \E w \in winner : ~answer_is_better(a, w)

OnRecord(e) ==
  \E a \in answers : /\ SameKey(a, e)
                     /\ a.received = e.received
                     /\ a.elapsed <= e.elapsed

\* Whoever is shown as the winner, in the slot, in an answer_winner about to be
\* broadcast or in the hands of a stop_round request, has a row in the answers
\* table of that round that is at least as good.
WinnerOnRecord ==
  /\ \A w \in winner : w.round = current /\ OnRecord(w)
  /\ \A s \in Sockets : pc[s] = "announce" => OnRecord(candidate[s])
  /\ \A h \in Requests : \A w \in seen[h] : w.round = target[h] /\ OnRecord(w)

\* rounds.winner_id is only ever set when the round is stopped, and to a player
\* whose answer to that very round is on record.
PersistedWinnerAnswered ==
  \A r \in RoundIds : \A p \in rounds[r].winner_id :
    /\ rounds[r].state = "stopped"
    /\ \E a \in answers : a.round = r /\ a.participant = p

\* When stop_answer goes out for a round, the round's row is stopped, the hub
\* does not hold it, and no start_round request is about to install it.
StopIsFinal ==
  \A h \in Requests : hpc[h] = "say" =>
    /\ rounds[target[h]].state = "stopped"
    /\ current # target[h]
    /\ \A k \in Requests : hpc[k] = "arm" => target[k] # target[h]

\* A stopped round's row never changes again: racing stop_round requests cannot
\* overwrite the winner that was persisted first, nor can a round reopen.
StoppedRoundsFrozen ==
  [][\A r \in RoundIds : rounds[r].state = "stopped" => rounds'[r] = rounds[r]]_vars

\* The rounds no start_round request will install any more.
Spent == {r \in RoundIds : /\ rounds[r].state # "absent"
                           /\ \A h \in Requests : hpc[h] = "arm" => target[h] # r}

\* The hub implements the abstract winner slot.
Slots == INSTANCE AnswerSlot
           WITH live <- current, best <- winner, spent <- Spent, Entries <- Row
ImplementsSlot == Slots!Spec

\* db.rs: "Stop any ongoing round first to keep history clean": between two
\* requests of a host who waits for each answer, the table and the hub tell the
\* same story: the row of the hub's round is open, every other round is stopped.
\* (Two start_round requests at a time would leave two rows open.)
HubMatchesTable ==
  (\A h \in Requests : hpc[h] = "idle") =>
    \A r \in RoundIds : rounds[r].state = "open" <=> r = current

\* README.md: "Answer evaluation is deterministic: lower client elapsed_ms wins",
\* so when stop_round takes the round from the hub its row names the holder of
\* the slot.  It does not when a better answer settles between StopRead and
\* StopClear: answer_winner announces one player, the table and stop_answer
\* name another.
PersistedWinnerIsFinal ==
  [][current # NoRound /\ current' = NoRound =>
       rounds[current].winner_id = {w.participant : w \in winner}]_vars

----------------------------------------------------------------------------
(* The inductive invariant behind the theorems of RoundsProofs *)

Started(r) == r \in RoundIds /\ rounds[r].state # "absent"

\* uq_answers_round_participant.
UniqueAnswers == \A a, b \in answers : SameKey(a, b) => a = b

\* A reader task carries a round that exists, and once past the upsert its
\* candidate is on record.
ReadersConsistent ==
  \A s \in Sockets :
    /\ candidate[s].participant = Owner[s]
    /\ (pc[s] = "idle") <=> (candidate[s].round = NoRound)
    /\ pc[s] # "idle" => Started(candidate[s].round)
    /\ pc[s] \in {"decide", "announce"} => OnRecord(candidate[s])

HubConsistent ==
  /\ IF current = NoRound THEN winner = {} ELSE Started(current)
  /\ \A a \in answers : Started(a.round)

HostsConsistent ==
  \A h \in Requests :
    /\ hpc[h] \in {"idle", "enable", "stop_open", "insert"} => target[h] = NoRound
    /\ hpc[h] \in {"arm", "allow", "persist", "clear", "say"} => Started(target[h])
    /\ hpc[h] \in {"clear", "say"} => rounds[target[h]].state = "stopped"

\* A round that is about to be installed has never been live: nothing refers to
\* it but the request that inserted it.
ArmedOnce ==
  \A h \in Requests : hpc[h] = "arm" =>
    /\ current # target[h]
    /\ \A a \in answers : a.round # target[h]
    /\ \A s \in Sockets : candidate[s].round # target[h]
    /\ \A k \in Requests \ {h} : target[k] # target[h]

IInv ==
  /\ TypeOK
  /\ UniqueAnswers /\ ReadersConsistent /\ HubConsistent /\ HostsConsistent /\ ArmedOnce
  /\ WinnerIsBest /\ WinnerOnRecord /\ PersistedWinnerAnswered /\ StopIsFinal
=============================================================================
