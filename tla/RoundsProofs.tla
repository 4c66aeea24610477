---------------------------- MODULE RoundsProofs ----------------------------
(***************************************************************************)
(* Proofs about Rounds, for any number of players, sockets, concurrent     *)
(* host requests and rounds, with or without faults and restarts.          *)
(***************************************************************************)
EXTENDS Rounds, AnswerOrderProofs

USE ConstantsAssumption

Ms == {0} \cup {ms \in ElapsedMs : ms >= 0}

----------------------------------------------------------------------------
(* Type correctness *)

LEMMA RowFields ==
  ASSUME NEW a \in Row
  PROVE  /\ a.round \in RoundIds \cup {NoRound}
         /\ a.participant \in Players /\ a.participant \in Int
         /\ a.elapsed \in Ms /\ a.elapsed \in Int
         /\ a.received \in {0} \cup Times /\ a.received \in Int
  <1>1. /\ a.round \in RoundIds \cup {NoRound} /\ a.participant \in Players
        /\ a.elapsed \in Ms /\ a.received \in {0} \cup Times
    BY DEF Row, Ms
  <1>2. a.participant \in Int  BY <1>1
  <1>3. \A i \in Ms : i \in Int  BY DEF Ms
  <1>4. \A i \in {0} \cup Times : i \in Int  OBVIOUS
  <1>. QED  BY <1>1, <1>2, <1>3, <1>4

LEMMA BlankIsRow == \A s \in Sockets : Blank(s) \in Row
  BY DEF Blank, Row

LEMMA BlankFields ==
  ASSUME NEW s \in Sockets
  PROVE  Blank(s).round = NoRound /\ Blank(s).participant = Owner[s]
  BY DEF Blank

LEMMA SettleIsSlot ==
  ASSUME NEW slot \in Slot, NEW c \in Row
  PROVE  Settle(slot, c) \in Slot
  BY DEF Settle, Slot

LEMMA ReaderReturnType ==
  ASSUME TypeOK, NEW s \in Sockets, ReaderReturn(s)
  PROVE  pc' \in [Sockets -> ReaderSteps] /\ candidate' \in [Sockets -> Row]
  BY BlankIsRow DEF TypeOK, ReaderReturn, ReaderSteps

LEMMA HostReturnType ==
  ASSUME TypeOK, NEW h \in Requests, HostReturn(h)
  PROVE  /\ hpc' \in [Requests -> HostSteps]
         /\ target' \in [Requests -> RoundIds \cup {NoRound}]
         /\ seen' \in [Requests -> Slot]
  BY DEF TypeOK, HostReturn, HostSteps, Slot

LEMMA ReaderTypes ==
  ASSUME TypeOK, NEW s \in Sockets, ReaderStep(s)
  PROVE  TypeOK'
  <1> USE DEF dbVars, hubVars, readerVars, hostVars
  <1>1. CASE AnswerCheck(s)
    BY <1>1 DEF AnswerCheck, ReaderGoto, TypeOK, ReaderSteps
  <1>2. CASE AnswerRefused(s)
    BY <1>2, ReaderReturnType DEF AnswerRefused, TypeOK
  <1>3. CASE AnswerInsert(s)
    <2>1. PICK now \in Times : /\ candidate' = [candidate EXCEPT ![s].received = now]
                               /\ answers' = answers \cup {candidate'[s]}
      BY <1>3 DEF AnswerInsert
    <2>2. candidate' \in [Sockets -> Row]
      BY <2>1 DEF TypeOK, Row
    <2>. QED  BY <1>3, <2>1, <2>2 DEF AnswerInsert, ReaderGoto, TypeOK, ReaderSteps
  <1>4. CASE AnswerUpdate(s)
    <2>1. PICK a \in answers :
            /\ candidate' = [candidate EXCEPT ![s].received = a.received]
            /\ answers' = (answers \ {a}) \cup
                            {[a EXCEPT !.elapsed = Least(@, candidate[s].elapsed)]}
      BY <1>4 DEF AnswerUpdate
    <2>2. a \in Row /\ candidate[s] \in Row  BY DEF TypeOK
    <2>3. candidate' \in [Sockets -> Row]
      BY <2>1, <2>2 DEF TypeOK, Row
    <2>4. [a EXCEPT !.elapsed = Least(@, candidate[s].elapsed)] \in Row
      BY <2>2 DEF Row, Least
    <2>. QED  BY <1>4, <2>1, <2>3, <2>4 DEF AnswerUpdate, ReaderGoto, TypeOK, ReaderSteps
  <1>5. CASE AnswerLost(s)
    BY <1>5, ReaderReturnType DEF AnswerLost, TypeOK
  <1>6. CASE AnswerDecide(s)
    <2>1. winner' \in Slot  BY <1>6, SettleIsSlot DEF AnswerDecide, TypeOK
    <2>2. pc' \in [Sockets -> ReaderSteps] /\ candidate' \in [Sockets -> Row]
      BY <1>6, ReaderReturnType DEF AnswerDecide, ReaderGoto, TypeOK, ReaderSteps
    <2>. QED  BY <1>6, <2>1, <2>2 DEF AnswerDecide, TypeOK
  <1>7. CASE AnswerTooLate(s)
    BY <1>7, ReaderReturnType DEF AnswerTooLate, TypeOK
  <1>8. CASE AnswerAnnounce(s)
    BY <1>8, ReaderReturnType DEF AnswerAnnounce, TypeOK
  <1>9. CASE AnswerUnreported(s)
    <2>1. lost' \subseteq Row  BY <1>9 DEF AnswerUnreported, TypeOK
    <2>. QED  BY <1>9, <2>1, ReaderReturnType DEF AnswerUnreported, TypeOK
  <1>. QED  BY <1>1, <1>2, <1>3, <1>4, <1>5, <1>6, <1>7, <1>8, <1>9 DEF ReaderStep

LEMMA HostTypes ==
  ASSUME TypeOK, NEW h \in Requests,
         StartBegin(h) \/ StopRead(h) \/ HostStep(h) \/ HostAbandon(h)
  PROVE  TypeOK'
  <1> USE DEF dbVars, hubVars, readerVars, hostVars, HostSteps
  <1>1. CASE StartBegin(h)
    BY <1>1 DEF StartBegin, HostGoto, TypeOK
  <1>2. CASE StartEnable(h)
    BY <1>2 DEF StartEnable, HostGoto, TypeOK
  <1>3. CASE StartStopOpen(h)
    <2>1. rounds' \in [RoundIds -> RoundRow]
      BY <1>3 DEF StartStopOpen, TypeOK, RoundRow
    <2>. QED  BY <1>3, <2>1 DEF StartStopOpen, HostGoto, TypeOK
  <1>4. CASE StartInsert(h)
    <2>1. rounds' \in [RoundIds -> RoundRow]
      BY <1>4 DEF StartInsert, TypeOK, RoundRow
    <2>. QED  BY <1>4, <2>1 DEF StartInsert, HostGoto, TypeOK
  <1>5. CASE StartArm(h)
    BY <1>5 DEF StartArm, HostGoto, TypeOK, Slot
  <1>6. CASE StartAllow(h)
    BY <1>6, HostReturnType DEF StartAllow, TypeOK
  <1>7. CASE StopRead(h)
    BY <1>7 DEF StopRead, HostGoto, TypeOK
  <1>8. CASE StopPersist(h)
    <2>1. {w.participant : w \in seen[h]} \in WinnerIds
      <3>1. seen[h] \in Slot  BY DEF TypeOK
      <3>2. CASE seen[h] = {}  BY <3>2 DEF WinnerIds
      <3>3. ASSUME NEW a \in Row, seen[h] = {a}
            PROVE  {w.participant : w \in seen[h]} \in WinnerIds
        <4>1. {w.participant : w \in seen[h]} = {a.participant}  BY <3>3
        <4>. QED  BY <4>1, RowFields DEF WinnerIds
      <3>. QED  BY <3>1, <3>2, <3>3 DEF Slot
    <2>2. rounds' \in [RoundIds -> RoundRow]
      <3>1. CASE rounds[target[h]].state = "open"
        <4> DEFINE row == [state |-> "stopped",
                           winner_id |-> {w.participant : w \in seen[h]}]
        <4>1. row \in RoundRow  BY <2>1 DEF RoundRow
        <4>2. rounds' = [rounds EXCEPT ![target[h]] = row]
          BY <1>8, <3>1 DEF StopPersist
        <4>3. rounds \in [RoundIds -> RoundRow]  BY DEF TypeOK
        <4> HIDE DEF row
        <4>. QED  BY <4>1, <4>2, <4>3
      <3>2. CASE rounds[target[h]].state # "open"
        BY <1>8, <3>2 DEF StopPersist, TypeOK
      <3>. QED  BY <3>1, <3>2
    <2>. QED  BY <1>8, <2>2 DEF StopPersist, HostGoto, TypeOK
  <1>9. CASE StopClear(h)
    BY <1>9 DEF StopClear, HostGoto, TypeOK, Slot
  <1>10. CASE StopSay(h)
    BY <1>10, HostReturnType DEF StopSay, TypeOK
  <1>11. CASE HostAbandon(h)
    BY <1>11, HostReturnType DEF HostAbandon, TypeOK
  <1>. QED
    BY <1>1, <1>2, <1>3, <1>4, <1>5, <1>6, <1>7, <1>8, <1>9, <1>10, <1>11 DEF HostStep

LEMMA InitTypes == Init => TypeOK
  <1> SUFFICES ASSUME Init PROVE TypeOK  OBVIOUS
  <1>1. rounds \in [RoundIds -> RoundRow]
    <2>1. [state |-> "absent", winner_id |-> {}] \in RoundRow
      BY DEF RoundRow, WinnerIds
    <2>. QED  BY <2>1 DEF Init
  <1>2. /\ answersEnabled \in BOOLEAN /\ answers \subseteq Row /\ lost \subseteq Row
        /\ winner \in Slot
    BY DEF Init, Slot
  <1>3. pc \in [Sockets -> ReaderSteps] /\ candidate \in [Sockets -> Row]
    BY BlankIsRow DEF Init, ReaderSteps
  <1>4. /\ hpc \in [Requests -> HostSteps]
        /\ target \in [Requests -> RoundIds \cup {NoRound}]
        /\ seen \in [Requests -> Slot]
    BY DEF Init, HostSteps, Slot
  <1>5. current \in RoundIds \cup {NoRound}  BY DEF Init
  <1>. QED  BY <1>1, <1>2, <1>3, <1>4, <1>5 DEF TypeOK

LEMMA StepTypes == TypeOK /\ [Next]_vars => TypeOK'
  <1> USE DEF dbVars, hubVars, readerVars, hostVars
  <1> SUFFICES ASSUME TypeOK, [Next]_vars PROVE TypeOK'  OBVIOUS
  <1>1. ASSUME NEW s \in Sockets, NEW ms \in ElapsedMs, AnswerBegin(s, ms)
        PROVE  TypeOK'
    <2> DEFINE row == [candidate[s] EXCEPT !.round = current, !.elapsed = ms]
    <2>1. candidate[s] \in Row /\ current \in RoundIds \cup {NoRound} /\ ms >= 0
      BY <1>1 DEF AnswerBegin, TypeOK
    <2>2. row \in Row  BY <2>1 DEF Row
    <2>3. candidate' = [candidate EXCEPT ![s] = row]  BY <1>1 DEF AnswerBegin
    <2> HIDE DEF row
    <2>4. candidate' \in [Sockets -> Row]  BY <2>2, <2>3 DEF TypeOK
    <2>. QED  BY <1>1, <2>4 DEF AnswerBegin, ReaderGoto, TypeOK, ReaderSteps
  <1>2. ASSUME NEW enabled \in BOOLEAN, SetAnswers(enabled) PROVE TypeOK'
    BY <1>2 DEF SetAnswers, TypeOK
  <1>3. CASE Restart
    BY <1>3, BlankIsRow DEF Restart, TypeOK, Slot, ReaderSteps, HostSteps
  <1>4. CASE UNCHANGED vars
    BY <1>4 DEF vars, TypeOK
  <1>. QED  BY <1>1, <1>2, <1>3, <1>4, ReaderTypes, HostTypes DEF Next

\* The tables, the hub and every task only ever hold values of their types; in
\* particular no negative time is recorded and the winner slot holds one answer.
THEOREM TypeCorrect == Spec => []TypeOK
  BY InitTypes, StepTypes, PTL DEF Spec

----------------------------------------------------------------------------
(* The inductive invariant: effects of the helpers, pointwise *)

LEMMA ReaderGotoEffect ==
  ASSUME TypeOK, NEW s \in Sockets, NEW step, ReaderGoto(s, step)
  PROVE  /\ pc'[s] = step
         /\ \A t \in Sockets \ {s} : pc'[t] = pc[t]
  BY DEF TypeOK, ReaderGoto

LEMMA ReaderReturnEffect ==
  ASSUME TypeOK, NEW s \in Sockets, ReaderReturn(s)
  PROVE  /\ pc'[s] = "idle" /\ candidate'[s] = Blank(s)
         /\ \A t \in Sockets \ {s} : pc'[t] = pc[t] /\ candidate'[t] = candidate[t]
  BY DEF TypeOK, ReaderReturn

LEMMA HostGotoEffect ==
  ASSUME TypeOK, NEW h \in Requests, NEW step, HostGoto(h, step)
  PROVE  /\ hpc'[h] = step
         /\ \A k \in Requests \ {h} : hpc'[k] = hpc[k]
  BY DEF TypeOK, HostGoto

LEMMA HostReturnEffect ==
  ASSUME TypeOK, NEW h \in Requests, HostReturn(h)
  PROVE  /\ hpc'[h] = "idle" /\ target'[h] = NoRound /\ seen'[h] = {}
         /\ \A k \in Requests \ {h} :
              hpc'[k] = hpc[k] /\ target'[k] = target[k] /\ seen'[k] = seen[k]
  BY DEF TypeOK, HostReturn

----------------------------------------------------------------------------
(* ... preserved by the steps of handle_answer *)

\* A task that returns leaves nothing behind, provided it is not the one that
\* still has to settle an answer of the live round, or that answer's statement
\* was reported as failed.
LEMMA ReturnKeepsInv ==
  ASSUME IInv, NEW s \in Sockets, ReaderReturn(s), TypeOK',
         UNCHANGED <<answersEnabled, rounds, answers, hubVars, hostVars>>,
         lost \subseteq lost',
         \/ pc[s] # "decide"
         \/ current # candidate[s].round
         \/ \A a \in answers : SameKey(a, candidate[s]) /\ a.elapsed = candidate[s].elapsed
                                => a \in lost'
  PROVE  IInv'
  <1> USE DEF hubVars, hostVars
  <1>1. /\ pc'[s] = "idle" /\ candidate'[s] = Blank(s)
        /\ \A t \in Sockets \ {s} : pc'[t] = pc[t] /\ candidate'[t] = candidate[t]
    BY ReaderReturnEffect DEF IInv
  <1>2. candidate'[s].round = NoRound /\ candidate'[s].participant = Owner[s]
    BY <1>1 DEF Blank
  <1>3. UniqueAnswers'  BY DEF IInv, UniqueAnswers, SameKey
  <1>4. ReadersConsistent'
    BY <1>1, <1>2 DEF IInv, ReadersConsistent, Started, OnRecord, SameKey
  <1>5. HubConsistent' /\ HostsConsistent'
    BY DEF IInv, HubConsistent, HostsConsistent, Started
  <1>6. ArmedOnce'
    BY <1>1, <1>2 DEF IInv, ArmedOnce, HostsConsistent, Started
  <1>7. WinnerIsBest'
    <2> SUFFICES ASSUME NEW a \in answers \ lost', a.round = current,
                        ~ \E w \in winner : ~answer_is_better(a, w)
                 PROVE  Unsettled(a)'
      BY DEF WinnerIsBest
    <2>1. PICK t \in Sockets : /\ pc[t] = "decide"
                               /\ SameKey(candidate[t], a)
                               /\ candidate[t].elapsed = a.elapsed
      BY DEF IInv, WinnerIsBest, Unsettled
    <2>2. t # s  BY <2>1 DEF SameKey
    <2>. QED  BY <1>1, <2>1, <2>2 DEF Unsettled, SameKey
  <1>8. WinnerOnRecord'
    BY <1>1 DEF IInv, WinnerOnRecord, OnRecord, SameKey
  <1>9. PersistedWinnerAnswered' /\ StopIsFinal'
    BY DEF IInv, PersistedWinnerAnswered, StopIsFinal
  <1>. QED  BY <1>3, <1>4, <1>5, <1>6, <1>7, <1>8, <1>9 DEF IInv

LEMMA BeginKeepsInv ==
  ASSUME IInv, NEW s \in Sockets, NEW ms \in ElapsedMs, AnswerBegin(s, ms), TypeOK'
  PROVE  IInv'
  <1> USE DEF dbVars, hubVars, hostVars
  <1>1. /\ pc[s] = "idle" /\ pc'[s] = "check"
        /\ \A t \in Sockets \ {s} : pc'[t] = pc[t]
    BY ReaderGotoEffect DEF IInv, AnswerBegin
  <1>2. /\ candidate'[s].round = current
        /\ candidate'[s].participant = candidate[s].participant
        /\ \A t \in Sockets \ {s} : candidate'[t] = candidate[t]
    BY DEF IInv, TypeOK, Row, AnswerBegin
  <1>3. UNCHANGED <<answersEnabled, rounds, answers, lost, current, winner, hpc, target, seen>>
        /\ current # NoRound
    BY DEF AnswerBegin
  <1>4. UniqueAnswers'  BY <1>3 DEF IInv, UniqueAnswers, SameKey
  <1>5. ReadersConsistent'
    BY <1>1, <1>2, <1>3 DEF IInv, ReadersConsistent, HubConsistent, Started, OnRecord, SameKey
  <1>6. HubConsistent' /\ HostsConsistent'
    BY <1>3 DEF IInv, HubConsistent, HostsConsistent, Started
  <1>7. ArmedOnce'
    BY <1>1, <1>2, <1>3 DEF IInv, ArmedOnce
  <1>8. WinnerIsBest'
    BY <1>1, <1>2, <1>3 DEF IInv, WinnerIsBest, Unsettled, SameKey
  <1>9. WinnerOnRecord'
    BY <1>1, <1>2, <1>3 DEF IInv, WinnerOnRecord, OnRecord, SameKey
  <1>10. PersistedWinnerAnswered' /\ StopIsFinal'
    BY <1>3 DEF IInv, PersistedWinnerAnswered, StopIsFinal
  <1>. QED  BY <1>4, <1>5, <1>6, <1>7, <1>8, <1>9, <1>10 DEF IInv

LEMMA CheckKeepsInv ==
  ASSUME IInv, NEW s \in Sockets, AnswerCheck(s), TypeOK'
  PROVE  IInv'
  <1> USE DEF dbVars, hubVars, hostVars
  <1>1. /\ pc[s] = "check" /\ pc'[s] = "record"
        /\ \A t \in Sockets \ {s} : pc'[t] = pc[t]
    BY ReaderGotoEffect DEF IInv, AnswerCheck
  <1>2. UNCHANGED <<answersEnabled, rounds, answers, lost, current, winner, candidate,
                    hpc, target, seen>>
    BY DEF AnswerCheck
  <1>3. UniqueAnswers'  BY <1>2 DEF IInv, UniqueAnswers, SameKey
  <1>4. ReadersConsistent'
    BY <1>1, <1>2 DEF IInv, ReadersConsistent, Started, OnRecord, SameKey
  <1>5. HubConsistent' /\ HostsConsistent' /\ ArmedOnce'
    BY <1>2 DEF IInv, HubConsistent, HostsConsistent, ArmedOnce, Started
  <1>6. WinnerIsBest'
    BY <1>1, <1>2 DEF IInv, WinnerIsBest, Unsettled, SameKey
  <1>7. WinnerOnRecord'
    BY <1>1, <1>2 DEF IInv, WinnerOnRecord, OnRecord, SameKey
  <1>8. PersistedWinnerAnswered' /\ StopIsFinal'
    BY <1>2 DEF IInv, PersistedWinnerAnswered, StopIsFinal
  <1>. QED  BY <1>3, <1>4, <1>5, <1>6, <1>7, <1>8 DEF IInv

\* What both branches of record_answer's upsert do to the table: one row, of the
\* candidate's round and player, is new or takes the smaller time, and it either
\* shows the candidate's time or is the row that was there already.
UpsertOf(s, row) ==
  /\ row \in answers' /\ answers' \subseteq answers \cup {row}
  /\ \A b \in answers :
       \/ b \in answers'
       \/ SameKey(b, row) /\ b.received = row.received /\ row.elapsed <= b.elapsed
  /\ SameKey(row, candidate[s])
  /\ row.received = candidate'[s].received
  /\ row.elapsed <= candidate[s].elapsed
  /\ row \in answers \/ row.elapsed = candidate[s].elapsed
  /\ \A b \in answers' : SameKey(b, row) => b = row
  /\ SameKey(candidate'[s], candidate[s])
  /\ candidate'[s].elapsed = candidate[s].elapsed
  /\ \A t \in Sockets \ {s} : candidate'[t] = candidate[t]

LEMMA InsertIsUpsert ==
  ASSUME IInv, NEW s \in Sockets, AnswerInsert(s)
  PROVE  \E row \in Row : UpsertOf(s, row)
  <1>1. PICK now \in Times : /\ candidate' = [candidate EXCEPT ![s].received = now]
                             /\ answers' = answers \cup {candidate'[s]}
    BY DEF AnswerInsert
  <1>2. candidate \in [Sockets -> Row]  BY DEF IInv, TypeOK
  <1>3. /\ candidate'[s] \in Row
        /\ candidate'[s].round = candidate[s].round
        /\ candidate'[s].participant = candidate[s].participant
        /\ candidate'[s].elapsed = candidate[s].elapsed
        /\ \A t \in Sockets \ {s} : candidate'[t] = candidate[t]
    BY <1>1, <1>2 DEF Row
  <1>4. candidate'[s].elapsed <= candidate[s].elapsed
    BY <1>2, <1>3, RowFields
  <1>5. ~\E a \in answers : SameKey(a, candidate[s])
    BY DEF AnswerInsert
  <1>6. UpsertOf(s, candidate'[s])
    BY <1>1, <1>3, <1>4, <1>5 DEF UpsertOf, SameKey
  <1>. QED  BY <1>3, <1>6

LEMMA UpdateIsUpsert ==
  ASSUME IInv, NEW s \in Sockets, AnswerUpdate(s)
  PROVE  \E row \in Row : UpsertOf(s, row)
  <1>1. PICK a \in answers :
          /\ SameKey(a, candidate[s])
          /\ candidate' = [candidate EXCEPT ![s].received = a.received]
          /\ answers' = (answers \ {a}) \cup
                          {[a EXCEPT !.elapsed = Least(@, candidate[s].elapsed)]}
    BY DEF AnswerUpdate
  <1> DEFINE row == [a EXCEPT !.elapsed = Least(@, candidate[s].elapsed)]
  <1>2. a \in Row /\ candidate \in [Sockets -> Row]  BY DEF IInv, TypeOK
  <1>3. /\ SameKey(candidate'[s], candidate[s])
        /\ candidate'[s].elapsed = candidate[s].elapsed
        /\ candidate'[s].received = a.received
        /\ \A t \in Sockets \ {s} : candidate'[t] = candidate[t]
    BY <1>1, <1>2 DEF Row, SameKey
  <1>4. /\ row.round = a.round /\ row.participant = a.participant
        /\ row.received = a.received
        /\ row.elapsed = Least(a.elapsed, candidate[s].elapsed)
    BY <1>2 DEF Row
  <1>5. a.elapsed \in Int /\ candidate[s].elapsed \in Int
    BY <1>2, RowFields
  <1>6. /\ row.elapsed <= a.elapsed /\ row.elapsed <= candidate[s].elapsed
        /\ row.elapsed = a.elapsed \/ row.elapsed = candidate[s].elapsed
    BY <1>4, <1>5 DEF Least
  <1>7. row.elapsed = a.elapsed => row = a
    BY <1>2 DEF Row
  <1>8. row \in Row
    BY <1>2, <1>6 DEF Row, Least
  <1> HIDE DEF row
  <1>9. answers' = (answers \ {a}) \cup {row}  BY <1>1 DEF row
  <1>10. \A b \in answers' : SameKey(b, row) => b = row
    BY <1>1, <1>4, <1>9 DEF IInv, UniqueAnswers, SameKey
  <1>11. UpsertOf(s, row)
    BY <1>1, <1>3, <1>4, <1>6, <1>7, <1>9, <1>10 DEF UpsertOf, SameKey
  <1>. QED  BY <1>8, <1>11

LEMMA UpsertKeepsInv ==
  ASSUME IInv, NEW s \in Sockets, AnswerInsert(s) \/ AnswerUpdate(s), TypeOK'
  PROVE  IInv'
  <1> USE DEF dbVars, hubVars, hostVars
  <1>1. /\ pc[s] = "record" /\ pc'[s] = "decide"
        /\ \A t \in Sockets \ {s} : pc'[t] = pc[t]
    BY ReaderGotoEffect DEF IInv, AnswerInsert, AnswerUpdate
  <1>2. UNCHANGED <<answersEnabled, rounds, current, winner, hpc, target, seen>>
    BY DEF AnswerInsert, AnswerUpdate
  <1>3. PICK row \in Row : UpsertOf(s, row)
    BY InsertIsUpsert, UpdateIsUpsert
  <1>4. \A e \in Row : OnRecord(e) => \E b \in answers' : /\ SameKey(b, e)
                                                         /\ b.received = e.received
                                                         /\ b.elapsed <= e.elapsed
    <2> SUFFICES ASSUME NEW e \in Row, NEW a \in answers,
                        SameKey(a, e), a.received = e.received, a.elapsed <= e.elapsed
                 PROVE  \E b \in answers' : /\ SameKey(b, e)
                                            /\ b.received = e.received
                                            /\ b.elapsed <= e.elapsed
      BY DEF OnRecord
    <2>1. CASE a \in answers'  BY <2>1
    <2>2. CASE SameKey(a, row) /\ a.received = row.received /\ row.elapsed <= a.elapsed
      <3>1. a \in Row  BY DEF IInv, TypeOK
      <3>2. row.elapsed <= e.elapsed  BY <2>2, <3>1, RowFields
      <3>. QED  BY <2>2, <3>2, <1>3 DEF UpsertOf, SameKey
    <2>. QED  BY <2>1, <2>2, <1>3 DEF UpsertOf
  <1>5. \A t \in Sockets : candidate[t] \in Row  BY DEF IInv, TypeOK
  <1>6. Started(candidate[s].round) /\ row.round = candidate[s].round
    BY <1>1, <1>3 DEF IInv, ReadersConsistent, UpsertOf, SameKey
  <1>7. UniqueAnswers'
    BY <1>3 DEF IInv, UniqueAnswers, UpsertOf, SameKey
  <1>8. ReadersConsistent'
    <2> SUFFICES ASSUME NEW t \in Sockets
                 PROVE  (/\ candidate[t].participant = Owner[t]
                         /\ (pc[t] = "idle") <=> (candidate[t].round = NoRound)
                         /\ pc[t] # "idle" => Started(candidate[t].round)
                         /\ pc[t] \in {"decide", "announce"} => OnRecord(candidate[t]))'
      BY DEF ReadersConsistent
    <2>1. CASE t = s
      BY <2>1, <1>1, <1>2, <1>3, <1>6 DEF IInv, ReadersConsistent, UpsertOf, SameKey, Started, OnRecord
    <2>2. CASE t # s
      BY <2>2, <1>1, <1>2, <1>3, <1>4, <1>5 DEF IInv, ReadersConsistent, UpsertOf, Started, OnRecord
    <2>. QED  BY <2>1, <2>2
  <1>9. HubConsistent' /\ HostsConsistent'
    BY <1>2, <1>3, <1>6 DEF IInv, HubConsistent, HostsConsistent, Started, UpsertOf
  <1>10. ArmedOnce'
    BY <1>2, <1>3, <1>6 DEF IInv, ArmedOnce, UpsertOf, SameKey
  <1>11. WinnerIsBest'
    <2>. lost' \in {lost, lost \cap answers'}
      BY DEF AnswerInsert, AnswerUpdate
    <2> SUFFICES ASSUME NEW a \in answers' \ lost, a.round = current,
                        ~ \E w \in winner : ~answer_is_better(a, w)
                 PROVE  Unsettled(a)'
      BY <1>2 DEF WinnerIsBest
    <2>1. CASE a \in answers
      <3>1. PICK t \in Sockets : /\ pc[t] = "decide"
                                 /\ SameKey(candidate[t], a)
                                 /\ candidate[t].elapsed = a.elapsed
        BY <2>1 DEF IInv, WinnerIsBest, Unsettled
      <3>. QED  BY <3>1, <1>1, <1>3 DEF Unsettled, UpsertOf, SameKey
    <2>2. CASE a \notin answers
      BY <2>2, <1>1, <1>3 DEF Unsettled, UpsertOf, SameKey
    <2>. QED  BY <2>1, <2>2
  <1>12. WinnerOnRecord'
    <2>1. \A w \in winner : w \in Row  BY DEF IInv, TypeOK, Slot
    <2>2. \A h \in Requests : \A w \in seen[h] : w \in Row  BY DEF IInv, TypeOK, Slot
    <2>. QED
      BY <2>1, <2>2, <1>1, <1>2, <1>3, <1>4, <1>5
         DEF IInv, WinnerOnRecord, UpsertOf, OnRecord
  <1>13. PersistedWinnerAnswered' /\ StopIsFinal'
    BY <1>2, <1>3 DEF IInv, PersistedWinnerAnswered, StopIsFinal, UpsertOf, SameKey
  <1>. QED  BY <1>7, <1>8, <1>9, <1>10, <1>11, <1>12, <1>13 DEF IInv

\* Settling a candidate that is on record: what the slot holds afterwards is at
\* least as good as everything it was at least as good as before, and as every
\* row of the candidate's player.
LEMMA DecideKeepsInv ==
  ASSUME IInv, NEW s \in Sockets, AnswerDecide(s), TypeOK'
  PROVE  IInv'
  <1> USE DEF dbVars, hubVars, hostVars
  <1> DEFINE c == candidate[s]
  <1>1. /\ pc[s] = "decide" /\ current = c.round /\ winner' = Settle(winner, c)
        /\ UNCHANGED <<answersEnabled, rounds, answers, lost, current, hpc, target, seen>>
    BY DEF AnswerDecide
  <1>2. c \in Row /\ winner \in Slot /\ answers \subseteq Row
    BY DEF IInv, TypeOK
  <1>3. /\ OnRecord(c) /\ Started(c.round) /\ c.round \in RoundIds
        /\ c.participant = Owner[s]
    BY <1>1 DEF IInv, ReadersConsistent, Started
  <1>4. /\ pc'[s] \in {"idle", "announce"}
        /\ pc'[s] = "idle" => candidate'[s] = Blank(s) /\ winner' = winner
        /\ pc'[s] = "announce" => candidate'[s] = c
        /\ \A t \in Sockets \ {s} : pc'[t] = pc[t] /\ candidate'[t] = candidate[t]
    BY ReaderReturnEffect, ReaderGotoEffect DEF IInv, AnswerDecide
  <1>5. PICK w \in Row : /\ winner' = {w}
                         /\ w = c \/ winner = {w}
                         /\ ~answer_is_better(c, w)
                         /\ \A v \in winner : ~answer_is_better(v, w)
    <2>1. CASE winner = {}
      <3>1. winner' = {c}  BY <1>1, <2>1 DEF Settle
      <3>2. ~answer_is_better(c, c)
        BY <1>2, RowFields DEF answer_is_better
      <3>. QED  BY <2>1, <3>1, <3>2, <1>2
    <2>2. ASSUME NEW v \in Row, winner = {v}
          PROVE  \E w \in Row : /\ winner' = {w}
                                /\ w = c \/ winner = {w}
                                /\ ~answer_is_better(c, w)
                                /\ \A x \in winner : ~answer_is_better(x, w)
      <3>1. /\ ~answer_is_better(c, c) /\ ~answer_is_better(v, v)
            /\ answer_is_better(c, v) => ~answer_is_better(v, c)
        BY <1>2, RowFields, BetterIsStrictOrder
      <3>2. CASE answer_is_better(c, v)
        <4>1. winner' = {c}  BY <1>1, <2>2, <3>2 DEF Settle
        <4>. QED  BY <4>1, <3>1, <3>2, <2>2, <1>2
      <3>3. CASE ~answer_is_better(c, v)
        <4>1. winner' = {v}  BY <1>1, <2>2, <3>3 DEF Settle
        <4>. QED  BY <4>1, <3>1, <3>3, <2>2
      <3>. QED  BY <3>2, <3>3
    <2>. QED  BY <2>1, <2>2, <1>2 DEF Slot
  <1>6. UniqueAnswers'  BY <1>1 DEF IInv, UniqueAnswers, SameKey
  <1>7. ReadersConsistent'
    <2> SUFFICES ASSUME NEW t \in Sockets
                 PROVE  (/\ candidate[t].participant = Owner[t]
                         /\ (pc[t] = "idle") <=> (candidate[t].round = NoRound)
                         /\ pc[t] # "idle" => Started(candidate[t].round)
                         /\ pc[t] \in {"decide", "announce"} => OnRecord(candidate[t]))'
      BY DEF ReadersConsistent
    <2>1. CASE t = s
      BY <2>1, <1>1, <1>3, <1>4 DEF Started, OnRecord, SameKey, Blank
    <2>2. CASE t # s
      BY <2>2, <1>1, <1>4 DEF IInv, ReadersConsistent, Started, OnRecord, SameKey
    <2>. QED  BY <2>1, <2>2
  <1>8. HubConsistent' /\ HostsConsistent'
    BY <1>1, <1>3 DEF IInv, HubConsistent, HostsConsistent, Started
  <1>9. ArmedOnce'
    <2>1. candidate'[s].round \in {NoRound, c.round}
      BY <1>4 DEF Blank
    <2>. QED  BY <2>1, <1>1, <1>4 DEF IInv, ArmedOnce, HostsConsistent, Started
  <1>10. WinnerIsBest'
    <2> SUFFICES ASSUME NEW a \in answers \ lost, a.round = current, answer_is_better(a, w)
                 PROVE  Unsettled(a)'
      BY <1>1, <1>5 DEF WinnerIsBest
    <2>1. a \in Row  BY <1>2
    <2>2. CASE Unsettled(a)
      <3>1. PICK t \in Sockets : /\ pc[t] = "decide"
                                 /\ SameKey(candidate[t], a)
                                 /\ candidate[t].elapsed = a.elapsed
        BY <2>2 DEF Unsettled
      <3>2. CASE t # s
        BY <3>1, <3>2, <1>4 DEF Unsettled, SameKey
      <3>3. CASE t = s
        \* Only the row of the candidate itself can have its key, and that row
        \* is the candidate's equal.
        <4>1. PICK b \in answers : /\ SameKey(b, c)
                                   /\ b.received = c.received
                                   /\ b.elapsed <= c.elapsed
          BY <1>3 DEF OnRecord
        <4>2. a = b
          BY <3>1, <3>3, <4>1 DEF IInv, UniqueAnswers, SameKey
        <4>3. ~answer_is_better(a, w)
          BY <1>5, <3>1, <3>3, <4>1, <4>2 DEF answer_is_better, SameKey
        <4>. QED  BY <4>3
      <3>. QED  BY <3>2, <3>3
    <2>3. ASSUME NEW v \in winner, ~answer_is_better(a, v) PROVE FALSE
      <3>1. v \in Row  BY <1>2 DEF Slot
      <3>2. ~answer_is_better(v, w)  BY <1>5
      <3>3. CASE w = v  BY <3>3, <2>3
      <3>4. CASE w # v
        <4>1. w = c /\ answer_is_better(c, v)
          BY <1>1, <1>2, <1>5, <3>4 DEF Settle, Slot
        <4>. QED  BY <4>1, <2>1, <2>3, <3>1, RowFields, BetterIsStrictOrder
      <3>. QED  BY <3>3, <3>4
    <2>. QED  BY <2>2, <2>3, <1>1 DEF IInv, WinnerIsBest
  <1>11. WinnerOnRecord'
    <2>1. w.round = current /\ OnRecord(w)
      BY <1>1, <1>3, <1>5 DEF IInv, WinnerOnRecord
    <2>. QED
      BY <2>1, <1>1, <1>3, <1>4, <1>5 DEF IInv, WinnerOnRecord, OnRecord, SameKey
  <1>12. PersistedWinnerAnswered' /\ StopIsFinal'
    BY <1>1 DEF IInv, PersistedWinnerAnswered, StopIsFinal
  <1>. QED  BY <1>6, <1>7, <1>8, <1>9, <1>10, <1>11, <1>12 DEF IInv

LEMMA ReaderKeepsInv ==
  ASSUME IInv, NEW s \in Sockets, ReaderStep(s), TypeOK'
  PROVE  IInv'
  <1>1. CASE AnswerCheck(s)  BY <1>1, CheckKeepsInv
  <1>2. CASE AnswerRefused(s)  BY <1>2, ReturnKeepsInv DEF AnswerRefused, dbVars
  <1>3. CASE AnswerInsert(s) \/ AnswerUpdate(s)  BY <1>3, UpsertKeepsInv
  <1>4. CASE AnswerLost(s)  BY <1>4, ReturnKeepsInv DEF AnswerLost, dbVars
  <1>5. CASE AnswerDecide(s)  BY <1>5, DecideKeepsInv
  <1>6. CASE AnswerTooLate(s)  BY <1>6, ReturnKeepsInv DEF AnswerTooLate, dbVars
  <1>7. CASE AnswerAnnounce(s)  BY <1>7, ReturnKeepsInv DEF AnswerAnnounce, dbVars
  <1>8. CASE AnswerUnreported(s)  BY <1>8, ReturnKeepsInv DEF AnswerUnreported
  <1>. QED  BY <1>1, <1>2, <1>3, <1>4, <1>5, <1>6, <1>7, <1>8 DEF ReaderStep

----------------------------------------------------------------------------
(* ... by the host's requests and by a restart *)

\* What concerns answers and reader tasks alone survives any host step that
\* leaves them and the slot alone and lets no row of rounds disappear.
LEMMA AnswersUntouched ==
  ASSUME IInv, UNCHANGED <<answers, lost, current, winner, pc, candidate>>,
         \A r \in RoundIds : rounds[r].state # "absent" => rounds'[r].state # "absent"
  PROVE  UniqueAnswers' /\ ReadersConsistent' /\ HubConsistent' /\ WinnerIsBest'
  <1>1. UniqueAnswers' /\ WinnerIsBest'
    BY DEF IInv, UniqueAnswers, WinnerIsBest, Unsettled, SameKey
  <1>2. ReadersConsistent'
    BY DEF IInv, ReadersConsistent, Started, OnRecord, SameKey
  <1>3. HubConsistent'
    BY DEF IInv, HubConsistent, Started
  <1>. QED  BY <1>1, <1>2, <1>3

LEMMA HostReturnKeepsInv ==
  ASSUME IInv, NEW h \in Requests, HostReturn(h), TypeOK',
         UNCHANGED <<dbVars, hubVars, readerVars>>
  PROVE  IInv'
  <1> USE DEF dbVars, hubVars, readerVars
  <1>1. /\ hpc'[h] = "idle" /\ target'[h] = NoRound /\ seen'[h] = {}
        /\ \A k \in Requests \ {h} :
             hpc'[k] = hpc[k] /\ target'[k] = target[k] /\ seen'[k] = seen[k]
    BY HostReturnEffect DEF IInv
  <1>2. UniqueAnswers' /\ ReadersConsistent' /\ HubConsistent' /\ WinnerIsBest'
    BY AnswersUntouched
  <1>3. HostsConsistent'
    BY <1>1 DEF IInv, HostsConsistent, Started
  <1>4. ArmedOnce'
    BY <1>1 DEF IInv, ArmedOnce, HostsConsistent, Started
  <1>5. WinnerOnRecord'
    BY <1>1 DEF IInv, WinnerOnRecord, OnRecord, SameKey
  <1>6. PersistedWinnerAnswered' /\ StopIsFinal'
    BY <1>1 DEF IInv, PersistedWinnerAnswered, StopIsFinal
  <1>. QED  BY <1>2, <1>3, <1>4, <1>5, <1>6 DEF IInv

LEMMA StartBeginKeepsInv ==
  ASSUME IInv, NEW h \in Requests, StartBegin(h) \/ StartEnable(h), TypeOK'
  PROVE  IInv'
  <1> USE DEF dbVars, hubVars, readerVars
  <1>1. /\ hpc[h] \in {"idle", "enable"} /\ hpc'[h] \in {"enable", "stop_open"}
        /\ \A k \in Requests \ {h} : hpc'[k] = hpc[k]
    BY HostGotoEffect DEF IInv, StartBegin, StartEnable
  <1>2. UNCHANGED <<rounds, answers, lost, current, winner, pc, candidate, target, seen>>
    BY DEF StartBegin, StartEnable
  <1>3. UniqueAnswers' /\ ReadersConsistent' /\ HubConsistent' /\ WinnerIsBest'
    BY <1>2, AnswersUntouched
  <1>4. HostsConsistent' /\ ArmedOnce'
    BY <1>1, <1>2 DEF IInv, HostsConsistent, ArmedOnce, Started
  <1>5. WinnerOnRecord'
    BY <1>2 DEF IInv, WinnerOnRecord, OnRecord, SameKey
  <1>6. PersistedWinnerAnswered' /\ StopIsFinal'
    BY <1>1, <1>2 DEF IInv, PersistedWinnerAnswered, StopIsFinal
  <1>. QED  BY <1>3, <1>4, <1>5, <1>6 DEF IInv

LEMMA StopOpenKeepsInv ==
  ASSUME IInv, NEW h \in Requests, StartStopOpen(h), TypeOK'
  PROVE  IInv'
  <1> USE DEF dbVars, hubVars, readerVars
  <1>1. /\ hpc[h] = "stop_open" /\ hpc'[h] = "insert"
        /\ \A k \in Requests \ {h} : hpc'[k] = hpc[k]
    BY HostGotoEffect DEF IInv, StartStopOpen
  <1>2. UNCHANGED <<answers, lost, current, winner, pc, candidate, target, seen>>
    BY DEF StartStopOpen
  <1>3. \A r \in RoundIds : /\ rounds'[r].winner_id = rounds[r].winner_id
                            /\ rounds[r].state # "absent" => rounds'[r].state # "absent"
                            /\ rounds[r].state = "stopped" => rounds'[r].state = "stopped"
    <2>1. \A r \in RoundIds : rounds[r] \in RoundRow  BY DEF IInv, TypeOK
    <2>. QED  BY <2>1 DEF StartStopOpen, RoundRow
  <1>4. UniqueAnswers' /\ ReadersConsistent' /\ HubConsistent' /\ WinnerIsBest'
    BY <1>2, <1>3, AnswersUntouched
  <1>5. HostsConsistent'
    BY <1>1, <1>2, <1>3 DEF IInv, HostsConsistent, Started
  <1>6. ArmedOnce'
    BY <1>1, <1>2 DEF IInv, ArmedOnce
  <1>7. WinnerOnRecord'
    BY <1>2 DEF IInv, WinnerOnRecord, OnRecord, SameKey
  <1>8. PersistedWinnerAnswered'
    BY <1>2, <1>3 DEF IInv, PersistedWinnerAnswered
  <1>9. StopIsFinal'
    <2>1. \A k \in Requests : hpc[k] = "say" => target[k] \in RoundIds
      BY DEF IInv, HostsConsistent, Started
    <2>. QED  BY <2>1, <1>1, <1>2, <1>3 DEF IInv, StopIsFinal
  <1>. QED  BY <1>4, <1>5, <1>6, <1>7, <1>8, <1>9 DEF IInv

\* The new round's id is fresh, so nobody refers to it yet.
LEMMA InsertRoundKeepsInv ==
  ASSUME IInv, NEW h \in Requests, StartInsert(h), TypeOK'
  PROVE  IInv'
  <1> USE DEF dbVars, hubVars, readerVars
  <1>1. PICK r \in RoundIds : /\ rounds[r].state = "absent"
                              /\ rounds' = [rounds EXCEPT ![r].state = "open"]
                              /\ target' = [target EXCEPT ![h] = r]
    BY DEF StartInsert
  <1>2. /\ hpc[h] = "insert" /\ hpc'[h] = "arm"
        /\ \A k \in Requests \ {h} : hpc'[k] = hpc[k]
    BY HostGotoEffect DEF IInv, StartInsert
  <1>3. UNCHANGED <<answers, lost, current, winner, pc, candidate, seen>>
    BY DEF StartInsert
  <1>4. /\ target'[h] = r
        /\ \A k \in Requests \ {h} : target'[k] = target[k]
    BY <1>1 DEF IInv, TypeOK
  <1>5. /\ rounds'[r].state = "open" /\ rounds'[r].winner_id = rounds[r].winner_id
        /\ \A q \in RoundIds \ {r} : rounds'[q] = rounds[q]
    <2>1. rounds \in [RoundIds -> RoundRow]  BY DEF IInv, TypeOK
    <2>. QED  BY <1>1, <2>1 DEF RoundRow
  <1>6. UniqueAnswers' /\ ReadersConsistent' /\ HubConsistent' /\ WinnerIsBest'
    <2>1. \A q \in RoundIds : rounds[q].state # "absent" => rounds'[q].state # "absent"
      BY <1>1, <1>5
    <2>. QED  BY <2>1, <1>3, AnswersUntouched
  <1>7. /\ current # r
        /\ \A a \in answers : a.round # r
        /\ \A s \in Sockets : candidate[s].round # r
        /\ \A k \in Requests : target[k] # r
    <2>1. current # r /\ \A a \in answers : a.round # r
      BY <1>1 DEF IInv, HubConsistent, Started
    <2>2. ASSUME NEW s \in Sockets PROVE candidate[s].round # r
      <3>1. CASE pc[s] = "idle"
        BY <3>1 DEF IInv, ReadersConsistent
      <3>2. CASE pc[s] # "idle"
        BY <3>2, <1>1 DEF IInv, ReadersConsistent, Started
      <3>. QED  BY <3>1, <3>2
    <2>3. ASSUME NEW k \in Requests PROVE target[k] # r
      BY <1>1 DEF IInv, TypeOK, HostSteps, HostsConsistent, Started
    <2>. QED  BY <2>1, <2>2, <2>3
  <1>8. HostsConsistent'
    BY <1>2, <1>4, <1>5, <1>7 DEF IInv, HostsConsistent, Started
  <1>9. ArmedOnce'
    BY <1>2, <1>3, <1>4, <1>7 DEF IInv, ArmedOnce
  <1>10. WinnerOnRecord'
    <2>1. target[h] = NoRound
      BY <1>2 DEF IInv, HostsConsistent
    <2>2. ASSUME NEW w \in seen[h] PROVE FALSE
      <3>1. w.round = NoRound /\ OnRecord(w)
        BY <2>1 DEF IInv, WinnerOnRecord
      <3>. QED  BY <3>1 DEF IInv, HubConsistent, Started, OnRecord, SameKey
    <2>. QED
      BY <2>2, <1>2, <1>3, <1>4 DEF IInv, WinnerOnRecord, OnRecord, SameKey
  <1>11. PersistedWinnerAnswered'
    BY <1>1, <1>3, <1>5 DEF IInv, PersistedWinnerAnswered
  <1>12. StopIsFinal'
    BY <1>2, <1>3, <1>4, <1>5, <1>7 DEF IInv, StopIsFinal, HostsConsistent, Started
  <1>. QED  BY <1>6, <1>8, <1>9, <1>10, <1>11, <1>12 DEF IInv

\* A round is installed once, before any answer refers to it: its slot starts
\* empty and nothing is on record.
LEMMA ArmKeepsInv ==
  ASSUME IInv, NEW h \in Requests, StartArm(h), TypeOK'
  PROVE  IInv'
  <1> USE DEF dbVars, hubVars, readerVars
  <1>1. /\ hpc[h] = "arm" /\ hpc'[h] = "allow"
        /\ \A k \in Requests \ {h} : hpc'[k] = hpc[k]
    BY HostGotoEffect DEF IInv, StartArm
  <1>2. /\ UNCHANGED <<rounds, answers, lost, pc, candidate, target, seen>>
        /\ current' = target[h] /\ winner' = {}
    BY DEF StartArm
  <1>3. Started(target[h]) /\ \A a \in answers : a.round # target[h]
    BY <1>1 DEF IInv, HostsConsistent, ArmedOnce
  <1>4. UniqueAnswers'  BY <1>2 DEF IInv, UniqueAnswers, SameKey
  <1>5. ReadersConsistent'
    BY <1>2 DEF IInv, ReadersConsistent, Started, OnRecord, SameKey
  <1>6. HubConsistent' /\ HostsConsistent'
    BY <1>1, <1>2, <1>3 DEF IInv, HubConsistent, HostsConsistent, Started
  <1>7. ArmedOnce' /\ WinnerIsBest'
    BY <1>1, <1>2, <1>3 DEF IInv, ArmedOnce, WinnerIsBest
  <1>8. WinnerOnRecord'
    BY <1>2 DEF IInv, WinnerOnRecord, OnRecord, SameKey
  <1>9. PersistedWinnerAnswered' /\ StopIsFinal'
    BY <1>1, <1>2 DEF IInv, PersistedWinnerAnswered, StopIsFinal, ArmedOnce
  <1>. QED  BY <1>4, <1>5, <1>6, <1>7, <1>8, <1>9 DEF IInv

LEMMA StopReadKeepsInv ==
  ASSUME IInv, NEW h \in Requests, StopRead(h), TypeOK'
  PROVE  IInv'
  <1> USE DEF dbVars, hubVars, readerVars
  <1>1. /\ hpc[h] = "idle" /\ hpc'[h] = "persist"
        /\ \A k \in Requests \ {h} : hpc'[k] = hpc[k]
    BY HostGotoEffect DEF IInv, StopRead
  <1>2. UNCHANGED <<rounds, answers, lost, current, winner, pc, candidate>> /\ current # NoRound
    BY DEF StopRead
  <1>3. /\ target'[h] = current /\ seen'[h] = winner
        /\ \A k \in Requests \ {h} : target'[k] = target[k] /\ seen'[k] = seen[k]
    BY DEF IInv, TypeOK, StopRead
  <1>4. UniqueAnswers' /\ ReadersConsistent' /\ HubConsistent' /\ WinnerIsBest'
    BY <1>2, AnswersUntouched
  <1>5. HostsConsistent'
    BY <1>1, <1>2, <1>3 DEF IInv, HostsConsistent, HubConsistent, Started
  <1>6. ArmedOnce'
    BY <1>1, <1>2, <1>3 DEF IInv, ArmedOnce
  <1>7. WinnerOnRecord'
    BY <1>2, <1>3 DEF IInv, WinnerOnRecord, OnRecord, SameKey
  <1>8. PersistedWinnerAnswered' /\ StopIsFinal'
    BY <1>1, <1>2, <1>3 DEF IInv, PersistedWinnerAnswered, StopIsFinal
  <1>. QED  BY <1>4, <1>5, <1>6, <1>7, <1>8 DEF IInv

LEMMA PersistKeepsInv ==
  ASSUME IInv, NEW h \in Requests, StopPersist(h), TypeOK'
  PROVE  IInv'
  <1> USE DEF dbVars, hubVars, readerVars
  <1>1. /\ hpc[h] = "persist" /\ hpc'[h] = "clear"
        /\ \A k \in Requests \ {h} : hpc'[k] = hpc[k]
    BY HostGotoEffect DEF IInv, StopPersist
  <1>2. UNCHANGED <<answers, lost, current, winner, pc, candidate, target, seen>>
    BY DEF StopPersist
  <1>3. target[h] \in RoundIds /\ rounds[target[h]].state # "absent"
    BY <1>1 DEF IInv, HostsConsistent, Started
  <1>4. /\ rounds'[target[h]].state = "stopped"
        /\ \/ rounds'[target[h]].winner_id = rounds[target[h]].winner_id
           \/ rounds'[target[h]].winner_id = {w.participant : w \in seen[h]}
        /\ \A r \in RoundIds \ {target[h]} : rounds'[r] = rounds[r]
    <2>1. rounds \in [RoundIds -> RoundRow]  BY DEF IInv, TypeOK
    <2>2. CASE rounds[target[h]].state = "open"
      BY <1>3, <2>1, <2>2 DEF StopPersist
    <2>3. CASE rounds[target[h]].state # "open"
      <3>1. rounds[target[h]].state = "stopped"
        BY <1>3, <2>1, <2>3 DEF RoundRow
      <3>. QED  BY <3>1, <2>3 DEF StopPersist
    <2>. QED  BY <2>2, <2>3
  <1>5. UniqueAnswers' /\ ReadersConsistent' /\ HubConsistent' /\ WinnerIsBest'
    <2>1. \A r \in RoundIds : rounds[r].state # "absent" => rounds'[r].state # "absent"
      BY <1>4
    <2>. QED  BY <2>1, <1>2, AnswersUntouched
  <1>6. HostsConsistent'
    BY <1>1, <1>2, <1>3, <1>4 DEF IInv, HostsConsistent, Started
  <1>7. ArmedOnce'
    BY <1>1, <1>2 DEF IInv, ArmedOnce
  <1>8. WinnerOnRecord'
    BY <1>2 DEF IInv, WinnerOnRecord, OnRecord, SameKey
  <1>9. PersistedWinnerAnswered'
    <2>1. \A w \in seen[h] : w.round = target[h] /\ OnRecord(w)
      BY DEF IInv, WinnerOnRecord
    <2>. QED
      BY <2>1, <1>2, <1>3, <1>4 DEF IInv, PersistedWinnerAnswered, OnRecord, SameKey
  <1>10. StopIsFinal'
    BY <1>1, <1>2, <1>4 DEF IInv, StopIsFinal, HostsConsistent, Started
  <1>. QED  BY <1>5, <1>6, <1>7, <1>8, <1>9, <1>10 DEF IInv

LEMMA ClearKeepsInv ==
  ASSUME IInv, NEW h \in Requests, StopClear(h), TypeOK'
  PROVE  IInv'
  <1> USE DEF dbVars, hubVars, readerVars
  <1>1. /\ hpc[h] = "clear" /\ hpc'[h] = "say"
        /\ \A k \in Requests \ {h} : hpc'[k] = hpc[k]
    BY HostGotoEffect DEF IInv, StopClear
  <1>2. /\ UNCHANGED <<rounds, answers, lost, pc, candidate, target, seen>>
        /\ \/ current = target[h] /\ current' = NoRound /\ winner' = {}
           \/ current # target[h] /\ current' = current /\ winner' = winner
    BY DEF StopClear
  <1>3. target[h] \in RoundIds /\ rounds[target[h]].state = "stopped"
    BY <1>1 DEF IInv, HostsConsistent, Started
  <1>4. UniqueAnswers'  BY <1>2 DEF IInv, UniqueAnswers, SameKey
  <1>5. ReadersConsistent'
    BY <1>2 DEF IInv, ReadersConsistent, Started, OnRecord, SameKey
  <1>6. HubConsistent'
    BY <1>2 DEF IInv, HubConsistent, Started
  <1>7. HostsConsistent'
    BY <1>1, <1>2 DEF IInv, HostsConsistent, Started
  <1>8. ArmedOnce'
    BY <1>1, <1>2 DEF IInv, ArmedOnce, HostsConsistent, Started
  <1>9. WinnerIsBest'
    <2>1. CASE current' = NoRound
      BY <2>1, <1>2 DEF IInv, WinnerIsBest, HubConsistent, Started
    <2>2. CASE current' # NoRound
      BY <2>2, <1>2 DEF IInv, WinnerIsBest, Unsettled, SameKey
    <2>. QED  BY <2>1, <2>2
  <1>10. WinnerOnRecord'
    BY <1>2 DEF IInv, WinnerOnRecord, OnRecord, SameKey
  <1>11. PersistedWinnerAnswered'
    BY <1>2 DEF IInv, PersistedWinnerAnswered
  <1>12. StopIsFinal'
    BY <1>1, <1>2, <1>3 DEF IInv, StopIsFinal, ArmedOnce, HostsConsistent, Started
  <1>. QED  BY <1>4, <1>5, <1>6, <1>7, <1>8, <1>9, <1>10, <1>11, <1>12 DEF IInv

\* A restart loses every task and the hub; what the tables hold was consistent.
LEMMA RestartKeepsInv ==
  ASSUME IInv, Restart, TypeOK'
  PROVE  IInv'
  <1> USE DEF dbVars
  <1>1. /\ UNCHANGED <<rounds, answers, lost>> /\ current' = NoRound /\ winner' = {}
        /\ \A s \in Sockets : pc'[s] = "idle" /\ candidate'[s] = Blank(s)
        /\ \A h \in Requests : hpc'[h] = "idle" /\ target'[h] = NoRound /\ seen'[h] = {}
    BY DEF Restart
  <1>2. UniqueAnswers'  BY <1>1 DEF IInv, UniqueAnswers, SameKey
  <1>3. ReadersConsistent'
    <2>1. \A s \in Sockets : /\ candidate'[s].round = NoRound
                             /\ candidate'[s].participant = Owner[s]
      BY <1>1, BlankFields
    <2>2. \A s \in Sockets : pc'[s] = "idle" /\ pc'[s] \notin {"decide", "announce"}
      BY <1>1
    <2>. QED  BY <2>1, <2>2 DEF ReadersConsistent
  <1>4. HubConsistent' /\ HostsConsistent' /\ ArmedOnce' /\ StopIsFinal'
    BY <1>1 DEF IInv, HubConsistent, HostsConsistent, ArmedOnce, StopIsFinal, Started
  <1>5. WinnerIsBest'
    BY <1>1 DEF IInv, WinnerIsBest, HubConsistent, Started
  <1>6. WinnerOnRecord'
    BY <1>1 DEF WinnerOnRecord
  <1>7. PersistedWinnerAnswered'
    BY <1>1 DEF IInv, PersistedWinnerAnswered
  <1>. QED  BY <1>2, <1>3, <1>4, <1>5, <1>6, <1>7 DEF IInv

LEMMA HostKeepsInv ==
  ASSUME IInv, NEW h \in Requests,
         StartBegin(h) \/ StopRead(h) \/ HostStep(h) \/ HostAbandon(h), TypeOK'
  PROVE  IInv'
  <1>1. CASE StartBegin(h) \/ StartEnable(h)  BY <1>1, StartBeginKeepsInv
  <1>2. CASE StartStopOpen(h)  BY <1>2, StopOpenKeepsInv
  <1>3. CASE StartInsert(h)  BY <1>3, InsertRoundKeepsInv
  <1>4. CASE StartArm(h)  BY <1>4, ArmKeepsInv
  <1>5. CASE StartAllow(h)  BY <1>5, HostReturnKeepsInv DEF StartAllow
  <1>6. CASE StopRead(h)  BY <1>6, StopReadKeepsInv
  <1>7. CASE StopPersist(h)  BY <1>7, PersistKeepsInv
  <1>8. CASE StopClear(h)  BY <1>8, ClearKeepsInv
  <1>9. CASE StopSay(h)  BY <1>9, HostReturnKeepsInv DEF StopSay
  <1>10. CASE HostAbandon(h)  BY <1>10, HostReturnKeepsInv DEF HostAbandon
  <1>. QED
    BY <1>1, <1>2, <1>3, <1>4, <1>5, <1>6, <1>7, <1>8, <1>9, <1>10 DEF HostStep

----------------------------------------------------------------------------
(* The theorems *)

LEMMA InitInv == Init => IInv
  <1> SUFFICES ASSUME Init PROVE IInv  OBVIOUS
  <1>1. TypeOK  BY InitTypes
  <1>2. /\ answers = {} /\ current = NoRound /\ winner = {}
        /\ \A s \in Sockets : pc[s] = "idle" /\ candidate[s] = Blank(s)
        /\ \A h \in Requests : hpc[h] = "idle" /\ target[h] = NoRound /\ seen[h] = {}
        /\ \A r \in RoundIds : rounds[r].winner_id = {}
    BY DEF Init
  <1>3. UniqueAnswers /\ WinnerIsBest /\ HubConsistent /\ WinnerOnRecord
    BY <1>2 DEF UniqueAnswers, WinnerIsBest, HubConsistent, WinnerOnRecord
  <1>4. ReadersConsistent
    <2>1. \A s \in Sockets : /\ candidate[s].round = NoRound
                             /\ candidate[s].participant = Owner[s]
      BY <1>2, BlankFields
    <2>2. \A s \in Sockets : pc[s] = "idle" /\ pc[s] \notin {"decide", "announce"}
      BY <1>2
    <2>. QED  BY <2>1, <2>2 DEF ReadersConsistent
  <1>5. HostsConsistent /\ ArmedOnce /\ StopIsFinal /\ PersistedWinnerAnswered
    BY <1>2 DEF HostsConsistent, ArmedOnce, StopIsFinal, PersistedWinnerAnswered
  <1>. QED  BY <1>1, <1>3, <1>4, <1>5 DEF IInv

LEMMA StepInv == IInv /\ [Next]_vars => IInv'
  <1> SUFFICES ASSUME IInv, [Next]_vars PROVE IInv'  OBVIOUS
  <1>1. TypeOK'  BY StepTypes DEF IInv
  <1>2. ASSUME NEW s \in Sockets, NEW ms \in ElapsedMs, AnswerBegin(s, ms)
        PROVE  IInv'
    BY <1>1, <1>2, BeginKeepsInv
  <1>3. ASSUME NEW s \in Sockets, ReaderStep(s) PROVE IInv'
    BY <1>1, <1>3, ReaderKeepsInv
  <1>4. ASSUME NEW h \in Requests,
               StartBegin(h) \/ StopRead(h) \/ HostStep(h) \/ HostAbandon(h)
        PROVE  IInv'
    BY <1>1, <1>4, HostKeepsInv
  <1>5. CASE Restart  BY <1>1, <1>5, RestartKeepsInv
  <1>6. ASSUME UNCHANGED <<rounds, answers, lost, hubVars, readerVars, hostVars>> PROVE IInv'
    <2> USE DEF hubVars, readerVars, hostVars
    <2>1. UNCHANGED <<rounds, answers, lost, current, winner, pc, candidate, hpc, target, seen>>
      BY <1>6
    <2>2. UniqueAnswers' /\ ReadersConsistent' /\ HubConsistent' /\ WinnerIsBest'
      BY <2>1, AnswersUntouched
    <2>3. HostsConsistent' /\ ArmedOnce' /\ PersistedWinnerAnswered' /\ StopIsFinal'
      BY <2>1 DEF IInv, HostsConsistent, ArmedOnce, PersistedWinnerAnswered, StopIsFinal, Started
    <2>4. WinnerOnRecord'
      BY <2>1 DEF IInv, WinnerOnRecord, OnRecord, SameKey
    <2>. QED  BY <1>1, <2>2, <2>3, <2>4 DEF IInv
  <1>7. ASSUME NEW enabled \in BOOLEAN, SetAnswers(enabled) PROVE IInv'
    BY <1>6, <1>7 DEF SetAnswers
  <1>8. CASE UNCHANGED vars
    BY <1>6, <1>8 DEF vars, dbVars
  <1>. QED  BY <1>2, <1>3, <1>4, <1>5, <1>7, <1>8 DEF Next

\* Every reachable state satisfies the inductive invariant.
THEOREM InvHolds == Spec => []IInv
  BY InitInv, StepInv, PTL DEF Spec

\* The slot of the live round always holds the best answer on record, up to the
\* answers whose tasks have yet to reach it: reading the round, recording the
\* answer and deciding in three steps loses no winner, however they interleave.
THEOREM WinnerIsBestHolds == Spec => []WinnerIsBest
  <1>1. IInv => WinnerIsBest  BY DEF IInv
  <1>. QED  BY <1>1, InvHolds, PTL

\* Whoever the server names as the winner has a row on record for that round
\* that is at least as good.
THEOREM WinnerOnRecordHolds == Spec => []WinnerOnRecord
  <1>1. IInv => WinnerOnRecord  BY DEF IInv
  <1>. QED  BY <1>1, InvHolds, PTL

\* A round's winner_id is set only on a stopped round, to a player who answered
\* that round.
THEOREM PersistedWinnerAnsweredHolds == Spec => []PersistedWinnerAnswered
  <1>1. IInv => PersistedWinnerAnswered  BY DEF IInv
  <1>. QED  BY <1>1, InvHolds, PTL

\* Once stop_answer is about to go out for a round, that round is stopped in the
\* table, is not the hub's and never will be.
THEOREM StopIsFinalHolds == Spec => []StopIsFinal
  <1>1. IInv => StopIsFinal  BY DEF IInv
  <1>. QED  BY <1>1, InvHolds, PTL

----------------------------------------------------------------------------
(* What a step does to the rounds table *)

LEMMA StepFreezesStopped ==
  ASSUME TypeOK, [Next]_vars, NEW r \in RoundIds, rounds[r].state = "stopped"
  PROVE  rounds'[r] = rounds[r]
  <1> USE DEF dbVars, hubVars, readerVars, hostVars
  <1>1. ASSUME NEW s \in Sockets,
               ReaderStep(s) \/ \E ms \in ElapsedMs : AnswerBegin(s, ms)
        PROVE  UNCHANGED rounds
    BY <1>1 DEF ReaderStep, AnswerBegin, AnswerCheck, AnswerRefused, AnswerInsert,
                AnswerUpdate, AnswerLost, AnswerUnreported, AnswerDecide, AnswerTooLate, AnswerAnnounce
  <1>2. ASSUME NEW h \in Requests, StartStopOpen(h) PROVE rounds'[r] = rounds[r]
    BY <1>2 DEF StartStopOpen
  <1>3. ASSUME NEW h \in Requests, StartInsert(h) PROVE rounds'[r] = rounds[r]
    BY <1>3 DEF StartInsert, TypeOK
  <1>4. ASSUME NEW h \in Requests, StopPersist(h) PROVE rounds'[r] = rounds[r]
    BY <1>4 DEF StopPersist, TypeOK
  <1>5. ASSUME NEW h \in Requests,
               \/ StartBegin(h) \/ StartEnable(h) \/ StartArm(h) \/ StartAllow(h)
               \/ StopRead(h) \/ StopClear(h) \/ StopSay(h) \/ HostAbandon(h)
        PROVE  UNCHANGED rounds
    BY <1>5 DEF StartBegin, StartEnable, StartArm, StartAllow, StopRead, StopClear,
                StopSay, HostAbandon
  <1>6. ASSUME NEW enabled \in BOOLEAN, SetAnswers(enabled) PROVE UNCHANGED rounds
    BY <1>6 DEF SetAnswers
  <1>7. CASE Restart \/ UNCHANGED vars
    BY <1>7 DEF Restart, vars
  <1>. QED  BY <1>1, <1>2, <1>3, <1>4, <1>5, <1>6, <1>7 DEF Next, HostStep

\* No request, however it races others, changes the row of a stopped round: the
\* winner persisted first stays and the round does not reopen.
THEOREM StoppedRoundsFrozenHolds == Spec => StoppedRoundsFrozen
  <1>1. TypeOK /\ [Next]_vars =>
          [\A r \in RoundIds : rounds[r].state = "stopped" => rounds'[r] = rounds[r]]_vars
    BY StepFreezesStopped
  <1>. QED  BY <1>1, TypeCorrect, PTL DEF Spec, StoppedRoundsFrozen

----------------------------------------------------------------------------
(* The hub implements AnswerSlot *)

\* Steps that neither insert a row nor move a request to or from its installing
\* step leave the set of spent rounds alone.
LEMMA SpentKept ==
  ASSUME \A r \in RoundIds : (rounds'[r].state = "absent") <=> (rounds[r].state = "absent"),
         \A k \in Requests : /\ (hpc'[k] = "arm") <=> (hpc[k] = "arm")
                             /\ hpc[k] = "arm" => target'[k] = target[k]
  PROVE  Spent' = Spent
  BY DEF Spent

\* ... and a request that gives its new round up can only enlarge it.
LEMMA SpentGrows ==
  ASSUME UNCHANGED rounds,
         \A k \in Requests : hpc'[k] = "arm" => hpc[k] = "arm" /\ target'[k] = target[k]
  PROVE  Spent \subseteq Spent' /\ Spent' \subseteq RoundIds
  BY DEF Spent

SlotVars == <<current, winner, Spent>>

LEMMA ReaderImplements ==
  ASSUME IInv, NEW s \in Sockets,
         ReaderStep(s) \/ \E ms \in ElapsedMs : AnswerBegin(s, ms)
  PROVE  Slots!Next \/ UNCHANGED SlotVars
  <1> USE DEF dbVars, hubVars, hostVars
  <1>1. UNCHANGED <<rounds, hpc, target>>
    BY DEF ReaderStep, AnswerBegin, AnswerCheck, AnswerRefused, AnswerInsert,
           AnswerUpdate, AnswerLost, AnswerUnreported, AnswerDecide, AnswerTooLate, AnswerAnnounce
  <1>2. Spent' = Spent  BY <1>1, SpentKept
  <1>3. CASE AnswerDecide(s)
    <2>1. candidate[s] \in Row /\ Started(candidate[s].round)
      BY <1>3 DEF IInv, TypeOK, ReadersConsistent, AnswerDecide
    <2>2. current # NoRound /\ candidate[s].round = current
      BY <1>3, <2>1 DEF AnswerDecide, Started
    <2>3. winner' = Slots!Settle(winner, candidate[s])
      BY <1>3 DEF AnswerDecide, Settle, answer_is_better, Slots!Settle, Slots!answer_is_better
    <2>4. UNCHANGED current  BY <1>3 DEF AnswerDecide
    <2>5. Slots!Offer(candidate[s])
      BY <1>2, <2>2, <2>3, <2>4 DEF Slots!Offer
    <2>. QED  BY <2>1, <2>5 DEF Slots!Next
  <1>4. CASE ~AnswerDecide(s)
    <2>1. UNCHANGED <<current, winner>>
      BY <1>4 DEF ReaderStep, AnswerBegin, AnswerCheck, AnswerRefused, AnswerInsert,
                  AnswerUpdate, AnswerLost, AnswerUnreported, AnswerTooLate, AnswerAnnounce
    <2>. QED  BY <2>1, <1>2 DEF SlotVars
  <1>. QED  BY <1>3, <1>4

LEMMA HostImplements ==
  ASSUME IInv, NEW h \in Requests,
         StartBegin(h) \/ StopRead(h) \/ HostStep(h) \/ HostAbandon(h)
  PROVE  Slots!Next \/ UNCHANGED SlotVars
  <1> USE DEF dbVars, hubVars, readerVars
  <1>1. CASE \/ StartBegin(h) \/ StartEnable(h) \/ StartStopOpen(h)
             \/ StopRead(h) \/ StopPersist(h) \/ StartAllow(h) \/ StopSay(h)
    <2>1. UNCHANGED <<current, winner>>
      BY <1>1 DEF StartBegin, StartEnable, StartStopOpen, StopRead, StopPersist,
                  StartAllow, StopSay
    <2>2. /\ hpc[h] # "arm" /\ hpc'[h] # "arm"
          /\ \A k \in Requests \ {h} : hpc'[k] = hpc[k] /\ target'[k] = target[k]
      <3>1. CASE StartAllow(h) \/ StopSay(h)
        BY <3>1, HostReturnEffect DEF IInv, StartAllow, StopSay
      <3>2. CASE StopRead(h)
        BY <3>2, HostGotoEffect DEF IInv, TypeOK, StopRead
      <3>3. CASE StartBegin(h) \/ StartEnable(h) \/ StartStopOpen(h) \/ StopPersist(h)
        BY <3>3, HostGotoEffect DEF IInv, StartBegin, StartEnable, StartStopOpen, StopPersist
      <3>. QED  BY <1>1, <3>1, <3>2, <3>3
    <2>3. \A r \in RoundIds : (rounds'[r].state = "absent") <=> (rounds[r].state = "absent")
      <3>1. CASE StartStopOpen(h)
        BY <3>1 DEF StartStopOpen, IInv, TypeOK, RoundRow
      <3>2. CASE StopPersist(h)
        BY <3>2 DEF StopPersist, IInv, TypeOK, RoundRow
      <3>3. CASE UNCHANGED rounds  BY <3>3
      <3>. QED
        BY <1>1, <3>1, <3>2, <3>3 DEF StartBegin, StartEnable, StopRead, StartAllow, StopSay
    <2>4. Spent' = Spent  BY <2>2, <2>3, SpentKept
    <2>. QED  BY <2>1, <2>4 DEF SlotVars
  <1>2. CASE StartInsert(h)
    <2>1. PICK r \in RoundIds : /\ rounds[r].state = "absent"
                                /\ rounds' = [rounds EXCEPT ![r].state = "open"]
                                /\ target' = [target EXCEPT ![h] = r]
      BY <1>2 DEF StartInsert
    <2>2. /\ hpc[h] = "insert" /\ hpc'[h] = "arm" /\ target'[h] = r
          /\ \A k \in Requests \ {h} : hpc'[k] = hpc[k] /\ target'[k] = target[k]
      BY <1>2, <2>1, HostGotoEffect DEF IInv, TypeOK, StartInsert
    <2>3. /\ rounds'[r].state = "open"
          /\ \A q \in RoundIds \ {r} : rounds'[q] = rounds[q]
      <3>1. rounds \in [RoundIds -> RoundRow]  BY DEF IInv, TypeOK
      <3>. QED  BY <2>1, <3>1 DEF RoundRow
    <2>4. Spent' = Spent  BY <2>1, <2>2, <2>3 DEF Spent
    <2>. QED  BY <1>2, <2>4 DEF StartInsert, SlotVars
  <1>3. CASE StartArm(h)
    <2>1. /\ hpc[h] = "arm" /\ hpc'[h] = "allow"
          /\ \A k \in Requests \ {h} : hpc'[k] = hpc[k]
      BY <1>3, HostGotoEffect DEF IInv, StartArm
    <2>2. UNCHANGED <<rounds, target>> /\ current' = target[h] /\ winner' = {}
      BY <1>3 DEF StartArm
    <2>3. /\ target[h] \in RoundIds /\ rounds[target[h]].state # "absent"
          /\ \A k \in Requests \ {h} : target[k] # target[h]
      BY <2>1 DEF IInv, HostsConsistent, ArmedOnce, Started
    <2>4. target[h] \notin Spent  BY <2>1 DEF Spent
    <2>5. Spent' = Spent \cup {target[h]}
      BY <2>1, <2>2, <2>3 DEF Spent
    <2>6. Slots!Open(target[h])  BY <2>2, <2>4, <2>5 DEF Slots!Open
    <2>. QED  BY <2>3, <2>6 DEF Slots!Next
  <1>4. CASE StopClear(h)
    <2>1. /\ hpc[h] = "clear" /\ hpc'[h] = "say"
          /\ \A k \in Requests \ {h} : hpc'[k] = hpc[k]
      BY <1>4, HostGotoEffect DEF IInv, StopClear
    <2>2. UNCHANGED <<rounds, target>>  BY <1>4 DEF StopClear
    <2>3. Spent' = Spent  BY <2>1, <2>2, SpentKept
    <2>4. CASE current = target[h]
      <3>1. Spent' \subseteq RoundIds  BY DEF Spent
      <3>2. Slots!End  BY <1>4, <2>3, <2>4, <3>1 DEF StopClear, Slots!End
      <3>. QED  BY <3>2 DEF Slots!Next
    <2>5. CASE current # target[h]
      BY <1>4, <2>3, <2>5 DEF StopClear, SlotVars
    <2>. QED  BY <2>4, <2>5
  <1>5. CASE HostAbandon(h)
    <2>1. /\ hpc'[h] = "idle"
          /\ \A k \in Requests \ {h} : hpc'[k] = hpc[k] /\ target'[k] = target[k]
          /\ UNCHANGED <<rounds, current, winner>>
      BY <1>5, HostReturnEffect DEF IInv, HostAbandon
    <2>2. Spent \subseteq Spent' /\ Spent' \subseteq RoundIds
      BY <2>1, SpentGrows
    <2>3. Slots!GiveUp  BY <2>1, <2>2 DEF Slots!GiveUp
    <2>. QED  BY <2>3 DEF Slots!Next
  <1>. QED  BY <1>1, <1>2, <1>3, <1>4, <1>5 DEF HostStep

LEMMA StepImplements ==
  IInv /\ [Next]_vars => [Slots!Next]_(Slots!vars)
  <1> SUFFICES ASSUME IInv, [Next]_vars PROVE Slots!Next \/ UNCHANGED SlotVars
    BY DEF Slots!vars, SlotVars
  <1>1. ASSUME NEW s \in Sockets,
               ReaderStep(s) \/ \E ms \in ElapsedMs : AnswerBegin(s, ms)
        PROVE  Slots!Next \/ UNCHANGED SlotVars
    BY <1>1, ReaderImplements
  <1>2. ASSUME NEW h \in Requests,
               StartBegin(h) \/ StopRead(h) \/ HostStep(h) \/ HostAbandon(h)
        PROVE  Slots!Next \/ UNCHANGED SlotVars
    BY <1>2, HostImplements
  <1>3. CASE Restart
    <2>1. /\ current' = NoRound /\ winner' = {} /\ UNCHANGED rounds
          /\ \A k \in Requests : hpc'[k] # "arm"
      BY <1>3 DEF Restart, dbVars
    <2>2. Spent \subseteq Spent' /\ Spent' \subseteq RoundIds
      BY <2>1, SpentGrows
    <2>3. Slots!End  BY <2>1, <2>2 DEF Slots!End
    <2>. QED  BY <2>3 DEF Slots!Next
  <1>4. ASSUME UNCHANGED <<rounds, hubVars, hostVars>> PROVE UNCHANGED SlotVars
    <2>1. Spent' = Spent  BY <1>4, SpentKept DEF hostVars
    <2>. QED  BY <1>4, <2>1 DEF hubVars, SlotVars
  <1>5. ASSUME NEW enabled \in BOOLEAN, SetAnswers(enabled) PROVE UNCHANGED SlotVars
    BY <1>4, <1>5 DEF SetAnswers
  <1>6. CASE UNCHANGED vars  BY <1>4, <1>6 DEF vars, dbVars
  <1>. QED  BY <1>1, <1>2, <1>3, <1>5, <1>6 DEF Next

\* The hub's current round and winner slot behave like AnswerSlot: a round is
\* installed at most once, with an empty slot, and the slot of a live round only
\* ever changes to a strictly better answer of that round.
THEOREM RoundsImplementSlot == Spec => ImplementsSlot
  <1>1. Init => Slots!Init
    <2> SUFFICES ASSUME Init PROVE Slots!Init  OBVIOUS
    <2>1. Spent = {}  BY DEF Init, Spent
    <2>. QED  BY <2>1 DEF Init, Slots!Init
  <1>. QED  BY <1>1, StepImplements, InvHolds, PTL DEF Spec, ImplementsSlot, Slots!Spec
=============================================================================
