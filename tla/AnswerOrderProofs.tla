------------------------- MODULE AnswerOrderProofs -------------------------
(***************************************************************************)
(* answer_is_better is a strict total order on answers with different      *)
(* (elapsed_ms, server_received, participant_id), for all integers: the    *)
(* fact behind "answer evaluation is deterministic" (README.md).           *)
(***************************************************************************)
EXTENDS AnswerOrder, TLAPS

Entry == [elapsed : Int, received : Int, participant : Int]

\* Being better is irreflexive and transitive, so no two answers displace each
\* other in turn.
THEOREM BetterIsStrictOrder ==
  ASSUME NEW a, NEW b, NEW c,
         a.elapsed \in Int, a.received \in Int, a.participant \in Int,
         b.elapsed \in Int, b.received \in Int, b.participant \in Int,
         c.elapsed \in Int, c.received \in Int, c.participant \in Int
  PROVE  /\ ~answer_is_better(a, a)
         /\ answer_is_better(a, b) => ~answer_is_better(b, a)
         /\ answer_is_better(a, b) /\ answer_is_better(b, c) => answer_is_better(a, c)
         /\ ~answer_is_better(a, b) /\ answer_is_better(c, b) => ~answer_is_better(a, c)
  BY DEF answer_is_better

\* Of two answers that differ in any of the three keys, one is better.
THEOREM BetterIsTotal ==
  ASSUME NEW a \in Entry, NEW b \in Entry, a # b
  PROVE  answer_is_better(a, b) \/ answer_is_better(b, a)
  BY DEF answer_is_better, Entry

\* The best of a set of answers is unique: whatever the order in which the
\* answers of a round reach the slot, they can only agree on one winner.
THEOREM BestIsUnique ==
  ASSUME NEW S \in SUBSET Entry, NEW v \in S, NEW w \in S,
         \A a \in S : ~answer_is_better(a, v),
         \A a \in S : ~answer_is_better(a, w)
  PROVE  v = w
  BY BetterIsTotal

\* After Settle the slot holds one entry, and neither the candidate nor anything
\* the previous holder was at least as good as is better than it.
THEOREM SettleKeepsBest ==
  ASSUME NEW slot \in {{}} \cup {{e} : e \in Entry}, NEW c \in Entry
  PROVE  \E w \in Entry :
           /\ Settle(slot, c) = {w}
           /\ ~answer_is_better(c, w)
           /\ \A v \in slot : ~answer_is_better(v, w)
  <1>1. CASE slot = {}
    <2>1. Settle(slot, c) = {c}  BY <1>1 DEF Settle
    <2>2. ~answer_is_better(c, c)  BY DEF answer_is_better, Entry
    <2>. QED  BY <2>1, <2>2, <1>1
  <1>2. ASSUME NEW e \in Entry, slot = {e}
        PROVE  \E w \in Entry : /\ Settle(slot, c) = {w}
                                /\ ~answer_is_better(c, w)
                                /\ \A v \in slot : ~answer_is_better(v, w)
    <2>1. CASE answer_is_better(c, e)
      <3>1. Settle(slot, c) = {c}  BY <1>2, <2>1 DEF Settle
      <3>2. ~answer_is_better(c, c) /\ ~answer_is_better(e, c)
        BY <2>1 DEF answer_is_better, Entry
      <3>. QED  BY <3>1, <3>2, <1>2
    <2>2. CASE ~answer_is_better(c, e)
      <3>1. Settle(slot, c) = {e}  BY <1>2, <2>2 DEF Settle
      <3>2. ~answer_is_better(e, e)  BY DEF answer_is_better, Entry
      <3>. QED  BY <3>1, <3>2, <1>2, <2>2
    <2>. QED  BY <2>1, <2>2
  <1>. QED  BY <1>1, <1>2
=============================================================================
