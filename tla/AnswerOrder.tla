---------------------------- MODULE AnswerOrder ----------------------------
(***************************************************************************)
(* How the server ranks two answers of a round, and what the winner slot   *)
(* of the round does with one more candidate (src/src/state.rs,            *)
(* src/src/ws/handler.rs).                                                 *)
(*                                                                         *)
(* An entry is a record with (at least) the fields `elapsed`, `received`   *)
(* and `participant`.  Timestamps and UUIDs are only ever compared, so     *)
(* both are integers.  A slot, Option<AnswerEntry> in the code, is a set   *)
(* of at most one entry.                                                   *)
(***************************************************************************)
EXTENDS Integers

answer_is_better(a, b) ==
  \/ a.elapsed < b.elapsed
  \/ /\ a.elapsed = b.elapsed
     /\ \/ a.received < b.received
        \/ a.received = b.received /\ a.participant < b.participant

\* Two faulty variants of Settle, never used: a slot that never gives way, and
\* one that only does so and is never filled.
FirstComeFirstServed(slot, candidate) ==
  IF slot = {} THEN {candidate} ELSE slot

DisplaceOnly(slot, candidate) ==
  IF \E w \in slot : answer_is_better(candidate, w) THEN {candidate} ELSE slot

\* The critical section that ends handle_answer: an empty slot takes the
\* candidate, a filled one only gives way to a better candidate.
Settle(slot, candidate) ==
  IF \A w \in slot : answer_is_better(candidate, w) THEN {candidate} ELSE slot
=============================================================================
