----------------------------- MODULE AnswerSlot -----------------------------
(***************************************************************************)
(* What the hub promises about its winner slot, whatever requests, answers *)
(* and restarts race: a round becomes live at most once, starts with an    *)
(* empty slot, and while it is live the slot changes only to a strictly    *)
(* better answer of that round.  (README.md: "the current round's atomic   *)
(* winner slot"; "subsequent answers can only displace it if ...".)        *)
(***************************************************************************)
EXTENDS AnswerOrder

CONSTANTS RoundIds, NoRound, Entries

VARIABLES
  live,  \* the live round, or NoRound
  best,  \* its slot, a set of at most one entry
  spent  \* the rounds that can never become live (again)

vars == <<live, best, spent>>

Init ==
  /\ live = NoRound
  /\ best = {}
  /\ spent = {}

\* A round that has never been live takes over with an empty slot.
Open(r) ==
  /\ r \notin spent
  /\ live' = r
  /\ best' = {}
  /\ spent' = spent \cup {r}

Offer(e) ==
  /\ live # NoRound
  /\ e.round = live
  /\ best' = Settle(best, e)
  /\ UNCHANGED <<live, spent>>

\* The live round ends, by a stop or a restart; rounds that were being started
\* may be given up at the same time.
End ==
  /\ live' = NoRound
  /\ best' = {}
  /\ spent \subseteq spent' /\ spent' \subseteq RoundIds

GiveUp ==
  /\ spent \subseteq spent' /\ spent' \subseteq RoundIds
  /\ UNCHANGED <<live, best>>

Next ==
  \/ \E r \in RoundIds : Open(r)
  \/ \E e \in Entries : Offer(e)
  \/ End
  \/ GiveUp

Spec == Init /\ [][Next]_vars
=============================================================================
