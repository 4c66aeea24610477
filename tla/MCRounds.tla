------------------------------ MODULE MCRounds ------------------------------
(* Small instances of Rounds. *)
EXTENDS Rounds, TLC

CONSTANTS s1, s2, s3

\* Two players with a socket each.
MCOwner2 == (s1 :> 1) @@ (s2 :> 2)

\* Player 1 has two sockets, player 2 one.
MCOwner3 == (s1 :> 1) @@ (s2 :> 2) @@ (s3 :> 1)

\* A negative time is in the wire format (i32) and must be refused.
MCElapsed == {-1, 1, 2}

Symmetry == Permutations(Requests) \cup Permutations(RoundIds)

\* The two sockets of player 1 may be exchanged.
TabSymmetry == Permutations({s1, s3})
=============================================================================
