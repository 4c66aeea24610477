------------------------------ MODULE MCBuzzer ------------------------------
(* Small instances of Buzzer. *)
EXTENDS Buzzer, TLC

CONSTANTS s1, s2

MCOwner1 == (s1 :> 1)
MCOwner2 == (s1 :> 1) @@ (s2 :> 2)
=============================================================================
