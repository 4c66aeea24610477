----------------------------- MODULE SessionLife -----------------------------
(***************************************************************************)
(* What the server promises about the life of a session, whoever ends it   *)
(* and whatever fails on the way: the row is closed before it is deleted,  *)
(* never comes back, and every session is deleted in the end.  (README.md: *)
(* sessions have a "hard cap" and "a background task deletes expired       *)
(* data".)                                                                 *)
(***************************************************************************)
VARIABLE row  \* open, closed or gone

Init == row = "open"

Close == row = "open" /\ row' = "closed"

Delete == row = "closed" /\ row' = "gone"

Next == Close \/ Delete

Spec == Init /\ [][Next]_row /\ WF_row(Next)
=============================================================================
