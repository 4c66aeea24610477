------------------------------ MODULE MCRoster ------------------------------
(* Small instances of Roster. *)
EXTENDS Roster, TLC

CONSTANTS host, p1, h1, a1

\* One tab each.
MCOneTab == (h1 :> host) @@ (a1 :> p1)
=============================================================================
