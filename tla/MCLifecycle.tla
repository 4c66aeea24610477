---------------------------- MODULE MCLifecycle ----------------------------
(* Small instances of Lifecycle. *)
EXTENDS Lifecycle, TLC

CONSTANTS host, p1, h1, a1

\* The host alone.
MCHostTab == h1 :> host

\* A player alone.
MCPlayerTab == a1 :> p1
=============================================================================
