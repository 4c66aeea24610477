--------------------------- MODULE MCConnections ---------------------------
(* A small instance of Connections. *)
EXTENDS Connections, TLC

CONSTANTS host, p1, h1, a1, a2

\* The player has two tabs, or an old and a new page.
MCTwoTabs == (a1 :> p1) @@ (a2 :> p1) @@ (h1 :> host)
=============================================================================
