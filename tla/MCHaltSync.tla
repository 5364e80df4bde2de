----------------------------- MODULE MCHaltSync ------------------------------
(* HaltSync for TLC: a fail-closed client with one call, a halt of the    *)
(* project and one of another agent.                                       *)
EXTENDS HaltSync, TLC

CONSTANTS c1, h1, h2, k1

TheirClients == k1 :> c1
TheirScopes == h1 :> {c1} @@ h2 :> {}
=============================================================================
