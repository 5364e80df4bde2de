---------------------------- MODULE MCSpanTables ----------------------------
(* Two runs: the first has a tool with a model request in it and another   *)
(* request, the second a request and a tool.                               *)
EXTENDS SpanTables, TLC

CONSTANTS r1, r2, t1, m1, m2, m3, t3, s1

MCParent == (t1 :> r1) @@ (m1 :> t1) @@ (m2 :> r1) @@ (m3 :> r2) @@ (t3 :> r2)
MCRunOf == [s \in Steps |-> IF s \in {m3, t3} THEN r2 ELSE r1]
MCSession == [r \in Runs |-> s1]
=============================================================================
