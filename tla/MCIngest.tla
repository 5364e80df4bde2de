------------------------------ MODULE MCIngest -------------------------------
(* Ingest for TLC: two batches of two spans that match two policies in     *)
(* opposite orders, a span that only its match keeps, two processes.       *)
EXTENDS Ingest, TLC

CONSTANTS p1, p2, s1, s2, s3, s4, b1, b2, r1, r2, w1, w2

Ranks == p1 :> 2 @@ p2 :> 1
Places == s1 :> 1 @@ s2 :> 2 @@ s3 :> 1 @@ s4 :> 2
Contents == b1 :> {s1, s2} @@ b2 :> {s3, s4}
Verdicts == p1 :> (s1 :> "true" @@ s2 :> "other" @@ s3 :> "false" @@ s4 :> "true")
         @@ p2 :> (s1 :> "true" @@ s2 :> "true" @@ s3 :> "true" @@ s4 :> "true")
Scopes == p1 :> Spans @@ p2 :> Spans \ {s1, s4}
Tries == b1 :> 2 @@ b2 :> 1
Pairs == {<<p2, p1>>}
=============================================================================
