----------------------------- MODULE MCAuditChain ---------------------------
(* AuditChain for TLC: two writers of one project, one of another.         *)
EXTENDS AuditChain, TLC

CONSTANTS w1, w2, w3, p1, p2

TheirProjects == w1 :> p1 @@ w2 :> p1 @@ w3 :> p2
=============================================================================
