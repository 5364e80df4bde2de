---------------------------- MODULE MCApprovals -----------------------------
(* Constants of Approvals for TLC: Alice and Bob have an API key and a     *)
(* Slack account each; a configuration says which of them are in use.      *)
EXTENDS Approvals

CONSTANTS alice_key, bob_key, alice_slack, bob_slack, alice, bob

MCPerson == [a \in Actors |-> IF a \in {alice_key, alice_slack} THEN alice ELSE bob]
MCApproverCounts == {0, 2}
=============================================================================
