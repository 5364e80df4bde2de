------------------------------ MODULE HeldCall ------------------------------
(***************************************************************************)
(* What a require_approval policy promises for each tool call it holds:    *)
(* the call is decided at most once, the decision is final, and the body   *)
(* of the tool runs only after the decision was to approve.  Everything    *)
(* between the agent and the operators (HTTP, polling, the database, the   *)
(* reaper, Slack) is hidden here; module Approvals is shown to implement   *)
(* this one.                                                               *)
(***************************************************************************)
CONSTANT Calls

VARIABLES
  call,     \* [Calls -> {"idle", "held", "ran", "stopped"}]
  verdict   \* [Calls -> {"none", "pending", "approved", "denied", "expired"}]

vars == <<call, verdict>>

CallStates == {"idle", "held", "ran", "stopped"}
Verdicts   == {"none", "pending", "approved", "denied", "expired"}

Init ==
  /\ call = [c \in Calls |-> "idle"]
  /\ verdict = [c \in Calls |-> "none"]

(* A policy matches the call: the SDK holds it.                            *)
Hold(c) ==
  /\ call[c] = "idle"
  /\ call' = [call EXCEPT ![c] = "held"]
  /\ UNCHANGED verdict

(* The question reaches the operators.  The caller may have given up or    *)
(* died by then: the question is asked all the same.                       *)
Ask(c) ==
  /\ call[c] # "idle"
  /\ verdict[c] = "none"
  /\ verdict' = [verdict EXCEPT ![c] = "pending"]
  /\ UNCHANGED call

(* Pending questions are answered, once each.  One step may answer         *)
(* several: the reaper expires every overdue one in one statement.         *)
Answer ==
  /\ \E S \in (SUBSET Calls) \ {{}} :
       \E f \in [S -> {"approved", "denied", "expired"}] :
         /\ \A c \in S : verdict[c] = "pending"
         /\ verdict' = [c \in Calls |-> IF c \in S THEN f[c] ELSE verdict[c]]
  /\ UNCHANGED call

Run(c) ==
  /\ call[c] = "held"
  /\ verdict[c] = "approved"
  /\ call' = [call EXCEPT ![c] = "ran"]
  /\ UNCHANGED verdict

(* The call is refused, or its process dies: at any time, even after the   *)
(* request was approved.                                                   *)
Stop(c) ==
  /\ call[c] = "held"
  /\ call' = [call EXCEPT ![c] = "stopped"]
  /\ UNCHANGED verdict

Next ==
  \/ \E c \in Calls : Hold(c) \/ Ask(c) \/ Run(c) \/ Stop(c)
  \/ Answer

Spec == Init /\ [][Next]_vars
=============================================================================
