---------------------------- MODULE MCEnforcement ----------------------------
(* Enforcement for TLC: a throttle before the policy that decides, one     *)
(* call through any hook or through two, one that competes for the tokens. *)
EXTENDS Enforcement, TLC

CONSTANTS thr, mal, shd, alw, ste, ask, oth, c1, c2

Ranks == shd :> 7 @@ thr :> 6 @@ mal :> 5 @@ alw :> 4 @@ ste :> 3 @@ ask :> 2 @@ oth :> 1
Actions == shd :> "block" @@ thr :> "throttle" @@ mal :> "throttle" @@ alw :> "allow" @@ ste :> "steer"
        @@ ask :> "require_approval" @@ oth :> "other"
Who == [p \in Policies |-> IF p \in {thr, shd} THEN Calls ELSE IF p \in {alw, mal} THEN {c2} ELSE {c1}]
Keyed == [p \in Policies |-> [c \in Calls |-> "agent"]]
Singles == {<<h>> : h \in {"langgraph", "google_adk", "pydantic_ai", "autogen"}}
Paths == c1 :> Singles \cup {<<"agents_guardrail", "agents_hook">>} @@ c2 :> {<<"crewai">>}
\* The throttle is in two of them, with other limits and windows.
Answers == {[list |-> {shd, thr, mal, ste}, default |-> "allow", limit |-> 1, window |-> 2, refill |-> 1],
            [list |-> {alw, oth}, default |-> "block", limit |-> 1, window |-> 1, refill |-> 2],
            [list |-> {thr, ask}, default |-> "allow", limit |-> 2, window |-> 1, refill |-> 4]}
=============================================================================
