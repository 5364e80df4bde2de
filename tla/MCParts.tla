------------------------------ MODULE MCParts ------------------------------
(* A small instance of each part. *)
EXTENDS Parts, TLC

CONSTANTS
  one, other,        \* clients, requests, receivers, agents: there are two
  tool, call, first, second, ingest, trace, project, code, token,
  agent, deny_rate, cost_rate

MCValues == [s \in Signals |-> IF s = deny_rate THEN {0, 3, Scale} ELSE {0, 9, 60}]
MCKinds == {(first :> "slack") @@ (second :> "github"), (first :> "discord") @@ (second :> "webhook")}

\* A span of every kind, and one with a card number in it.
MCHits == {{}, {"base64"}, {"credential", "API_KEY"}, {"API_KEY"}, {"CREDIT_CARD"}, {"CREDIT_CARD", "PHONE_NUMBER"}, {"custom"}}
MCBatches ==
  {<<[key |-> k, text |-> x, hits |-> h, valid |-> v, policy |-> p],
     [key |-> "args", text |-> TRUE, hits |-> {"CREDIT_CARD"}, valid |-> TRUE, policy |-> "none"]>> :
    k \in {"args", "auth"}, x \in BOOLEAN, h \in MCHits, v \in BOOLEAN, p \in {"alert", "require_approval"}}
Default == [enabled |-> TRUE, strategy |-> "missing", keys |-> "none", key |-> "auth", allowlist |-> {}, regex |-> "none"]
MCSettings ==
  {Default, [Default EXCEPT !.enabled = FALSE], [Default EXCEPT !.allowlist = {"auth"}], [Default EXCEPT !.regex = "bad"]}
    \cup {[Default EXCEPT !.strategy = s, !.regex = "good"] : s \in {"hash", "unknown", "odd"}}
    \cup {[Default EXCEPT !.keys = k] : k \in {"hash", "unknown", "delete"}}

MCCapacity == [s \in {"api", "login", "register_global"} |-> IF s = "api" THEN 2 ELSE 1]

Two == {one, other}
MCFrameworks == {"crewai", "openai_agents", "autogen", "langgraph", "claude_agent", "pydantic_ai", "google_adk", "openai", "anthropic"}
MCThreadKinds == {"halts"}
MCProjectsOf == [a \in Two |-> {project}]
MCOwner == [c \in {first, second} |-> project]
MCLists == {"spans", "traces", "events", "deliveries"}

Perms == Permutations(Two)
=============================================================================
