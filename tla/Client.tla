------------------------------- MODULE Client -------------------------------
(***************************************************************************)
(* The clients of the SDK in one process (strathon/client.py) and what     *)
(* they share: OpenTelemetry's global tracer provider, and the patch and   *)
(* the listeners that instrument(client) puts on an agent framework.  A    *)
(* process makes a second client when its configuration is loaded anew;    *)
(* the patch stays and is pointed at it, while calls are on their way.     *)
(*                                                                         *)
(* The decisions of a client are in Enforcement; here a call is checked,   *)
(* or not, and by whom.                                                    *)
(***************************************************************************)
EXTENDS Naturals, Sequences, FiniteSets

CONSTANTS
  Clients, Calls,
  Frameworks,      \* the adapters that are looked at
  Kinds,           \* the threads of a client that are looked at: of "beat", "policies", "halts"
  MaxInstruments,  \* bound: calls of instrument
  MaxUninstalls,   \* bound: calls of _uninstall_policy_patch
  Nothing

Patching == {"crewai", "openai_agents", "autogen"}
Bound == {"pydantic_ai", "google_adk", "claude_agent"}   \* a plugin that is made for one client
Others == {"langgraph", "openai", "anthropic"}           \* a handler for the user; wrappers that only trace

ClientAssumption ==
  /\ Frameworks \subseteq Patching \cup Bound \cup Others
  /\ Nothing \notin Clients /\ {MaxInstruments, MaxUninstalls} \subseteq Nat

VARIABLES
  framework,   \* the one that is instrumented
  enforcing,   \* the clients that were made with enable_policies
  pc,          \* [Clients -> Points]: where __init__ or shutdown is
  provider,    \* the global tracer provider: of a client, or Nothing
  installed,   \* the clients that believe theirs is the global one
  loops,       \* the threads that run, <<client, kind>>
  stopped,     \* those whose stop event is set
  receivers,   \* the clients whose spans the adapter makes
  target,      \* _PATCHED_CLIENT, or the handler's client
  original,    \* _ORIGINAL_INVOKE and the like: "none", "plain", "wrapped"
  entry,       \* the framework's method: "plain" or "wrapped"
  installing,  \* the clients whose thread is about to put the patch on
  raced,       \* a patch was put on a patch
  instruments, uninstalls,
  calls        \* [Calls -> Call]: tool calls, or for OpenAI Agents the runs

life == <<enforcing, pc, provider, installed, loops, stopped>>
patch == <<target, original, entry, installing, raced>>
vars == <<framework, life, receivers, patch, instruments, uninstalls, calls>>

Points == {"none", "look", "set", "start", "open", "stop", "close", "unset", "closed"}
Some(S) == S \cup {Nothing}
Call == [at : {"idle", "entered", "read", "started", "checked", "ran", "failed"},
         client : Some(Clients), checks : 0..2, cut : BOOLEAN]

TypeOK ==
  /\ framework \in Frameworks /\ enforcing \subseteq Clients /\ pc \in [Clients -> Points] /\ provider \in Some(Clients)
  /\ installed \subseteq Clients /\ loops \subseteq Clients \X Kinds /\ stopped \subseteq Clients \X Kinds
  /\ receivers \in Seq(Clients) /\ target \in Some(Clients) /\ installing \subseteq Clients
  /\ original \in {"none", "plain", "wrapped"} /\ entry \in {"plain", "wrapped"} /\ raced \in BOOLEAN
  /\ instruments \in 0..MaxInstruments /\ uninstalls \in 0..MaxUninstalls /\ calls \in [Calls -> Call]

Init ==
  /\ framework \in Frameworks /\ enforcing = {}
  /\ pc = [c \in Clients |-> "none"] /\ provider = Nothing /\ installed = {} /\ loops = {} /\ stopped = {}
  /\ receivers = <<>> /\ target = Nothing /\ original = "none" /\ entry = "plain"
  /\ installing = {} /\ raced = FALSE /\ instruments = 0 /\ uninstalls = 0
  /\ calls = [k \in Calls |-> [at |-> "idle", client |-> Nothing, checks |-> 0, cut |-> FALSE]]
-----------------------------------------------------------------------------
(* A client's life.                                                        *)

At(c, from, to) == pc[c] = from /\ pc' = [pc EXCEPT ![c] = to]
Elsewhere == UNCHANGED <<framework, receivers, patch, instruments, uninstalls, calls>>
Stays == Elsewhere /\ UNCHANGED enforcing

\* The exporter, the batch processor and the provider.
Construct(c) ==
  /\ At(c, "none", "look") /\ Elsewhere
  /\ enforcing' \in {enforcing, enforcing \cup {c}}
  /\ UNCHANGED <<provider, installed, loops, stopped>>

\* isinstance(current, ProxyTracerProvider)
LookAtGlobal(c) ==
  /\ \/ provider = Nothing /\ At(c, "look", "set")
     \/ provider # Nothing /\ At(c, "look", "start")
  /\ Stays /\ UNCHANGED <<provider, installed, loops, stopped>>

\* OpenTelemetry sets it once; the client takes it for granted that it did.
SetGlobal(c) ==
  /\ At(c, "set", "start")
  /\ provider' = IF provider = Nothing THEN c ELSE provider
  /\ installed' = installed \cup {c}
  /\ Stays /\ UNCHANGED <<loops, stopped>>

ThreadsOf(c) == {<<c, k>> : k \in IF c \in enforcing THEN Kinds ELSE Kinds \ {"policies"}}

StartThreads(c) ==
  /\ At(c, "start", "open")
  /\ loops' = loops \cup ThreadsOf(c)
  /\ Stays /\ UNCHANGED <<provider, installed, stopped>>

\* stop of the heartbeat and of the enforcers: their joins have a timeout.
Stopping(c) == ThreadsOf(c)

Shutdown(c) ==
  /\ At(c, "open", "close") /\ c \notin installing
  /\ stopped' = stopped \cup Stopping(c)
  /\ Stays /\ UNCHANGED <<provider, installed, loops>>

CloseProvider(c) ==
  /\ At(c, "close", "unset") /\ Stays
  /\ UNCHANGED <<provider, installed, loops, stopped>>

\* Whoever's it is by now.
ResetGlobal == provider' = Nothing

UnsetGlobal(c) ==
  /\ At(c, "unset", "closed")
  /\ IF c \in installed THEN ResetGlobal ELSE UNCHANGED provider
  /\ installed' = installed \ {c}
  /\ Stays /\ UNCHANGED <<loops, stopped>>

\* A thread is done with its request or its span, and sees the event.
ThreadQuits(t) ==
  /\ t \in loops \cap stopped /\ loops' = loops \ {t}
  /\ Stays /\ UNCHANGED <<pc, provider, installed, stopped>>
-----------------------------------------------------------------------------
(* instrument(client), by the thread that made the client.                 *)

Instruments(c, S) ==
  /\ framework \in S /\ pc[c] = "open" /\ c \notin installing
  /\ instruments < MaxInstruments /\ instruments' = instruments + 1
  /\ UNCHANGED <<framework, life, uninstalls, calls>>

\* Defect: a client without policies takes the patch over too.
RetargetAlways(c) ==
  \/ original # "none" /\ target' = c /\ UNCHANGED <<original, entry, installing, raced>>
  \/ original = "none" /\ installing' = installing \cup {c} /\ UNCHANGED <<target, original, entry, raced>>

\* _install_policy_patch: nothing without an enforcer; the patch that is
\* there is pointed at the client; or it is to be made.
Retarget(c) ==
  \/ c \notin enforcing /\ UNCHANGED patch
  \/ /\ c \in enforcing /\ original # "none"
     /\ target' = c /\ UNCHANGED <<original, entry, installing, raced>>
  \/ /\ c \in enforcing /\ original = "none"
     /\ installing' = installing \cup {c} /\ UNCHANGED <<target, original, entry, raced>>

CrewInstrument(c) == Instruments(c, {"crewai"}) /\ receivers' = <<c>> /\ Retarget(c)

\* One more trace processor each time.
AgentsInstrument(c) == Instruments(c, {"openai_agents"}) /\ receivers' = Append(receivers, c) /\ Retarget(c)

First(c) == IF receivers = <<>> THEN <<c>> ELSE receivers

InstallToolPatch(c) == Retarget(c)
AutogenInstrument(c) == Instruments(c, {"autogen"}) /\ receivers' = First(c) /\ InstallToolPatch(c)

\* Wrapped for the first client.
OpenAIInstrument(c) == Instruments(c, {"openai"}) /\ receivers' = First(c) /\ UNCHANGED patch
AnthropicInstrument(c) == Instruments(c, {"anthropic"}) /\ receivers' = First(c) /\ UNCHANGED patch
ClaudeInstrument(c) == Instruments(c, {"claude_agent"}) /\ receivers' = First(c) /\ UNCHANGED patch

LangGraphInstrument(c) ==
  /\ Instruments(c, {"langgraph"}) /\ receivers' = <<c>> /\ target' = c
  /\ UNCHANGED <<original, entry, installing, raced>>

LangChainInstrument(c) == LangGraphInstrument(c)

\* The client is noted, and nobody reads it.
PydanticInstrument(c) == Instruments(c, {"pydantic_ai"}) /\ UNCHANGED <<receivers, patch>>
AdkInstrument(c) == Instruments(c, {"google_adk"}) /\ UNCHANGED <<receivers, patch>>

InstallPatch(c) ==
  /\ c \in installing /\ installing' = installing \ {c}
  /\ original' = entry /\ entry' = "wrapped" /\ target' = c
  /\ raced' = (raced \/ entry = "wrapped")
  /\ UNCHANGED <<framework, life, receivers, instruments, uninstalls, calls>>

\* "For tests and cleanup": the calls on their way lose their original.
UninstallPatch ==
  /\ framework \in Patching /\ original # "none" /\ uninstalls < MaxUninstalls
  /\ entry' = original /\ original' = "none" /\ target' = Nothing /\ uninstalls' = uninstalls + 1
  /\ calls' = [k \in Calls |-> [calls[k] EXCEPT !.cut = calls[k].at # "idle"]]
  /\ UNCHANGED <<framework, life, receivers, installing, raced, instruments>>
-----------------------------------------------------------------------------
(* A call that comes to the patch: CrewStructuredTool.invoke, run_json,    *)
(* Runner.run; or to a handler, or a plugin.                               *)

Goes(k, to) == calls' = [calls EXCEPT ![k].at = to]
Quietly == UNCHANGED <<framework, life, receivers, patch, instruments, uninstalls>>

CallEnters(k) ==
  /\ framework \in Patching /\ calls[k].at = "idle" /\ entry = "wrapped" /\ Quietly
  /\ Goes(k, "entered")

\* current_client = _PATCHED_CLIENT
CallReads(k) ==
  /\ calls[k].at = "entered" /\ Quietly
  /\ calls' = [calls EXCEPT ![k].at = "read", ![k].client = target]

Checks(k) ==
  calls' = [calls EXCEPT ![k].at = "checked", ![k].checks = IF calls[k].client \in enforcing THEN @ + 1 ELSE @]

CallChecks(k) == framework \in {"crewai", "autogen"} /\ calls[k].at = "read" /\ Checks(k) /\ Quietly

\* _ORIGINAL_INVOKE(...): a TypeError if it is None, and the patch that calls
\* itself does not return.
CallRuns(k) ==
  /\ framework \in {"crewai", "autogen"} /\ calls[k].at = "checked" /\ Quietly
  /\ Goes(k, IF original = "plain" THEN "ran" ELSE "failed")

\* Runner.run with the hooks of the client that was read ...
RunStarts(k) ==
  /\ framework = "openai_agents" /\ calls[k].at = "read" /\ Quietly
  /\ Goes(k, IF original = "plain" THEN "started" ELSE "failed")

\* ... which check the tool when it starts.
HookChecks(k) ==
  /\ framework = "openai_agents" /\ Quietly
  /\ \/ calls[k].at = "started" /\ Checks(k)
     \/ calls[k].at = "checked" /\ Goes(k, "ran")

HandlerCalls(k) ==
  /\ framework = "langgraph" /\ Quietly
  /\ \/ calls[k].at = "idle" /\ target # Nothing
        /\ calls' = [calls EXCEPT ![k].at = "read", ![k].client = target]
     \/ calls[k].at = "read" /\ Checks(k)
     \/ calls[k].at = "checked" /\ Goes(k, "ran")

\* create_firewall, create_firewall_plugin, create_strathon_hooks.
PluginCalls(k) ==
  /\ framework \in Bound /\ Quietly
  /\ \/ \E c \in Clients : calls[k].at = "idle" /\ pc[c] = "open"
        /\ calls' = [calls EXCEPT ![k].at = "read", ![k].client = c]
     \/ calls[k].at = "read" /\ Checks(k)
-----------------------------------------------------------------------------
ShutsDown(c) == CloseProvider(c) \/ UnsetGlobal(c)

Lives(c) == Construct(c) \/ LookAtGlobal(c) \/ SetGlobal(c) \/ StartThreads(c) \/ Shutdown(c) \/ ShutsDown(c)

Instrument(c) ==
  \/ CrewInstrument(c) \/ AgentsInstrument(c) \/ AutogenInstrument(c) \/ OpenAIInstrument(c)
  \/ AnthropicInstrument(c) \/ ClaudeInstrument(c) \/ LangGraphInstrument(c) \/ LangChainInstrument(c)
  \/ PydanticInstrument(c) \/ AdkInstrument(c) \/ InstallPatch(c)

ToolCall(k) ==
  \/ CallEnters(k) \/ CallReads(k) \/ CallChecks(k) \/ CallRuns(k) \/ RunStarts(k) \/ HookChecks(k)
  \/ HandlerCalls(k) \/ PluginCalls(k)

Next ==
  \/ UninstallPatch
  \/ \E c \in Clients : Lives(c) \/ Instrument(c)
  \/ \E t \in Clients \X Kinds : ThreadQuits(t)
  \/ \E k \in Calls : ToolCall(k)

Spec == Init /\ [][Next]_vars
-----------------------------------------------------------------------------
\* Without the reset, "every later trace.get_tracer() call -- including a second
\* Client's -- resolves to the dead provider": the global provider is that of a
\* client that has not been shut down, whichever clients race for it.
GlobalIsLive == provider # Nothing => pc[provider] # "closed" /\ provider \in installed

\* A call that comes through the patch is checked once, by a client that has
\* policies, and served, while clients come, take the patch over and go; but
\* for the calls a removal meets on their way, and two first installs at once.
CheckedOnce ==
  framework \in Patching /\ ~raced => \A k \in Calls : ~calls[k].cut =>
    calls[k].at # "failed" /\ (calls[k].at = "ran" => calls[k].checks = 1)

\* None of the threads of a client outlives its shutdown for good: "a real leak ...
\* in apps that rebuild the Client on config reload".
ThreadsAreTold == \A t \in loops : pc[t[1]] \in {"close", "unset", "closed"} => t \in stopped

ClientsShareWell == GlobalIsLive /\ CheckedOnce /\ ThreadsAreTold
=============================================================================
