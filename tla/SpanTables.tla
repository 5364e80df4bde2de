------------------------------ MODULE SpanTables ------------------------------
(***************************************************************************)
(* The adapters of the SDK (strathon/instrumentation): each turns the      *)
(* callbacks of an agent framework into spans, and finds the span to end,  *)
(* or to start another one under, in a table that all the runs of the      *)
(* process share.  "A span started with no parent context begins a new     *)
(* root trace", so that a run falls apart in the dashboard.                *)
(*                                                                         *)
(* What the frameworks do is as the adapters rely on: a step starts and    *)
(* ends while its parent runs, runs interleave, a run may be cancelled     *)
(* without a callback, and CrewAI hands its events to a pool of threads    *)
(* without waiting for them.  No other span is current when one is started *)
(* without a parent.                                                       *)
(***************************************************************************)
EXTENDS Integers, Sequences, SequencesExt, FiniteSets

CONSTANTS
  Runs, Steps,  \* the operations of a framework: whole runs, and tools and models in them
  Parent,       \* [Steps -> Ops]: the operation a step is called by
  RunOf,        \* [Steps -> Runs]
  Tools,        \* the steps that are tool calls; the others are model requests
  Session,      \* [Runs -> Sessions]: of the Claude SDK, whose runs are turns
  Sessions,
  Addresses,    \* the values of id(), unique among the objects there are
  Frameworks,   \* the adapters that are looked at
  MaxPool,      \* bound: CrewAI's events that wait for a thread
  Nothing

Ops == Runs \cup Steps
Keys == Ops \cup Sessions

ASSUME SpanTablesAssumption ==
  /\ Parent \in [Steps -> Ops] /\ RunOf \in [Steps -> Runs]
  /\ \A s \in Steps : RunOf[s] = IF Parent[s] \in Runs THEN Parent[s] ELSE RunOf[Parent[s]]
  /\ \A S \in (SUBSET Steps) \ {{}} : \E s \in S : Parent[s] \notin S  \* calls do not go round
  /\ Tools \subseteq Steps /\ Runs \cap Steps = {}
  /\ Session \in [Runs -> Sessions] /\ Sessions \cap Ops = {} /\ MaxPool \in Nat /\ Nothing \notin Ops \cup Addresses

VARIABLES
  framework,  \* the one that is instrumented
  run,        \* [Ops -> Status]: what the framework does
  span,       \* [Ops -> {"none", "open", "ended"}]: each operation has one span at most
  root,       \* [Ops -> Ops]: the first span of the trace its span is in
  table,      \* [Keys -> Ops]: the spans by id
  at,         \* [Ops -> Addresses]: of the context of a model request
  models,     \* the model spans by id(context), the oldest entry first
  pool,       \* CrewAI's events that no thread has handled yet
  cut         \* the operations whose spans the adapter has ended before them

spanVars == <<framework, run, span, root, table, at, models, pool, cut>>

Status == {"new", "running", "over", "lost"}
Some(S) == S \cup {Nothing}

SpanTypeOK ==
  /\ framework \in Frameworks /\ run \in [Ops -> Status] /\ cut \subseteq Ops
  /\ span \in [Ops -> {"none", "open", "ended"}] /\ root \in [Ops -> Some(Ops)]
  /\ \A o \in Ops : span[o] = "none" <=> root[o] = Nothing
  /\ table \in [Keys -> Some(Ops)] /\ at \in [Ops -> Some(Addresses)]
  /\ models \in Seq([at : Addresses, of : Steps]) /\ pool \subseteq {"start", "end"} \X Ops

SpanInit ==
  /\ framework \in Frameworks
  /\ run = [o \in Ops |-> "new"] /\ span = [o \in Ops |-> "none"] /\ root = [o \in Ops |-> Nothing]
  /\ table = [k \in Keys |-> Nothing] /\ at = [o \in Ops |-> Nothing]
  /\ models = <<>> /\ pool = {} /\ cut = {}
-----------------------------------------------------------------------------
(* What the frameworks promise.                                            *)

Begins(o) == run[o] = "new" /\ (o \in Steps => run[Parent[o]] = "running")
Finishes(o) == run[o] = "running" /\ \A s \in Steps : Parent[s] = o => run[s] # "running"
Goes(o, status) == run' = [run EXCEPT ![o] = status]

\* A task is cancelled, or its stream breaks off.
Cancel(r) ==
  /\ run[r] = "running"
  /\ run' = [o \in Ops |-> IF run[o] = "running" /\ (o = r \/ (o \in Steps /\ RunOf[o] = r)) THEN "lost" ELSE run[o]]
  /\ UNCHANGED <<framework, span, root, table, at, models, pool, cut>>

\* start_span under the span of p, if there is one.
Open(o, p) == span' = [span EXCEPT ![o] = "open"] /\ root' = [root EXCEPT ![o] = IF p = Nothing THEN o ELSE root[p]]
\* ... and its end at once.
Record(o, p) == span' = [span EXCEPT ![o] = "ended"] /\ root' = [root EXCEPT ![o] = IF p = Nothing THEN o ELSE root[p]]
End(o) == span' = [span EXCEPT ![o] = "ended"] /\ UNCHANGED root

\* SpanTree.start, SpanTree.end.
StartAs(key, o, p) == Open(o, p) /\ table' = [table EXCEPT ![key] = o]
EndOf(key) ==
  /\ IF table[key] = Nothing THEN UNCHANGED <<span, root>> ELSE End(table[key])
  /\ table' = [table EXCEPT ![key] = Nothing]

Above(o) == IF o \in Runs THEN Nothing ELSE table[Parent[o]]
-----------------------------------------------------------------------------
(* LangGraph: run ids; the callbacks of a chain, a model and a tool.       *)

LangGraphStarts(o) ==
  /\ framework = "langgraph" /\ Begins(o) /\ o \notin Tools
  /\ Goes(o, "running") /\ StartAs(o, o, Above(o))
  /\ UNCHANGED <<framework, at, models, pool, cut>>

\* A halted call has no span, a refused one a span and no run; the tool of one
\* that is steered runs, and its span has ended.
LangGraphToolStarts(o) ==
  /\ framework = "langgraph" /\ Begins(o) /\ o \in Tools
  /\ \/ Goes(o, "running") /\ StartAs(o, o, Above(o)) /\ UNCHANGED cut
     \/ Goes(o, "over") /\ UNCHANGED <<span, root, table, cut>>
     \/ Goes(o, "over") /\ Record(o, Above(o)) /\ UNCHANGED <<table, cut>>
     \/ Goes(o, "running") /\ Record(o, Above(o)) /\ cut' = cut \cup {o} /\ UNCHANGED table
  /\ UNCHANGED <<framework, at, models, pool>>

LangGraphEnds(o) ==
  /\ framework = "langgraph" /\ Finishes(o)
  /\ Goes(o, "over") /\ EndOf(o)
  /\ UNCHANGED <<framework, at, models, pool, cut>>
-----------------------------------------------------------------------------
(* CrewAI: ids of start events; the threads handle the events in any order.*)

CrewEmits(o) ==
  /\ framework = "crewai" /\ Cardinality(pool) < MaxPool
  /\ \/ Begins(o) /\ Goes(o, "running") /\ pool' = pool \cup {<<"start", o>>}
     \/ Finishes(o) /\ Goes(o, "over") /\ pool' = pool \cup {<<"end", o>>}
  /\ UNCHANGED <<framework, span, root, table, at, models, cut>>

CrewStarts(o) ==
  /\ <<"start", o>> \in pool /\ pool' = pool \ {<<"start", o>>}
  /\ StartAs(o, o, Above(o))
  /\ UNCHANGED <<framework, run, at, models, cut>>

CrewEnds(o) ==
  /\ <<"end", o>> \in pool /\ pool' = pool \ {<<"end", o>>}
  /\ EndOf(o)
  /\ UNCHANGED <<framework, run, at, models, cut>>
-----------------------------------------------------------------------------
(* OpenAI Agents: a trace and its spans.                                   *)

AgentsTraceStart(r) ==
  /\ framework = "openai_agents" /\ Begins(r)
  /\ Goes(r, "running") /\ StartAs(r, r, Nothing)
  /\ UNCHANGED <<framework, at, models, pool, cut>>

LookupParent(o) == IF Above(o) # Nothing THEN Above(o) ELSE table[RunOf[o]]

AgentsSpanStart(o) ==
  /\ framework = "openai_agents" /\ Begins(o)
  /\ Goes(o, "running") /\ StartAs(o, o, LookupParent(o))
  /\ UNCHANGED <<framework, at, models, pool, cut>>

AgentsEnd(o) ==
  /\ framework = "openai_agents" /\ Finishes(o)
  /\ Goes(o, "over") /\ EndOf(o)
  /\ UNCHANGED <<framework, at, models, pool, cut>>

AgentsShutdown ==
  LET open == {o \in Ops : table[o] = o} IN
  /\ framework = "openai_agents" /\ open # {}
  /\ span' = [o \in Ops |-> IF o \in open THEN "ended" ELSE span[o]] /\ cut' = cut \cup open
  /\ table' = [k \in Keys |-> Nothing]
  /\ UNCHANGED <<framework, run, root, at, models, pool>>
-----------------------------------------------------------------------------
(* The table of model spans by id(context), of Google ADK and Pydantic AI. *)

At(a) == {i \in DOMAIN models : models[i].at = a}
Youngest == {i \in DOMAIN models : i = Len(models)}
Unused == {a \in Addresses : \A o \in Ops : run[o] = "running" => at[o] # a}

\* An entry that is written again keeps its place.
Stash(a, o) ==
  IF At(a) # {}
  THEN [i \in DOMAIN models |-> IF models[i].at = a THEN [at |-> a, of |-> o] ELSE models[i]]
  ELSE Append(models, [at |-> a, of |-> o])

BeforeModel(o) ==
  /\ Begins(o) /\ o \in Steps \ Tools
  /\ Goes(o, "running") /\ Open(o, table[RunOf[o]])
  /\ \E a \in Unused : at' = [at EXCEPT ![o] = a] /\ models' = Stash(a, o)
  /\ UNCHANGED <<framework, table, pool, cut>>

\* Takes an entry out of the table, if there is one that is meant; its span ends.
AfterModel(o, Meant) ==
  /\ Finishes(o) /\ o \in Steps \ Tools
  /\ Goes(o, "over")
  /\ \/ Meant = {} /\ UNCHANGED <<span, models>>
     \/ \E i \in Meant : span' = [span EXCEPT ![models[i].of] = "ended"] /\ models' = RemoveAt(models, i)
  /\ UNCHANGED <<framework, root, table, at, pool, cut>>

RunStarts(r) ==
  /\ Begins(r) /\ r \in Runs
  /\ Goes(r, "running") /\ StartAs(r, r, Nothing)
  /\ UNCHANGED <<framework, at, models, pool, cut>>

RunEnds(r) ==
  /\ Finishes(r) /\ r \in Runs
  /\ Goes(r, "over") /\ EndOf(r)
  /\ UNCHANGED <<framework, at, models, pool, cut>>
-----------------------------------------------------------------------------
(* Google ADK: invocations, and the tools of a call are recorded after it. *)

AdkBeforeRun(r) == framework = "google_adk" /\ RunStarts(r)
AdkAfterRun(r) == framework = "google_adk" /\ RunEnds(r)
AdkBeforeModel(o) == framework = "google_adk" /\ BeforeModel(o)

\* Defect: the span that was opened last, as there may be no context at hand.
AdkAfterYoungest(o) == framework = "google_adk" /\ AfterModel(o, Youngest)

AdkAfterModel(o) == framework = "google_adk" /\ AfterModel(o, At(at[o]))

AdkBeforeTool(o) ==
  /\ framework = "google_adk" /\ Begins(o) /\ o \in Tools
  /\ Goes(o, "running")
  /\ UNCHANGED <<framework, span, root, table, at, models, pool, cut>>

AdkAfterTool(o) ==
  /\ framework = "google_adk" /\ Finishes(o) /\ o \in Tools
  /\ Goes(o, "over") /\ Record(o, table[RunOf[o]])
  /\ UNCHANGED <<framework, table, at, models, pool, cut>>
-----------------------------------------------------------------------------
(* Pydantic AI: the hook after a model request does not know which.        *)

PydanticBeforeRun(r) == framework = "pydantic_ai" /\ RunStarts(r)
PydanticAfterRun(r) == framework = "pydantic_ai" /\ RunEnds(r)
PydanticBeforeModel(o) == framework = "pydantic_ai" /\ BeforeModel(o)
PydanticAfterModel(o) == framework = "pydantic_ai" /\ AfterModel(o, Youngest)

PydanticToolStarts(o) ==
  /\ framework = "pydantic_ai" /\ Begins(o) /\ o \in Tools
  /\ Goes(o, "running") /\ Open(o, table[RunOf[o]])
  /\ UNCHANGED <<framework, table, at, models, pool, cut>>

PydanticToolEnds(o) ==
  /\ framework = "pydantic_ai" /\ Finishes(o) /\ o \in Tools
  /\ Goes(o, "over") /\ End(o)
  /\ UNCHANGED <<framework, table, at, models, pool, cut>>
-----------------------------------------------------------------------------
(* Claude Agent SDK: the turns of a session; a query supersedes the last.  *)

SameTurns(r) == {q \in Runs : Session[q] = Session[r] /\ run[q] = "running"}

ClaudeQuery(r) ==
  LET old == table[Session[r]] IN
  /\ framework = "claude_agent" /\ Begins(r) /\ \A s \in Steps : RunOf[s] \in SameTurns(r) => run[s] # "running"
  /\ run' = [o \in Ops |-> IF o = r THEN "running" ELSE IF o \in SameTurns(r) THEN "lost" ELSE run[o]]
  /\ table' = [table EXCEPT ![Session[r]] = r]
  /\ span' = [o \in Ops |-> IF o = r THEN "open" ELSE IF o = old THEN "ended" ELSE span[o]]
  /\ cut' = IF old = Nothing THEN cut ELSE cut \cup {old}
  /\ root' = [root EXCEPT ![r] = r]
  /\ UNCHANGED <<framework, at, models, pool>>

\* The Stop hook, or the error of the query.
ClaudeStop(r) ==
  /\ framework = "claude_agent" /\ Finishes(r) /\ r \in Runs
  /\ Goes(r, "over") /\ EndOf(Session[r])
  /\ UNCHANGED <<framework, at, models, pool, cut>>

ClaudeTool(o) ==
  /\ framework = "claude_agent" /\ o \in Tools
  /\ \/ Begins(o) /\ Goes(o, "running") /\ UNCHANGED <<span, root>>
     \/ Finishes(o) /\ Goes(o, "over") /\ Record(o, table[Session[RunOf[o]]])
  /\ UNCHANGED <<framework, table, at, models, pool, cut>>
-----------------------------------------------------------------------------
(* AutoGen, and the clients of the model providers: the span is a local    *)
(* variable of a wrapper.                                                  *)

\* An agent's span is current in the tasks that are made below it.
AutogenCall(o) ==
  /\ framework = "autogen" /\ Begins(o)
  /\ Goes(o, "running")
  /\ Open(o, IF o \in Runs THEN Nothing ELSE IF Parent[o] \in Tools THEN RunOf[o] ELSE Parent[o])
  /\ UNCHANGED <<framework, table, at, models, pool, cut>>

AutogenReturns(o) ==
  /\ framework = "autogen" /\ Finishes(o)
  /\ Goes(o, "over") /\ End(o)
  /\ UNCHANGED <<framework, table, at, models, pool, cut>>

\* The request of a run of its own.
ProviderCall(r) ==
  /\ framework = "openai" /\ Begins(r) /\ r \in Runs
  /\ Goes(r, "running") /\ Open(r, Nothing)
  /\ UNCHANGED <<framework, table, at, models, pool, cut>>

\* It returns, raises, or its stream is read to the end or left.
ProviderReturns(r) ==
  /\ framework = "openai" /\ Finishes(r) /\ r \in Runs
  /\ Goes(r, "over") /\ End(r)
  /\ UNCHANGED <<framework, table, at, models, pool, cut>>

\* Anthropic's client, the synchronous one or the other.
AnthropicCall(r) ==
  /\ framework = "anthropic" /\ Begins(r) /\ r \in Runs
  /\ \/ Goes(r, "running") /\ Open(r, Nothing)
     \/ Goes(r, "over") /\ Record(r, Nothing)
  /\ UNCHANGED <<framework, table, at, models, pool, cut>>

\* The stream is read to its end, or the block that reads it is left; one that breaks
\* while it is read outside a block leaves the span open, as Cancel does.
AnthropicStreamEnds(r) ==
  /\ framework = "anthropic" /\ Finishes(r) /\ r \in Runs
  /\ Goes(r, "over") /\ End(r)
  /\ UNCHANGED <<framework, table, at, models, pool, cut>>
-----------------------------------------------------------------------------
OfARun(r) ==
  \/ Cancel(r) \/ AgentsTraceStart(r) \/ AdkBeforeRun(r) \/ AdkAfterRun(r) \/ PydanticBeforeRun(r)
  \/ PydanticAfterRun(r) \/ ClaudeQuery(r) \/ ClaudeStop(r) \/ ProviderCall(r) \/ ProviderReturns(r)
  \/ AnthropicCall(r) \/ AnthropicStreamEnds(r)

OfAStep(o) ==
  \/ AgentsSpanStart(o) \/ AdkBeforeModel(o) \/ AdkAfterModel(o) \/ AdkBeforeTool(o) \/ AdkAfterTool(o)
  \/ PydanticBeforeModel(o) \/ PydanticAfterModel(o) \/ PydanticToolStarts(o) \/ PydanticToolEnds(o) \/ ClaudeTool(o)

OfEither(o) ==
  \/ LangGraphStarts(o) \/ LangGraphToolStarts(o) \/ LangGraphEnds(o) \/ AgentsEnd(o)
  \/ CrewEmits(o) \/ CrewStarts(o) \/ CrewEnds(o) \/ AutogenCall(o) \/ AutogenReturns(o)

SpanNext ==
  \/ AgentsShutdown
  \/ \E r \in Runs : OfARun(r)
  \/ \E s \in Steps : OfAStep(s)
  \/ \E o \in Ops : OfEither(o)

SpanSpec == SpanInit /\ [][SpanNext]_spanVars
-----------------------------------------------------------------------------
\* Whose span another operation may end: "we use the most recently opened".
Mixed(o) == framework = "pydantic_ai" /\ o \in Steps \ Tools

\* An operation that is over has had its span ended, and one that is not has
\* not, whatever runs beside it and however runs were cancelled before: but for
\* what the adapter cuts off, what CrewAI's threads reorder, and Mixed.
EndsWithRun ==
  \A o \in Ops : ~Mixed(o) =>
    /\ span[o] = "ended" => run[o] = "over" \/ o \in cut
    /\ run[o] = "over" /\ span[o] = "open" => framework = "crewai"

\* "One logical agent run" is one trace: a step is in the trace of its run; or of
\* a step of the same run that was cut off from it; never in another run's.
OneTrace ==
  \A s \in Steps : span[s] # "none" =>
    \/ root[s] = RunOf[s]
    \/ /\ root[s] \in Steps /\ RunOf[root[s]] = RunOf[s]
       /\ Parent[root[s]] \in cut \/ framework = "crewai"

SpansFollowRuns == EndsWithRun /\ OneTrace
=============================================================================
