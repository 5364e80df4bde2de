------------------------------ MODULE Breaker -------------------------------
(***************************************************************************)
(* The circuit breakers of agents and tools (receiver/circuit_breaker.py), *)
(* in the memory of a receiver: the ingest of a span (api/traces.py) asks  *)
(* them whether to mark it, and tells them how it ended.  Nothing is       *)
(* awaited in between.  The mark itself is left out.                       *)
(***************************************************************************)
EXTENDS Integers, Sequences, SequencesExt, FiniteSets

CONSTANTS
  Agents, Tools,
  ErrorThreshold, Window, Cooldown, HalfOpenMax,
  MaxTime,   \* bound: of the clock
  NoTool

Entities == Agents \cup Tools

BreakerAssumption ==
  /\ NoTool \notin Entities /\ Agents \cap Tools = {}
  /\ {ErrorThreshold, HalfOpenMax} \subseteq Nat \ {0} /\ {Window, Cooldown, MaxTime} \subseteq Nat

VARIABLES
  breakers,  \* [Entities -> Breaker]
  now,       \* time.monotonic()
  since      \* history, [Entities -> 0..HalfOpenMax]: the spans that went well, one after the other, past its cooldown

vars == <<breakers, now, since>>

Breaker == [state : {"closed", "open", "half_open"}, errors : Seq(0..MaxTime), opened_at : 0..MaxTime, successes : 0..HalfOpenMax]
New == [state |-> "closed", errors |-> <<>>, opened_at |-> 0, successes |-> 0]

TypeOK ==
  /\ breakers \in [Entities -> Breaker] /\ now \in 0..MaxTime /\ since \in [Entities -> 0..HalfOpenMax]

Init == breakers = [e \in Entities |-> New] /\ now = 0 /\ since = [e \in Entities |-> 0]
-----------------------------------------------------------------------------
Opened(b) == [b EXCEPT !.state = "open", !.opened_at = now, !.successes = 0]
Closed(b) == [b EXCEPT !.state = "closed", !.errors = <<>>, !.successes = 0]

HalfOpened(b) == [b EXCEPT !.state = "half_open", !.successes = 0]

\* Asked, an open breaker whose cooldown is over lets the span through.
Asked(b) == IF b.state = "open" /\ now - b.opened_at >= Cooldown THEN HalfOpened(b) ELSE b
Cooling(b) == b.state = "open" /\ now - b.opened_at < Cooldown
Blocks(b) == Asked(b).state = "open"

Succeeded(b) ==
  IF b.state # "half_open" THEN b
  ELSE IF b.successes + 1 >= HalfOpenMax THEN Closed(b) ELSE [b EXCEPT !.successes = @ + 1]

\* Defect: a failure of a probe is let pass.
FailedForgiving(b) ==
  IF b.state # "closed" THEN b
  ELSE IF Len(b.errors) + 1 >= ErrorThreshold THEN Opened(b) ELSE [b EXCEPT !.errors = Append(@, now)]

Failed(b) ==
  LET recent == SelectSeq(Append(b.errors, now), LAMBDA t : t > now - Window)
  IN CASE b.state = "half_open" -> Opened(b)
       [] b.state = "open" -> b
       [] OTHER -> IF Len(recent) >= ErrorThreshold THEN Opened([b EXCEPT !.errors = recent]) ELSE [b EXCEPT !.errors = recent]

\* check_circuit: a tool is asked if its agent does not block.
AskedOf(a, t) == IF t = NoTool \/ Blocks(breakers[a]) THEN {a} ELSE {a, t}

\* record_outcome, of both.
Recorded(a, t, ok, e) ==
  LET b == IF e \in AskedOf(a, t) THEN Asked(breakers[e]) ELSE breakers[e]
  IN IF ok THEN Succeeded(b) ELSE Failed(b)

Shorter(n) == IF n > HalfOpenMax THEN HalfOpenMax ELSE n

Span(a, t, ok) ==
  LET told == {a, t} \ {NoTool} IN
  /\ breakers' = [e \in Entities |-> IF e \in told THEN Recorded(a, t, ok, e) ELSE breakers[e]]
  /\ since' = [e \in Entities |->
       IF e \notin told THEN since[e]
       ELSE IF ok /\ ~Cooling(breakers[e]) THEN Shorter(since[e] + 1) ELSE 0]
  /\ UNCHANGED now

\* POST /v1/circuit-breakers/reset
Reset(e) ==
  /\ breakers' = [breakers EXCEPT ![e] = Closed(@)]
  /\ since' = [since EXCEPT ![e] = 0]
  /\ UNCHANGED now

Tick == now < MaxTime /\ now' = now + 1 /\ UNCHANGED <<breakers, since>>

Next ==
  \/ Tick
  \/ \E a \in Agents, t \in Tools \cup {NoTool}, ok \in BOOLEAN : Span(a, t, ok)
  \/ \E e \in Entities : Reset(e)

Spec == Init /\ [][Next]_vars
-----------------------------------------------------------------------------
\* Hysteresis: a breaker that has tripped is closed again by an operator only, or by
\* HalfOpenMax spans in a row that went well after its cooldown; one that fails among
\* them, of whichever agent, starts the count and the cooldown anew.
ClosesWhenProven ==
  \A e \in Entities : breakers[e].state # "closed" /\ breakers'[e].state = "closed" =>
    since'[e] >= HalfOpenMax \/ Reset(e)

Hysteresis == [][ClosesWhenProven]_vars
=============================================================================
