------------------------------- MODULE Drift --------------------------------
(***************************************************************************)
(* Vigil (receiver/vigil.py): per agent and signal a moving average, and   *)
(* two sums of what the values deviate from it; a sum beyond the threshold *)
(* is an alert.  A restart of the receiver begins anew.                    *)
(*                                                                         *)
(* The numbers are integers, in units of 1/Scale: EWMA_ALPHA is 3/10, its  *)
(* default, and the average is rounded down.                               *)
(***************************************************************************)
EXTENDS Integers

CONSTANTS
  Agents,
  Rates, Amounts,  \* the signals: shares of the spans, and numbers per minute
  Scale,           \* the unit: a rate is at most Scale
  Values,          \* [Signals -> SUBSET Nat]: what is measured
  MinSpans,        \* MIN_SPANS_FOR_BASELINE: ticks
  Slack,           \* CUSUM_DRIFT
  Threshold        \* CUSUM_THRESHOLD

Signals == Rates \cup Amounts

\* The slack exceeds what rounding adds to a deviation; the threshold is beyond
\* 1/EWMA_ALPHA, as the default 5.0 is.
ASSUME DriftAssumption ==
  /\ {Scale, MinSpans, Slack, Threshold} \subseteq Nat /\ Rates \cap Amounts = {}
  /\ \A s \in Signals : Values[s] \subseteq Nat
  /\ \A s \in Rates : Values[s] \subseteq 0..Scale
  /\ 3 * Slack >= 9 /\ 3 * Threshold >= 10 * Scale

VARIABLES
  baselines,  \* [Agents \X Signals -> AgentBaseline]
  alerts      \* the signals of the last tick's alerts, <<agent, signal>>

vars == <<baselines, alerts>>

AgentBaseline == [ewma : Nat, cusum_pos : Nat, cusum_neg : Nat, samples : Nat, calibrated : BOOLEAN]
New == [ewma |-> 0, cusum_pos |-> 0, cusum_neg |-> 0, samples |-> 0, calibrated |-> FALSE]

TypeOK ==
  /\ baselines \in [Agents \X Signals -> AgentBaseline]
  /\ alerts \subseteq Agents \X Signals

Init == baselines = [b \in Agents \X Signals |-> New] /\ alerts = {}
-----------------------------------------------------------------------------
AtLeast0(n) == IF n > 0 THEN n ELSE 0

Averaged(ewma, value) == (3 * value + 7 * ewma) \div 10

\* Defect: the slack is added.
PosSlackened(b, value) == AtLeast0(b.cusum_pos + (value - b.ewma) + Slack)

\* The sums that the new value makes, against the average before it.
Pos(b, value) == AtLeast0(b.cusum_pos + (value - b.ewma) - Slack)
Neg(b, value) == AtLeast0(b.cusum_neg - (value - b.ewma) - Slack)

Drifted(b, value) == Pos(b, value) > Threshold \/ Neg(b, value) > Threshold

\* Samples are counted up to the calibration.
Calibrating(b, value) ==
  [ewma |-> IF b.samples = 0 THEN value ELSE Averaged(b.ewma, value),
   cusum_pos |-> 0, cusum_neg |-> 0, samples |-> b.samples + 1, calibrated |-> b.samples + 1 >= MinSpans]

Watching(b, value) ==
  [ewma |-> Averaged(b.ewma, value),
   cusum_pos |-> IF Drifted(b, value) THEN 0 ELSE Pos(b, value),
   cusum_neg |-> IF Drifted(b, value) THEN 0 ELSE Neg(b, value),
   samples |-> b.samples, calibrated |-> TRUE]

\* AgentBaseline.update
Update(b, value) == IF b.calibrated THEN Watching(b, value) ELSE Calibrating(b, value)

\* _compute_agent_metrics: what it finds of the agents that were active.
Metrics(active) ==
  {value \in [active \X Signals -> UNION {Values[s] : s \in Signals}] :
     \A b \in active \X Signals : value[b] \in Values[b[2]]}

Tick ==
  \E active \in SUBSET Agents \ {{}} : \E value \in Metrics(active) :
    /\ baselines' = [b \in Agents \X Signals |-> IF b[1] \in active THEN Update(baselines[b], value[b]) ELSE baselines[b]]
    /\ alerts' = {b \in active \X Signals : baselines[b].calibrated /\ Drifted(baselines[b], value[b])}

Restart == baselines' = [b \in Agents \X Signals |-> New] /\ alerts' = {}

Next == Tick \/ Restart

Spec == Init /\ [][Next]_vars
-----------------------------------------------------------------------------
\* A share of the spans, such as deny_rate, never raises an alert, whatever the
\* agent does: the average takes in a deviation before the sums reach the default
\* threshold.  The amounts do.
RatesStaySilent == \A b \in alerts : b[2] \in Amounts

\* What the sums of a rate are bounded by: how far the average has risen, and how
\* far it may yet rise.
Covered(x) ==
  /\ x.ewma <= Scale
  /\ 3 * x.cusum_pos <= 10 * x.ewma
  /\ 3 * x.cusum_neg <= 10 * (Scale - x.ewma)

SumsAreCovered == \A b \in Agents \X Rates : Covered(baselines[b])
=============================================================================
