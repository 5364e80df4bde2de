---------------------------- MODULE PartsProofs -----------------------------
(***************************************************************************)
(* The invariants of the parts: drift, breakers, partitions, limits,       *)
(* redaction, the clients of a process, alerts, accounts and lists.  Each  *)
(* is proved of the part's own actions, and holds of Parts because one     *)
(* part runs in a behaviour.                                               *)
(***************************************************************************)
EXTENDS Parts, Sequences, FiniteSetTheorems, TLAPS

(* The part that was chosen runs, and no other.                            *)
LEMMA PartStays == PartsNext => part' = part
  BY DEF PartsNext, DriftSteps, ClientSteps, BreakerSteps, AlertsSteps, AccountsSteps, PartitionsSteps, ListingsSteps, RedactionSteps, RateLimitsSteps

LEMMA BreakerRuns == PartsNext /\ part = "breaker" => Breaker!Next
  BY DEF PartsNext, DriftSteps, ClientSteps, BreakerSteps, AlertsSteps, AccountsSteps, PartitionsSteps, ListingsSteps, RedactionSteps, RateLimitsSteps

LEMMA PartitionsRuns == PartsNext /\ part = "partitions" => Partitions!Next
  BY DEF PartsNext, DriftSteps, ClientSteps, BreakerSteps, AlertsSteps, AccountsSteps, PartitionsSteps, ListingsSteps, RedactionSteps, RateLimitsSteps

LEMMA RateLimitsRuns == PartsNext /\ part = "limits" => RateLimits!Next
  BY DEF PartsNext, DriftSteps, ClientSteps, BreakerSteps, AlertsSteps, AccountsSteps, PartitionsSteps, ListingsSteps, RedactionSteps, RateLimitsSteps

LEMMA RedactionRuns == PartsNext /\ part = "redaction" => Redaction!Next
  BY DEF PartsNext, DriftSteps, ClientSteps, BreakerSteps, AlertsSteps, AccountsSteps, PartitionsSteps, ListingsSteps, RedactionSteps, RateLimitsSteps

LEMMA ClientRuns == PartsNext /\ part = "client" => Client!Next
  BY DEF PartsNext, DriftSteps, ClientSteps, BreakerSteps, AlertsSteps, AccountsSteps, PartitionsSteps, ListingsSteps, RedactionSteps, RateLimitsSteps

LEMMA AlertsRuns == PartsNext /\ part = "alerts" => Alerts!Next
  BY DEF PartsNext, DriftSteps, ClientSteps, BreakerSteps, AlertsSteps, AccountsSteps, PartitionsSteps, ListingsSteps, RedactionSteps, RateLimitsSteps

LEMMA AccountsRuns == PartsNext /\ part = "accounts" => Accounts!Next
  BY DEF PartsNext, DriftSteps, ClientSteps, BreakerSteps, AlertsSteps, AccountsSteps, PartitionsSteps, ListingsSteps, RedactionSteps, RateLimitsSteps

LEMMA ListingsRuns == PartsNext /\ part = "listings" => Listings!Next
  BY DEF PartsNext, DriftSteps, ClientSteps, BreakerSteps, AlertsSteps, AccountsSteps, PartitionsSteps, ListingsSteps, RedactionSteps, RateLimitsSteps

-----------------------------------------------------------------------------
(* Drift.  With the default weight of the average, a share of an agent's   *)
(* spans never raises an alert, whatever its values are and however long   *)
(* they last: each sum is bounded by what the average still has to cover.  *)
\* What one value does to the sums of a rate, in numbers.
LEMMA OneValue ==
  ASSUME NEW m \in Nat, NEW v \in Nat, NEW p \in Nat, NEW q \in Nat,
         m <= Scale, v <= Scale, 3 * p <= 10 * m, 3 * q <= 10 * (Scale - m),
         NEW n, n = Averaged(m, v)
  PROVE /\ n \in Nat /\ n <= Scale
        /\ AtLeast0(p + (v - m) - Slack) \in Nat /\ AtLeast0(q - (v - m) - Slack) \in Nat
        /\ 3 * AtLeast0(p + (v - m) - Slack) <= 10 * n
        /\ 3 * AtLeast0(q - (v - m) - Slack) <= 10 * (Scale - n)
<1>0. Scale \in Nat /\ Slack \in Nat /\ 3 * Slack >= 9
  BY DriftAssumption
<1>1. n \in Int /\ 10 * n <= 3 * v + 7 * m /\ 3 * v + 7 * m <= 10 * n + 9
  BY <1>0 DEF Averaged
<1>2. n \in Nat /\ n <= Scale
  BY <1>0, <1>1
<1>4. 3 * AtLeast0(p + (v - m) - Slack) <= 10 * n /\ AtLeast0(p + (v - m) - Slack) \in Nat
  BY <1>0, <1>1, <1>2 DEF AtLeast0
<1>5. 3 * AtLeast0(q - (v - m) - Slack) <= 10 * (Scale - n) /\ AtLeast0(q - (v - m) - Slack) \in Nat
  BY <1>0, <1>1, <1>2 DEF AtLeast0
<1> QED
  BY <1>2, <1>4, <1>5

\* The average of two naturals, and sums that are not cut below zero, are naturals.
LEMMA NaturalParts ==
  ASSUME NEW b \in AgentBaseline, NEW v \in Nat
  PROVE Averaged(b.ewma, v) \in Nat /\ Pos(b, v) \in Nat /\ Neg(b, v) \in Nat
<1>1. b.ewma \in Nat /\ b.cusum_pos \in Nat /\ b.cusum_neg \in Nat
  BY DEF AgentBaseline
<1>2. Averaged(b.ewma, v) \in Nat
  BY <1>1 DEF Averaged
<1>3. Slack \in Nat
  BY DriftAssumption
<1>4. Pos(b, v) \in Nat /\ Neg(b, v) \in Nat
  BY <1>1, <1>3 DEF Pos, Neg, AtLeast0
<1> QED
  BY <1>2, <1>4

\* update yields a baseline, of any signal.
LEMMA UpdateTyped ==
  ASSUME NEW b \in AgentBaseline, NEW v \in Nat
  PROVE Update(b, v) \in AgentBaseline
<1>1. Averaged(b.ewma, v) \in Nat /\ Pos(b, v) \in Nat /\ Neg(b, v) \in Nat
  BY NaturalParts
<1>2. b.samples \in Nat /\ b.samples + 1 \in Nat
  BY DEF AgentBaseline
<1>4. Calibrating(b, v) \in AgentBaseline
  BY <1>1, <1>2 DEF Calibrating, AgentBaseline
<1>5. Watching(b, v) \in AgentBaseline
  BY <1>1, <1>2 DEF Watching, AgentBaseline
<1> QED
  BY <1>4, <1>5 DEF Update

\* A share of the spans keeps the sums covered, and below the threshold.
LEMMA UpdateCovered ==
  ASSUME NEW b \in AgentBaseline, NEW v \in Nat, v <= Scale, Covered(b)
  PROVE Covered(Update(b, v)) /\ ~Drifted(b, v)
<1>0. Scale \in Nat /\ Threshold \in Nat /\ 3 * Threshold >= 10 * Scale
  BY DriftAssumption
<1>1. b.ewma \in Nat /\ b.cusum_pos \in Nat /\ b.cusum_neg \in Nat
  BY DEF AgentBaseline
<1> DEFINE n == Averaged(b.ewma, v)
<1>2. b.ewma <= Scale /\ 3 * b.cusum_pos <= 10 * b.ewma /\ 3 * b.cusum_neg <= 10 * (Scale - b.ewma)
  BY DEF Covered
<1>3. /\ n \in Nat /\ n <= Scale /\ Pos(b, v) \in Nat /\ Neg(b, v) \in Nat
      /\ 3 * Pos(b, v) <= 10 * n /\ 3 * Neg(b, v) <= 10 * (Scale - n)
  BY <1>1, <1>2, OneValue DEF Pos, Neg
<1>4. ~Drifted(b, v)
  <2>1. Pos(b, v) <= Threshold /\ Neg(b, v) <= Threshold
    BY <1>0, <1>3
  <2> QED
    BY <2>1, <1>0, <1>3 DEF Drifted
<1>5. Covered(Watching(b, v))
  <2>1. /\ Watching(b, v).ewma = n
        /\ Watching(b, v).cusum_pos = Pos(b, v)
        /\ Watching(b, v).cusum_neg = Neg(b, v)
    BY <1>4 DEF Watching
  <2> QED
    BY <2>1, <1>3 DEF Covered
<1>6. Covered(Calibrating(b, v))
  <2>1. /\ Calibrating(b, v).ewma = IF b.samples = 0 THEN v ELSE n
        /\ Calibrating(b, v).cusum_pos = 0 /\ Calibrating(b, v).cusum_neg = 0
    BY DEF Calibrating
  <2>2. Calibrating(b, v).ewma \in Nat /\ Calibrating(b, v).ewma <= Scale
    BY <2>1, <1>3
  <2> QED
    BY <2>1, <2>2, <1>0 DEF Covered
<1> QED
  BY <1>4, <1>5, <1>6 DEF Update

IInv == TypeOK /\ SumsAreCovered /\ RatesStaySilent

LEMMA InitIInv == Init => IInv
<1> SUFFICES ASSUME Init PROVE IInv
  OBVIOUS
<1>0. Scale \in Nat
  BY DriftAssumption
<1>1. New \in AgentBaseline /\ Covered(New)
  BY <1>0 DEF New, AgentBaseline, Covered
<1>2. \A b \in Agents \X Signals : baselines[b] = New
  BY DEF Init
<1>3. Agents \X Rates \subseteq Agents \X Signals
  BY DEF Signals
<1>4. TypeOK
  BY <1>1 DEF Init, TypeOK
<1>5. SumsAreCovered
  BY <1>1, <1>2, <1>3 DEF SumsAreCovered
<1> QED
  BY <1>4, <1>5 DEF IInv, RatesStaySilent, Init

LEMMA NextIInv == IInv /\ [Next]_vars => IInv'
<1> SUFFICES ASSUME IInv, [Next]_vars PROVE IInv'
  OBVIOUS
<1>0. TypeOK /\ SumsAreCovered /\ RatesStaySilent
  BY DEF IInv
<1>1. CASE Tick
  <2>0. PICK active \in SUBSET Agents : \E value \in Metrics(active) :
          /\ baselines' = [b \in Agents \X Signals |-> IF b[1] \in active THEN Update(baselines[b], value[b]) ELSE baselines[b]]
          /\ alerts' = {b \in active \X Signals : baselines[b].calibrated /\ Drifted(baselines[b], value[b])}
    BY <1>1 DEF Tick
  <2>1. PICK value \in [active \X Signals -> UNION {Values[s] : s \in Signals}] :
          /\ \A b \in active \X Signals : value[b] \in Values[b[2]]
          /\ baselines' = [b \in Agents \X Signals |-> IF b[1] \in active THEN Update(baselines[b], value[b]) ELSE baselines[b]]
          /\ alerts' = {b \in active \X Signals : baselines[b].calibrated /\ Drifted(baselines[b], value[b])}
    BY <2>0 DEF Metrics
  <2>2. \A b \in Agents \X Signals : baselines[b] \in AgentBaseline
    BY <1>0 DEF TypeOK
  <2>3. \A b \in active \X Signals : value[b] \in Nat /\ (b[2] \in Rates => value[b] <= Scale)
    <3> SUFFICES ASSUME NEW b \in active \X Signals
                 PROVE value[b] \in Nat /\ (b[2] \in Rates => value[b] <= Scale)
      OBVIOUS
    <3>1. b[2] \in Signals /\ value[b] \in Values[b[2]]
      BY <2>1
    <3>2. value[b] \in Nat
      BY <3>1, DriftAssumption
    <3>3. b[2] \in Rates => value[b] \in 0..Scale
      BY <3>1, DriftAssumption
    <3> QED
      BY <3>2, <3>3, DriftAssumption
  <2>4. \A b \in Agents \X Signals : b[1] \in active => b \in active \X Signals
    OBVIOUS
  <2>5. TypeOK'
    <3>1. \A b \in Agents \X Signals :
            (IF b[1] \in active THEN Update(baselines[b], value[b]) ELSE baselines[b]) \in AgentBaseline
      BY <2>2, <2>3, <2>4, UpdateTyped
    <3>2. baselines' \in [Agents \X Signals -> AgentBaseline]
      BY <2>1, <3>1
    <3>3. alerts' \subseteq Agents \X Signals
      BY <2>1
    <3> QED
      BY <3>2, <3>3 DEF TypeOK
  <2>6. \A b \in active \X Signals : b[2] \in Rates =>
          Covered(Update(baselines[b], value[b])) /\ ~Drifted(baselines[b], value[b])
    <3> SUFFICES ASSUME NEW b \in active \X Signals, b[2] \in Rates
                 PROVE Covered(Update(baselines[b], value[b])) /\ ~Drifted(baselines[b], value[b])
      OBVIOUS
    <3>1. b \in Agents \X Rates /\ b \in Agents \X Signals
      BY <2>1
    <3>2. Covered(baselines[b])
      BY <3>1, <1>0 DEF SumsAreCovered
    <3> QED
      BY <3>1, <3>2, <2>2, <2>3, UpdateCovered
  <2>7. SumsAreCovered'
    <3> SUFFICES ASSUME NEW b \in Agents \X Rates PROVE Covered(baselines'[b])
      BY DEF SumsAreCovered, Covered
    <3>1. b \in Agents \X Signals /\ b[2] \in Rates
      BY DEF Signals
    <3>2. CASE b[1] \in active
      BY <3>1, <3>2, <2>1, <2>4, <2>6
    <3>3. CASE b[1] \notin active
      <4>1. baselines'[b] = baselines[b]
        BY <3>1, <3>3, <2>1
      <4> QED
        BY <4>1, <1>0 DEF SumsAreCovered
    <3> QED
      BY <3>2, <3>3
  <2>8. RatesStaySilent'
    <3> SUFFICES ASSUME NEW b \in alerts' PROVE b[2] \in Amounts
      BY DEF RatesStaySilent
    <3>1. b \in active \X Signals /\ Drifted(baselines[b], value[b])
      BY <2>1
    <3>2. b[2] \notin Rates
      BY <3>1, <2>6
    <3> QED
      BY <3>1, <3>2 DEF Signals
  <2> QED
    BY <2>5, <2>7, <2>8 DEF IInv
<1>2. CASE Restart
  <2>0. Scale \in Nat
    BY DriftAssumption
  <2>1. New \in AgentBaseline /\ Covered(New)
    BY <2>0 DEF New, AgentBaseline, Covered
  <2>2. \A b \in Agents \X Signals : baselines'[b] = New
    BY <1>2 DEF Restart
  <2>3. TypeOK'
    BY <1>2, <2>1 DEF Restart, TypeOK
  <2>4. SumsAreCovered'
    BY <2>1, <2>2 DEF SumsAreCovered, Signals, Covered
  <2>5. RatesStaySilent'
    BY <1>2 DEF Restart, RatesStaySilent
  <2> QED
    BY <2>3, <2>4, <2>5 DEF IInv
<1>3. CASE UNCHANGED vars
  BY <1>0, <1>3 DEF IInv, TypeOK, SumsAreCovered, RatesStaySilent, vars
<1> QED
  BY <1>1, <1>2, <1>3 DEF Next

\* The baselines and the alerts have their types.
THEOREM TypeCorrect == Spec => []TypeOK
<1>1. IInv => TypeOK
  BY DEF IInv
<1> QED
  BY InitIInv, NextIInv, <1>1, PTL DEF Spec

\* No share of an agent's spans ever raises an alert (AgentBaseline.update).
THEOREM RatesStaySilentHolds == Spec => []RatesStaySilent
<1>1. IInv => RatesStaySilent
  BY DEF IInv
<1> QED
  BY InitIInv, NextIInv, <1>1, PTL DEF Spec
-----------------------------------------------------------------------------
(* The breakers: as many of the spans since the cooldown as a half-open    *)
(* breaker has counted went well, one after the other.                     *)
Fields == {"state", "errors", "opened_at", "successes"}

BreakerSound(b, n) ==
  /\ DOMAIN b = Fields /\ b.state \in {"closed", "open", "half_open"}
  /\ b.successes \in Nat /\ b.opened_at \in Int /\ n \in Nat
  /\ b.state = "half_open" => b.successes <= n /\ b.successes < HalfOpenMax

BreakersSound ==
  /\ now \in Int /\ DOMAIN breakers = Breaker!Entities /\ DOMAIN since = Breaker!Entities
  /\ \A e \in Breaker!Entities : BreakerSound(breakers[e], since[e])

LEMMA BreakerConstants == HalfOpenMax \in Nat \ {0} /\ Cooldown \in Nat /\ BreakerAgents \cup Tools = Breaker!Entities /\ Nothing \notin Breaker!Entities
  BY PartsAssumption DEF Breaker!BreakerAssumption, Breaker!Entities

LEMMA BreakersInit == Breaker!Init => BreakersSound
  BY BreakerConstants DEF Breaker!Init, Breaker!New, BreakersSound, BreakerSound, Fields

\* What becomes of a breaker whose span went well, or badly.
LEMMA SpanCounts ==
  ASSUME NEW b, NEW n, BreakerSound(b, n), now \in Int, NEW ok \in BOOLEAN, NEW c \in {b, Breaker!Asked(b)},
         NEW d, d = IF ok THEN Breaker!Succeeded(c) ELSE Breaker!Failed(c),
         NEW m, m = IF ok /\ ~Breaker!Cooling(b) THEN Breaker!Shorter(n + 1) ELSE 0
  PROVE /\ BreakerSound(d, m)
        /\ b.state # "closed" /\ d.state = "closed" => m >= HalfOpenMax
<1>0. c = b \/ (c = Breaker!HalfOpened(b) /\ b.state = "open" /\ ~Breaker!Cooling(b))
  BY BreakerConstants DEF Breaker!Asked, Breaker!Cooling, BreakerSound
<1>1. CASE ok
  <2>1. CASE c = b
    BY <1>1, <2>1, BreakerConstants DEF BreakerSound, Breaker!Succeeded, Breaker!Closed, Breaker!Cooling, Breaker!Shorter, Fields
  <2>2. CASE c = Breaker!HalfOpened(b) /\ b.state = "open" /\ ~Breaker!Cooling(b)
    <3>1. DOMAIN c = Fields /\ c.state = "half_open" /\ c.successes = 0 /\ c.opened_at \in Int
      BY <2>2 DEF BreakerSound, Breaker!HalfOpened, Fields
    <3> QED
      BY <1>1, <2>2, <3>1, BreakerConstants DEF BreakerSound, Breaker!Succeeded, Breaker!Closed, Breaker!Shorter, Fields
  <2> QED
    BY <1>0, <2>1, <2>2
<1>2. CASE ~ok
  BY <1>2, BreakerConstants DEF BreakerSound, Breaker!Asked, Breaker!HalfOpened, Fields, Breaker!Failed, Breaker!Opened
<1> QED
  BY <1>1, <1>2

LEMMA BreakersStep ==
  ASSUME BreakersSound, Breaker!Next
  PROVE BreakersSound' /\ Breaker!ClosesWhenProven
<1>1. CASE Breaker!Tick
  BY <1>1 DEF Breaker!Tick, BreakersSound, Breaker!ClosesWhenProven
<1>2. ASSUME NEW a \in BreakerAgents, NEW t \in Tools \cup {Nothing}, NEW ok \in BOOLEAN, Breaker!Span(a, t, ok)
      PROVE BreakersSound' /\ Breaker!ClosesWhenProven
  <2>1. now' \in Int /\ DOMAIN breakers' = Breaker!Entities /\ DOMAIN since' = Breaker!Entities
    BY <1>2 DEF Breaker!Span, BreakersSound
  <2>2. ASSUME NEW e \in Breaker!Entities
        PROVE /\ BreakerSound(breakers'[e], since'[e])
              /\ breakers[e].state # "closed" /\ breakers'[e].state = "closed" => since'[e] >= HalfOpenMax
    <3>1. CASE e \in {a, t} \ {Nothing}
      <4> DEFINE c == IF e \in Breaker!AskedOf(a, t) THEN Breaker!Asked(breakers[e]) ELSE breakers[e]
      <4>1. breakers'[e] = IF ok THEN Breaker!Succeeded(c) ELSE Breaker!Failed(c)
        BY <1>2, <3>1 DEF Breaker!Span, Breaker!Recorded
      <4>2. since'[e] = IF ok /\ ~Breaker!Cooling(breakers[e]) THEN Breaker!Shorter(since[e] + 1) ELSE 0
        BY <1>2, <3>1 DEF Breaker!Span
      <4>3. c \in {breakers[e], Breaker!Asked(breakers[e])} /\ BreakerSound(breakers[e], since[e])
        BY DEF BreakersSound
      <4> HIDE DEF c
      <4> QED
        BY <4>1, <4>2, <4>3, SpanCounts DEF BreakersSound
    <3>2. CASE e \notin {a, t} \ {Nothing}
      <4>1. breakers'[e] = breakers[e] /\ since'[e] = since[e]
        BY <1>2, <3>2 DEF Breaker!Span
      <4> QED
        BY <4>1 DEF BreakersSound
    <3> QED
      BY <3>1, <3>2
  <2> QED
    BY <2>1, <2>2 DEF BreakersSound, Breaker!ClosesWhenProven
<1>3. ASSUME NEW r \in Breaker!Entities, Breaker!Reset(r)
      PROVE BreakersSound' /\ Breaker!ClosesWhenProven
  <2>1. /\ now' \in Int /\ DOMAIN breakers' = Breaker!Entities /\ DOMAIN since' = Breaker!Entities
        /\ \A e \in Breaker!Entities \ {r} : breakers'[e] = breakers[e] /\ since'[e] = since[e]
        /\ breakers'[r] = Breaker!Closed(breakers[r]) /\ since'[r] = 0
    BY <1>3 DEF Breaker!Reset, BreakersSound
  <2>2. BreakerSound(Breaker!Closed(breakers[r]), 0)
    BY DEF BreakersSound, BreakerSound, Breaker!Closed, Fields
  <2> QED
    BY <1>3, <2>1, <2>2 DEF BreakersSound, Breaker!ClosesWhenProven
<1> QED
  BY <1>1, <1>2, <1>3 DEF Breaker!Next

\* A breaker closes only when it is proven, whatever the agents and the tools are.
THEOREM HysteresisHolds == PartsSpec => Hysteresis
<1> DEFINE Sound == part = "breaker" => BreakersSound
<1>1. PartsInit => Sound
  BY BreakersInit DEF PartsInit
<1>2. Sound /\ [PartsNext]_partsVars => Sound' /\ [part = "breaker" => Breaker!ClosesWhenProven]_<<breakers, now, since>>
  <2> SUFFICES ASSUME Sound, [PartsNext]_partsVars
               PROVE Sound' /\ [part = "breaker" => Breaker!ClosesWhenProven]_<<breakers, now, since>>
    OBVIOUS
  <2>1. CASE PartsNext /\ part = "breaker"
    BY <2>1, BreakerRuns, BreakersStep, PartStays
  <2>2. CASE PartsNext /\ part # "breaker"
    BY <2>2, PartStays
  <2>3. CASE UNCHANGED partsVars
    <3>1. UNCHANGED <<part, breakers, now, since>>
      BY <2>3 DEF partsVars
    <3> QED
      BY <3>1 DEF BreakersSound, BreakerSound, Breaker!Entities
  <2> QED
    BY <2>1, <2>2, <2>3
<1> QED
  BY <1>1, <1>2, PTL DEF PartsSpec, Hysteresis
-----------------------------------------------------------------------------
(* The partitions: none of a month that is to be kept has been dropped,    *)
(* and an ensure that was committed made those around its month.           *)
Maintaining(w) == w.at # "idle" => w.now >= FirstMonth /\ w.now <= month

PartitionsSound ==
  /\ Partitions!TypeOK /\ \A r \in Receivers : Maintaining(workers[r])
  /\ ensured <= month /\ ensured - 1..ensured + Premake \subseteq made
  /\ ensuredEvents <= month /\ ensuredEvents..ensuredEvents + Premake \subseteq events
  /\ Partitions!RecentIsKept

LEMMA PartitionsConstants ==
  /\ Premake \in Nat /\ Retention \in Int /\ FirstMonth \in Nat \ {0} /\ LastMonth \in Nat /\ FirstMonth <= LastMonth
  /\ MaxUpdates \in Nat /\ Keeps \subseteq Nat /\ Nothing \notin Nat
  BY PartsAssumption DEF Partitions!PartitionsAssumption

LEMMA PartitionsInit == Partitions!Init => PartitionsSound
  BY PartitionsConstants DEF Partitions!Init, PartitionsSound, Partitions!TypeOK, Partitions!Months, Partitions!Worker, Partitions!Write,
     Partitions!None, Partitions!InitialSpans, Partitions!InitialEvents, Partitions!RecentIsKept, Maintaining

LEMMA PartitionsAgree == PartitionsSound => Partitions!SpansAreStored
  BY PartitionsConstants DEF PartitionsSound, Partitions!TypeOK, Partitions!SpansAreStored, Partitions!SpansLand, Partitions!RecentIsKept

(* The maintenance of one receiver.                                        *)
LEMMA PartitionsMaintained ==
  ASSUME PartitionsSound, NEW r \in Receivers, Partitions!Maintains(r)
  PROVE PartitionsSound'
<1> USE PartitionsConstants
<1>1. CASE Partitions!TakesLock(r)
  <2>1. /\ workers' = [workers EXCEPT ![r] = [at |-> "locked", now |-> month]]
        /\ UNCHANGED <<month, keep, updates, traces, stored, writes, tables, events, made, ensured, ensuredEvents>>
    BY <1>1 DEF Partitions!TakesLock, Partitions!Set, Partitions!clock, Partitions!data, Partitions!partitions
  <2>2. [at |-> "locked", now |-> month] \in Partitions!Worker
    BY DEF PartitionsSound, Partitions!TypeOK, Partitions!Worker
  <2>3. Partitions!TypeOK'
    BY <2>1, <2>2 DEF PartitionsSound, Partitions!TypeOK
  <2>4. \A q \in Receivers : Maintaining(workers[q])'
    BY <2>1 DEF PartitionsSound, Partitions!TypeOK, Maintaining
  <2> QED
    BY <2>1, <2>3, <2>4 DEF PartitionsSound, Partitions!RecentIsKept
<1>2. CASE Partitions!EnsurePartitions(r)
  <2> DEFINE n == workers[r].now
  <2>1. /\ workers' = [workers EXCEPT ![r] = [at |-> "ensured", now |-> month]]
        /\ tables' = tables \cup (n - 1..n + Premake) /\ made' = made \cup (n - 1..n + Premake)
        /\ ensured' = IF n > ensured THEN n ELSE ensured
        /\ UNCHANGED <<month, keep, updates, traces, stored, writes, events, ensuredEvents>>
    BY <1>2 DEF Partitions!EnsurePartitions, Partitions!Set, Partitions!clock, Partitions!data, Partitions!Ensured, Partitions!Later
  <2>2. n \in FirstMonth..LastMonth /\ n <= month
    BY <1>2 DEF PartitionsSound, Partitions!TypeOK, Partitions!Worker, Partitions!EnsurePartitions, Maintaining
  <2>3. n - 1..n + Premake \subseteq Partitions!Months
    BY <2>2 DEF Partitions!Months
  <2>4. [at |-> "ensured", now |-> month] \in Partitions!Worker
    BY DEF PartitionsSound, Partitions!TypeOK, Partitions!Worker
  <2> HIDE DEF n
  <2>5. Partitions!TypeOK'
    BY <2>1, <2>2, <2>3, <2>4 DEF PartitionsSound, Partitions!TypeOK
  <2>6. \A q \in Receivers : Maintaining(workers[q])'
    BY <2>1 DEF PartitionsSound, Partitions!TypeOK, Maintaining
  <2>7. Partitions!RecentIsKept'
    BY <2>1 DEF PartitionsSound, Partitions!RecentIsKept
  <2> QED
    BY <2>1, <2>2, <2>5, <2>6, <2>7 DEF PartitionsSound
<1>3. CASE Partitions!DropOldPartitions(r)
  <2> DEFINE old == Partitions!Old(workers[r].now)
  <2>1. /\ workers' = [workers EXCEPT ![r] = Partitions!None]
        /\ tables' = tables \ old /\ stored' = {s \in stored : s[2] \notin old}
        /\ UNCHANGED <<month, keep, updates, traces, writes, events, made, ensured, ensuredEvents>>
    BY <1>3 DEF Partitions!DropOldPartitions, Partitions!Set, Partitions!clock
  <2>2. \A m \in made : m >= month - Retention => m \notin old
    BY <1>3 DEF PartitionsSound, Partitions!TypeOK, Partitions!Months, Partitions!Worker, Partitions!DropOldPartitions, Maintaining, Partitions!Old
  <2> HIDE DEF old
  <2>3. Partitions!None \in Partitions!Worker /\ Maintaining(Partitions!None)'
    BY DEF Partitions!None, Partitions!Worker, Maintaining
  <2>4. Partitions!TypeOK'
    BY <2>1, <2>3 DEF PartitionsSound, Partitions!TypeOK
  <2>5. \A q \in Receivers : Maintaining(workers[q])'
    BY <2>1, <2>3 DEF PartitionsSound, Partitions!TypeOK, Maintaining
  <2>6. Partitions!RecentIsKept'
    BY <2>1, <2>2 DEF PartitionsSound, Partitions!RecentIsKept
  <2> QED
    BY <2>1, <2>4, <2>5, <2>6 DEF PartitionsSound
<1>4. CASE Partitions!MaintenanceFails(r)
  <2>1. /\ workers' = [workers EXCEPT ![r] = Partitions!None]
        /\ UNCHANGED <<month, keep, updates, traces, stored, writes, tables, events, made, ensured, ensuredEvents>>
    BY <1>4 DEF Partitions!MaintenanceFails, Partitions!Set, Partitions!clock, Partitions!data, Partitions!partitions
  <2>2. Partitions!None \in Partitions!Worker /\ Maintaining(Partitions!None)'
    BY DEF Partitions!None, Partitions!Worker, Maintaining
  <2>3. Partitions!TypeOK'
    BY <2>1, <2>2 DEF PartitionsSound, Partitions!TypeOK
  <2>4. \A q \in Receivers : Maintaining(workers[q])'
    BY <2>1, <2>2 DEF PartitionsSound, Partitions!TypeOK, Maintaining
  <2> QED
    BY <2>1, <2>3, <2>4 DEF PartitionsSound, Partitions!RecentIsKept
<1> QED
  BY <1>1, <1>2, <1>3, <1>4 DEF Partitions!Maintains

(* Ingest: a span comes with its trace's row.                              *)
LEMMA PartitionsIngest ==
  ASSUME PartitionsSound, NEW i \in Ingests,
         \/ Partitions!UpsertSpans(i) \/ Partitions!IngestFails(i)
         \/ \E t \in Traces, m \in {month - 1, month} : Partitions!UpsertTrace(i, t, m)
  PROVE PartitionsSound'
<1> USE PartitionsConstants
<1>1. UNCHANGED <<month, keep, updates, tables, events, made, ensured, ensuredEvents, workers>>
  BY DEF Partitions!UpsertSpans, Partitions!IngestFails, Partitions!UpsertTrace, Partitions!clock, Partitions!partitions
<1>2. ASSUME NEW t \in Traces, NEW m \in {month - 1, month}, Partitions!UpsertTrace(i, t, m)
      PROVE PartitionsSound'
  <2>1. [trace |-> t, month |-> m, new |-> traces[t] = Nothing] \in Partitions!Write
    BY DEF PartitionsSound, Partitions!TypeOK, Partitions!Write, Partitions!Months
  <2>2. UNCHANGED <<traces, stored>> /\ writes' \in [Ingests -> Partitions!Write \cup {Nothing}]
    BY <1>2, <2>1 DEF PartitionsSound, Partitions!TypeOK, Partitions!UpsertTrace
  <2> QED
    BY <1>1, <2>2 DEF PartitionsSound, Partitions!TypeOK, Partitions!RecentIsKept, Maintaining
<1>3. CASE Partitions!IngestFails(i)
  <2>1. UNCHANGED <<traces, stored>> /\ writes' \in [Ingests -> Partitions!Write \cup {Nothing}]
    BY <1>3 DEF PartitionsSound, Partitions!TypeOK, Partitions!IngestFails
  <2> QED
    BY <1>1, <2>1 DEF PartitionsSound, Partitions!TypeOK, Partitions!RecentIsKept, Maintaining
<1>4. CASE Partitions!UpsertSpans(i)
  <2> DEFINE w == writes[i]
  <2>1. w.trace \in Traces /\ w.month \in Partitions!Months /\ w.month # Nothing
    BY <1>4 DEF PartitionsSound, Partitions!TypeOK, Partitions!UpsertSpans, Partitions!Write, Partitions!Months
  <2>2. /\ writes' = [writes EXCEPT ![i] = Nothing] /\ w.month \in tables
        /\ traces' = IF traces[w.trace] = Nothing THEN [traces EXCEPT ![w.trace] = w.month] ELSE traces
        /\ stored' = stored \cup {<<w.trace, w.month>>}
    BY <1>4 DEF Partitions!UpsertSpans
  <2> HIDE DEF w
  <2>3. /\ writes' \in [Ingests -> Partitions!Write \cup {Nothing}]
        /\ traces' \in [Traces -> Partitions!Months \cup {Nothing}]
        /\ stored' \subseteq Traces \X Partitions!Months
    BY <2>1, <2>2 DEF PartitionsSound, Partitions!TypeOK
  <2>4. \A t \in Traces : traces[t] # Nothing \/ t = w.trace => traces'[t] # Nothing
    BY <2>1, <2>2 DEF PartitionsSound, Partitions!TypeOK
  <2>5. \A s \in stored' : traces'[s[1]] # Nothing /\ s[2] \in tables
    BY <2>1, <2>2, <2>4 DEF PartitionsSound, Partitions!TypeOK, Partitions!RecentIsKept
  <2> QED
    BY <1>1, <2>3, <2>5 DEF PartitionsSound, Partitions!TypeOK, Partitions!RecentIsKept, Maintaining
<1> QED
  BY <1>2, <1>3, <1>4

LEMMA PartitionsStep ==
  ASSUME PartitionsSound, Partitions!Next
  PROVE PartitionsSound'
<1> USE PartitionsConstants
<1>1. CASE Partitions!NextMonth
  <2>1. month < LastMonth /\ month' = month + 1
        /\ UNCHANGED <<keep, updates, traces, stored, writes, tables, events, made, ensured, ensuredEvents, workers>>
    BY <1>1 DEF Partitions!NextMonth, Partitions!data, Partitions!partitions
  <2> QED
    BY <2>1 DEF PartitionsSound, Partitions!TypeOK, Partitions!RecentIsKept, Partitions!Months, Partitions!Worker, Maintaining
<1>2. CASE Partitions!EnsureFuturePartitions
  <2>1. events' = events \cup (month..month + Premake) /\ ensuredEvents' = month
        /\ UNCHANGED <<month, keep, updates, traces, stored, writes, tables, made, ensured, workers>>
    BY <1>2 DEF Partitions!EnsureFuturePartitions, Partitions!data, Partitions!clock
  <2>2. month..month + Premake \subseteq Partitions!Months
    BY DEF PartitionsSound, Partitions!TypeOK, Partitions!Months
  <2> QED
    BY <2>1, <2>2 DEF PartitionsSound, Partitions!TypeOK, Partitions!RecentIsKept, Maintaining
<1>3. CASE Partitions!CleanupOnce
  <2>1. UNCHANGED <<month, keep, updates, writes, tables, events, made, ensured, ensuredEvents, workers>>
    BY <1>3 DEF Partitions!CleanupOnce, Partitions!partitions, Partitions!clock
  <2>2. PICK swept \in SUBSET Partitions!Expired :
          /\ traces' = [t \in Traces |-> IF t \in swept THEN Nothing ELSE traces[t]]
          /\ stored' = {s \in stored : s[1] \notin swept}
    BY <1>3 DEF Partitions!CleanupOnce
  <2>3. traces' \in [Traces -> Partitions!Months \cup {Nothing}] /\ stored' \subseteq Traces \X Partitions!Months
    BY <2>2 DEF PartitionsSound, Partitions!TypeOK
  <2>4. \A s \in stored' : traces'[s[1]] # Nothing /\ s[2] \in tables
    BY <2>2 DEF PartitionsSound, Partitions!TypeOK, Partitions!RecentIsKept
  <2> QED
    BY <2>1, <2>3, <2>4 DEF PartitionsSound, Partitions!TypeOK, Partitions!RecentIsKept, Maintaining
<1>4. ASSUME NEW k \in Keeps, Partitions!UpdateRetention(k) \/ Partitions!UpdateSettings(k)
      PROVE PartitionsSound'
  <2>1. keep' = k /\ updates < MaxUpdates /\ updates' = updates + 1
        /\ UNCHANGED <<month, traces, stored, writes, tables, events, made, ensured, ensuredEvents, workers>>
    BY <1>4 DEF Partitions!UpdateRetention, Partitions!UpdateSettings, Partitions!Keep, Partitions!data, Partitions!partitions
  <2> QED
    BY <2>1 DEF PartitionsSound, Partitions!TypeOK, Partitions!RecentIsKept, Maintaining
<1> QED
  BY <1>1, <1>2, <1>3, <1>4, PartitionsMaintained, PartitionsIngest DEF Partitions!Next

(* Months are made and kept, and spans stored with their traces, whatever  *)
(* the months are and however many receivers maintain them.                *)
LEMMA PartitionsInvariant == PartsSpec => [](part = "partitions" => PartitionsSound)
<1> DEFINE Sound == part = "partitions" => PartitionsSound
<1>1. PartsInit => Sound
  BY PartitionsInit DEF PartsInit
<1>2. Sound /\ [PartsNext]_partsVars => Sound'
  <2> SUFFICES ASSUME Sound, [PartsNext]_partsVars PROVE Sound'
    OBVIOUS
  <2>1. CASE PartsNext
    BY <2>1, PartStays, PartitionsRuns, PartitionsStep
  <2>2. CASE UNCHANGED partsVars
    <3>1. UNCHANGED <<part, month, keep, updates, traces, stored, writes, tables, events, made, ensured, ensuredEvents, workers>>
      BY <2>2 DEF partsVars, OfPartitions
    <3> QED
      BY <3>1 DEF PartitionsSound, Partitions!TypeOK, Partitions!RecentIsKept, Partitions!Months, Partitions!Worker, Partitions!Write, Maintaining
  <2> QED
    BY <2>1, <2>2
<1> QED
  BY <1>1, <1>2, PTL DEF PartsSpec

(* While the last ensure that was committed is at most Premake months old, *)
(* a span of a month that is to be kept finds its partition; none of these *)
(* is dropped, and no span is left without its trace.  The retention may   *)
(* be any integer.                                                         *)
THEOREM SpansAreStoredHolds == PartsSpec => []SpansAreStored
<1>1. (part = "partitions" => PartitionsSound) => SpansAreStored
  BY PartitionsAgree DEF SpansAreStored
<1> QED
  BY <1>1, PartitionsInvariant, PTL
-----------------------------------------------------------------------------
(* The limits: what has passed since a time and what is in the bucket now  *)
(* are no more than a full bucket and what it gained since.                *)
Full(b) == Capacity[b.store] * Per
Level(b) == IF buckets[b] = Nothing THEN Full(b) ELSE RateLimits!Refilled(b, buckets[b])

Paced(b) ==
  /\ \A t \in RateLimits!Times : passed[b][t] \in Nat /\ (t >= clock => passed[b][t] = passed[b][clock])
  /\ \A t \in 1..clock : Per * (passed[b][clock] - passed[b][t - 1]) + Level(b) <= Full(b) + (clock - t) * Rate[b.store]

Kept(b) == buckets[b] # Nothing => buckets[b] \in [tokens : 0..Full(b), at : 0..clock]

Promising(b) ==
  promised[b] # Nothing =>
    buckets[b] = Nothing \/ buckets[b].tokens + (promised[b] - buckets[b].at) * Rate[b.store] >= Per

LimitsSound ==
  /\ clock \in RateLimits!Times /\ pending \in [Callers -> Seq(RateLimits!Buckets)]
  /\ pruned \in [RateLimits!Stores -> RateLimits!Times] /\ requests \in 0..MaxRequests
  /\ DOMAIN buckets = RateLimits!Buckets /\ DOMAIN promised = RateLimits!Buckets
  /\ passed \in [RateLimits!Buckets -> [RateLimits!Times -> Nat]]
  /\ \A b \in RateLimits!Buckets : Kept(b) /\ Paced(b) /\ Promising(b)

LEMMA LimitConstants ==
  /\ Per \in Nat \ {0} /\ PruneInterval \in Nat \ {0} /\ LimitTime \in Nat /\ PruneInterval <= LimitTime /\ MaxRequests \in Nat
  /\ Nothing \notin [tokens : Nat, at : Nat]
  /\ \A b \in RateLimits!Buckets :
       /\ b.store \in RateLimits!Stores
       /\ Rate[b.store] \in Nat \ {0} /\ Full(b) \in Nat /\ Per * Capacity[b.store] = Full(b) /\ Full(b) <= IdleTimeout * Rate[b.store]
<1>1. \A s \in RateLimits!Stores : Capacity[s] \in Nat /\ Rate[s] \in Nat \ {0}
  BY PartsAssumption DEF RateLimits!RateLimitsAssumption
<1>2. Per \in Nat \ {0}
  BY PartsAssumption DEF RateLimits!RateLimitsAssumption
<1>3. \A b \in RateLimits!Buckets : b.store \in RateLimits!Stores
  BY DEF RateLimits!Buckets, RateLimits!Global, RateLimits!Stores
<1>4. \A k \in Nat, n \in Nat : k * n \in Nat /\ k * n = n * k
  OBVIOUS
<1>5. \A s \in RateLimits!Stores : IdleTimeout * Rate[s] >= Capacity[s] * Per
  BY PartsAssumption DEF RateLimits!RateLimitsAssumption
<1>6. ASSUME NEW b \in RateLimits!Buckets
      PROVE /\ b.store \in RateLimits!Stores
            /\ Rate[b.store] \in Nat \ {0} /\ Full(b) \in Nat /\ Per * Capacity[b.store] = Full(b) /\ Full(b) <= IdleTimeout * Rate[b.store]
  BY <1>1, <1>2, <1>3, <1>4, <1>5 DEF Full
<1> QED
  BY <1>2, <1>6, PartsAssumption DEF RateLimits!RateLimitsAssumption

(* A whole number of parts, rounded up, is enough.                         *)
LEMMA RoundedUp ==
  ASSUME NEW x \in Nat, NEW r \in Nat \ {0}
  PROVE ((x + r - 1) \div r) \in Nat /\ ((x + r - 1) \div r) * r >= x
  OBVIOUS

LEMMA Monotone ==
  ASSUME NEW n \in Int, NEW m \in Int, n <= m, NEW r \in Nat
  PROVE n * r <= m * r /\ n * r \in Int /\ (n + 1) * r = n * r + r /\ (m >= 0 => m * r >= 0)
  OBVIOUS

LEMMA LevelBounded ==
  ASSUME LimitsSound, NEW b \in RateLimits!Buckets
  PROVE Level(b) \in 0..Full(b)
<1>1. CASE buckets[b] = Nothing
  BY <1>1, LimitConstants DEF Level
<1>2. CASE buckets[b] # Nothing
  <2>1. buckets[b].tokens \in 0..Full(b) /\ clock - buckets[b].at \in Nat
    BY <1>2 DEF LimitsSound, Kept, RateLimits!Times
  <2>2. (clock - buckets[b].at) * Rate[b.store] \in Nat
    BY <2>1, LimitConstants, Monotone
  <2> QED
    BY <1>2, <2>1, <2>2, LimitConstants DEF Level, RateLimits!Refilled, RateLimits!Least, Full
<1> QED
  BY <1>1, <1>2

LEMMA LimitsInit == RateLimits!Init => LimitsSound
<1> SUFFICES ASSUME RateLimits!Init PROVE LimitsSound
  OBVIOUS
<1>1. clock \in RateLimits!Times /\ clock = PruneInterval /\ requests = 0
  BY LimitConstants DEF RateLimits!Init, RateLimits!Times
<1>2. ASSUME NEW b \in RateLimits!Buckets
      PROVE Kept(b) /\ Paced(b) /\ Promising(b)
  <2>1. buckets[b] = Nothing /\ promised[b] = Nothing /\ \A t \in RateLimits!Times : passed[b][t] = 0
    BY <1>2 DEF RateLimits!Init
  <2>2. ASSUME NEW t \in 1..clock
        PROVE Per * (passed[b][clock] - passed[b][t - 1]) + Level(b) <= Full(b) + (clock - t) * Rate[b.store]
    <3>1. passed[b][clock] - passed[b][t - 1] = 0 /\ Level(b) = Full(b)
      BY <1>1, <2>1, <2>2, LimitConstants DEF RateLimits!Times, Level
    <3>2. (clock - t) * Rate[b.store] \in Nat
      BY <1>1, <2>2, LimitConstants, Monotone
    <3> QED
      BY <3>1, <3>2, LimitConstants
  <2> QED
    BY <1>1, <2>1, <2>2 DEF Kept, Paced, Promising
<1> QED
  BY <1>1, <1>2, LimitConstants DEF LimitsSound, RateLimits!Init, RateLimits!Times

LEMMA LimitsTick ==
  ASSUME LimitsSound, RateLimits!Tick
  PROVE LimitsSound'
<1>1. clock < LimitTime /\ clock' = clock + 1 /\ UNCHANGED <<buckets, pruned, pending, passed, promised, requests>>
  BY DEF RateLimits!Tick
<1>2. clock \in Nat /\ clock' \in RateLimits!Times /\ clock \in RateLimits!Times
  BY <1>1, LimitConstants DEF LimitsSound, RateLimits!Times
<1>3. ASSUME NEW b \in RateLimits!Buckets
      PROVE Kept(b)' /\ Paced(b)' /\ Promising(b)'
  <2> DEFINE r == Rate[b.store]
  <2>0. r \in Nat /\ Full(b) \in Nat
    BY LimitConstants
  <2>1. Kept(b)' /\ Promising(b)'
    BY <1>1, <1>2, <1>3 DEF LimitsSound, Kept, Promising, Full
  <2>2. Level(b)' <= Level(b) + r /\ Level(b)' <= Full(b) /\ Level(b)' \in Nat
    <3>1. CASE buckets[b] = Nothing
      BY <1>1, <2>0, <3>1 DEF Level, Full
    <3>2. CASE buckets[b] # Nothing
      <4> DEFINE d == clock - buckets[b].at
      <4>1. buckets[b].tokens \in Nat /\ buckets[b].at \in Int /\ d \in Nat /\ clock + 1 - buckets[b].at = d + 1
        BY <1>2, <3>2, <2>0 DEF LimitsSound, Kept
      <4>2. (d + 1) * r = d * r + r /\ d * r \in Nat
        <5> HIDE DEF d, r
        <5> QED
          BY <2>0, <4>1, Monotone
      <4>3. Level(b) = RateLimits!Least(Full(b), buckets[b].tokens + d * r)
        BY <3>2 DEF Level, RateLimits!Refilled, Full
      <4>4. Level(b)' = RateLimits!Least(Full(b), buckets[b].tokens + (d + 1) * r)
        <5>1. Level(b)' = RateLimits!Least(Full(b), buckets[b].tokens + (clock' - buckets[b].at) * r)
          BY <1>1, <3>2 DEF Level, RateLimits!Refilled, Full
        <5> HIDE DEF d
        <5>2. clock' - buckets[b].at = d + 1
          BY <1>1, <1>2, <4>1
        <5> QED
          BY <5>1, <5>2
      <4> HIDE DEF d, r
      <4> QED
        BY <2>0, <4>1, <4>2, <4>3, <4>4 DEF RateLimits!Least
    <3> QED
      BY <3>1, <3>2
  <2>3. /\ \A t \in RateLimits!Times : passed[b][t] \in Nat /\ (t >= clock => passed[b][t] = passed[b][clock])
        /\ \A t \in 1..clock : Per * (passed[b][clock] - passed[b][t - 1]) + Level(b) <= Full(b) + (clock - t) * r
    BY DEF LimitsSound, Paced
  <2>4. passed[b][clock + 1] = passed[b][clock] /\ passed[b][clock] \in Nat
    BY <1>1, <1>2, <2>3 DEF RateLimits!Times
  <2>5. ASSUME NEW t \in 1..clock + 1
        PROVE Per * (passed[b][clock + 1] - passed[b][t - 1]) + Level(b)' <= Full(b) + (clock + 1 - t) * r
    <3>1. CASE t = clock + 1
      <4>1. passed[b][clock + 1] - passed[b][t - 1] = 0 /\ clock + 1 - t = 0
        BY <1>2, <2>4, <3>1
      <4>2. Per * 0 = 0 /\ 0 * r = 0
        BY <2>0, LimitConstants
      <4> HIDE DEF r
      <4> QED
        BY <2>0, <2>2, <4>1, <4>2
    <3>2. CASE t \in 1..clock
      <4>0. clock - t \in Int /\ clock + 1 - t = (clock - t) + 1
        BY <1>2, <3>2
      <4>1. (clock + 1 - t) * r = (clock - t) * r + r /\ (clock - t) * r \in Int
        <5> DEFINE d == clock - t
        <5> HIDE DEF d, r
        <5>0. d \in Int /\ d <= d
          BY <4>0 DEF d
        <5>1. (d + 1) * r = d * r + r /\ d * r \in Int
          BY <2>0, <5>0, Monotone
        <5> QED
          BY <4>0, <5>1 DEF d
      <4>2. passed[b][t - 1] \in Nat
        BY <1>2, <2>3, <3>2, LimitConstants DEF RateLimits!Times
      <4>3. Per * (passed[b][clock] - passed[b][t - 1]) \in Int /\ Level(b) \in Int
        BY <2>4, <4>2, LimitConstants, LevelBounded
      <4>4. Per * (passed[b][clock] - passed[b][t - 1]) + Level(b) <= Full(b) + (clock - t) * r
        BY <2>3, <3>2
      <4> QED
        BY <2>0, <2>2, <2>4, <4>1, <4>3, <4>4
    <3> QED
      BY <1>2, <2>5, <3>1, <3>2
  <2> QED
    BY <1>1, <1>2, <2>1, <2>3, <2>4, <2>5 DEF Paced, Full
<1> QED
  BY <1>1, <1>2, <1>3 DEF LimitsSound

(* A bucket that is dropped was full.                                      *)
LEMMA StaleIsFull ==
  ASSUME LimitsSound, NEW b \in RateLimits!Buckets, RateLimits!Stale(b)
  PROVE Level(b) = Full(b)
<1> DEFINE d == clock - buckets[b].at
           r == Rate[b.store]
<1>1. buckets[b] # Nothing /\ buckets[b].tokens \in Nat /\ d \in Nat /\ d > IdleTimeout
  BY DEF LimitsSound, Kept, RateLimits!Stale, RateLimits!Times
<1>2. r \in Nat \ {0} /\ Full(b) \in Nat /\ Full(b) <= IdleTimeout * r
  BY LimitConstants
<1>3. Level(b) = RateLimits!Least(Full(b), buckets[b].tokens + d * r)
  BY <1>1 DEF Level, RateLimits!Refilled, Full
<1> HIDE DEF d, r
<1>4. IdleTimeout \in Int
  BY PartsAssumption DEF RateLimits!RateLimitsAssumption
<1>5. IdleTimeout * r <= d * r /\ d * r \in Int /\ IdleTimeout * r \in Int
  BY <1>1, <1>2, <1>4, Monotone
<1> QED
  BY <1>1, <1>2, <1>3, <1>5 DEF RateLimits!Least

LEMMA LimitsConsume ==
  ASSUME LimitsSound, NEW c \in Callers, NEW b \in RateLimits!Buckets, pending[c] # <<>>,
         RateLimits!Consume(b, c), UNCHANGED <<clock, requests>>
  PROVE LimitsSound'
<1> DEFINE old == IF buckets[b] = Nothing THEN RateLimits!NewBucket(b) ELSE buckets[b]
           q == RateLimits!Refilled(b, old)
           r == Rate[b.store]
<1>0. r \in Nat \ {0} /\ Per \in Nat \ {0} /\ Full(b) \in Nat /\ clock \in Nat
  BY LimitConstants DEF LimitsSound, RateLimits!Times
<1>1. q = Level(b) /\ q \in 0..Full(b)
  <2>1. CASE buckets[b] = Nothing
    <3>1. old = [tokens |-> Full(b), at |-> clock]
      BY <2>1 DEF RateLimits!NewBucket, Full
    <3>2. q = RateLimits!Least(Full(b), Full(b) + (clock - clock) * r)
      BY <3>1 DEF RateLimits!Refilled, Full
    <3>3. (clock - clock) * r = 0
      BY <1>0
    <3> QED
      BY <1>0, <2>1, <3>2, <3>3 DEF RateLimits!Least, Level
  <2>2. CASE buckets[b] # Nothing
    BY <2>2, LevelBounded DEF Level
  <2> QED
    BY <2>1, <2>2
<1>2. /\ buckets'[b] = [tokens |-> IF q >= Per THEN q - Per ELSE q, at |-> clock]
      /\ DOMAIN buckets' = RateLimits!Buckets
      /\ \A x \in RateLimits!Buckets \ {b} : buckets'[x] = buckets[x] \/ (buckets'[x] = Nothing /\ RateLimits!Stale(x))
  BY DEF RateLimits!Consume, RateLimits!Paid
<1>3. \/ /\ q >= Per /\ promised' = [promised EXCEPT ![b] = Nothing]
         /\ passed' = [passed EXCEPT ![b] = [t \in RateLimits!Times |-> IF t < clock THEN @[t] ELSE @[t] + 1]]
      \/ ~(q >= Per) /\ promised' = [promised EXCEPT ![b] = clock + ((Per - q + r - 1) \div r)] /\ passed' = passed
  BY DEF RateLimits!Consume, RateLimits!Allows, RateLimits!RetryAfter
<1>4. /\ pending' \in [Callers -> Seq(RateLimits!Buckets)]
      /\ pruned' \in [RateLimits!Stores -> RateLimits!Times]
  <2>1. pending' = [pending EXCEPT ![c] = IF q >= Per THEN Tail(@) ELSE <<>>]
    BY DEF RateLimits!Consume, RateLimits!Allows
  <2>2. pending[c] \in Seq(RateLimits!Buckets) /\ pending[c] # <<>>
    BY DEF LimitsSound
  <2>3. Tail(pending[c]) \in Seq(RateLimits!Buckets) /\ <<>> \in Seq(RateLimits!Buckets)
    BY <2>2
  <2>4. pruned' \in {pruned, [pruned EXCEPT ![b.store] = clock]}
    BY DEF RateLimits!Consume
  <2> HIDE DEF q
  <2> QED
    BY <2>1, <2>3, <2>4 DEF LimitsSound
<1> HIDE DEF q, old
<1>5. passed' \in [RateLimits!Buckets -> [RateLimits!Times -> Nat]] /\ DOMAIN promised' = RateLimits!Buckets
  <2>1. DOMAIN promised' = RateLimits!Buckets
    BY <1>3 DEF LimitsSound
  <2>2. [t \in RateLimits!Times |-> IF t < clock THEN passed[b][t] ELSE passed[b][t] + 1] \in [RateLimits!Times -> Nat]
    BY DEF LimitsSound
  <2> QED
    BY <1>3, <2>1, <2>2 DEF LimitsSound
<1>6. ASSUME NEW x \in RateLimits!Buckets, x # b
      PROVE Kept(x)' /\ Paced(x)' /\ Promising(x)'
  <2>1. passed'[x] = passed[x] /\ promised'[x] = promised[x]
    BY <1>3, <1>6 DEF LimitsSound
  <2>2. Level(x)' = Level(x)
    <3>1. CASE buckets'[x] = buckets[x]
      BY <3>1 DEF Level, RateLimits!Refilled, Full
    <3>2. CASE buckets'[x] = Nothing /\ RateLimits!Stale(x)
      BY <3>2, StaleIsFull DEF Level, Full
    <3> QED
      BY <1>2, <1>6, <3>1, <3>2
  <2>3. Kept(x) /\ Promising(x) /\ Paced(x)
    BY DEF LimitsSound
  <2>4. Kept(x)' /\ Promising(x)'
    BY <1>2, <1>6, <2>1, <2>3 DEF Kept, Promising, Full
  <2> QED
    BY <2>1, <2>2, <2>3, <2>4 DEF Paced, Full
<1>7. Kept(b)'
  BY <1>0, <1>1, <1>2 DEF Kept, Full
<1>8. Level(b)' = IF q >= Per THEN q - Per ELSE q
  <2>1. buckets'[b] # Nothing
    BY <1>0, <1>1, <1>2, LimitConstants
  <2>2. Level(b)' = RateLimits!Least(Full(b), buckets'[b].tokens + (clock - clock) * r)
    BY <1>2, <2>1 DEF Level, RateLimits!Refilled, Full
  <2>3. (clock - clock) * r = 0
    BY <1>0
  <2> QED
    BY <1>0, <1>1, <1>2, <2>2, <2>3 DEF RateLimits!Least
<1>9. Promising(b)'
  <2>1. CASE q >= Per
    BY <1>3, <2>1 DEF Promising, LimitsSound
  <2>2. CASE ~(q >= Per)
    <3> DEFINE w == (Per - q + r - 1) \div r
    <3>1. Per - q \in Nat
      BY <1>0, <1>1, <2>2
    <3>2. w \in Nat /\ w * r >= Per - q
      <4> HIDE DEF r
      <4> QED
        BY <1>0, <3>1, RoundedUp
    <3>3. promised'[b] = clock + w /\ buckets'[b].tokens = q /\ buckets'[b].at = clock
      BY <1>2, <1>3, <2>2 DEF LimitsSound
    <3> HIDE DEF w, r
    <3>4. (clock + w) - clock = w /\ w * r \in Int
      BY <1>0, <3>2
    <3>5. buckets'[b].tokens + (promised'[b] - buckets'[b].at) * r >= Per
      BY <1>0, <1>1, <3>2, <3>3, <3>4
    <3> QED
      BY <3>5 DEF Promising, r
  <2> QED
    BY <2>1, <2>2
<1>10. Paced(b)'
  <2>0. clock \in RateLimits!Times /\ \A t \in 1..clock : t - 1 \in RateLimits!Times /\ t - 1 < clock
    BY LimitConstants DEF LimitsSound, RateLimits!Times
  <2>1. /\ \A t \in RateLimits!Times : passed[b][t] \in Nat /\ (t >= clock => passed[b][t] = passed[b][clock])
        /\ \A t \in 1..clock : Per * (passed[b][clock] - passed[b][t - 1]) + Level(b) <= Full(b) + (clock - t) * r
    BY DEF LimitsSound, Paced
  <2>2. CASE q >= Per
    <3>1. \A t \in RateLimits!Times : passed'[b][t] = IF t < clock THEN passed[b][t] ELSE passed[b][t] + 1
      BY <1>3, <2>2 DEF LimitsSound
    <3>2. \A t \in RateLimits!Times : passed'[b][t] \in Nat /\ (t >= clock => passed'[b][t] = passed'[b][clock])
      BY <1>0, <2>0, <2>1, <3>1 DEF RateLimits!Times
    <3>3. ASSUME NEW t \in 1..clock
          PROVE Per * (passed'[b][clock] - passed'[b][t - 1]) + Level(b)' <= Full(b) + (clock - t) * r
      <4> DEFINE n == passed[b][clock] - passed[b][t - 1]
                 g == (clock - t) * r
      <4>1. n \in Int /\ passed'[b][clock] - passed'[b][t - 1] = n + 1
        BY <1>0, <2>0, <2>1, <3>1, <3>3
      <4>2. Per * n + q <= Full(b) + g
        BY <1>1, <2>1, <3>3
      <4>3. g \in Int
        BY <1>0, <3>3
      <4> HIDE DEF n, g, r
      <4>4. Per * (n + 1) = Per * n + Per /\ Per * n \in Int
        BY <1>0, <4>1
      <4>5. Per * (passed'[b][clock] - passed'[b][t - 1]) = Per * n + Per
        BY <4>1, <4>4
      <4>6. Level(b)' = q - Per /\ q \in Int /\ Per \in Int /\ Full(b) \in Int
        BY <1>0, <1>1, <1>8, <2>2
      <4>7. Per * n + Per + (q - Per) = Per * n + q
        BY <4>4, <4>6
      <4>8. Per * (passed'[b][clock] - passed'[b][t - 1]) + Level(b)' <= Full(b) + g
        BY <4>2, <4>5, <4>6, <4>7
      <4> QED
        BY <4>8 DEF g
    <3> QED
      BY <3>2, <3>3 DEF Paced, Full
  <2>3. CASE ~(q >= Per)
    <3>1. passed'[b] = passed[b] /\ Level(b)' = Level(b)
      BY <1>1, <1>3, <1>8, <2>3
    <3> QED
      BY <2>1, <3>1 DEF Paced, Full
  <2> QED
    BY <2>2, <2>3
<1> QED
  BY <1>2, <1>4, <1>5, <1>6, <1>7, <1>9, <1>10 DEF LimitsSound

LEMMA LimitsStep ==
  ASSUME LimitsSound, RateLimits!Next
  PROVE LimitsSound'
<1>1. ASSUME NEW c \in Callers, RateLimits!Request(c) \/ RateLimits!Register(c)
      PROVE LimitsSound'
  <2>1. RateLimits!Bucket("api", c) \in RateLimits!Buckets /\ RateLimits!Bucket("login", c) \in RateLimits!Buckets
        /\ RateLimits!Global \in RateLimits!Buckets
    BY DEF RateLimits!Bucket, RateLimits!Buckets
  <2> DEFINE few == <<RateLimits!Bucket("api", c)>>
             many == <<RateLimits!Bucket("api", c), RateLimits!Global, RateLimits!Bucket("login", c)>>
  <2>5. few \in Seq(RateLimits!Buckets) /\ many \in Seq(RateLimits!Buckets)
    BY <2>1
  <2>6. RateLimits!Arrives(c, few) \/ RateLimits!Arrives(c, many)
    BY <1>1 DEF RateLimits!Request, RateLimits!Register
  <2> HIDE DEF few, many
  <2>2. PICK limits \in Seq(RateLimits!Buckets) : RateLimits!Arrives(c, limits)
    BY <2>5, <2>6
  <2>3. /\ pending' \in [Callers -> Seq(RateLimits!Buckets)] /\ requests' \in 0..MaxRequests
        /\ UNCHANGED <<clock, buckets, pruned, passed, promised>>
    BY <2>2, LimitConstants DEF RateLimits!Arrives, LimitsSound
  <2>4. ASSUME NEW b \in RateLimits!Buckets
        PROVE Kept(b)' /\ Paced(b)' /\ Promising(b)'
    BY <2>3 DEF LimitsSound, Kept, Paced, Promising, Level, Full, RateLimits!Refilled
  <2> QED
    BY <2>3, <2>4 DEF LimitsSound
<1>2. ASSUME NEW c \in Callers, RateLimits!Dispatch(c) \/ RateLimits!RateLimit(c) \/ RateLimits!RateLimitGlobal(c)
      PROVE LimitsSound'
  <2>1. pending[c] # <<>> /\ RateLimits!Consume(Head(pending[c]), c) /\ UNCHANGED <<clock, requests>>
    BY <1>2 DEF RateLimits!Dispatch, RateLimits!RateLimit, RateLimits!RateLimitGlobal
  <2>2. pending[c] \in Seq(RateLimits!Buckets)
    BY DEF LimitsSound
  <2>3. Head(pending[c]) \in RateLimits!Buckets
    BY <2>1, <2>2
  <2> QED
    BY <2>1, <2>3, LimitsConsume
<1> QED
  BY <1>1, <1>2, LimitsTick DEF RateLimits!Next

LEMMA LimitsAgree == LimitsSound => RateLimits!LimitsKept
<1> SUFFICES ASSUME LimitsSound, NEW b \in RateLimits!Buckets
             PROVE /\ \A t \in 1..clock :
                        Per * (passed[b][clock] - passed[b][t - 1]) <= Per * Capacity[b.store] + (clock - t) * Rate[b.store]
                   /\ Promising(b)
  BY DEF RateLimits!LimitsKept, Promising
<1>1. ASSUME NEW t \in 1..clock
      PROVE Per * (passed[b][clock] - passed[b][t - 1]) <= Per * Capacity[b.store] + (clock - t) * Rate[b.store]
  <2> DEFINE n == passed[b][clock] - passed[b][t - 1]
             g == (clock - t) * Rate[b.store]
  <2>1. Per * n + Level(b) <= Full(b) + g
    BY <1>1 DEF LimitsSound, Paced
  <2>2. clock \in Nat /\ clock \in RateLimits!Times /\ t - 1 \in RateLimits!Times
    BY <1>1, LimitConstants DEF LimitsSound, RateLimits!Times
  <2>3. n \in Int /\ g \in Int
    BY <1>1, <2>2, LimitConstants DEF LimitsSound
  <2> HIDE DEF n, g
  <2>4. Per * n \in Int /\ Per * Capacity[b.store] = Full(b) /\ Full(b) \in Int
    BY <2>3, LimitConstants
  <2>5. Per * n <= Per * Capacity[b.store] + g
    BY <2>1, <2>3, <2>4, LevelBounded
  <2> QED
    BY <2>5 DEF n, g
<1> QED
  BY <1>1 DEF LimitsSound

LEMMA LimitsInvariant == PartsSpec => [](part = "limits" => LimitsSound)
<1> DEFINE Sound == part = "limits" => LimitsSound
<1>1. PartsInit => Sound
  BY LimitsInit DEF PartsInit
<1>2. Sound /\ [PartsNext]_partsVars => Sound'
  <2> SUFFICES ASSUME Sound, [PartsNext]_partsVars PROVE Sound'
    OBVIOUS
  <2>1. CASE PartsNext
    BY <2>1, PartStays, RateLimitsRuns, LimitsStep
  <2>2. CASE UNCHANGED partsVars
    <3>1. UNCHANGED <<part, clock, buckets, pruned, pending, passed, promised, requests>>
      BY <2>2 DEF partsVars, OfRateLimits
    <3>2. \A b : Kept(b)' = Kept(b) /\ Paced(b)' = Paced(b) /\ Promising(b)' = Promising(b)
      BY <3>1 DEF Kept, Paced, Promising, Level, Full, RateLimits!Refilled
    <3> QED
      BY <3>1, <3>2 DEF LimitsSound
  <2> QED
    BY <2>1, <2>2
<1> QED
  BY <1>1, <1>2, PTL DEF PartsSpec

(* No client passes a limit more often than the bucket allows, and who     *)
(* comes when it was told finds its token.                                 *)
THEOREM LimitsKeptHolds == PartsSpec => []LimitsKept
<1>1. (part = "limits" => LimitsSound) => LimitsKept
  BY LimitsAgree DEF LimitsKept
<1> QED
  BY <1>1, LimitsInvariant, PTL
-----------------------------------------------------------------------------
(* Redaction: what one span becomes by one row of settings is what they    *)
(* promise, and every row of a batch is made by the same one.              *)
Stage == 1..6
Hits(s, config) == {i \in DOMAIN Redaction!Stages : Redaction!Replaces(Redaction!Stages[i], s, config)}

LEMMA StagesAre ==
  /\ DOMAIN Redaction!Stages = Stage
  /\ Redaction!Stages[1] = "base64" /\ Redaction!Stages[2] = "credential" /\ Redaction!Stages[3] = "API_KEY"
  /\ Redaction!Stages[4] = "CREDIT_CARD" /\ Redaction!Stages[5] = "PHONE_NUMBER" /\ Redaction!Stages[6] = "custom"
  /\ Redaction!Patterns = {"base64", "credential", "API_KEY", "CREDIT_CARD", "PHONE_NUMBER", "custom"}
<1>1. DOMAIN Redaction!Stages = Stage
  BY DEF Redaction!Stages, Stage
<1>2. /\ Redaction!Stages[1] = "base64" /\ Redaction!Stages[2] = "credential" /\ Redaction!Stages[3] = "API_KEY"
      /\ Redaction!Stages[4] = "CREDIT_CARD" /\ Redaction!Stages[5] = "PHONE_NUMBER" /\ Redaction!Stages[6] = "custom"
  BY DEF Redaction!Stages
<1>3. Redaction!Patterns = {Redaction!Stages[1], Redaction!Stages[2], Redaction!Stages[3], Redaction!Stages[4], Redaction!Stages[5], Redaction!Stages[6]}
  BY <1>1 DEF Redaction!Patterns, Stage
<1> QED
  BY <1>1, <1>2, <1>3

LEMMA FirstHit ==
  ASSUME NEW S \in SUBSET Stage, S # {}
  PROVE Redaction!Min(S) \in S /\ \A i \in S : Redaction!Min(S) <= i
<1>0. \A i \in S : i \in {1, 2, 3, 4, 5, 6}
  BY DEF Stage
<1>1. \E i \in S : \A j \in S : i <= j
  <2>1. CASE 1 \in S
    BY <1>0, <2>1
  <2>2. CASE 1 \notin S /\ 2 \in S
    BY <1>0, <2>2
  <2>3. CASE S \cap {1, 2} = {} /\ 3 \in S
    BY <1>0, <2>3
  <2>4. CASE S \cap {1, 2, 3} = {} /\ 4 \in S
    BY <1>0, <2>4
  <2>5. CASE S \cap {1, 2, 3, 4} = {} /\ 5 \in S
    BY <1>0, <2>5
  <2>6. CASE S \cap {1, 2, 3, 4, 5} = {}
    BY <1>0, <2>6
  <2> QED
    BY <2>1, <2>2, <2>3, <2>4, <2>5, <2>6
<1> QED
  BY <1>1 DEF Redaction!Min

\* The patterns that count for a span by a row of settings.
Counts(s, row) ==
  {h \in s.hits : /\ h \in Redaction!Validated => s.valid
                  /\ h = "custom" => row.regex = "good"
                  /\ h = "base64" => row.strategy \notin {"mask", "hash"}}

LEMMA HitsCount ==
  ASSUME NEW s \in Redaction!Span, NEW row \in Redaction!Row, row.enabled,
         NEW config, config = Redaction!LoadRedactionConfig(row), row # Nothing
  PROVE \A i \in Stage : i \in Hits(s, config) <=> Redaction!Stages[i] \in Counts(s, row)
<1>1. config.custom = (row.regex = "good") /\ config.strategy = Redaction!ValidStrategy(row.strategy)
  BY DEF Redaction!LoadRedactionConfig, Redaction!CompileCustomPatterns
<1>2. (config.strategy = "redact") <=> row.strategy \notin {"mask", "hash"}
  BY <1>1 DEF Redaction!ValidStrategy, Redaction!ValueActions
<1> QED
  BY <1>1, <1>2, StagesAre DEF Hits, Counts, Redaction!Replaces, Redaction!RescanReplaces

\* One string.
LEMMA StringRedacted ==
  ASSUME NEW s \in Redaction!Span, NEW row \in Redaction!Row, row.enabled,
         NEW config, config = Redaction!LoadRedactionConfig(row), row # Nothing,
         NEW out, out = Redaction!RedactString(s, config)
  PROVE /\ out = Redaction!Raw /\ Counts(s, row) = {}
        \/ \E action : /\ out = Redaction!Treated(action)
                       /\ action = "redact" \/ (/\ action = row.strategy /\ Counts(s, row) \cap Redaction!Entities # {}
                                                /\ Counts(s, row) \cap {"base64", "credential"} = {})
<1> DEFINE hits == Hits(s, config)
           C == Counts(s, row)
           m == Redaction!Min(hits)
           stage == Redaction!Stages[m]
<1>1. \A i \in Stage : i \in hits <=> Redaction!Stages[i] \in C
  BY HitsCount
<1>2. hits \subseteq Stage /\ C \subseteq Redaction!Patterns
  BY StagesAre DEF Hits, Counts, Redaction!Span
<1>3. out = IF hits = {} THEN Redaction!Raw ELSE Redaction!ApplyValueAction(stage, config)
  BY DEF Redaction!RedactString, Hits
<1>4. config.strategy = Redaction!ValidStrategy(row.strategy)
  BY DEF Redaction!LoadRedactionConfig
<1>5. \A h \in C : \E i \in Stage : h = Redaction!Stages[i]
  BY <1>2, StagesAre DEF Stage
<1>8. C = Counts(s, row)
  OBVIOUS
<1> HIDE DEF hits, C
<1>6. CASE hits = {}
  BY <1>1, <1>3, <1>5, <1>6, <1>8
<1>7. CASE hits # {}
  <2>1. m \in hits /\ m \in Stage /\ \A i \in hits : m <= i
    BY <1>2, <1>7, FirstHit
  <2>2. out = Redaction!Treated(IF stage \in Redaction!Entities THEN config.strategy ELSE "redact")
    BY <1>3, <1>7 DEF Redaction!ApplyValueAction
  <2> HIDE DEF m
  <2>3. CASE stage \notin Redaction!Entities \/ row.strategy \notin Redaction!ValueActions
    BY <1>4, <2>2, <2>3 DEF Redaction!ValidStrategy
  <2>4. CASE stage \in Redaction!Entities /\ row.strategy \in Redaction!ValueActions
    <3>1. out = Redaction!Treated(row.strategy)
      BY <1>4, <2>2, <2>4 DEF Redaction!ValidStrategy
    <3>2. stage \in C
      BY <1>1, <2>1
    <3>3. m \notin {1, 2}
      BY <2>4, StagesAre DEF Redaction!Entities
    <3>4. 1 \notin hits /\ 2 \notin hits
      BY <2>1, <3>3 DEF Stage
    <3>5. C \cap {"base64", "credential"} = {}
      BY <1>1, <3>4, StagesAre DEF Stage
    <3> QED
      BY <1>8, <2>4, <3>1, <3>2, <3>5
  <2> QED
    BY <2>3, <2>4
<1> QED
  BY <1>6, <1>7

LEMMA SpanPromised ==
  ASSUME NEW s \in Redaction!Span, NEW row \in Redaction!Row, row.enabled, row # Nothing
  PROVE Redaction!Promised(s, row, Redaction!RedactAttributes(s, Redaction!LoadRedactionConfig(row)))
<1> DEFINE config == Redaction!LoadRedactionConfig(row)
           action == IF s.key = config.key THEN config.keys ELSE "none"
           out == Redaction!RedactAttributes(s, config)
           listed == row.allowlist = {} \/ s.key \in row.allowlist
           named == s.key = row.key /\ row.keys \in Redaction!KeyActions
           C == Counts(s, row)
<1>1. /\ config.enabled /\ config.allowlist = row.allowlist /\ config.key = row.key
      /\ config.keys = IF row.keys \in Redaction!KeyActions THEN row.keys ELSE "none"
  BY DEF Redaction!LoadRedactionConfig, Redaction!ValidKeyActions
<1>2. action = IF named THEN row.keys ELSE "none"
  BY <1>1
<1>3. out = IF ~listed THEN Redaction!Dropped
            ELSE IF action = "delete" THEN Redaction!Dropped
            ELSE IF ~s.text THEN Redaction!Raw
            ELSE IF action # "none" THEN Redaction!Treated(action)
            ELSE Redaction!RedactString(s, config)
  BY <1>1 DEF Redaction!RedactAttributes
<1>4. Redaction!Promised(s, row, out) <=>
        /\ out.kept <=> (listed /\ ~(named /\ row.keys = "delete"))
        /\ out.raw /\ s.text => ~named /\ C = {}
        /\ out.kept /\ ~out.raw /\ named => out.as = row.keys
        /\ out.kept /\ ~out.raw /\ ~named =>
             out.as = "redact" \/ (out.as = row.strategy /\ C \cap Redaction!Entities # {} /\ C \cap {"base64", "credential"} = {})
  BY DEF Redaction!Promised, Counts
<1>5. s.text => \/ Redaction!RedactString(s, config) = Redaction!Raw /\ C = {}
                \/ \E a : /\ Redaction!RedactString(s, config) = Redaction!Treated(a)
                          /\ a = "redact" \/ (a = row.strategy /\ C \cap Redaction!Entities # {} /\ C \cap {"base64", "credential"} = {})
  BY StringRedacted
<1>6. s.text \in BOOLEAN /\ "none" \notin Redaction!KeyActions /\ listed \in BOOLEAN /\ named \in BOOLEAN
  BY DEF Redaction!Span, Redaction!KeyActions, Redaction!ValueActions
<1>7. named => row.keys # "none"
  BY <1>6
<1> HIDE DEF config, out, C, listed, named, action
<1>8. Redaction!Promised(s, row, out)
  <2>1. CASE ~listed \/ action = "delete"
    BY <1>2, <1>3, <1>4, <1>6, <2>1 DEF Redaction!Dropped
  <2>2. CASE listed /\ action # "delete" /\ ~s.text
    BY <1>2, <1>3, <1>4, <1>6, <2>2 DEF Redaction!Raw
  <2>3. CASE listed /\ action # "delete" /\ s.text /\ action # "none"
    BY <1>2, <1>3, <1>4, <1>6, <2>3 DEF Redaction!Treated
  <2>4. CASE listed /\ action = "none" /\ s.text
    BY <1>2, <1>3, <1>4, <1>5, <1>6, <1>7, <2>4 DEF Redaction!Treated, Redaction!Raw
  <2> QED
    BY <1>6, <2>1, <2>2, <2>3, <2>4
<1> QED
  BY <1>8 DEF out, config

\* What a row of settings is to a batch, and what the batch leaves by it.
ConfigOf(row) == IF Redaction!Raises(row) THEN Redaction!Disabled ELSE Redaction!LoadRedactionConfig(row)

By(config, x) == x.span \in DOMAIN spans /\ x.out = Redaction!RedactAttributes(spans[x.span], config)

RedactionSound ==
  /\ settings \in Settings \cup {Nothing} /\ read \in Settings \cup {Nothing}
  /\ spans \in Seq(Redaction!Span) /\ request.next \in Nat \ {0} /\ DOMAIN request = {"at", "next", "config"}
  /\ request.at = "start" => rows = {} /\ hooks = {}
  /\ request.at = "spans" => request.config = ConfigOf(read)
  /\ \A x \in rows \cup hooks : By(ConfigOf(read), x)
  /\ hooks \subseteq rows

LEMMA RedactionConstants == Settings \subseteq Redaction!Row /\ Batches \subseteq Seq(Redaction!Span)
  BY PartsAssumption DEF Redaction!RedactionAssumption

LEMMA RedactionInit == Redaction!Init => RedactionSound
  BY RedactionConstants DEF Redaction!Init, RedactionSound

LEMMA RedactionStep ==
  ASSUME RedactionSound, Redaction!Next
  PROVE RedactionSound'
<1>1. CASE Redaction!Load
  BY <1>1 DEF Redaction!Load, RedactionSound, ConfigOf
<1>2. CASE Redaction!Take
  <2> DEFINE i == request.next
             s == spans[i]
             out == [span |-> i, out |-> Redaction!RedactAttributes(s, request.config)]
  <2>1. /\ request.at = "spans" /\ i <= Len(spans) /\ request' = [request EXCEPT !.next = i + 1]
        /\ rows' \in {rows \cup {out}} \cup (IF s.policy = "none" THEN {rows} ELSE {})
        /\ hooks' = IF s.policy = "alert" THEN hooks \cup {out} ELSE hooks
        /\ UNCHANGED <<settings, spans, read>>
    BY <1>2 DEF Redaction!Take, Redaction!Takes
  <2>2. i \in DOMAIN spans /\ out.span = i /\ out.out = Redaction!RedactAttributes(spans[i], ConfigOf(read))
    BY <2>1 DEF RedactionSound
  <2>3. By(ConfigOf(read), out)
    BY <2>2 DEF By
  <2> HIDE DEF out
  <2>4. hooks' \subseteq rows'
    BY <2>1 DEF RedactionSound
  <2>5. \A x \in rows' \cup hooks' : By(ConfigOf(read), x)
    BY <2>1, <2>3 DEF RedactionSound
  <2>6. \A x \in rows' \cup hooks' : By(ConfigOf(read), x)'
    BY <2>1, <2>5 DEF By, ConfigOf
  <2>7. request'.next \in Nat \ {0} /\ DOMAIN request' = {"at", "next", "config"} /\ request'.at = "spans" /\ request'.config = request.config
    BY <2>1 DEF RedactionSound
  <2>8. ConfigOf(read)' = ConfigOf(read)
    BY <2>1 DEF ConfigOf
  <2> QED
    BY <2>1, <2>4, <2>6, <2>7, <2>8 DEF RedactionSound
<1>3. CASE Redaction!Commit
  BY <1>3 DEF Redaction!Commit, RedactionSound, ConfigOf, By
<1>4. CASE Redaction!Fails
  BY <1>4 DEF Redaction!Fails, RedactionSound, ConfigOf, By
<1>5. ASSUME NEW row \in Settings, Redaction!UpdateSettings(row)
      PROVE RedactionSound'
  <2>1. settings' = row /\ UNCHANGED <<spans, request, rows, hooks, read>>
    BY <1>5 DEF Redaction!UpdateSettings
  <2> QED
    BY <2>1 DEF RedactionSound, ConfigOf, By
<1> QED
  BY <1>1, <1>2, <1>3, <1>4, <1>5 DEF Redaction!Next

LEMMA RedactionAgrees == RedactionSound => Redaction!RawStaysOut
<1> SUFFICES ASSUME RedactionSound, read # Nothing, read.enabled, ~Redaction!Raises(read), NEW x \in rows \cup hooks
             PROVE Redaction!Promised(spans[x.span], read, x.out)
  BY DEF Redaction!RawStaysOut, RedactionSound
<1>1. read \in Redaction!Row
  BY RedactionConstants DEF RedactionSound
<1>2. x.span \in DOMAIN spans /\ x.out = Redaction!RedactAttributes(spans[x.span], Redaction!LoadRedactionConfig(read))
  BY DEF RedactionSound, By, ConfigOf
<1>3. spans[x.span] \in Redaction!Span
  BY <1>2 DEF RedactionSound
<1> QED
  BY <1>1, <1>2, <1>3, SpanPromised

LEMMA RedactionInvariant == PartsSpec => [](part = "redaction" => RedactionSound)
<1> DEFINE Sound == part = "redaction" => RedactionSound
<1>1. PartsInit => Sound
  BY RedactionInit DEF PartsInit
<1>2. Sound /\ [PartsNext]_partsVars => Sound'
  <2> SUFFICES ASSUME Sound, [PartsNext]_partsVars PROVE Sound'
    OBVIOUS
  <2>1. CASE PartsNext
    BY <2>1, PartStays, RedactionRuns, RedactionStep
  <2>2. CASE UNCHANGED partsVars
    <3>1. UNCHANGED <<part, settings, spans, request, rows, hooks, asks, read, changed>>
      BY <2>2 DEF partsVars, OfRedaction
    <3> QED
      BY <3>1 DEF RedactionSound, ConfigOf, By
  <2> QED
    BY <2>1, <2>2
<1> QED
  BY <1>1, <1>2, PTL DEF PartsSpec

(* What the settings name when a batch begins reaches no row and no alert  *)
(* of it, whatever its spans and the settings are.                         *)
THEOREM RawStaysOutHolds == PartsSpec => []RawStaysOut
<1>1. (part = "redaction" => RedactionSound) => RawStaysOut
  BY RedactionAgrees DEF RawStaysOut
<1> QED
  BY <1>1, RedactionInvariant, PTL
-----------------------------------------------------------------------------
(* The clients of a process.  A client that believes the provider is its   *)
(* own will reset it; the threads of one are those it has told to stop;    *)
(* and while the patch is on, it is the first over the framework's method, *)
(* and points at a client with policies.                                   *)
Before == {"idle", "entered", "read", "started"}
On == {"entered", "read", "started", "checked"}

Patched ==
  framework \in Client!Patching /\ ~raced =>
    IF original = "none" THEN entry = "plain" ELSE original = "plain" /\ entry = "wrapped" /\ target \in enforcing

Passing(t) ==
  /\ t.at \in Before => t.checks = 0
  /\ framework \in Client!Patching /\ ~raced /\ ~t.cut =>
       /\ t.at # "failed"
       /\ t.at \in On => original = "plain"
       /\ t.at \in {"read", "started"} => t.client \in enforcing
       /\ t.at \in {"checked", "ran"} => t.checks = 1

Threaded ==
  \A t \in loops : /\ t \in Client!ThreadsOf(t[1])
                   /\ pc[t[1]] \in {"open", "close", "unset", "closed"}

ClientSound ==
  /\ Client!TypeOK /\ Client!GlobalIsLive /\ Client!ThreadsAreTold /\ Threaded
  /\ installing \subseteq enforcing /\ Patched /\ \A k \in Calls : Passing(calls[k])

LEMMA ClientConstants ==
  /\ Frameworks \subseteq Client!Patching \cup Client!Bound \cup Client!Others /\ Nothing \notin Clients
  /\ MaxInstruments \in Nat /\ MaxUninstalls \in Nat
  BY PartsAssumption DEF Client!ClientAssumption

LEMMA ClientInit == Client!Init => ClientSound
<1> SUFFICES ASSUME Client!Init PROVE ClientSound
  OBVIOUS
<1> DEFINE t == [at |-> "idle", client |-> Nothing, checks |-> 0, cut |-> FALSE]
<1>1. t \in Client!Call /\ t.at = "idle" /\ t.checks = 0
  BY DEF Client!Call, Client!Some
<1>2. calls = [k \in Calls |-> t]
  BY DEF Client!Init
<1> HIDE DEF t
<1>3. calls \in [Calls -> Client!Call]
  BY <1>1, <1>2
<1>4. Client!TypeOK
  <2>1. pc \in [Clients -> Client!Points]
    BY DEF Client!Init, Client!Points
  <2>2. receivers \in Seq(Clients)
    BY DEF Client!Init
  <2>3. /\ framework \in Frameworks /\ enforcing = {} /\ provider = Nothing /\ installed = {} /\ loops = {} /\ stopped = {}
        /\ target = Nothing /\ original = "none" /\ entry = "plain" /\ installing = {} /\ raced = FALSE
        /\ instruments = 0 /\ uninstalls = 0
    BY DEF Client!Init
  <2>4. 0 \in 0..MaxInstruments /\ 0 \in 0..MaxUninstalls
    BY ClientConstants
  <2> QED
    BY <1>3, <2>1, <2>2, <2>3, <2>4 DEF Client!TypeOK, Client!Some
<1>5. \A k \in Calls : Passing(calls[k])
  BY <1>1, <1>2 DEF Passing, Before, On
<1> QED
  BY <1>4, <1>5 DEF Client!Init, ClientSound, Client!GlobalIsLive, Client!ThreadsAreTold, Threaded, Patched

LEMMA ClientAgrees == ClientSound => Client!ClientsShareWell
  BY DEF ClientSound, Client!ClientsShareWell, Client!CheckedOnce, Passing, Client!TypeOK

\* What a step of a client's life leaves alone.
LEMMA LifeMoves ==
  ASSUME ClientSound, Client!Elsewhere, NEW c \in Clients, NEW from, NEW to \in Client!Points, Client!At(c, from, to),
         enforcing \subseteq enforcing', enforcing' \subseteq enforcing \cup {c}, from # "none" => enforcing' = enforcing,
         provider' \in Client!Some(Clients), installed' \subseteq Clients, stopped' \subseteq Clients \X ThreadKinds,
         loops' \subseteq Clients \X ThreadKinds,
         Client!GlobalIsLive', Client!ThreadsAreTold', Threaded'
  PROVE ClientSound'
<1>1. UNCHANGED <<framework, receivers, target, original, entry, installing, raced, instruments, uninstalls, calls>>
  BY DEF Client!Elsewhere, Client!patch
<1>2. pc' \in [Clients -> Client!Points]
  BY DEF Client!At, ClientSound, Client!TypeOK
<1>3. Client!TypeOK'
  BY <1>1, <1>2 DEF ClientSound, Client!TypeOK
<1>4. Patched' /\ \A k \in Calls : Passing(calls[k])'
  BY <1>1 DEF ClientSound, Patched, Passing
<1> QED
  BY <1>1, <1>3, <1>4 DEF ClientSound

LEMMA ClientLives ==
  ASSUME ClientSound, NEW c \in Clients, Client!Lives(c)
  PROVE ClientSound'
<1> USE DEF Client!Points
<1>0. /\ pc \in [Clients -> Client!Points] /\ provider \in Client!Some(Clients) /\ installed \subseteq Clients
      /\ stopped \subseteq Clients \X ThreadKinds /\ loops \subseteq Clients \X ThreadKinds
  BY DEF ClientSound, Client!TypeOK
<1>1. CASE Client!Construct(c)
  <2>1. /\ Client!At(c, "none", "look") /\ Client!Elsewhere /\ enforcing' \in {enforcing, enforcing \cup {c}}
        /\ UNCHANGED <<provider, installed, loops, stopped>>
    BY <1>1 DEF Client!Construct
  <2>2. pc[c] = "none" /\ pc' = [pc EXCEPT ![c] = "look"]
    BY <2>1 DEF Client!At
  <2>3. Client!GlobalIsLive' /\ Client!ThreadsAreTold'
    BY <1>0, <2>1, <2>2 DEF ClientSound, Client!GlobalIsLive, Client!ThreadsAreTold, Client!Some
  <2>4. Threaded'
    <3> SUFFICES ASSUME NEW t \in loops
                 PROVE t \in Client!ThreadsOf(t[1])' /\ pc'[t[1]] \in {"open", "close", "unset", "closed"}
      BY <2>1 DEF Threaded
    <3>1. t \in Client!ThreadsOf(t[1]) /\ pc[t[1]] \in {"open", "close", "unset", "closed"} /\ t[1] \in Clients /\ t[1] # c
      BY <1>0, <2>2 DEF ClientSound, Threaded
    <3>2. (t[1] \in enforcing') = (t[1] \in enforcing)
      BY <2>1, <3>1
    <3> QED
      BY <1>0, <2>2, <3>1, <3>2 DEF Client!ThreadsOf
  <2> QED
    BY <1>0, <2>1, <2>3, <2>4, LifeMoves
<1>2. CASE Client!LookAtGlobal(c)
  <2>1. PICK to \in {"set", "start"} : Client!At(c, "look", to)
    BY <1>2 DEF Client!LookAtGlobal
  <2>2. Client!Elsewhere /\ UNCHANGED <<enforcing, provider, installed, loops, stopped>>
    BY <1>2 DEF Client!LookAtGlobal, Client!Stays
  <2>3. pc[c] = "look" /\ pc' = [pc EXCEPT ![c] = to]
    BY <2>1 DEF Client!At
  <2>4. Client!GlobalIsLive' /\ Client!ThreadsAreTold' /\ Threaded'
    BY <1>0, <2>2, <2>3 DEF ClientSound, Client!GlobalIsLive, Client!ThreadsAreTold, Client!Some, Threaded, Client!ThreadsOf
  <2> QED
    BY <1>0, <2>1, <2>2, <2>4, LifeMoves
<1>3. CASE Client!SetGlobal(c)
  <2>1. /\ Client!At(c, "set", "start") /\ Client!Elsewhere /\ UNCHANGED <<enforcing, loops, stopped>>
        /\ provider' = IF provider = Nothing THEN c ELSE provider
        /\ installed' = installed \cup {c}
    BY <1>3 DEF Client!SetGlobal, Client!Stays
  <2>2. pc[c] = "set" /\ pc' = [pc EXCEPT ![c] = "start"]
    BY <2>1 DEF Client!At
  <2>3. Client!GlobalIsLive' /\ Client!ThreadsAreTold' /\ Threaded'
    BY <1>0, <2>1, <2>2 DEF ClientSound, Client!GlobalIsLive, Client!ThreadsAreTold, Client!Some, Threaded, Client!ThreadsOf
  <2>4. provider' \in Client!Some(Clients) /\ installed' \subseteq Clients
    BY <1>0, <2>1 DEF Client!Some
  <2> QED
    BY <1>0, <2>1, <2>3, <2>4, LifeMoves
<1>4. CASE Client!StartThreads(c)
  <2>1. /\ Client!At(c, "start", "open") /\ Client!Elsewhere /\ UNCHANGED <<enforcing, provider, installed, stopped>>
        /\ loops' = loops \cup Client!ThreadsOf(c)
    BY <1>4 DEF Client!StartThreads, Client!Stays
  <2>2. pc[c] = "start" /\ pc' = [pc EXCEPT ![c] = "open"]
    BY <2>1 DEF Client!At
  <2>3. \A t \in Client!ThreadsOf(c) : t[1] = c /\ t \in Clients \X ThreadKinds
    BY DEF Client!ThreadsOf
  <2>4. Client!GlobalIsLive' /\ Client!ThreadsAreTold' /\ Threaded'
    BY <1>0, <2>1, <2>2, <2>3 DEF ClientSound, Client!GlobalIsLive, Client!ThreadsAreTold, Client!Some, Threaded, Client!ThreadsOf
  <2> QED
    BY <1>0, <2>1, <2>3, <2>4, LifeMoves
<1>5. CASE Client!Shutdown(c)
  <2>1. /\ Client!At(c, "open", "close") /\ Client!Elsewhere /\ UNCHANGED <<enforcing, provider, installed, loops>>
        /\ stopped' = stopped \cup Client!ThreadsOf(c)
    BY <1>5 DEF Client!Shutdown, Client!Stays, Client!Stopping
  <2>2. pc[c] = "open" /\ pc' = [pc EXCEPT ![c] = "close"]
    BY <2>1 DEF Client!At
  <2>3. \A t \in Client!ThreadsOf(c) : t[1] = c /\ t \in Clients \X ThreadKinds
    BY DEF Client!ThreadsOf
  <2>4. Client!GlobalIsLive' /\ Client!ThreadsAreTold' /\ Threaded'
    BY <1>0, <2>1, <2>2, <2>3 DEF ClientSound, Client!GlobalIsLive, Client!ThreadsAreTold, Client!Some, Threaded, Client!ThreadsOf
  <2> QED
    BY <1>0, <2>1, <2>3, <2>4, LifeMoves
<1>6. CASE Client!CloseProvider(c)
  <2>1. Client!At(c, "close", "unset") /\ Client!Elsewhere /\ UNCHANGED <<enforcing, provider, installed, loops, stopped>>
    BY <1>6 DEF Client!CloseProvider, Client!Stays
  <2>2. pc[c] = "close" /\ pc' = [pc EXCEPT ![c] = "unset"]
    BY <2>1 DEF Client!At
  <2>3. Client!GlobalIsLive' /\ Client!ThreadsAreTold' /\ Threaded'
    BY <1>0, <2>1, <2>2 DEF ClientSound, Client!GlobalIsLive, Client!ThreadsAreTold, Client!Some, Threaded, Client!ThreadsOf
  <2> QED
    BY <1>0, <2>1, <2>3, LifeMoves
<1>7. CASE Client!UnsetGlobal(c)
  <2>1. /\ Client!At(c, "unset", "closed") /\ Client!Elsewhere /\ UNCHANGED <<enforcing, loops, stopped>>
        /\ provider' = IF c \in installed THEN Nothing ELSE provider
        /\ installed' = installed \ {c}
    BY <1>7 DEF Client!UnsetGlobal, Client!Stays, Client!ResetGlobal
  <2>2. pc[c] = "unset" /\ pc' = [pc EXCEPT ![c] = "closed"]
    BY <2>1 DEF Client!At
  <2>3. Client!GlobalIsLive' /\ Client!ThreadsAreTold' /\ Threaded'
    BY <1>0, <2>1, <2>2 DEF ClientSound, Client!GlobalIsLive, Client!ThreadsAreTold, Client!Some, Threaded, Client!ThreadsOf
  <2>4. provider' \in Client!Some(Clients) /\ installed' \subseteq Clients
    BY <1>0, <2>1 DEF Client!Some
  <2> QED
    BY <1>0, <2>1, <2>3, <2>4, LifeMoves
<1> QED
  BY <1>1, <1>2, <1>3, <1>4, <1>5, <1>6, <1>7 DEF Client!Lives, Client!ShutsDown

LEMMA ThreadsQuit ==
  ASSUME ClientSound, NEW t \in Clients \X ThreadKinds, Client!ThreadQuits(t)
  PROVE ClientSound'
<1>1. /\ loops' = loops \ {t}
      /\ UNCHANGED <<framework, receivers, target, original, entry, installing, raced, instruments, uninstalls, calls,
                     enforcing, pc, provider, installed, stopped>>
  BY DEF Client!ThreadQuits, Client!Stays, Client!Elsewhere, Client!patch
<1>2. Client!TypeOK' /\ Client!GlobalIsLive' /\ Client!ThreadsAreTold' /\ Threaded'
  BY <1>1 DEF ClientSound, Client!TypeOK, Client!GlobalIsLive, Client!ThreadsAreTold, Threaded, Client!ThreadsOf
<1> QED
  BY <1>1, <1>2 DEF ClientSound, Patched, Passing

\* A client's life goes on through what the adapters do.
LEMMA LifeStays ==
  ASSUME ClientSound, UNCHANGED <<enforcing, pc, provider, installed, loops, stopped>>
  PROVE Client!GlobalIsLive' /\ Client!ThreadsAreTold' /\ Threaded'
  BY DEF ClientSound, Client!GlobalIsLive, Client!ThreadsAreTold, Threaded, Client!ThreadsOf

\* A patch that is there is taken over, one that is not is to be made.
LEMMA PatchTaken ==
  ASSUME ClientSound, NEW c \in Clients, UNCHANGED <<framework, enforcing>>,
         Client!Retarget(c) \/ UNCHANGED <<target, original, entry, installing, raced>>
  PROVE /\ target' \in Client!Some(Clients) /\ installing' \subseteq enforcing'
        /\ Patched' /\ UNCHANGED <<original, entry, raced>>
<1>1. target \in Client!Some(Clients) /\ installing \subseteq enforcing /\ Patched
  BY DEF ClientSound, Client!TypeOK
<1>2. CASE UNCHANGED <<target, original, entry, installing, raced>>
  BY <1>1, <1>2 DEF Patched
<1>3. CASE c \in enforcing /\ original # "none" /\ target' = c /\ UNCHANGED <<original, entry, installing, raced>>
  BY <1>1, <1>3 DEF Patched, Client!Some
<1>4. CASE c \in enforcing /\ original = "none" /\ installing' = installing \cup {c} /\ UNCHANGED <<target, original, entry, raced>>
  BY <1>1, <1>4 DEF Patched
<1> QED
  BY <1>2, <1>3, <1>4 DEF Client!Retarget, Client!patch

LEMMA ClientInstruments ==
  ASSUME ClientSound, NEW c \in Clients, Client!Instrument(c)
  PROVE ClientSound'
<1>0. CASE Client!InstallPatch(c)
  <2>1. /\ c \in installing /\ installing' = installing \ {c}
        /\ original' = entry /\ entry' = "wrapped" /\ target' = c /\ raced' = (raced \/ entry = "wrapped")
        /\ UNCHANGED <<framework, enforcing, pc, provider, installed, loops, stopped, receivers, instruments, uninstalls, calls>>
    BY <1>0 DEF Client!InstallPatch, Client!life
  <2>2. Client!TypeOK'
    BY <2>1 DEF ClientSound, Client!TypeOK, Client!Some
  <2>3. installing' \subseteq enforcing' /\ c \in enforcing /\ Patched'
    BY <2>1 DEF ClientSound, Client!TypeOK, Patched
  <2>4. \A k \in Calls : Passing(calls[k])'
    BY <2>1 DEF ClientSound, Client!TypeOK, Passing
  <2> QED
    BY <2>1, <2>2, <2>3, <2>4, LifeStays DEF ClientSound
<1>1. ASSUME ~Client!InstallPatch(c)
      PROVE ClientSound'
  <2>1. /\ instruments < MaxInstruments /\ instruments' = instruments + 1
        /\ UNCHANGED <<framework, enforcing, pc, provider, installed, loops, stopped, uninstalls, calls>>
    BY <1>1 DEF Client!Instrument, Client!Instruments, Client!life, Client!CrewInstrument, Client!AgentsInstrument, Client!AutogenInstrument,
       Client!OpenAIInstrument, Client!AnthropicInstrument, Client!ClaudeInstrument, Client!LangGraphInstrument,
       Client!LangChainInstrument, Client!PydanticInstrument, Client!AdkInstrument
  <2>2. receivers' \in {receivers, <<c>>, Append(receivers, c)}
    BY <1>1 DEF Client!Instrument, Client!CrewInstrument, Client!AgentsInstrument, Client!AutogenInstrument, Client!First,
       Client!OpenAIInstrument, Client!AnthropicInstrument, Client!ClaudeInstrument, Client!LangGraphInstrument,
       Client!LangChainInstrument, Client!PydanticInstrument, Client!AdkInstrument
  <2>3. receivers' \in Seq(Clients)
    <3>1. receivers \in Seq(Clients)
      BY DEF ClientSound, Client!TypeOK
    <3>2. <<c>> \in Seq(Clients)
      OBVIOUS
    <3>3. Append(receivers, c) \in Seq(Clients)
      BY <3>1
    <3> QED
      BY <2>2, <3>1, <3>2, <3>3
  <2>4. \/ Client!Retarget(c) \/ UNCHANGED <<target, original, entry, installing, raced>>
        \/ framework = "langgraph" /\ target' = c /\ UNCHANGED <<original, entry, installing, raced>>
    BY <1>1 DEF Client!Instrument, Client!Instruments, Client!patch, Client!CrewInstrument, Client!AgentsInstrument, Client!AutogenInstrument,
       Client!InstallToolPatch, Client!OpenAIInstrument, Client!AnthropicInstrument, Client!ClaudeInstrument, Client!LangGraphInstrument,
       Client!LangChainInstrument, Client!PydanticInstrument, Client!AdkInstrument
  <2>5. /\ target' \in Client!Some(Clients) /\ installing' \subseteq enforcing'
        /\ Patched' /\ UNCHANGED <<original, entry, raced>>
    <3>1. CASE framework = "langgraph" /\ target' = c /\ UNCHANGED <<original, entry, installing, raced>>
      BY <2>1, <3>1 DEF ClientSound, Patched, Client!Patching, Client!Some
    <3> QED
      BY <2>1, <2>4, <3>1, PatchTaken
  <2>6. Client!TypeOK'
    BY <2>1, <2>3, <2>5, ClientConstants DEF ClientSound, Client!TypeOK
  <2>7. \A k \in Calls : Passing(calls[k])'
    BY <2>1, <2>5 DEF ClientSound, Client!TypeOK, Passing
  <2> QED
    BY <2>1, <2>5, <2>6, <2>7, LifeStays DEF ClientSound
<1> QED
  BY <1>0, <1>1

LEMMA ClientUninstalls ==
  ASSUME ClientSound, Client!UninstallPatch
  PROVE ClientSound'
<1>1. /\ original # "none" /\ uninstalls < MaxUninstalls /\ framework \in Client!Patching
      /\ entry' = original /\ original' = "none" /\ target' = Nothing /\ uninstalls' = uninstalls + 1
      /\ calls' = [k \in Calls |-> [calls[k] EXCEPT !.cut = calls[k].at # "idle"]]
      /\ UNCHANGED <<framework, enforcing, pc, provider, installed, loops, stopped, receivers, installing, raced, instruments>>
  BY DEF Client!UninstallPatch, Client!life
<1>2. calls' \in [Calls -> Client!Call]
  <2>1. \A t \in Client!Call : [t EXCEPT !.cut = t.at # "idle"] \in Client!Call
    BY DEF Client!Call
  <2> QED
    BY <1>1, <2>1 DEF ClientSound, Client!TypeOK
<1>3. Client!TypeOK'
  BY <1>1, <1>2, ClientConstants DEF ClientSound, Client!TypeOK, Client!Some
<1>4. Patched'
  BY <1>1 DEF ClientSound, Patched
<1>5. ASSUME NEW k \in Calls
      PROVE Passing(calls[k])'
  <2>1. calls[k] \in Client!Call /\ Passing(calls[k])
    BY DEF ClientSound, Client!TypeOK
  <2>2. calls'[k].at = calls[k].at /\ calls'[k].checks = calls[k].checks /\ calls'[k].cut = (calls[k].at # "idle")
    BY <1>1, <2>1 DEF Client!Call
  <2> QED
    BY <2>1, <2>2 DEF Passing, Before, On
<1> QED
  BY <1>1, <1>3, <1>4, <1>5, LifeStays DEF ClientSound

\* The call has moved on, and its record with it.
LEMMA CallMoves ==
  ASSUME ClientSound, Client!Quietly, NEW k \in Calls, NEW t \in Client!Call, Passing(t), calls' = [calls EXCEPT ![k] = t]
  PROVE ClientSound'
<1>1. UNCHANGED <<framework, enforcing, pc, provider, installed, loops, stopped, receivers, target, original, entry, installing,
                  raced, instruments, uninstalls>>
  BY DEF Client!Quietly, Client!life, Client!patch
<1>2. calls \in [Calls -> Client!Call] /\ \A j \in Calls : Passing(calls[j])
  BY DEF ClientSound, Client!TypeOK
<1>3. calls' \in [Calls -> Client!Call] /\ \A j \in Calls : calls'[j] = IF j = k THEN t ELSE calls[j]
  BY <1>2
<1>4. \A j \in Calls : Passing(calls[j])'
  BY <1>1, <1>2, <1>3 DEF Passing
<1>5. Client!TypeOK' /\ installing' \subseteq enforcing' /\ Patched'
  BY <1>1, <1>3 DEF ClientSound, Client!TypeOK, Patched
<1> QED
  BY <1>1, <1>4, <1>5, LifeStays DEF ClientSound

\* What becomes of a call: it waits, has read its client, is checked, or is done.
CallOf(t, to) == [t EXCEPT !.at = to]
ReadBy(t, c) == [t EXCEPT !.at = "read", !.client = c]
CheckedBy(t) == [t EXCEPT !.at = "checked", !.checks = IF t.client \in enforcing THEN t.checks + 1 ELSE t.checks]

LEMMA CallsAre ==
  ASSUME NEW t \in Client!Call, t.at \in Before => t.checks = 0
  PROVE /\ \A to \in {"entered", "started", "ran", "failed"} : CallOf(t, to) \in Client!Call /\ CallOf(t, to).at = to
             /\ CallOf(t, to).client = t.client /\ CallOf(t, to).checks = t.checks /\ CallOf(t, to).cut = t.cut
        /\ \A c \in Client!Some(Clients) : ReadBy(t, c) \in Client!Call /\ ReadBy(t, c).at = "read"
             /\ ReadBy(t, c).client = c /\ ReadBy(t, c).checks = t.checks /\ ReadBy(t, c).cut = t.cut
        /\ t.at \in Before => CheckedBy(t) \in Client!Call /\ CheckedBy(t).at = "checked" /\ CheckedBy(t).client = t.client
             /\ CheckedBy(t).checks = (IF t.client \in enforcing THEN 1 ELSE 0) /\ CheckedBy(t).cut = t.cut
<1>1. \A to \in {"entered", "started", "ran", "failed"} : CallOf(t, to) \in Client!Call /\ CallOf(t, to).at = to
             /\ CallOf(t, to).client = t.client /\ CallOf(t, to).checks = t.checks /\ CallOf(t, to).cut = t.cut
  BY DEF CallOf, Client!Call
<1>2. \A c \in Client!Some(Clients) : ReadBy(t, c) \in Client!Call /\ ReadBy(t, c).at = "read"
             /\ ReadBy(t, c).client = c /\ ReadBy(t, c).checks = t.checks /\ ReadBy(t, c).cut = t.cut
  BY DEF ReadBy, Client!Call
<1>3. ASSUME t.checks = 0
      PROVE CheckedBy(t) \in Client!Call /\ CheckedBy(t).at = "checked" /\ CheckedBy(t).client = t.client
             /\ CheckedBy(t).checks = (IF t.client \in enforcing THEN 1 ELSE 0) /\ CheckedBy(t).cut = t.cut
  <2>1. PICK n \in 0..2 : n = IF t.client \in enforcing THEN 1 ELSE 0
    OBVIOUS
  <2>2. CheckedBy(t) = [t EXCEPT !.at = "checked", !.checks = n]
    BY <1>3, <2>1 DEF CheckedBy
  <2>3. CheckedBy(t) \in Client!Call
    BY <2>2 DEF Client!Call
  <2>4. /\ CheckedBy(t).at = "checked" /\ CheckedBy(t).client = t.client /\ CheckedBy(t).checks = n /\ CheckedBy(t).cut = t.cut
    BY <2>2 DEF Client!Call
  <2> QED
    BY <2>1, <2>3, <2>4
<1> QED
  BY <1>1, <1>2, <1>3

LEMMA ToolCalls ==
  ASSUME ClientSound, NEW k \in Calls, Client!ToolCall(k)
  PROVE ClientSound'
<1> DEFINE t == calls[k]
<1>0. /\ t \in Client!Call /\ Passing(t) /\ Patched /\ target \in Client!Some(Clients) /\ calls \in [Calls -> Client!Call]
      /\ original \in {"none", "plain", "wrapped"}
  BY DEF ClientSound, Client!TypeOK
<1>1. Client!Quietly
  BY DEF Client!ToolCall, Client!CallEnters, Client!CallReads, Client!CallChecks, Client!CallRuns, Client!RunStarts,
     Client!HookChecks, Client!HandlerCalls, Client!PluginCalls
<1>2. t.at \in Before => t.checks = 0
  BY <1>0 DEF Passing
<1>3. \/ t.at = "idle" /\ framework \in Client!Patching /\ entry = "wrapped" /\ calls' = [calls EXCEPT ![k] = CallOf(t, "entered")]
      \/ t.at = "entered" /\ calls' = [calls EXCEPT ![k] = ReadBy(t, target)]
      \/ t.at \in {"read", "started"} /\ calls' = [calls EXCEPT ![k] = CheckedBy(t)]
      \/ t.at = "checked" /\ calls' = [calls EXCEPT ![k] = CallOf(t, "ran")]
      \/ t.at = "checked" /\ original # "plain" /\ calls' = [calls EXCEPT ![k] = CallOf(t, "failed")]
      \/ t.at = "read" /\ calls' = [calls EXCEPT ![k] = CallOf(t, "started")]
      \/ t.at = "read" /\ original # "plain" /\ calls' = [calls EXCEPT ![k] = CallOf(t, "failed")]
      \/ framework \notin Client!Patching /\ t.at = "idle" /\ \E c \in Client!Some(Clients) : calls' = [calls EXCEPT ![k] = ReadBy(t, c)]
  <2>1. CASE Client!CallEnters(k)
    BY <2>1 DEF Client!CallEnters, Client!Goes, CallOf
  <2>2. CASE Client!CallReads(k)
    BY <2>2 DEF Client!CallReads, ReadBy
  <2>3. CASE Client!CallChecks(k)
    BY <2>3 DEF Client!CallChecks, Client!Checks, CheckedBy
  <2>4. CASE Client!CallRuns(k)
    BY <2>4 DEF Client!CallRuns, Client!Goes, CallOf
  <2>5. CASE Client!RunStarts(k)
    BY <2>5 DEF Client!RunStarts, Client!Goes, CallOf
  <2>6. CASE Client!HookChecks(k)
    BY <2>6 DEF Client!HookChecks, Client!Checks, CheckedBy, Client!Goes, CallOf
  <2>7. CASE Client!HandlerCalls(k)
    BY <1>0, <2>7 DEF Client!HandlerCalls, Client!Checks, CheckedBy, Client!Goes, CallOf, ReadBy, Client!Patching
  <2>8. CASE Client!PluginCalls(k)
    BY <2>8 DEF Client!PluginCalls, Client!Checks, CheckedBy, ReadBy, Client!Patching, Client!Bound, Client!Some
  <2> QED
    BY <2>1, <2>2, <2>3, <2>4, <2>5, <2>6, <2>7, <2>8 DEF Client!ToolCall
<1> HIDE DEF t
<1>4. CASE t.at = "idle" /\ framework \in Client!Patching /\ entry = "wrapped" /\ calls' = [calls EXCEPT ![k] = CallOf(t, "entered")]
  <2>1. Passing(CallOf(t, "entered"))
    BY <1>0, <1>2, <1>4, CallsAre DEF Passing, Patched, Before, On
  <2> QED
    BY <1>0, <1>1, <1>2, <1>4, <2>1, CallsAre, CallMoves
<1>5. CASE t.at = "entered" /\ calls' = [calls EXCEPT ![k] = ReadBy(t, target)]
  <2>1. Passing(ReadBy(t, target))
    BY <1>0, <1>2, <1>5, CallsAre DEF Passing, Patched, Before, On
  <2> QED
    BY <1>0, <1>1, <1>2, <1>5, <2>1, CallsAre, CallMoves
<1>6. CASE t.at \in {"read", "started"} /\ calls' = [calls EXCEPT ![k] = CheckedBy(t)]
  <2>1. Passing(CheckedBy(t))
    BY <1>0, <1>2, <1>6, CallsAre DEF Passing, Before, On
  <2> QED
    BY <1>0, <1>1, <1>2, <1>6, <2>1, CallsAre, CallMoves DEF Before
<1>7. ASSUME NEW to \in {"started", "ran", "failed"}, calls' = [calls EXCEPT ![k] = CallOf(t, to)],
             \/ to = "started" /\ t.at = "read"
             \/ to = "ran" /\ t.at = "checked"
             \/ to = "failed" /\ t.at \in {"read", "checked"} /\ original # "plain"
      PROVE ClientSound'
  <2>1. Passing(CallOf(t, to))
    BY <1>0, <1>2, <1>7, CallsAre DEF Passing, Before, On
  <2> QED
    BY <1>0, <1>1, <1>2, <1>7, <2>1, CallsAre, CallMoves
<1>8. CASE framework \notin Client!Patching /\ t.at = "idle" /\ \E c \in Client!Some(Clients) : calls' = [calls EXCEPT ![k] = ReadBy(t, c)]
  <2>1. PICK c \in Client!Some(Clients) : calls' = [calls EXCEPT ![k] = ReadBy(t, c)]
    BY <1>8
  <2>2. Passing(ReadBy(t, c))
    BY <1>0, <1>2, <1>8, CallsAre DEF Passing, Before
  <2> QED
    BY <1>0, <1>1, <1>2, <2>1, <2>2, CallsAre, CallMoves
<1> QED
  BY <1>3, <1>4, <1>5, <1>6, <1>7, <1>8

LEMMA ClientStep == ClientSound /\ Client!Next => ClientSound'
  BY ClientUninstalls, ClientLives, ClientInstruments, ThreadsQuit, ToolCalls DEF Client!Next

LEMMA ClientInvariant == PartsSpec => [](part = "client" => ClientSound)
<1> DEFINE Sound == part = "client" => ClientSound
<1>1. PartsInit => Sound
  BY ClientInit DEF PartsInit
<1>2. Sound /\ [PartsNext]_partsVars => Sound'
  <2> SUFFICES ASSUME Sound, [PartsNext]_partsVars PROVE Sound'
    OBVIOUS
  <2>1. CASE PartsNext
    BY <2>1, PartStays, ClientRuns, ClientStep
  <2>2. CASE UNCHANGED partsVars
    <3>1. UNCHANGED <<part, framework, enforcing, pc, provider, installed, loops, stopped, receivers, target, original, entry,
                      installing, raced, instruments, uninstalls, calls>>
      BY <2>2 DEF partsVars, OfClient
    <3> QED
      BY <3>1 DEF ClientSound, Client!TypeOK, Client!GlobalIsLive, Client!ThreadsAreTold, Threaded, Client!ThreadsOf, Patched, Passing
  <2> QED
    BY <2>1, <2>2
<1> QED
  BY <1>1, <1>2, PTL DEF PartsSpec

(* The global provider is a live client's, a call that comes through the   *)
(* patch is checked once and served, and the threads of a client that is   *)
(* shut down are told, for any clients, calls and interleaving of them.    *)
THEOREM ClientsShareWellHolds == PartsSpec => []ClientsShareWell
<1>1. (part = "client" => ClientSound) => ClientsShareWell
  BY ClientAgrees DEF ClientsShareWell
<1> QED
  BY <1>1, ClientInvariant, PTL
-----------------------------------------------------------------------------
(* The alerts.  An agent that is silent for too long at the time of a scan *)
(* is told of, or still to be looked at with what was read; a dispatch has *)
(* tried each channel that is not left.                                    *)
Read == [agent : AlertAgents, last : Int]
JobFields == {"event", "project", "wanted", "tried", "left"}

Awaited(a) ==
  scan # Nothing /\ last_heartbeat[a] # Nothing /\ scan - last_heartbeat[a] > Timeout =>
    a \in alerted \/ \E i \in DOMAIN todo["heartbeat"] :
                        todo["heartbeat"][i].agent = a /\ todo["heartbeat"][i].last = last_heartbeat[a]

Beats ==
  /\ now \in Int /\ (scan # Nothing => scan \in Int /\ scan <= now)
  /\ DOMAIN last_heartbeat = AlertAgents /\ \A a \in AlertAgents : last_heartbeat[a] # Nothing => last_heartbeat[a] \in Int
  /\ alerted \subseteq AlertAgents /\ DOMAIN told = AlertAgents /\ \A a \in AlertAgents : told[a] = IF a \in alerted THEN 1 ELSE 0
  /\ DOMAIN todo = Alerts!Loops /\ todo["heartbeat"] \in Seq(Read)
  /\ \A a \in AlertAgents : Awaited(a)

Sending(j) ==
  j # Nothing =>
    /\ DOMAIN j = JobFields /\ j.left \in Seq(j.wanted) /\ j.tried \subseteq j.wanted
    /\ \A c \in j.wanted : c \in j.tried \/ \E i \in DOMAIN j.left : j.left[i] = c

Sends == DOMAIN job = Alerts!Loops /\ \A l \in Alerts!Loops : Sending(job[l])

LEMMA AlertConstants == Timeout \in Nat /\ IsFiniteSet(AlertAgents) /\ IsFiniteSet(Channels)
  BY PartsAssumption DEF Alerts!AlertsAssumption, Alerts!IsFiniteSet, IsFiniteSet

LEMMA AlertsInit == Alerts!Init => Beats /\ Sends
<1> SUFFICES ASSUME Alerts!Init PROVE Beats /\ Sends
  OBVIOUS
<1>1. todo["heartbeat"] = <<>> /\ DOMAIN todo = Alerts!Loops
  BY DEF Alerts!Init, Alerts!Loops
<1>2. Beats
  <2>1. /\ now = 0 /\ scan = Nothing /\ alerted = {}
        /\ last_heartbeat = [a \in AlertAgents |-> Nothing] /\ told = [a \in AlertAgents |-> 0]
    BY DEF Alerts!Init
  <2>2. \A a \in AlertAgents : Awaited(a)
    BY <2>1 DEF Awaited
  <2>3. todo["heartbeat"] \in Seq(Read)
    BY <1>1
  <2> QED
    BY <1>1, <2>1, <2>2, <2>3 DEF Beats
<1>3. Sends
  BY DEF Alerts!Init, Sends, Sending
<1> QED
  BY <1>2, <1>3

\* An order of a set lists each of its elements.
LEMMA OrdersAreWhole ==
  ASSUME NEW S, IsFiniteSet(S), NEW f \in Alerts!SetToSeqs(S)
  PROVE f \in Seq(S) /\ \A x \in S : \E i \in DOMAIN f : f[i] = x
<1> DEFINE n == Cardinality(S)
<1>0. Alerts!Cardinality(S) = n
  BY DEF Alerts!Cardinality, Cardinality
<1>1. n \in Nat /\ Cardinality(1..n) = n
  BY FS_CardinalityType, FS_Interval
<1>2. f \in [1..n -> S] /\ \A i, j \in 1..n : i # j => f[i] # f[j]
  BY <1>0 DEF Alerts!SetToSeqs
<1>3. f \in Injection(1..n, S)
  BY <1>2 DEF Injection, IsInjective
<1>4. f \in Surjection(1..n, S)
  BY <1>1, <1>3, FS_Injection
<1>5. \A x \in S : \E i \in 1..n : f[i] = x
  BY <1>4 DEF Surjection
<1> QED
  BY <1>1, <1>2, <1>5

\* What is not at the head of a sequence is in its tail.
LEMMA HeadOrTail ==
  ASSUME NEW S, NEW s \in Seq(S), s # <<>>
  PROVE /\ Head(s) \in S /\ Head(s) = s[1] /\ Tail(s) \in Seq(S)
        /\ \A i \in DOMAIN s : i = 1 \/ (i - 1 \in DOMAIN Tail(s) /\ Tail(s)[i - 1] = s[i])
  OBVIOUS

LEMMA Dispatches ==
  ASSUME Sends, NEW l \in Alerts!Loops, NEW event, NEW project, Alerts!Dispatch(l, event, project)
  PROVE Sends'
<1> DEFINE W == {c \in Alerts!Enabled(project) : Alerts!Wants(channels[c], event)}
<1>1. PICK s \in Alerts!SetToSeqs(W) :
        job' = [job EXCEPT ![l] = [event |-> event, project |-> project, wanted |-> W, tried |-> {}, left |-> s]]
  BY DEF Alerts!Dispatch
<1>2. IsFiniteSet(W)
  <2>1. W \in SUBSET Channels
    BY DEF Alerts!Enabled
  <2> QED
    BY <2>1, AlertConstants, FS_Subset
<1> HIDE DEF W
<1>3. s \in Seq(W) /\ \A x \in W : \E i \in DOMAIN s : s[i] = x
  BY <1>2, OrdersAreWhole
<1> DEFINE j == [event |-> event, project |-> project, wanted |-> W, tried |-> {}, left |-> s]
<1>4. Sending(j)
  BY <1>3 DEF Sending, JobFields
<1> HIDE DEF j
<1>5. DOMAIN job' = Alerts!Loops /\ \A m \in Alerts!Loops : job'[m] = IF m = l THEN j ELSE job[m]
  BY <1>1 DEF Sends, j
<1> QED
  BY <1>4, <1>5 DEF Sends

LEMMA Delivered ==
  ASSUME Sends, NEW l \in Alerts!Loops, Alerts!Delivers(l)
  PROVE Sends'
<1> DEFINE j == job[l]
<1>1. /\ j # Nothing /\ j.left # <<>>
      /\ job' = [job EXCEPT ![l].left = Tail(@), ![l].tried = @ \cup {Head(j.left)}]
  BY DEF Alerts!Delivers, Alerts!SendSlack, Alerts!SendDiscord, Alerts!SendWebhook, Alerts!SendGitHub, Alerts!Send
<1>2. /\ DOMAIN job = Alerts!Loops /\ DOMAIN j = JobFields /\ j.left \in Seq(j.wanted) /\ j.tried \subseteq j.wanted
      /\ \A c \in j.wanted : c \in j.tried \/ \E i \in DOMAIN j.left : j.left[i] = c
  BY <1>1 DEF Sends, Sending
<1> DEFINE d == [j EXCEPT !.left = Tail(j.left), !.tried = j.tried \cup {Head(j.left)}]
<1>3. DOMAIN d = JobFields /\ d.wanted = j.wanted /\ d.left = Tail(j.left) /\ d.tried = j.tried \cup {Head(j.left)}
  BY <1>2 DEF JobFields
<1>4. DOMAIN job' = Alerts!Loops /\ \A m \in Alerts!Loops : job'[m] = IF m = l THEN d ELSE job[m]
  BY <1>1, <1>2
<1> HIDE DEF d, j
<1>5. /\ Head(j.left) \in j.wanted /\ Head(j.left) = j.left[1] /\ Tail(j.left) \in Seq(j.wanted)
      /\ \A i \in DOMAIN j.left : i = 1 \/ (i - 1 \in DOMAIN Tail(j.left) /\ Tail(j.left)[i - 1] = j.left[i])
  BY <1>1, <1>2, HeadOrTail
<1>6. Sending(d)
  <2>1. ASSUME NEW c \in j.wanted, c \notin d.tried
        PROVE \E i \in DOMAIN d.left : d.left[i] = c
    <3>1. PICK i \in DOMAIN j.left : j.left[i] = c
      BY <1>2, <1>3, <2>1
    <3>2. i # 1
      BY <1>3, <1>5, <2>1, <3>1
    <3> QED
      BY <1>3, <1>5, <3>1, <3>2
  <2>2. d.left \in Seq(d.wanted) /\ d.tried \subseteq d.wanted
    BY <1>2, <1>3, <1>5
  <2> QED
    BY <1>3, <2>1, <2>2 DEF Sending
<1> QED
  BY <1>4, <1>6 DEF Sends

\* A silence that is told, or looked at and not told, is not awaited.
LEMMA Looked ==
  ASSUME Beats, Alerts!Looks
  PROVE Beats'
<1> DEFINE q == todo["heartbeat"]
           e == Head(q)
<1>1. /\ scan # Nothing /\ q # <<>> /\ todo' = [todo EXCEPT !["heartbeat"] = Tail(@)]
      /\ UNCHANGED <<now, scan, last_heartbeat>>
      /\ IF Alerts!Missed(e) THEN alerted' = alerted \cup {e.agent} /\ told' = [told EXCEPT ![e.agent] = @ + 1]
                             ELSE UNCHANGED <<alerted, told>>
  BY DEF Alerts!Looks
<1>2. q \in Seq(Read) /\ DOMAIN todo = Alerts!Loops /\ scan \in Int
  BY <1>1 DEF Beats
<1>3. DOMAIN todo' = Alerts!Loops /\ todo'["heartbeat"] = Tail(q)
  BY <1>1, <1>2 DEF Alerts!Loops
<1>4. /\ e \in Read /\ e = q[1] /\ Tail(q) \in Seq(Read)
      /\ \A i \in DOMAIN q : i = 1 \/ (i - 1 \in DOMAIN Tail(q) /\ Tail(q)[i - 1] = q[i])
  BY <1>1, <1>2, HeadOrTail
<1> HIDE DEF q, e
<1>5. e.agent \in AlertAgents /\ e.last \in Int
  BY <1>4 DEF Read
<1>6. alerted' \subseteq AlertAgents /\ DOMAIN told' = AlertAgents /\ \A a \in AlertAgents : told'[a] = IF a \in alerted' THEN 1 ELSE 0
  BY <1>1, <1>5 DEF Beats, Alerts!Missed
<1>7. ASSUME NEW a \in AlertAgents
      PROVE Awaited(a)'
  <2> SUFFICES ASSUME last_heartbeat[a] # Nothing, scan - last_heartbeat[a] > Timeout, a \notin alerted'
               PROVE \E i \in DOMAIN Tail(q) : Tail(q)[i].agent = a /\ Tail(q)[i].last = last_heartbeat[a]
    BY <1>1, <1>3 DEF Awaited
  <2>1. a \notin alerted
    BY <1>1
  <2>2. PICK i \in DOMAIN q : q[i].agent = a /\ q[i].last = last_heartbeat[a]
    BY <1>1, <2>1 DEF Beats, Awaited, q
  <2>3. i # 1
    BY <1>1, <1>4, <2>1, <2>2 DEF Alerts!Missed
  <2> QED
    BY <1>4, <2>2, <2>3
<1> QED
  BY <1>1, <1>3, <1>4, <1>6, <1>7 DEF Beats

LEMMA Scanned ==
  ASSUME Beats, Alerts!ScanStarts
  PROVE Beats'
<1> DEFINE H == {a \in AlertAgents : last_heartbeat[a] # Nothing}
<1>1. PICK s \in Alerts!SetToSeqs(H) :
        todo' = [todo EXCEPT !["heartbeat"] = [i \in DOMAIN s |-> [agent |-> s[i], last |-> last_heartbeat[s[i]]]]]
  BY DEF Alerts!ScanStarts
<1>2. scan' = now /\ UNCHANGED <<now, last_heartbeat, alerted, told>>
  BY DEF Alerts!ScanStarts, Alerts!tables
<1>3. IsFiniteSet(H)
  BY AlertConstants, FS_Subset
<1>4. s \in Seq(H) /\ \A x \in H : \E i \in DOMAIN s : s[i] = x
  BY <1>3, OrdersAreWhole
<1> DEFINE q == [i \in DOMAIN s |-> [agent |-> s[i], last |-> last_heartbeat[s[i]]]]
<1>5. \A i \in DOMAIN s : s[i] \in AlertAgents /\ last_heartbeat[s[i]] \in Int
  BY <1>4 DEF Beats
<1>6. q \in Seq(Read)
  <2>1. DOMAIN s = 1..Len(s) /\ Len(s) \in Nat
    BY <1>4
  <2>2. \A i \in 1..Len(s) : [agent |-> s[i], last |-> last_heartbeat[s[i]]] \in Read
    BY <1>5, <2>1 DEF Read
  <2> QED
    BY <2>1, <2>2
<1>7. DOMAIN todo' = Alerts!Loops /\ todo'["heartbeat"] = q
  BY <1>1 DEF Beats, Alerts!Loops
<1>8. ASSUME NEW a \in AlertAgents, last_heartbeat[a] # Nothing
      PROVE \E i \in DOMAIN q : q[i].agent = a /\ q[i].last = last_heartbeat[a]
  <2>1. PICK i \in DOMAIN s : s[i] = a
    BY <1>4, <1>8
  <2> QED
    BY <2>1
<1> HIDE DEF q
<1>9. \A a \in AlertAgents : Awaited(a)'
  BY <1>2, <1>7, <1>8 DEF Awaited
<1> QED
  BY <1>2, <1>6, <1>7, <1>9 DEF Beats

\* An agent that is heard of is not silent at the time of the scan.
LEMMA Heard ==
  ASSUME Beats, NEW a \in AlertAgents, NEW p, Alerts!RecordHeartbeat(a, p)
  PROVE Beats'
<1>1. /\ last_heartbeat' = [last_heartbeat EXCEPT ![a] = now] /\ alerted' = alerted \ {a} /\ told' = [told EXCEPT ![a] = 0]
      /\ UNCHANGED <<now, todo, scan>>
  BY DEF Alerts!RecordHeartbeat
<1>2. \A b \in AlertAgents : Awaited(b)'
  <2>1. \A b \in AlertAgents : b # a => last_heartbeat'[b] = last_heartbeat[b] /\ (b \in alerted' <=> b \in alerted)
    BY <1>1 DEF Beats
  <2>2. \A b \in AlertAgents : b # a => Awaited(b)'
    BY <1>1, <2>1 DEF Beats, Awaited
  <2>3. Awaited(a)'
    BY <1>1, AlertConstants DEF Beats, Awaited
  <2> QED
    BY <2>2, <2>3
<1> QED
  BY <1>1, <1>2 DEF Beats

\* The clock, and what leaves the heartbeats alone.
LEMMA Unheard ==
  ASSUME Beats, UNCHANGED <<last_heartbeat, alerted, told>>, scan' = scan \/ scan' = Nothing, now' \in {now, now + 1},
         DOMAIN todo' = Alerts!Loops, todo'["heartbeat"] = todo["heartbeat"]
  PROVE Beats'
<1>1. \A a \in AlertAgents : Awaited(a)'
  BY DEF Beats, Awaited
<1> QED
  BY <1>1 DEF Beats

LEMMA AlertsStep ==
  ASSUME Beats, Sends, Alerts!Next
  PROVE Beats' /\ Sends'
<1>0. "heartbeat" \in Alerts!Loops /\ "vigil" \in Alerts!Loops /\ DOMAIN todo = Alerts!Loops
  BY DEF Alerts!Loops, Beats
<1>1. CASE Alerts!Tick \/ Alerts!ScanEnds \/ \E c \in Channels : Alerts!DeleteChannel(c) \/
             \E row \in Alerts!Rows : Alerts!CreateChannel(c, row) \/ Alerts!UpdateChannel(c, row)
  <2>1. UNCHANGED <<last_heartbeat, alerted, told, todo, job>> /\ (scan' = scan \/ scan' = Nothing) /\ now' \in {now, now + 1}
    BY <1>1 DEF Alerts!Tick, Alerts!ScanEnds, Alerts!DeleteChannel, Alerts!CreateChannel, Alerts!UpdateChannel, Alerts!Changes, Alerts!tables
  <2> QED
    BY <1>0, <2>1, Unheard DEF Sends
<1>2. CASE Alerts!ScanStarts
  BY <1>2, Scanned DEF Alerts!ScanStarts, Sends
<1>3. CASE Alerts!Looks
  <2>1. job' = job \/ \E p : Alerts!Dispatch("heartbeat", "heartbeat_missed", p)
    BY <1>3 DEF Alerts!Looks
  <2>2. Sends'
    BY <1>0, <2>1, Dispatches DEF Sends
  <2> QED
    BY <1>3, <2>2, Looked
<1>4. CASE Alerts!VigilTicks
  <2>1. /\ UNCHANGED <<last_heartbeat, alerted, told, scan, now, job>>
        /\ \E s : todo' = [todo EXCEPT !["vigil"] = s]
    BY <1>4 DEF Alerts!VigilTicks, Alerts!tables
  <2>2. DOMAIN todo' = Alerts!Loops /\ todo'["heartbeat"] = todo["heartbeat"]
    BY <1>0, <2>1
  <2> QED
    BY <2>1, <2>2, Unheard DEF Sends
<1>5. CASE Alerts!VigilAlerts
  <2>1. /\ UNCHANGED <<last_heartbeat, alerted, told, scan, now>>
        /\ \E s : todo' = [todo EXCEPT !["vigil"] = s]
        /\ job' = job \/ \E p : Alerts!Dispatch("vigil", "behavioral_drift", p)
    BY <1>5 DEF Alerts!VigilAlerts, Alerts!tables
  <2>2. DOMAIN todo' = Alerts!Loops /\ todo'["heartbeat"] = todo["heartbeat"]
    BY <1>0, <2>1
  <2>3. Sends'
    BY <1>0, <2>1, Dispatches DEF Sends
  <2> QED
    BY <2>1, <2>2, <2>3, Unheard
<1>6. CASE \E a \in AlertAgents : \E p \in ProjectsOf[a] : Alerts!RecordHeartbeat(a, p)
  BY <1>6, Heard DEF Alerts!RecordHeartbeat, Sends
<1>7. ASSUME NEW l \in Alerts!Loops, Alerts!Delivers(l) \/ Alerts!Dispatched(l)
      PROVE Beats' /\ Sends'
  <2>1. UNCHANGED <<last_heartbeat, alerted, told, scan, now, todo>>
    BY <1>7 DEF Alerts!Delivers, Alerts!Dispatched, Alerts!tables
  <2>2. CASE Alerts!Dispatched(l)
    <3>1. DOMAIN job' = Alerts!Loops /\ \A m \in Alerts!Loops : job'[m] = Nothing \/ job'[m] = job[m]
      BY <2>2 DEF Alerts!Dispatched, Sends
    <3> QED
      BY <1>0, <2>1, <3>1, Unheard DEF Sends, Sending
  <2> QED
    BY <1>0, <1>7, <2>1, <2>2, Unheard, Delivered
<1> QED
  BY <1>1, <1>2, <1>3, <1>4, <1>5, <1>6, <1>7 DEF Alerts!Next

LEMMA AlertsAgree == Beats /\ Sends => Alerts!AlertsAreGiven
<1> SUFFICES ASSUME Beats, Sends PROVE Alerts!AlertsAreGiven
  OBVIOUS
<1>1. Alerts!SilenceIsToldOnce
  <2>1. \A a \in AlertAgents : told[a] = (IF a \in alerted THEN 1 ELSE 0) /\ Awaited(a)
    BY DEF Beats
  <2>2. \A a \in AlertAgents : told[a] <= 1
    BY <2>1
  <2>3. todo["heartbeat"] = <<>> => DOMAIN todo["heartbeat"] = {}
    OBVIOUS
  <2> QED
    BY <2>1, <2>2, <2>3 DEF Alerts!SilenceIsToldOnce, Awaited
<1>2. Alerts!EachChannelIsTried
  <2> SUFFICES ASSUME NEW l \in Alerts!Loops, job[l] # Nothing, job[l].left = <<>>
               PROVE job[l].tried = job[l].wanted
    BY DEF Alerts!EachChannelIsTried
  <2>1. DOMAIN job[l].left = {}
    OBVIOUS
  <2> QED
    BY <2>1 DEF Sends, Sending
<1> QED
  BY <1>1, <1>2 DEF Alerts!AlertsAreGiven

LEMMA AlertsInvariant == PartsSpec => [](part = "alerts" => Beats /\ Sends)
<1> DEFINE Sound == part = "alerts" => Beats /\ Sends
<1>1. PartsInit => Sound
  BY AlertsInit DEF PartsInit
<1>2. Sound /\ [PartsNext]_partsVars => Sound'
  <2> SUFFICES ASSUME Sound, [PartsNext]_partsVars PROVE Sound'
    OBVIOUS
  <2>1. CASE PartsNext
    BY <2>1, PartStays, AlertsRuns, AlertsStep
  <2>2. CASE UNCHANGED partsVars
    <3>1. UNCHANGED <<part, now, last_heartbeat, agent_project, alerted, kind, channels, todo, scan, job, told, drifts>>
      BY <2>2 DEF partsVars, OfAlerts
    <3> QED
      BY <3>1 DEF Beats, Awaited, Sends
  <2> QED
    BY <2>1, <2>2
<1> QED
  BY <1>1, <1>2, PTL DEF PartsSpec

(* A silence is told once and each channel of an alert is tried, for any   *)
(* agents, projects and channels, while all of them go on meanwhile.       *)
THEOREM AlertsAreGivenHolds == PartsSpec => []AlertsAreGiven
<1>1. (part = "alerts" => Beats /\ Sends) => AlertsAreGiven
  BY AlertsAgree DEF AlertsAreGiven
<1> QED
  BY <1>1, AlertsInvariant, PTL
-----------------------------------------------------------------------------
(* The account.  While a login holds the user's row, nobody else makes a   *)
(* session that counts and nobody clears them, so that the sessions it has *)
(* not chosen to end leave room for its own.                               *)
SessionRows == [id : Nat, via : {"login", "pending", "mfa"}, after : Nat, live : BOOLEAN]
RequestFields == {"at", "password", "session", "token", "mfa", "rehash", "codes", "ids", "after"}
Logins == {s \in sessions : s.live /\ s.via # "mfa"}
LoginsBut(ids) == {s \in Logins : s.id \notin ids}

SessionsSound ==
  /\ sessions \subseteq SessionRows /\ IsFiniteSet(sessions) /\ made \in Nat
  /\ \A s \in sessions : s.id <= made /\ \A t \in sessions : s.id = t.id => s = t

UserSound ==
  /\ DOMAIN user = {"password", "failed", "until", "force", "mfa", "secret", "codes"} /\ user.failed \in Nat
  /\ user.failed >= MaxFailed <=> user.until # "none"

Asks(r, q) ==
  /\ DOMAIN q = RequestFields
  /\ q.at \in {"counting", "opening", "finishing"} => holder = r
  /\ q.at \in {"right", "counting"} => \A i \in q.ids : i \in Nat /\ i <= made /\ \A s \in sessions : s.live => s.id # i
  /\ q.at \in {"counting", "opening"} => q.after \in Nat /\ cleared <= q.after
  /\ q.at = "opening" => Cardinality(LoginsBut(q.ids)) < MaxSessions

Capped == Cardinality(Logins) <= MaxSessions
Ended == \A s \in Logins : s.after >= cleared \/ s.id = kept

AccountsSound ==
  /\ SessionsSound /\ UserSound /\ Capped /\ Ended
  /\ cleared \in Nat /\ changes \in Nat /\ cleared <= changes
  /\ DOMAIN reqs = Requests /\ \A r \in Requests : Asks(r, reqs[r])

LEMMA AccountConstants == MaxSessions \in Nat \ {0} /\ MaxFailed \in Nat \ {0} /\ Nothing \notin Requests
  BY PartsAssumption DEF Accounts!AccountsAssumption

LEMMA AccountCardinality == \A S : Accounts!Cardinality(S) = Cardinality(S)
  BY DEF Accounts!Cardinality, Cardinality

\* As many are left as are not among the oldest: their ranks are different numbers.
LEMMA OldestAreMany ==
  ASSUME NEW S \in SUBSET SessionRows, IsFiniteSet(S), \A s, t \in S : s.id = t.id => s = t,
         NEW n \in Nat, n <= Cardinality(S)
  PROVE Cardinality(S \ Accounts!Oldest(S, n)) <= Cardinality(S) - n
<1> DEFINE Below(s) == {t \in S : t.id < s.id}
           R == S \ Accounts!Oldest(S, n)
           N == n .. (Cardinality(S) - 1)
           rank == [s \in R |-> Cardinality(Below(s))]
<1>0. Cardinality(S) \in Nat /\ \A s \in S : s.id \in Nat
  BY FS_CardinalityType DEF SessionRows
<1>1. ASSUME NEW s \in S
      PROVE IsFiniteSet(Below(s)) /\ Cardinality(Below(s)) \in Nat /\ Cardinality(Below(s)) <= Cardinality(S) - 1
  <2>1. Below(s) \in SUBSET (S \ {s})
    BY <1>0
  <2>2. IsFiniteSet(S \ {s}) /\ Cardinality(S \ {s}) = Cardinality(S) - 1
    BY FS_RemoveElement
  <2> HIDE DEF Below
  <2>3. IsFiniteSet(Below(s)) /\ Cardinality(Below(s)) <= Cardinality(S \ {s})
    BY <2>1, <2>2, FS_Subset
  <2> QED
    BY <2>2, <2>3, FS_CardinalityType
<1>2. ASSUME NEW s \in S, NEW t \in S, s.id < t.id
      PROVE Cardinality(Below(s)) # Cardinality(Below(t))
  <2>1. Below(s) \in SUBSET Below(t) /\ s \in Below(t) /\ s \notin Below(s)
    BY <1>0, <1>2
  <2>2. IsFiniteSet(Below(t))
    BY <1>1
  <2> HIDE DEF Below
  <2> QED
    BY <2>1, <2>2, FS_Subset
<1>3. \A s \in R : s \in S /\ ~(Cardinality(Below(s)) < n)
  BY AccountCardinality DEF Accounts!Oldest
<1> HIDE DEF Below, R
<1>4. rank \in [R -> N]
  <2>1. \A s \in R : Cardinality(Below(s)) \in N
    BY <1>0, <1>1, <1>3
  <2> QED
    BY <2>1
<1>5. \A s, t \in R : rank[s] = rank[t] => s = t
  <2> SUFFICES ASSUME NEW s \in R, NEW t \in R, s # t PROVE Cardinality(Below(s)) # Cardinality(Below(t))
    OBVIOUS
  <2>1. s \in S /\ t \in S /\ s.id # t.id /\ s.id \in Nat /\ t.id \in Nat
    BY <1>0, <1>3
  <2>2. s.id < t.id \/ t.id < s.id
    BY <2>1
  <2> QED
    BY <1>2, <2>1, <2>2
<1>6. rank \in Injection(R, N)
  BY <1>4, <1>5 DEF Injection, IsInjective
<1>7. IsFiniteSet(N) /\ Cardinality(N) <= Cardinality(S) - n
  <2> DEFINE m == Cardinality(S) - 1
  <2>1. n \in Int /\ m \in Int
    BY <1>0
  <2> HIDE DEF m
  <2>2. IsFiniteSet(n..m) /\ Cardinality(n..m) = IF n > m THEN 0 ELSE m - n + 1
    BY <2>1, FS_Interval
  <2> QED
    BY <1>0, <2>2 DEF m
<1> HIDE DEF rank, N
<1>8. IsFiniteSet(R) /\ Cardinality(R) <= Cardinality(N)
  BY <1>6, <1>7, FS_Injection
<1>9. Cardinality(R) \in Nat /\ Cardinality(N) \in Nat
  BY <1>7, <1>8, FS_CardinalityType
<1> QED
  BY <1>0, <1>7, <1>8, <1>9 DEF R

\* The cap makes room for one more.
LEMMA EvictionMakesRoom ==
  ASSUME NEW S \in SUBSET SessionRows, IsFiniteSet(S), \A s, t \in S : s.id = t.id => s = t
  PROVE Cardinality({s \in S : s.id \notin Accounts!IdsOf(Accounts!Evicted(S))}) < MaxSessions
<1> DEFINE R == S \ Accounts!Evicted(S)
<1>0. Cardinality(S) \in Nat /\ MaxSessions \in Nat \ {0}
  BY FS_CardinalityType, AccountConstants
<1>1. Cardinality(R) < MaxSessions
  <2>1. CASE Cardinality(S) < MaxSessions
    <3>1. R = S
      BY <2>1, AccountCardinality DEF Accounts!Evicted
    <3> QED
      BY <2>1, <3>1
  <2>2. CASE ~(Cardinality(S) < MaxSessions)
    <3> DEFINE n == Cardinality(S) - MaxSessions + 1
    <3>1. n \in Nat /\ n <= Cardinality(S) /\ Cardinality(S) - n = MaxSessions - 1
      BY <1>0, <2>2
    <3>2. R = S \ Accounts!Oldest(S, n)
      BY <2>2, AccountCardinality DEF Accounts!Evicted
    <3> HIDE DEF n, R
    <3>3. Cardinality(R) <= Cardinality(S) - n
      BY <3>1, <3>2, OldestAreMany
    <3>4. IsFiniteSet(R)
      BY FS_Subset, <3>2
    <3>5. Cardinality(R) \in Nat
      BY <3>4, FS_CardinalityType
    <3> QED
      BY <1>0, <3>1, <3>3, <3>5
  <2> QED
    BY <2>1, <2>2
<1>2. {s \in S : s.id \notin Accounts!IdsOf(Accounts!Evicted(S))} \in SUBSET R
  BY DEF Accounts!IdsOf
<1>3. IsFiniteSet(R)
  BY FS_Subset
<1> HIDE DEF R
<1>4. Cardinality(R) \in Nat
  BY <1>3, FS_CardinalityType
<1> DEFINE T == {s \in S : s.id \notin Accounts!IdsOf(Accounts!Evicted(S))}
<1>5. T \in SUBSET R
  BY <1>2
<1> HIDE DEF T
<1>6. IsFiniteSet(T) /\ Cardinality(T) <= Cardinality(R)
  BY <1>3, <1>5, FS_Subset
<1>7. Cardinality(T) \in Nat
  BY <1>6, FS_CardinalityType
<1>8. Cardinality(T) < MaxSessions
  BY <1>0, <1>1, <1>4, <1>6, <1>7
<1> QED
  BY <1>8 DEF T

LEMMA AccountInit == Accounts!Init => AccountsSound
<1> SUFFICES ASSUME Accounts!Init PROVE AccountsSound
  OBVIOUS
<1>1. /\ sessions = {} /\ made = 0 /\ cleared = 0 /\ changes = 0 /\ Logins = {}
      /\ DOMAIN user = {"password", "failed", "until", "force", "mfa", "secret", "codes"}
      /\ user.failed = 0 /\ user.until = "none"
  BY DEF Accounts!Init, Logins
<1>2. DOMAIN reqs = Requests /\ \A r \in Requests : DOMAIN reqs[r] = RequestFields /\ reqs[r].at = "idle"
  BY DEF Accounts!Init, Accounts!Idle, RequestFields
<1>3. IsFiniteSet({}) /\ Cardinality({}) = 0
  BY FS_EmptySet
<1> QED
  BY <1>1, <1>2, <1>3, AccountConstants DEF AccountsSound, SessionsSound, UserSound, Capped, Ended, Asks

\* With no new login, the rest hold as they did.
LEMMA LoginsStay ==
  ASSUME AccountsSound, Logins' \subseteq Logins
  PROVE /\ Capped'
        /\ \A ids : Cardinality(LoginsBut(ids)) < MaxSessions => Cardinality(LoginsBut(ids)') < MaxSessions
<1>1. IsFiniteSet(Logins)
  BY FS_Subset DEF AccountsSound, SessionsSound, Logins
<1>2. Capped'
  <2>1. IsFiniteSet(Logins') /\ Cardinality(Logins') <= Cardinality(Logins)
    BY <1>1, FS_Subset
  <2>2. Cardinality(Logins') \in Nat /\ Cardinality(Logins) \in Nat
    BY <1>1, <2>1, FS_CardinalityType
  <2> QED
    BY <2>1, <2>2, AccountConstants DEF AccountsSound, Capped
<1>3. ASSUME NEW ids, Cardinality(LoginsBut(ids)) < MaxSessions
      PROVE Cardinality(LoginsBut(ids)') < MaxSessions
  <2>1. LoginsBut(ids)' \in SUBSET LoginsBut(ids) /\ LoginsBut(ids) \in SUBSET Logins
    BY DEF LoginsBut
  <2>2. IsFiniteSet(LoginsBut(ids))
    BY <1>1, <2>1, FS_Subset
  <2>3. IsFiniteSet(LoginsBut(ids)') /\ Cardinality(LoginsBut(ids)') <= Cardinality(LoginsBut(ids))
    BY <2>1, <2>2, FS_Subset
  <2>4. Cardinality(LoginsBut(ids)') \in Nat /\ Cardinality(LoginsBut(ids)) \in Nat
    BY <2>2, <2>3, FS_CardinalityType
  <2> QED
    BY <1>3, <2>3, <2>4, AccountConstants
<1> QED
  BY <1>2, <1>3

\* What another request waits for is not taken from it.
LEMMA OtherAsks ==
  ASSUME AccountsSound, SessionsSound', NEW x \in Requests, made <= made',
         holder = x => holder' = x /\ cleared' = cleared /\ Logins' \subseteq Logins,
         \A s \in sessions' : s.live => s.id = made + 1 \/ \E t \in sessions : t.live /\ t.id = s.id
  PROVE reqs'[x] = reqs[x] => Asks(x, reqs[x])'
<1> SUFFICES ASSUME reqs'[x] = reqs[x] PROVE Asks(x, reqs[x])'
  OBVIOUS
<1> DEFINE q == reqs[x]
<1>1. Asks(x, q) /\ made \in Nat /\ made' \in Nat
  BY DEF AccountsSound, SessionsSound
<1>2. q.at \in {"right", "counting"} => \A i \in q.ids : i \in Nat /\ i <= made' /\ \A s \in sessions' : s.live => s.id # i
  <2> SUFFICES ASSUME q.at \in {"right", "counting"}, NEW i \in q.ids
               PROVE i \in Nat /\ i <= made' /\ \A s \in sessions' : s.live => s.id # i
    OBVIOUS
  <2>1. i \in Nat /\ i <= made /\ \A s \in sessions : s.live => s.id # i
    BY <1>1 DEF Asks
  <2> QED
    BY <1>1, <2>1
<1> QED
  BY <1>1, <1>2, LoginsStay DEF Asks

\* A request has moved on, and the others wait as they did.
LEMMA AccountMoves ==
  ASSUME AccountsSound, SessionsSound', UserSound', Capped', Ended',
         cleared' \in Nat, changes' \in Nat, cleared' <= changes', made <= made',
         NEW r \in Requests, NEW q, reqs' = [reqs EXCEPT ![r] = q], Asks(r, q)',
         \A x \in Requests \ {r} : holder = x => holder' = x /\ cleared' = cleared /\ Logins' \subseteq Logins,
         \A s \in sessions' : s.live => s.id = made + 1 \/ \E t \in sessions : t.live /\ t.id = s.id
  PROVE AccountsSound'
<1>1. DOMAIN reqs = Requests
  BY DEF AccountsSound
<1>2. DOMAIN reqs' = Requests /\ reqs'[r] = q /\ \A x \in Requests \ {r} : reqs'[x] = reqs[x]
  BY <1>1
<1>3. \A x \in Requests \ {r} : Asks(x, reqs[x])'
  BY <1>2, OtherAsks
<1>4. \A x \in Requests : Asks(x, reqs[x])'
  BY <1>2, <1>3 DEF Asks
<1> QED
  BY <1>2, <1>4 DEF AccountsSound

\* A request that neither opens a session nor ends one.
LEMMA Waits ==
  ASSUME AccountsSound, UserSound', UNCHANGED <<sessions, made, cleared, changes, kept>>,
         NEW r \in Requests, NEW q, reqs' = [reqs EXCEPT ![r] = q], Asks(r, q)',
         \A x \in Requests \ {r} : holder = x => holder' = x
  PROVE AccountsSound'
<1>1. Logins' = Logins /\ SessionsSound' /\ Ended' /\ Capped'
  BY DEF AccountsSound, Logins, SessionsSound, Ended, Capped
<1>2. cleared' \in Nat /\ changes' \in Nat /\ cleared' <= changes' /\ made <= made' /\ cleared' = cleared
  BY DEF AccountsSound, SessionsSound
<1>3. \A s \in sessions' : s.live => \E t \in sessions : t.live /\ t.id = s.id
  OBVIOUS
<1> QED
  BY <1>1, <1>2, <1>3, AccountMoves

\* Sessions end, without a request that is on its way.
LEMMA Leaves ==
  ASSUME AccountsSound, UserSound', SessionsSound', UNCHANGED <<reqs, holder, made, cleared, kept>>,
         changes' \in Nat, changes <= changes', Logins' \subseteq Logins,
         \A s \in sessions' : s.live => \E t \in sessions : t.live /\ t.id = s.id
  PROVE AccountsSound'
<1>1. Capped' /\ Ended'
  BY LoginsStay DEF AccountsSound, Ended
<1>2. cleared' \in Nat /\ cleared' <= changes' /\ made <= made'
  BY DEF AccountsSound, SessionsSound
<1>3. \A x \in Requests : Asks(x, reqs[x])'
  BY <1>2, OtherAsks
<1> QED
  BY <1>1, <1>2, <1>3 DEF AccountsSound

Quiet(q) == DOMAIN q = RequestFields /\ q.at \notin {"right", "counting", "opening", "finishing"}

LEMMA QuietAsks == ASSUME NEW r, NEW q, Quiet(q) PROVE Asks(r, q)'
  BY DEF Quiet, Asks

LEMMA IdleIsQuiet == Quiet(Accounts!Idle)
  BY DEF Accounts!Idle, Quiet, RequestFields

LEMMA AsksQuietly ==
  ASSUME AccountsSound, NEW r \in Requests,
         \/ \E p \in Accounts!Passwords : Accounts!Login(r, p) /\ p # user.password
         \/ \E s \in sessions : Accounts!MfaVerifies(r, s)
         \/ Accounts!MfaVerifySetup(r) \/ Accounts!MfaDisable(r)
         \/ \E s \in sessions, p \in Accounts!Passwords : Accounts!ChangePassword(r, s, p)
         \/ \E t \in Tokens : Accounts!ConfirmReset(r, t)
         \/ Accounts!ConsumeToken(r) \/ Accounts!AdminReset(r)
  PROVE AccountsSound'
<1>1. UNCHANGED <<user, sessions, holder, made, changes, cleared, kept>>
  BY DEF Accounts!Login, Accounts!MfaVerifies, Accounts!MfaVerifySetup, Accounts!MfaDisable, Accounts!ChangePassword,
     Accounts!ConfirmReset, Accounts!ConsumeToken, Accounts!AdminReset, Accounts!Counters
<1>2. DOMAIN reqs[r] = RequestFields
  BY DEF AccountsSound, Asks
<1>3. PICK q : reqs' = [reqs EXCEPT ![r] = q] /\ Quiet(q)
  <2>0. DOMAIN Accounts!Idle = RequestFields
    BY DEF Accounts!Idle, RequestFields
  <2>1. CASE \E p \in Accounts!Passwords : Accounts!Login(r, p) /\ p # user.password
    <3>1. Quiet([Accounts!Idle EXCEPT !.at = "failing"])
      BY <2>0 DEF Quiet, RequestFields
    <3> QED
      BY <2>1, <3>1 DEF Accounts!Login, Accounts!Becomes
  <2>2. CASE \E s \in sessions : Accounts!MfaVerifies(r, s)
    <3>1. PICK s \in sessions, codes \in Accounts!CodesAfter :
            Accounts!Becomes(r, [Accounts!Idle EXCEPT !.at = "verified", !.session = s.id, !.codes = codes, !.rehash = codes # user.codes])
      BY <2>2 DEF Accounts!MfaVerifies
    <3>2. Quiet([Accounts!Idle EXCEPT !.at = "verified", !.session = s.id, !.codes = codes, !.rehash = codes # user.codes])
      BY <2>0 DEF Quiet, RequestFields
    <3> QED
      BY <3>1, <3>2 DEF Accounts!Becomes
  <2>3. CASE Accounts!MfaVerifySetup(r) \/ Accounts!MfaDisable(r) \/ Accounts!AdminReset(r)
    <3>1. /\ Quiet([Accounts!Idle EXCEPT !.at = "enabling"]) /\ Quiet([Accounts!Idle EXCEPT !.at = "disabling"])
          /\ Quiet([Accounts!Idle EXCEPT !.at = "admin"])
      BY <2>0 DEF Quiet, RequestFields
    <3> QED
      BY <2>3, <3>1 DEF Accounts!MfaVerifySetup, Accounts!MfaDisable, Accounts!AdminReset, Accounts!Becomes
  <2>4. CASE \E s \in sessions, p \in Accounts!Passwords : Accounts!ChangePassword(r, s, p)
    <3>1. PICK s \in sessions, codes \in Accounts!CodesAfter \cup {user.codes} :
            Accounts!Becomes(r, [Accounts!Idle EXCEPT !.at = "changing", !.session = s.id, !.codes = codes, !.rehash = codes # user.codes])
      BY <2>4 DEF Accounts!ChangePassword
    <3>2. Quiet([Accounts!Idle EXCEPT !.at = "changing", !.session = s.id, !.codes = codes, !.rehash = codes # user.codes])
      BY <2>0 DEF Quiet, RequestFields
    <3> QED
      BY <3>1, <3>2 DEF Accounts!Becomes
  <2>5. CASE \E t \in Tokens : Accounts!ConfirmReset(r, t)
    <3>1. \A t : Quiet([Accounts!Idle EXCEPT !.at = "confirming", !.token = t])
      BY <2>0 DEF Quiet, RequestFields
    <3> QED
      BY <2>5, <3>1 DEF Accounts!ConfirmReset, Accounts!Becomes
  <2>6. CASE Accounts!ConsumeToken(r)
    <3>1. Quiet([reqs[r] EXCEPT !.at = "marked"])
      BY <1>2 DEF Quiet, RequestFields
    <3> QED
      BY <2>6, <3>1, IdleIsQuiet DEF Accounts!ConsumeToken, Accounts!Becomes
  <2> QED
    BY <2>1, <2>2, <2>3, <2>4, <2>5, <2>6
<1>4. UserSound'
  BY <1>1 DEF AccountsSound, UserSound
<1> QED
  BY <1>1, <1>3, <1>4, QuietAsks, Waits

\* A login reads which sessions are over; later it takes the row.
LEMMA LoginBegins ==
  ASSUME AccountsSound, NEW r \in Requests,
         (\E p \in Accounts!Passwords : Accounts!Login(r, p) /\ p = user.password) \/ Accounts!ResetFailedLogin(r)
  PROVE AccountsSound'
<1>1. UNCHANGED <<user, sessions, made, changes, cleared, kept>>
  BY DEF Accounts!Login, Accounts!ResetFailedLogin, Accounts!Counters
<1>2. UserSound'
  BY <1>1 DEF AccountsSound, UserSound
<1>3. CASE \E p \in Accounts!Passwords : Accounts!Login(r, p) /\ p = user.password
  <2>0. DOMAIN Accounts!Idle = RequestFields
    BY DEF Accounts!Idle, RequestFields
  <2>6. PICK p \in Accounts!Passwords, h \in BOOLEAN :
          Accounts!Becomes(r, [Accounts!Idle EXCEPT !.at = "right", !.password = p, !.mfa = user.mfa, !.rehash = h,
                                                    !.ids = Accounts!IdsOf(sessions \ Accounts!Live)])
    BY <1>3 DEF Accounts!Login
  <2>1. PICK q : /\ q = [Accounts!Idle EXCEPT !.at = "right", !.password = p, !.mfa = user.mfa, !.rehash = h,
                                              !.ids = Accounts!IdsOf(sessions \ Accounts!Live)]
                 /\ reqs' = [reqs EXCEPT ![r] = q]
    BY <2>6 DEF Accounts!Becomes
  <2>2. DOMAIN q = RequestFields /\ q.at = "right" /\ q.ids = Accounts!IdsOf(sessions \ Accounts!Live)
    BY <2>0, <2>1 DEF RequestFields
  <2>3. \A i \in q.ids : i \in Nat /\ i <= made /\ \A s \in sessions : s.live => s.id # i
    <3> SUFFICES ASSUME NEW i \in q.ids PROVE i \in Nat /\ i <= made /\ \A s \in sessions : s.live => s.id # i
      OBVIOUS
    <3>1. PICK t \in sessions : ~t.live /\ t.id = i
      BY <2>2 DEF Accounts!IdsOf, Accounts!Live
    <3>2. i \in Nat /\ i <= made
      BY <3>1 DEF AccountsSound, SessionsSound, SessionRows
    <3>3. \A s \in sessions : s.id = t.id => s = t
      BY <3>1 DEF AccountsSound, SessionsSound
    <3> QED
      BY <3>1, <3>2, <3>3
  <2>4. Asks(r, q)'
    BY <1>1, <2>2, <2>3 DEF Asks
  <2>5. holder' = holder
    BY <1>3 DEF Accounts!Login
  <2> QED
    BY <1>1, <1>2, <2>1, <2>4, <2>5, Waits
<1>4. CASE Accounts!ResetFailedLogin(r)
  <2>1. PICK q : q = [reqs[r] EXCEPT !.at = "counting", !.after = changes] /\ reqs' = [reqs EXCEPT ![r] = q]
    BY <1>4 DEF Accounts!ResetFailedLogin, Accounts!Becomes
  <2>2. Asks(r, reqs[r]) /\ reqs[r].at = "right" /\ holder = Nothing /\ holder' = r
    BY <1>4 DEF Accounts!ResetFailedLogin, Accounts!Free, AccountsSound
  <2>3. DOMAIN q = RequestFields /\ q.at = "counting" /\ q.after = changes /\ q.ids = reqs[r].ids
    BY <2>1, <2>2 DEF Asks, RequestFields
  <2>4. changes \in Nat /\ cleared <= changes
    BY DEF AccountsSound
  <2>5. Asks(r, q)'
    BY <1>1, <2>2, <2>3, <2>4 DEF Asks
  <2> QED
    BY <1>1, <1>2, <2>1, <2>2, <2>5, AccountConstants, Waits
<1> QED
  BY <1>3, <1>4

\* It chooses those to end, with the row in its hands.
LEMMA CapEnforced ==
  ASSUME AccountsSound, NEW r \in Requests, Accounts!EnforceSessionCap(r)
  PROVE AccountsSound'
<1> DEFINE S == {s \in sessions : s.id \notin reqs[r].ids}
<1>1. UNCHANGED <<user, sessions, holder, made, changes, cleared, kept>> /\ reqs[r].at = "counting"
  BY DEF Accounts!EnforceSessionCap, Accounts!Counters
<1>2. PICK q : q = [reqs[r] EXCEPT !.at = "opening", !.ids = Accounts!IdsOf(Accounts!Evicted(S))] /\ reqs' = [reqs EXCEPT ![r] = q]
  BY DEF Accounts!EnforceSessionCap, Accounts!Becomes
<1>3. Asks(r, reqs[r])
  BY DEF AccountsSound
<1>4. DOMAIN q = RequestFields /\ q.at = "opening" /\ q.after = reqs[r].after /\ q.ids = Accounts!IdsOf(Accounts!Evicted(S))
  BY <1>2, <1>3 DEF Asks, RequestFields
<1>5. S \in SUBSET SessionRows /\ IsFiniteSet(S) /\ \A s, t \in S : s.id = t.id => s = t
  <2>1. S \in SUBSET sessions
    OBVIOUS
  <2>2. IsFiniteSet(S)
    BY <2>1, FS_Subset DEF AccountsSound, SessionsSound
  <2> QED
    BY <2>1, <2>2 DEF AccountsSound, SessionsSound
<1>6. LoginsBut(q.ids) \in SUBSET {s \in S : s.id \notin q.ids}
  BY <1>1, <1>3 DEF LoginsBut, Logins, Asks
<1> HIDE DEF S
<1> DEFINE T == {s \in S : s.id \notin q.ids}
<1>7. Cardinality(T) < MaxSessions
  BY <1>4, <1>5, EvictionMakesRoom
<1>8. T \in SUBSET S
  OBVIOUS
<1>9. LoginsBut(q.ids) \in SUBSET T
  BY <1>6
<1> HIDE DEF T
<1>10. IsFiniteSet(T)
  BY <1>5, <1>8, FS_Subset
<1>11. IsFiniteSet(LoginsBut(q.ids)) /\ Cardinality(LoginsBut(q.ids)) <= Cardinality(T)
  BY <1>9, <1>10, FS_Subset
<1>12. Cardinality(LoginsBut(q.ids)) \in Nat /\ Cardinality(T) \in Nat
  BY <1>10, <1>11, FS_CardinalityType
<1>13. Cardinality(LoginsBut(q.ids)) < MaxSessions
  BY <1>7, <1>11, <1>12, AccountConstants
<1>14. LoginsBut(q.ids)' = LoginsBut(q.ids)
  BY <1>1 DEF LoginsBut, Logins
<1>15. Asks(r, q)'
  BY <1>1, <1>3, <1>4, <1>13, <1>14 DEF Asks
<1>16. UserSound'
  BY <1>1 DEF AccountsSound, UserSound
<1> QED
  BY <1>1, <1>2, <1>15, <1>16, Waits

Joins(K, s) == sessions' = K \cup {s}

\* A session of a new id joins those that stay.
LEMMA SessionJoins ==
  ASSUME AccountsSound, NEW K \in SUBSET sessions, NEW via \in {"login", "pending", "mfa"}, NEW after \in Nat,
         Joins(K, Accounts!NewSession(via, after)), made' = made + 1
  PROVE /\ SessionsSound'
        /\ \A s \in sessions' : s.live => s.id = made + 1 \/ \E t \in sessions : t.live /\ t.id = s.id
        /\ \A s \in sessions' : s \in K \/ (s.via = via /\ s.after = after)
<1> DEFINE n == Accounts!NewSession(via, after)
<1>0. made \in Nat /\ IsFiniteSet(sessions) /\ sessions \subseteq SessionRows
  BY DEF AccountsSound, SessionsSound
<1>1. n \in SessionRows /\ n.id = made + 1 /\ n.via = via /\ n.after = after
  BY <1>0 DEF Accounts!NewSession, SessionRows
<1> HIDE DEF n
<1>2. IsFiniteSet(K \cup {n})
  <2>1. IsFiniteSet(K)
    BY <1>0, FS_Subset
  <2> QED
    BY <2>1, FS_AddElement
<1>3. sessions' = K \cup {n}
  BY DEF n, Joins
<1>4. \A s \in K : s \in sessions /\ s.id \in Nat /\ s.id <= made /\ \A t \in K : s.id = t.id => s = t
  BY <1>0 DEF AccountsSound, SessionsSound, SessionRows
<1>5. \A s \in sessions' : s.id <= made + 1 /\ \A t \in sessions' : s.id = t.id => s = t
  BY <1>0, <1>1, <1>3, <1>4
<1>6. sessions' \subseteq SessionRows /\ IsFiniteSet(sessions') /\ made' \in Nat
  BY <1>0, <1>1, <1>2, <1>3
<1>7. SessionsSound'
  BY <1>5, <1>6 DEF SessionsSound
<1> QED
  BY <1>1, <1>3, <1>4, <1>7

\* Its own session takes the room that it made.
LEMMA LoginOpens ==
  ASSUME AccountsSound, NEW r \in Requests, Accounts!LoginCommits(r)
  PROVE AccountsSound'
<1> DEFINE ids == reqs[r].ids
<1>1. Asks(r, reqs[r]) /\ reqs[r].at = "opening"
  BY DEF AccountsSound, Accounts!LoginCommits
<1>2. PICK after \in Nat : after = reqs[r].after
  BY <1>1 DEF Asks
<1>3. holder = r /\ cleared <= after /\ Cardinality(LoginsBut(ids)) < MaxSessions
  BY <1>1, <1>2 DEF Asks
<1>4. /\ made' = made + 1 /\ UNCHANGED <<changes, cleared, kept>> /\ reqs' = [reqs EXCEPT ![r] = Accounts!Idle]
      /\ user' = [user EXCEPT !.failed = 0, !.until = "none", !.password = IF reqs[r].rehash THEN reqs[r].password ELSE @]
  BY DEF Accounts!LoginCommits, Accounts!CreateSession, Accounts!Becomes
<1>5. PICK K \in SUBSET sessions : K = {s \in sessions : s.id \notin ids}
  OBVIOUS
<1>12. PICK via \in {"login", "pending", "mfa"} : via # "mfa" /\ Joins(K, Accounts!NewSession(via, after))
  <2>1. \E via \in {"login", "pending"} : sessions' = K \cup {Accounts!NewSession(via, after)}
    BY <1>2, <1>5 DEF Accounts!LoginCommits
  <2> QED
    BY <2>1 DEF Joins
<1>6. /\ SessionsSound'
      /\ \A s \in sessions' : s.live => s.id = made + 1 \/ \E t \in sessions : t.live /\ t.id = s.id
      /\ \A s \in sessions' : s \in K \/ (s.via = via /\ s.after = after)
  BY <1>4, <1>12, SessionJoins
<1>7. Ended'
  BY <1>3, <1>4, <1>5, <1>6 DEF AccountsSound, Ended, Logins
<1>8. UserSound'
  BY <1>4, AccountConstants DEF AccountsSound, UserSound
<1>9. Capped'
  <2> DEFINE n == Accounts!NewSession(via, after)
             L == LoginsBut(ids)
  <2>1. Logins' \in SUBSET (L \cup {n})
    BY <1>5, <1>12 DEF Logins, LoginsBut, Joins
  <2>2. IsFiniteSet(L)
    BY FS_Subset DEF AccountsSound, SessionsSound, LoginsBut, Logins
  <2> HIDE DEF n
  <2>3. Cardinality(L) < MaxSessions
    BY <1>3
  <2> HIDE DEF L
  <2>4. IsFiniteSet(L \cup {n}) /\ Cardinality(L \cup {n}) <= Cardinality(L) + 1
    <3>1. Cardinality(L) \in Nat
      BY <2>2, FS_CardinalityType
    <3>2. IsFiniteSet(L \cup {n}) /\ Cardinality(L \cup {n}) = IF n \in L THEN Cardinality(L) ELSE Cardinality(L) + 1
      BY <2>2, FS_AddElement
    <3> QED
      BY <3>1, <3>2
  <2>5. IsFiniteSet(Logins') /\ Cardinality(Logins') <= Cardinality(L \cup {n})
    BY <2>1, <2>4, FS_Subset
  <2>6. Cardinality(L) \in Nat /\ Cardinality(L \cup {n}) \in Nat /\ Cardinality(Logins') \in Nat
    BY <2>2, <2>4, <2>5, FS_CardinalityType
  <2> QED
    BY <2>3, <2>4, <2>5, <2>6, AccountConstants DEF Capped
<1>10. cleared' \in Nat /\ changes' \in Nat /\ cleared' <= changes' /\ made <= made'
  BY <1>4 DEF AccountsSound, SessionsSound
<1>11. Asks(r, Accounts!Idle)' /\ \A x \in Requests \ {r} : holder # x
  BY <1>3, QuietAsks, IdleIsQuiet
<1> HIDE DEF ids
<1> QED
  BY <1>4, <1>6, <1>7, <1>8, <1>9, <1>10, <1>11, AccountMoves

\* A second factor's session is of another kind.
LEMMA MfaOpens ==
  ASSUME AccountsSound, NEW r \in Requests, Accounts!MfaCommits(r)
  PROVE AccountsSound'
<1>0. PICK K \in SUBSET sessions, after \in Nat : K = {s \in sessions : s.id # reqs[r].session} /\ after = changes
  BY DEF AccountsSound
<1>1. /\ made' = made + 1 /\ UNCHANGED <<holder, changes, cleared, kept>> /\ reqs' = [reqs EXCEPT ![r] = Accounts!Idle]
      /\ user' = [user EXCEPT !.codes = reqs[r].codes] \/ user' = user
  BY DEF Accounts!MfaCommits, Accounts!CreateSession, Accounts!Becomes
<1>2. Joins(K, Accounts!NewSession("mfa", after))
  BY <1>0 DEF Accounts!MfaCommits, Joins
<1>3. /\ SessionsSound'
      /\ \A s \in sessions' : s.live => s.id = made + 1 \/ \E t \in sessions : t.live /\ t.id = s.id
      /\ \A s \in sessions' : s \in K \/ (s.via = "mfa" /\ s.after = after)
  BY <1>1, <1>2, SessionJoins
<1>4. Logins' \subseteq Logins
  BY <1>3 DEF Logins
<1>5. Capped' /\ Ended'
  BY <1>1, <1>4, LoginsStay DEF AccountsSound, Ended
<1>6. UserSound'
  BY <1>1 DEF AccountsSound, UserSound
<1>7. cleared' \in Nat /\ changes' \in Nat /\ cleared' <= changes' /\ made <= made'
  BY <1>1 DEF AccountsSound, SessionsSound
<1>8. Asks(r, Accounts!Idle)'
  BY QuietAsks, IdleIsQuiet
<1> QED
  BY <1>1, <1>3, <1>4, <1>5, <1>6, <1>7, <1>8, AccountMoves

\* Sessions that are among those there were are as sound.
LEMMA FewerSessions ==
  ASSUME AccountsSound, sessions' \subseteq sessions, UNCHANGED made
  PROVE /\ SessionsSound' /\ Logins' \subseteq Logins
        /\ \A s \in sessions' : s.live => \E t \in sessions : t.live /\ t.id = s.id
<1>1. IsFiniteSet(sessions')
  BY FS_Subset DEF AccountsSound, SessionsSound
<1> QED
  BY <1>1 DEF AccountsSound, SessionsSound, Logins

\* A new password ends the sessions: a change keeps its caller's, a reset none.
LEMMA PasswordEnds ==
  ASSUME AccountsSound, NEW r \in Requests, Accounts!ChangeCommits(r) \/ Accounts!ResetPassword(r)
  PROVE AccountsSound'
<1>1. /\ UNCHANGED made /\ changes' = changes + 1 /\ cleared' = changes + 1 /\ reqs' = [reqs EXCEPT ![r] = Accounts!Idle]
      /\ sessions' \subseteq sessions /\ \A s \in sessions' : s.id = kept'
  BY DEF Accounts!ChangeCommits, Accounts!ResetPassword, Accounts!NewPassword, Accounts!Becomes
<1>2. Asks(r, reqs[r])
  BY DEF AccountsSound
<1>3. \A x \in Requests \ {r} : holder # x
  BY <1>2, AccountConstants DEF Accounts!ChangeCommits, Accounts!ResetPassword, Accounts!Free, Asks
<1>4. UserSound'
  BY DEF AccountsSound, UserSound, Accounts!ChangeCommits, Accounts!ResetPassword
<1>5. Ended'
  BY <1>1 DEF Ended, Logins
<1>6. cleared' \in Nat /\ changes' \in Nat /\ cleared' <= changes' /\ made <= made'
  BY <1>1 DEF AccountsSound, SessionsSound
<1>7. Asks(r, Accounts!Idle)'
  BY QuietAsks, IdleIsQuiet
<1> QED
  BY <1>1, <1>3, <1>4, <1>5, <1>6, <1>7, FewerSessions, LoginsStay, AccountMoves

\* The other updates of the row by a request, and a reset that takes it or is aborted.
LEMMA RowUpdated ==
  ASSUME AccountsSound, NEW r \in Requests,
         \/ Accounts!RecordFailedLogin(r) \/ Accounts!EnableMfa(r) \/ Accounts!DisableMfa(r)
         \/ Accounts!ResetTakesRow(r) \/ Accounts!DeadlockAborts(r)
  PROVE AccountsSound'
<1>1. UNCHANGED <<sessions, made, changes, cleared, kept>>
  BY DEF Accounts!RecordFailedLogin, Accounts!EnableMfa, Accounts!DisableMfa, Accounts!ResetTakesRow, Accounts!DeadlockAborts,
     Accounts!Counters
<1>2. UserSound'
  <2>1. CASE Accounts!RecordFailedLogin(r)
    <3>1. user' = [user EXCEPT !.failed = Accounts!Counted(user.failed + 1),
                               !.until = IF user.failed + 1 >= MaxFailed THEN "future" ELSE user.until]
      BY <2>1 DEF Accounts!RecordFailedLogin
    <3>2. /\ DOMAIN user = {"password", "failed", "until", "force", "mfa", "secret", "codes"} /\ user.failed \in Nat
          /\ user.failed >= MaxFailed <=> user.until # "none"
      BY DEF AccountsSound, UserSound
    <3>3. /\ DOMAIN user' = DOMAIN user /\ user'.failed = Accounts!Counted(user.failed + 1)
          /\ user'.until = IF user.failed + 1 >= MaxFailed THEN "future" ELSE user.until
      BY <3>1, <3>2
    <3>4. /\ Accounts!Counted(user.failed + 1) \in Nat
          /\ Accounts!Counted(user.failed + 1) >= MaxFailed <=> user.failed + 1 >= MaxFailed
      BY <3>2, AccountConstants DEF Accounts!Counted
    <3>5. ~(user.failed + 1 >= MaxFailed) => user.until = "none"
      BY <3>2, AccountConstants
    <3> QED
      BY <3>2, <3>3, <3>4, <3>5 DEF UserSound
  <2>2. CASE Accounts!EnableMfa(r) \/ Accounts!DisableMfa(r)
    BY <2>2 DEF AccountsSound, UserSound, Accounts!EnableMfa, Accounts!DisableMfa, Accounts!MfaDisabled
  <2>3. CASE Accounts!ResetTakesRow(r) \/ Accounts!DeadlockAborts(r)
    BY <2>3 DEF AccountsSound, UserSound, Accounts!ResetTakesRow, Accounts!DeadlockAborts
  <2> QED
    BY <2>1, <2>2, <2>3
<1>3. CASE Accounts!ResetTakesRow(r)
  <2>1. PICK q : q = [reqs[r] EXCEPT !.at = "finishing"] /\ reqs' = [reqs EXCEPT ![r] = q]
    BY <1>3 DEF Accounts!ResetTakesRow, Accounts!Becomes
  <2>2. DOMAIN reqs[r] = RequestFields
    BY DEF AccountsSound, Asks
  <2>3. DOMAIN q = RequestFields /\ q.at = "finishing" /\ holder' = r /\ holder = Nothing
    BY <1>3, <2>1, <2>2 DEF RequestFields, Accounts!ResetTakesRow, Accounts!Free
  <2>4. Asks(r, q)'
    BY <2>3 DEF Asks
  <2> QED
    BY <1>1, <1>2, <2>1, <2>3, <2>4, AccountConstants, Waits
<1>4. CASE ~Accounts!ResetTakesRow(r)
  <2>1. reqs' = [reqs EXCEPT ![r] = Accounts!Idle] /\ (holder' = holder \/ holder = r)
    BY <1>4 DEF Accounts!RecordFailedLogin, Accounts!EnableMfa, Accounts!DisableMfa, Accounts!DeadlockAborts, Accounts!Becomes
  <2>2. Asks(r, Accounts!Idle)'
    BY QuietAsks, IdleIsQuiet
  <2> QED
    BY <1>1, <1>2, <2>1, <2>2, Waits
<1> QED
  BY <1>3, <1>4

\* Without a request: time, the user, the operator.
LEMMA NoRequest ==
  ASSUME AccountsSound,
         \/ Accounts!SetupTotp \/ Accounts!AdminCliReset \/ Accounts!Expires \/ Accounts!Cleanup
         \/ \E t \in Tokens : Accounts!RequestReset(t)
         \/ \E s \in sessions : Accounts!Logout(s) \/ Accounts!MfaExhausted(s)
  PROVE AccountsSound'
<1>1. UNCHANGED <<reqs, holder, made, cleared, kept>>
  BY DEF Accounts!SetupTotp, Accounts!AdminCliReset, Accounts!Expires, Accounts!Cleanup, Accounts!RequestReset, Accounts!Logout,
     Accounts!MfaExhausted, Accounts!Counters
<1>2. changes \in Nat /\ (changes' = changes \/ changes' = changes + 1)
  BY DEF AccountsSound, Accounts!SetupTotp, Accounts!AdminCliReset, Accounts!Expires, Accounts!Cleanup, Accounts!RequestReset,
     Accounts!Logout, Accounts!MfaExhausted, Accounts!Counters, Accounts!NewPassword
<1>3. UserSound'
  <2>1. CASE Accounts!AdminCliReset
    <3>1. PICK row \in {user, Accounts!MfaDisabled(user)} : user' = [row EXCEPT !.password = changes + 1, !.force = TRUE]
      BY <2>1 DEF Accounts!AdminCliReset
    <3>2. DOMAIN row = DOMAIN user /\ row.failed = user.failed /\ row.until = user.until
      BY DEF Accounts!MfaDisabled, AccountsSound, UserSound
    <3> QED
      BY <3>1, <3>2 DEF AccountsSound, UserSound
  <2>2. CASE ~Accounts!AdminCliReset
    <3>1. \/ user' = user
          \/ user' = [user EXCEPT !.secret = TRUE]
          \/ user.until = "future" /\ user' = [user EXCEPT !.until = "past"]
      <4>1. CASE Accounts!SetupTotp \/ Accounts!Expires
        BY <4>1 DEF Accounts!SetupTotp, Accounts!Expires
      <4>2. CASE Accounts!Cleanup \/ \E t \in Tokens : Accounts!RequestReset(t)
        BY <4>2 DEF Accounts!Cleanup, Accounts!RequestReset
      <4>3. CASE \E s \in sessions : Accounts!Logout(s) \/ Accounts!MfaExhausted(s)
        BY <4>3 DEF Accounts!Logout, Accounts!MfaExhausted
      <4> QED
        BY <2>2, <4>1, <4>2, <4>3
    <3> QED
      BY <3>1 DEF AccountsSound, UserSound
  <2> QED
    BY <2>1, <2>2
<1>4. CASE sessions' \subseteq sessions
  BY <1>1, <1>2, <1>3, <1>4, FewerSessions, Leaves
<1>5. CASE ~(sessions' \subseteq sessions)
  <2>1. PICK s \in sessions : s.live /\ sessions' = (sessions \ {s}) \cup {[s EXCEPT !.live = FALSE]}
    BY <1>5 DEF Accounts!SetupTotp, Accounts!AdminCliReset, Accounts!Expires, Accounts!Cleanup, Accounts!RequestReset,
       Accounts!Logout, Accounts!MfaExhausted, Accounts!Live
  <2> DEFINE d == [s EXCEPT !.live = FALSE]
  <2>2. s \in SessionRows /\ d \in SessionRows /\ d.id = s.id /\ ~d.live
    BY DEF AccountsSound, SessionsSound, SessionRows
  <2>3. sessions' = (sessions \ {s}) \cup {d}
    BY <2>1
  <2> HIDE DEF d
  <2>4. IsFiniteSet(sessions')
    <3>1. IsFiniteSet(sessions \ {s})
      BY FS_RemoveElement DEF AccountsSound, SessionsSound
    <3> QED
      BY <2>3, <3>1, FS_AddElement
  <2>5. SessionsSound'
    BY <1>1, <2>2, <2>3, <2>4 DEF AccountsSound, SessionsSound
  <2>6. Logins' \subseteq Logins /\ \A x \in sessions' : x.live => \E t \in sessions : t.live /\ t.id = x.id
    BY <2>2, <2>3 DEF Logins
  <2> QED
    BY <1>1, <1>2, <1>3, <2>5, <2>6, Leaves
<1> QED
  BY <1>4, <1>5

LEMMA AccountStep == AccountsSound /\ Accounts!Next => AccountsSound'
<1> SUFFICES ASSUME AccountsSound, Accounts!Next PROVE AccountsSound'
  OBVIOUS
<1>1. CASE \E r \in Requests : Accounts!Signs(r)
  <2>1. PICK r \in Requests : Accounts!Signs(r)
    BY <1>1
  <2> QED
    BY <2>1, AsksQuietly, LoginBegins, CapEnforced, LoginOpens, RowUpdated DEF Accounts!Signs
<1>2. CASE \E r \in Requests : Accounts!SecondFactor(r)
  <2>1. PICK r \in Requests : Accounts!SecondFactor(r)
    BY <1>2
  <2> QED
    BY <2>1, AsksQuietly, MfaOpens, RowUpdated DEF Accounts!SecondFactor
<1>3. CASE \E r \in Requests : Accounts!Resets(r)
  <2>1. PICK r \in Requests : Accounts!Resets(r)
    BY <1>3
  <2> QED
    BY <2>1, AsksQuietly, PasswordEnds, RowUpdated DEF Accounts!Resets
<1> QED
  BY <1>1, <1>2, <1>3, NoRequest DEF Accounts!Next

LEMMA AccountsAgree == AccountsSound => Accounts!AccountsHold
<1> SUFFICES ASSUME AccountsSound PROVE Accounts!AccountsHold
  OBVIOUS
<1>1. Logins = {s \in Accounts!Live : s.via # "mfa"}
  BY DEF Logins, Accounts!Live
<1>2. Accounts!LoginsAreCapped
  BY <1>1, AccountCardinality DEF AccountsSound, Capped, Accounts!LoginsAreCapped
<1>3. Accounts!LoginsEndWithThePassword
  BY <1>1 DEF AccountsSound, Ended, Accounts!LoginsEndWithThePassword
<1>4. Accounts!LockoutFollowsFailures
  BY DEF AccountsSound, UserSound, Accounts!LockoutFollowsFailures
<1> QED
  BY <1>2, <1>3, <1>4 DEF Accounts!AccountsHold

LEMMA AccountsInvariant == PartsSpec => [](part = "accounts" => AccountsSound)
<1> DEFINE Sound == part = "accounts" => AccountsSound
<1>1. PartsInit => Sound
  BY AccountInit DEF PartsInit
<1>2. Sound /\ [PartsNext]_partsVars => Sound'
  <2> SUFFICES ASSUME Sound, [PartsNext]_partsVars PROVE Sound'
    OBVIOUS
  <2>1. CASE PartsNext
    BY <2>1, PartStays, AccountsRuns, AccountStep
  <2>2. CASE UNCHANGED partsVars
    <3>1. UNCHANGED <<part, user, sessions, resets, holder, reqs, cleared, kept, setups, made, changes>>
      BY <2>2 DEF partsVars, OfAccounts
    <3> QED
      BY <3>1 DEF AccountsSound, SessionsSound, UserSound, Capped, Ended, Logins, Asks, LoginsBut
  <2> QED
    BY <2>1, <2>2
<1> QED
  BY <1>1, <1>2, PTL DEF PartsSpec

(* The cap of sessions, their end with the password, and the lockout hold  *)
(* for any requests and interleaving of their transactions.                *)
THEOREM AccountsHoldAlways == PartsSpec => []AccountsHold
<1>1. (part = "accounts" => AccountsSound) => AccountsHold
  BY AccountsAgree DEF AccountsHold
<1> QED
  BY <1>1, AccountsInvariant, PTL
-----------------------------------------------------------------------------
(* The lists.  What is asked for is in some order a sequence without       *)
(* repetition, of which a page has the rows after the cursor.              *)
\* Rows of which of any two one comes first can be put in a row.
LEMMA RowsCanBeOrdered ==
  ASSUME NEW S, IsFiniteSet(S), NEW R,
         \A i, j \in S : i = j \/ <<i, j>> \in R \/ <<j, i>> \in R,
         \A i, j \in S : <<i, j>> \in R => <<j, i>> \notin R,
         \A i, j, k \in S : <<i, j>> \in R /\ <<j, k>> \in R => <<i, k>> \in R
  PROVE \E s \in Listings!SetToSeqs(S) : \A k, l \in DOMAIN s : k < l => <<s[k], s[l]>> \in R
<1> DEFINE N == Cardinality(S)
           Above(i) == {j \in S : <<j, i>> \in R}
           rank == [i \in S |-> Cardinality(Above(i)) + 1]
<1>1. N \in Nat
  BY FS_CardinalityType
<1>2. ASSUME NEW i \in S
      PROVE IsFiniteSet(Above(i)) /\ Cardinality(Above(i)) \in Nat /\ Cardinality(Above(i)) <= N - 1
  <2>1. Above(i) \in SUBSET (S \ {i})
    OBVIOUS
  <2>2. IsFiniteSet(S \ {i}) /\ Cardinality(S \ {i}) = N - 1
    BY FS_RemoveElement
  <2> HIDE DEF Above
  <2>3. IsFiniteSet(Above(i)) /\ Cardinality(Above(i)) <= Cardinality(S \ {i})
    BY <2>1, <2>2, FS_Subset
  <2> QED
    BY <2>2, <2>3, FS_CardinalityType
<1>3. ASSUME NEW i \in S, NEW j \in S, <<i, j>> \in R
      PROVE Cardinality(Above(i)) < Cardinality(Above(j))
  <2>1. Above(i) \in SUBSET Above(j) /\ i \in Above(j) /\ i \notin Above(i)
    BY <1>3
  <2>2. IsFiniteSet(Above(j)) /\ Cardinality(Above(i)) \in Nat /\ Cardinality(Above(j)) \in Nat
    BY <1>2
  <2> HIDE DEF Above
  <2>3. Cardinality(Above(i)) <= Cardinality(Above(j)) /\ Cardinality(Above(i)) # Cardinality(Above(j))
    BY <2>1, <2>2, FS_Subset
  <2> QED
    BY <2>2, <2>3
<1> HIDE DEF Above
<1>4. rank \in [S -> 1..N]
  <2>1. \A i \in S : Cardinality(Above(i)) + 1 \in 1..N
    BY <1>1, <1>2
  <2> QED
    BY <2>1
<1>5. \A i, j \in S : rank[i] = rank[j] => i = j
  <2> SUFFICES ASSUME NEW i \in S, NEW j \in S, i # j PROVE Cardinality(Above(i)) + 1 # Cardinality(Above(j)) + 1
    OBVIOUS
  <2>1. Cardinality(Above(i)) < Cardinality(Above(j)) \/ Cardinality(Above(j)) < Cardinality(Above(i))
    BY <1>3
  <2> QED
    BY <1>2, <2>1
<1>6. rank \in Injection(S, 1..N)
  BY <1>4, <1>5 DEF Injection, IsInjective
<1>7. IsFiniteSet(1..N) /\ Cardinality(1..N) = N
  BY <1>1, FS_Interval
<1>8. rank \in Surjection(S, 1..N)
  BY <1>6, <1>7, FS_Injection
<1>9. \A k \in 1..N : \E i \in S : rank[i] = k
  BY <1>8 DEF Surjection
<1> DEFINE s == [k \in 1..N |-> CHOOSE i \in S : rank[i] = k]
<1>10. \A k \in 1..N : s[k] \in S /\ rank[s[k]] = k
  BY <1>9
<1>11. s \in [1..N -> S] /\ DOMAIN s = 1..N
  BY <1>10
<1>12. \A i \in S : rank[i] = Cardinality(Above(i)) + 1
  OBVIOUS
<1> HIDE DEF s, rank
<1>13. s \in Listings!SetToSeqs(S)
  <2>1. Listings!Cardinality(S) = N
    BY DEF Listings!Cardinality, Cardinality
  <2>2. \A k, l \in 1..N : k # l => s[k] # s[l]
    BY <1>10
  <2> HIDE DEF N
  <2> QED
    BY <1>11, <2>1, <2>2 DEF Listings!SetToSeqs
<1>14. ASSUME NEW k \in 1..N, NEW l \in 1..N, k < l
       PROVE <<s[k], s[l]>> \in R
  <2>1. s[k] \in S /\ s[l] \in S /\ rank[s[k]] = k /\ rank[s[l]] = l
    BY <1>10
  <2>2. s[k] # s[l]
    BY <1>14, <2>1
  <2>3. Cardinality(Above(s[k])) + 1 = k /\ Cardinality(Above(s[l])) + 1 = l
    BY <1>12, <2>1
  <2>4. ~(Cardinality(Above(s[l])) < Cardinality(Above(s[k])))
    BY <1>2, <1>14, <2>1, <2>3
  <2> QED
    BY <1>3, <2>1, <2>2, <2>4
<1> QED
  BY <1>11, <1>13, <1>14

\* A sequence of all rows without repetition has each of them once.
LEMMA EachRowOnce ==
  ASSUME NEW S, IsFiniteSet(S), NEW q \in Listings!SetToSeqs(S)
  PROVE /\ q \in Seq(S)
        /\ \A k, l \in 1..Len(q) : q[k] = q[l] => k = l
        /\ \A i \in S : \E k \in 1..Len(q) : q[k] = i
<1> DEFINE N == Cardinality(S)
<1>1. N \in Nat
  BY FS_CardinalityType
<1>2. Listings!Cardinality(S) = N
  BY DEF Listings!Cardinality, Cardinality
<1> HIDE DEF N
<1>3. q \in [1..N -> S] /\ \A k, l \in 1..N : k # l => q[k] # q[l]
  BY <1>2 DEF Listings!SetToSeqs
<1>4. q \in Seq(S) /\ Len(q) = N
  BY <1>1, <1>3
<1>5. q \in Injection(1..N, S)
  BY <1>3 DEF Injection, IsInjective
<1>6. Cardinality(1..N) = N
  BY <1>1, FS_Interval
<1>7. q \in Surjection(1..N, S)
  BY <1>5, <1>6, FS_Injection DEF N
<1> QED
  BY <1>3, <1>4, <1>7 DEF Surjection

\* A page has the rows after the offset, as many as it may, and tells if there are more.
LEMMA PageHas ==
  ASSUME NEW T, NEW q \in Seq(T), NEW o \in Nat, NEW n \in Nat \ {0}, NEW f, f = Listings!Fetch(q, o, n)
  PROVE /\ f.page \in Seq(T)
        /\ f.more <=> Len(q) > o + n
        /\ Len(f.page) = IF o >= Len(q) THEN 0 ELSE IF f.more THEN n ELSE Len(q) - o
        /\ \A k \in 1..Len(f.page) : f.page[k] = q[o + k]
<1> DEFINE r == SubSeq(q, o + 1, Len(q))
           u == Listings!Upto(r, n + 1)
           p == Listings!Upto(u, n)
<1>0. \A x \in Seq(T) : Len(x) \in Nat /\ \A k \in 1..Len(x) : x[k] \in T
  OBVIOUS
<1>1. Len(q) \in Nat
  OBVIOUS
<1>2. r \in Seq(T) /\ Len(r) = (IF o >= Len(q) THEN 0 ELSE Len(q) - o) /\ \A k \in 1..Len(r) : r[k] = q[o + k]
  <2>1. \A k \in o + 1..Len(q) : q[k] \in T
    BY <1>0, <1>1
  <2>2. CASE o >= Len(q)
    BY <1>1, <2>1, <2>2
  <2>3. CASE o < Len(q)
    BY <1>1, <2>1, <2>3
  <2> QED
    BY <1>1, <2>2, <2>3
<1> HIDE DEF r
<1>3. u \in Seq(T) /\ Len(u) = (IF n + 1 > Len(r) THEN Len(r) ELSE n + 1) /\ \A k \in 1..Len(u) : u[k] = r[k]
  BY <1>2 DEF Listings!Upto
<1> HIDE DEF u
<1>4. p \in Seq(T) /\ Len(p) = (IF n > Len(u) THEN Len(u) ELSE n) /\ \A k \in 1..Len(p) : p[k] = u[k]
  BY <1>3 DEF Listings!Upto
<1> HIDE DEF p
<1>5. f.page = p /\ f.more = (Len(u) > n)
  BY DEF Listings!Fetch, p, u, r
<1>6. Len(r) \in Nat /\ Len(u) \in Nat /\ Len(p) \in Nat
  BY <1>0, <1>2, <1>3, <1>4
<1> DEFINE a == Len(q)
           b == Len(r)
           c == Len(u)
           d == Len(p)
<1>7. (c > n <=> a > o + n) /\ d = IF o >= a THEN 0 ELSE IF a > o + n THEN n ELSE a - o
  <2>1. a \in Nat /\ b \in Nat /\ c \in Nat /\ d \in Nat
    BY <1>1, <1>6
  <2>2. b = (IF o >= a THEN 0 ELSE a - o) /\ c = (IF n + 1 > b THEN b ELSE n + 1) /\ d = (IF n > c THEN c ELSE n)
    BY <1>2, <1>3, <1>4
  <2> HIDE DEF a, b, c, d
  <2> QED
    BY <2>1, <2>2
<1>8. (f.more <=> Len(q) > o + n) /\ Len(p) = IF o >= Len(q) THEN 0 ELSE IF f.more THEN n ELSE Len(q) - o
  BY <1>5, <1>7
<1>9. \A k \in 1..Len(p) : p[k] = q[o + k]
  BY <1>2, <1>3, <1>4, <1>6
<1> QED
  BY <1>4, <1>5, <1>8, <1>9

\* How often a page has a row; in a page without repetition, once.
CountIn(p, i) == Listings!Cardinality({k \in DOMAIN p : p[k] = i})

LEMMA CountInPage ==
  ASSUME NEW p, DOMAIN p = 1..Len(p), \A k, l \in 1..Len(p) : p[k] = p[l] => k = l, NEW i
  PROVE CountIn(p, i) = IF \E k \in 1..Len(p) : p[k] = i THEN 1 ELSE 0
<1>1. \A X : Listings!Cardinality(X) = Cardinality(X)
  BY DEF Listings!Cardinality, Cardinality
<1>2. CASE \E k \in 1..Len(p) : p[k] = i
  <2>1. PICK k \in 1..Len(p) : p[k] = i
    BY <1>2
  <2>2. {l \in DOMAIN p : p[l] = i} = {k}
    BY <2>1
  <2> QED
    BY <1>1, <1>2, <2>2, FS_Singleton DEF CountIn
<1>3. CASE ~\E k \in 1..Len(p) : p[k] = i
  <2>1. {l \in DOMAIN p : p[l] = i} = {}
    BY <1>3
  <2> QED
    BY <1>1, <1>3, <2>1, FS_EmptySet DEF CountIn
<1> QED
  BY <1>2, <1>3

(* A walk by key has given what is not beyond its cursor and matched, and  *)
(* nothing beyond it; one by offset, while nothing changes, the rows up to *)
(* its offset.  Rows that come are new to it.                              *)
ByColumn == Listings!ParseSort(walk.sort).column
Descending == Listings!ParseSort(walk.sort).descending
Wanted == {i \in RowIds : Listings!Matches(i)}
ListedRow(i) == table[i].is = "stored"

Once == \A i \in RowIds : got[i] <= 1
AllGiven == Once /\ \A i \in steady : got[i] = 1

AtKey(c) ==
  /\ Once
  /\ \A i \in RowIds : ListedRow(i) /\ Listings!Beyond(i, c) => got[i] = 0
  /\ \A i \in steady : ~Listings!Beyond(i, c) => got[i] = 1

Upwards(q, o) == \A k \in 1..Len(q) : got[q[k]] = IF k <= o THEN 1 ELSE 0

AtCursor == AtKey(walk.cursor)
AtOffset == Upwards(Listings!InColumn(Descending), walk.cursor.o)

Tables ==
  /\ table \in [RowIds -> Listings!Stored \cup {Listings!New, Listings!Gone}] /\ walk \in Listings!Walk
  /\ got \in [RowIds -> Nat] /\ moved \in Nat /\ steady \subseteq Wanted
  /\ \A i \in RowIds : table[i] = Listings!New => got[i] = 0
  /\ walk.sort \in {"asc", "desc"} \/ walk.cursor \in [o : Nat] => list \in Listings!Sortable

Walks ==
  /\ walk.state # "over" /\ walk.cursor = Nothing => walk.state = "walking" /\ \A i \in RowIds : got[i] = 0
  /\ walk.cursor \in [t : RowTimes, id : RowIds] => AtCursor
  /\ walk.cursor \in [o : Nat] /\ moved = 0 => Once /\ (ByColumn => AtOffset)
  /\ walk.state = "over" => walk.cursor = Nothing /\ (~ByColumn \/ moved = 0 => AllGiven)

ListingsSound == Tables /\ Walks

LEMMA ListingConstants ==
  /\ IsFiniteSet(RowIds) /\ RowIds \subseteq Nat /\ RowTimes \subseteq Nat /\ Vals \subseteq Nat
  /\ Cap \in Nat \ {0} /\ TableChanges \in Nat
  /\ Nothing \notin [t : RowTimes, id : RowIds] /\ Nothing \notin [o : Nat] /\ Nothing \notin [page : Seq(RowIds), next : Listings!Cursor]
  BY PartsAssumption DEF Listings!ListingsAssumption, Listings!IsFiniteSet, IsFiniteSet

LEMMA CursorKinds ==
  ASSUME NEW c \in Listings!Cursor
  PROVE /\ c = Nothing \/ c \in [t : RowTimes, id : RowIds] \/ c \in [o : Nat]
        /\ c \in [t : RowTimes, id : RowIds] => c # Nothing /\ DOMAIN c = {"t", "id"} /\ c \notin [o : Nat]
        /\ c \in [o : Nat] => c # Nothing /\ DOMAIN c = {"o"} /\ c.o \in Nat
  BY ListingConstants DEF Listings!Cursor

LEMMA ListingsInit == Listings!Init => ListingsSound
<1> SUFFICES ASSUME Listings!Init PROVE ListingsSound
  OBVIOUS
<1>1. /\ table \in [RowIds -> Listings!Stored \cup {Listings!New}] /\ got = [i \in RowIds |-> 0] /\ moved = 0
      /\ steady = Wanted
  BY DEF Listings!Init, Wanted
<1>2. PICK s \in (IF list \in Listings!Sortable THEN Listings!Sorts ELSE {"none"}), w \in {Nothing} \cup Vals :
        walk = [sort |-> s, want |-> w, cursor |-> Nothing, state |-> "walking"]
  BY DEF Listings!Init
<1>3. walk \in Listings!Walk
  BY <1>2 DEF Listings!Walk, Listings!Cursor, Listings!Sorts
<1>4. walk.cursor = Nothing /\ walk.state = "walking" /\ (walk.sort \in {"asc", "desc"} => list \in Listings!Sortable)
  BY <1>2
<1>5. Tables
  BY <1>1, <1>3, <1>4, ListingConstants DEF Tables
<1>6. Walks
  BY <1>1, <1>4, ListingConstants DEF Walks
<1> QED
  BY <1>5, <1>6 DEF ListingsSound

LEMMA ListingsAgree == ListingsSound => Listings!WalksAreWhole
<1> SUFFICES ASSUME ListingsSound, (~ByColumn /\ Listings!Readable({"t", "id"})) \/ moved = 0
             PROVE Once /\ (walk.state = "over" => \A i \in steady : got[i] = 1)
  BY DEF Listings!WalksAreWhole, ByColumn, Once
<1>1. walk.cursor \in Listings!Cursor
  BY DEF ListingsSound, Tables, Listings!Walk
<1>2. CASE walk.state = "over"
  BY <1>2 DEF ListingsSound, Walks, AllGiven
<1>3. CASE walk.state # "over" /\ walk.cursor = Nothing
  BY <1>3 DEF ListingsSound, Walks, Once
<1>4. CASE walk.state # "over" /\ walk.cursor \in [t : RowTimes, id : RowIds]
  BY <1>4 DEF ListingsSound, Walks, AtCursor, AtKey
<1>5. CASE walk.state # "over" /\ walk.cursor \in [o : Nat]
  <2>1. moved = 0
    BY <1>1, <1>5, CursorKinds DEF Listings!Readable
  <2> QED
    BY <1>5, <2>1 DEF ListingsSound, Walks
<1> QED
  BY <1>1, <1>2, <1>3, <1>4, <1>5, CursorKinds

LEMMA StoredRows == Tables => \A i \in RowIds : ListedRow(i) => table[i].t \in Nat /\ table[i].v \in Nat
<1> SUFFICES ASSUME Tables, NEW i \in RowIds, ListedRow(i) PROVE table[i].t \in Nat /\ table[i].v \in Nat
  OBVIOUS
<1>1. table[i] \in Listings!Stored \/ table[i] = Listings!New \/ table[i] = Listings!Gone
  BY DEF Tables
<1>2. table[i] \in Listings!Stored
  BY <1>1 DEF ListedRow, Listings!New, Listings!Gone
<1> QED
  BY <1>2, ListingConstants DEF Listings!Stored

Unread == {i \in RowIds : Listings!Matches(i) /\ (walk.cursor = Nothing \/ Listings!Beyond(i, walk.cursor))}

LEMMA NewestFirst ==
  ASSUME Tables
  PROVE /\ Listings!Remaining \in Listings!SetToSeqs(Unread) /\ IsFiniteSet(Unread)
        /\ \A k, l \in DOMAIN Listings!Remaining : k < l => Listings!Newer(Listings!Remaining[k], Listings!Remaining[l])
<1> DEFINE R == {e \in Unread \X Unread : Listings!Newer(e[1], e[2])}
<1>1. IsFiniteSet(Unread)
  <2>1. Unread \in SUBSET RowIds
    BY DEF Unread
  <2> QED
    BY <2>1, ListingConstants, FS_Subset
<1>2. \A i \in Unread : i \in Nat /\ table[i].t \in Nat
  <2>1. \A i \in Unread : i \in RowIds /\ table[i].is = "stored"
    BY DEF Unread, Listings!Matches
  <2>2. \A i \in RowIds : table[i].is = "stored" => table[i].t \in Nat
    BY StoredRows DEF ListedRow
  <2> QED
    BY <2>1, <2>2, ListingConstants
<1>3. \A i, j \in Unread : <<i, j>> \in R <=> Listings!Newer(i, j)
  OBVIOUS
<1> HIDE DEF R
<1>4. \E s \in Listings!SetToSeqs(Unread) : \A k, l \in DOMAIN s : k < l => <<s[k], s[l]>> \in R
  <2>1. /\ \A i, j \in Unread : i = j \/ <<i, j>> \in R \/ <<j, i>> \in R
        /\ \A i, j \in Unread : <<i, j>> \in R => <<j, i>> \notin R
        /\ \A i, j, k \in Unread : <<i, j>> \in R /\ <<j, k>> \in R => <<i, k>> \in R
    BY <1>2, <1>3 DEF Listings!Newer
  <2> QED
    BY <1>1, <2>1, RowsCanBeOrdered
<1>5. PICK s \in Listings!SetToSeqs(Unread) : \A k, l \in DOMAIN s : k < l => <<s[k], s[l]>> \in R
  BY <1>4
<1>6. \A k \in DOMAIN s : s[k] \in Unread
  BY DEF Listings!SetToSeqs
<1>7. \A k, l \in DOMAIN s : k < l => Listings!Newer(s[k], s[l])
  BY <1>3, <1>5, <1>6
<1> QED
  BY <1>1, <1>7 DEF Listings!Remaining, Listings!InOrder, Unread

LEMMA ColumnListed ==
  ASSUME Tables, NEW d \in BOOLEAN
  PROVE Listings!InColumn(d) \in Listings!SetToSeqs(Wanted) /\ IsFiniteSet(Wanted)
<1> DEFINE B(i, j) == IF d THEN Listings!Lower(j, i) ELSE Listings!Lower(i, j)
           R == {e \in Wanted \X Wanted : B(e[1], e[2])}
<1>1. IsFiniteSet(Wanted)
  <2>1. Wanted \in SUBSET RowIds
    BY DEF Wanted
  <2> QED
    BY <2>1, ListingConstants, FS_Subset
<1>2. \A i \in Wanted : i \in Nat /\ table[i].v \in Nat
  <2>1. \A i \in Wanted : i \in RowIds /\ table[i].is = "stored"
    BY DEF Wanted, Listings!Matches
  <2>2. \A i \in RowIds : table[i].is = "stored" => table[i].v \in Nat
    BY StoredRows DEF ListedRow
  <2> QED
    BY <2>1, <2>2, ListingConstants
<1>3. \A i, j \in Wanted : <<i, j>> \in R <=> B(i, j)
  OBVIOUS
<1> HIDE DEF R
<1>4. \E s \in Listings!SetToSeqs(Wanted) : \A k, l \in DOMAIN s : k < l => <<s[k], s[l]>> \in R
  <2>1. /\ \A i, j \in Wanted : i = j \/ <<i, j>> \in R \/ <<j, i>> \in R
        /\ \A i, j \in Wanted : <<i, j>> \in R => <<j, i>> \notin R
        /\ \A i, j, k \in Wanted : <<i, j>> \in R /\ <<j, k>> \in R => <<i, k>> \in R
    BY <1>2, <1>3 DEF Listings!Lower
  <2> QED
    BY <1>1, <2>1, RowsCanBeOrdered
<1>5. PICK s \in Listings!SetToSeqs(Wanted) : \A k, l \in DOMAIN s : k < l => <<s[k], s[l]>> \in R
  BY <1>4
<1>6. \A k \in DOMAIN s : s[k] \in Wanted
  BY DEF Listings!SetToSeqs
<1>7. \A k, l \in DOMAIN s : k < l => B(s[k], s[l])
  BY <1>3, <1>5, <1>6
<1> QED
  BY <1>1, <1>7 DEF Listings!InColumn, Listings!InOrder, Wanted

\* How often a page has a row: once if it is among those after the offset.
LEMMA PageRows ==
  ASSUME NEW S \in SUBSET RowIds, IsFiniteSet(S), NEW q \in Listings!SetToSeqs(S), NEW o \in Nat, NEW n \in Nat \ {0},
         NEW p, p = Listings!Fetch(q, o, n).page
  PROVE /\ \A i \in RowIds \ S : CountIn(p, i) = 0
        /\ \A l \in 1..Len(q) : CountIn(p, q[l]) = IF o < l /\ l <= o + n THEN 1 ELSE 0
<1>1. q \in Seq(S) /\ (\A k, l \in 1..Len(q) : q[k] = q[l] => k = l) /\ (\A i \in S : \E k \in 1..Len(q) : q[k] = i)
  BY EachRowOnce
<1>2. /\ p \in Seq(S)
      /\ Len(p) = IF o >= Len(q) THEN 0 ELSE IF Len(q) > o + n THEN n ELSE Len(q) - o
      /\ \A k \in 1..Len(p) : p[k] = q[o + k]
  BY <1>1, PageHas
<1>3. \A x \in Seq(S) : Len(x) \in Nat /\ \A k \in 1..Len(x) : x[k] \in S
  OBVIOUS
<1>4. Len(p) \in Nat /\ Len(q) \in Nat /\ (\A k \in 1..Len(p) : p[k] \in S) /\ \A k \in 1..Len(q) : q[k] \in S
  BY <1>1, <1>2, <1>3
<1>5. \A k \in 1..Len(p) : o + k \in 1..Len(q)
  BY <1>2, <1>4
<1>6. \A k, l \in 1..Len(p) : p[k] = p[l] => k = l
  <2> SUFFICES ASSUME NEW k \in 1..Len(p), NEW l \in 1..Len(p), p[k] = p[l] PROVE k = l
    OBVIOUS
  <2>1. p[k] = q[o + k] /\ p[l] = q[o + l] /\ o + k \in 1..Len(q) /\ o + l \in 1..Len(q)
    BY <1>2, <1>5
  <2>2. o + k = o + l
    BY <1>1, <2>1
  <2> QED
    BY <1>4, <2>2
<1>7. \A i : CountIn(p, i) = IF \E k \in 1..Len(p) : p[k] = i THEN 1 ELSE 0
  <2>1. DOMAIN p = 1..Len(p)
    BY <1>2
  <2> QED
    BY <1>6, <2>1, CountInPage
<1>8. \A i \in RowIds \ S : ~\E k \in 1..Len(p) : p[k] = i
  BY <1>4
<1>9. ASSUME NEW k \in 1..Len(q)
      PROVE (\E l \in 1..Len(p) : p[l] = q[k]) <=> o < k /\ k <= o + n
  <2>1. ASSUME NEW l \in 1..Len(p), p[l] = q[k]
        PROVE o < k /\ k <= o + n
    <3>1. q[o + l] = q[k] /\ o + l \in 1..Len(q)
      BY <1>2, <1>5, <2>1
    <3>2. o + l = k
      BY <1>1, <3>1
    <3>3. l <= n
      BY <1>2, <1>4
    <3> QED
      BY <1>4, <3>2, <3>3
  <2>2. ASSUME o < k, k <= o + n
        PROVE k - o \in 1..Len(p) /\ p[k - o] = q[k]
    <3>1. k - o \in 1..Len(p)
      BY <1>2, <1>4, <2>2
    <3> QED
      BY <1>2, <1>4, <3>1
  <2> QED
    BY <2>1, <2>2
<1> QED
  BY <1>7, <1>8, <1>9

(* What a page by key leaves of a walk.  A row is passed if the cursor is  *)
(* there and the row is not beyond it.                                     *)
Ahead(i) == walk.cursor = Nothing \/ Listings!Beyond(i, walk.cursor)
KeyOf(i) == [t |-> table[i].t, id |-> i]

LEMMA KeyBefore ==
  ASSUME ListingsSound, walk.state = "walking", Listings!Readable({"t", "id"})
  PROVE /\ got \in [RowIds -> 0..1]
        /\ \A i \in RowIds : ListedRow(i) /\ Ahead(i) => got[i] = 0
        /\ \A i \in steady : i \in RowIds /\ (~Ahead(i) => got[i] = 1) /\ (Ahead(i) => i \in Unread)
<1>1. Tables /\ Walks
  BY DEF ListingsSound
<1>2. walk.cursor = Nothing \/ walk.cursor \in [t : RowTimes, id : RowIds]
  <2>1. walk.cursor \in Listings!Cursor
    BY <1>1 DEF Tables, Listings!Walk
  <2> QED
    BY <2>1, CursorKinds DEF Listings!Readable
<1>3. got \in [RowIds -> Nat] /\ \A i \in steady : i \in RowIds /\ (Ahead(i) => i \in Unread)
  BY <1>1 DEF Tables, Wanted, Unread, Ahead
<1>4. CASE walk.cursor = Nothing
  BY <1>1, <1>3, <1>4 DEF Walks, Ahead
<1>5. CASE walk.cursor # Nothing /\ walk.cursor \in [t : RowTimes, id : RowIds]
  <2>1. AtKey(walk.cursor)
    BY <1>1, <1>5 DEF Walks, AtCursor
  <2>2. \A i \in RowIds : got[i] \in 0..1
    BY <1>3, <2>1 DEF AtKey, Once
  <2> QED
    BY <1>3, <1>5, <2>1, <2>2 DEF AtKey, Ahead
<1> QED
  BY <1>2, <1>4, <1>5

\* Rows are beyond a key if they come after it, and what is beyond one unread row is ahead.
LEMMA KeysOrder ==
  ASSUME Tables, NEW l \in Unread, walk.cursor = Nothing \/ walk.cursor \in [t : RowTimes, id : RowIds]
  PROVE /\ KeyOf(l) \in [t : RowTimes, id : RowIds] /\ KeyOf(l) # Nothing
        /\ \A i \in RowIds : ListedRow(i) /\ Listings!Beyond(i, KeyOf(l)) => Ahead(i)
        /\ \A i \in RowIds : Listings!Newer(l, i) <=> Listings!Beyond(i, KeyOf(l))
        /\ \A i \in Unread : i # l /\ Listings!Newer(i, l) => ~Listings!Beyond(i, KeyOf(l))
        /\ ~Listings!Beyond(l, KeyOf(l))
<1>1. l \in RowIds /\ ListedRow(l) /\ Ahead(l)
  BY DEF Unread, Listings!Matches, ListedRow, Ahead
<1>2. table[l].t \in RowTimes
  <2>1. table[l] \in Listings!Stored \/ table[l] = Listings!New \/ table[l] = Listings!Gone
    BY <1>1 DEF Tables
  <2>2. table[l] \in Listings!Stored
    BY <1>1, <2>1 DEF ListedRow, Listings!New, Listings!Gone
  <2> QED
    BY <2>2 DEF Listings!Stored
<1>3. KeyOf(l) \in [t : RowTimes, id : RowIds] /\ KeyOf(l).t = table[l].t /\ KeyOf(l).id = l
  BY <1>1, <1>2 DEF KeyOf
<1>4. \A i \in RowIds : ListedRow(i) => i \in Nat /\ table[i].t \in Nat
  BY StoredRows, ListingConstants
<1>5. l \in Nat /\ table[l].t \in Nat
  BY <1>1, <1>4
<1>6. \A i \in RowIds : Listings!Beyond(i, KeyOf(l)) <=> table[i].t < table[l].t \/ (table[i].t = table[l].t /\ i < l)
  BY <1>3 DEF Listings!Beyond
<1>7. \A i \in RowIds : ListedRow(i) /\ Listings!Beyond(i, KeyOf(l)) => Ahead(i)
  <2> SUFFICES ASSUME NEW i \in RowIds, ListedRow(i), Listings!Beyond(i, KeyOf(l)), walk.cursor # Nothing
               PROVE Listings!Beyond(i, walk.cursor)
    BY DEF Ahead
  <2>1. walk.cursor.t \in Nat /\ walk.cursor.id \in Nat
    BY ListingConstants
  <2>2. Listings!Beyond(l, walk.cursor)
    BY <1>1 DEF Ahead
  <2> QED
    BY <1>4, <1>5, <1>6, <2>1, <2>2 DEF Listings!Beyond
<1>8. \A i \in RowIds : Listings!Newer(l, i) <=> Listings!Beyond(i, KeyOf(l))
  BY <1>5, <1>6, ListingConstants DEF Listings!Newer
<1>9. \A i \in Unread : i # l /\ Listings!Newer(i, l) => ~Listings!Beyond(i, KeyOf(l))
  <2> SUFFICES ASSUME NEW i \in Unread, Listings!Newer(i, l) PROVE ~Listings!Beyond(i, KeyOf(l))
    OBVIOUS
  <2>1. i \in RowIds /\ i \in Nat /\ table[i].t \in Nat
    BY <1>4 DEF Unread, Listings!Matches, ListedRow
  <2>2. table[i].t > table[l].t \/ (table[i].t = table[l].t /\ i > l)
    BY DEF Listings!Newer
  <2> QED
    BY <1>5, <1>6, <2>1, <2>2
<1> QED
  BY <1>3, <1>5, <1>6, <1>7, <1>8, <1>9, ListingConstants

\* The answer by key: what was unread is given up to the last row of the page.
LEMMA KeyPage ==
  ASSUME ListingsSound, NEW n \in 1..Cap, walk.state = "walking", Listings!Readable({"t", "id"}),
         NEW a, a = Listings!ByKey(n), NEW g, g = [i \in RowIds |-> got[i] + CountIn(a.page, i)]
  PROVE /\ a # Nothing /\ a.next \in {Nothing} \cup [t : RowTimes, id : RowIds]
        /\ g \in [RowIds -> 0..1] /\ \A i \in RowIds : table[i] = Listings!New => g[i] = 0
        /\ a.next = Nothing => \A i \in steady : g[i] = 1
        /\ a.next # Nothing => /\ \A i \in RowIds : ListedRow(i) /\ Listings!Beyond(i, a.next) => g[i] = 0
                               /\ \A i \in steady : ~Listings!Beyond(i, a.next) => g[i] = 1
<1> DEFINE q == Listings!Remaining
           f == Listings!Fetch(q, 0, n)
           p == f.page
           l == q[n]
<1>1. Tables /\ Walks /\ n \in Nat \ {0} /\ 0 \in Nat
  BY ListingConstants DEF ListingsSound
<1>2. /\ q \in Listings!SetToSeqs(Unread) /\ IsFiniteSet(Unread) /\ Unread \in SUBSET RowIds
      /\ \A j, k \in DOMAIN q : j < k => Listings!Newer(q[j], q[k])
  BY <1>1, NewestFirst DEF Unread
<1>3. q \in Seq(Unread) /\ (\A j, k \in 1..Len(q) : q[j] = q[k] => j = k) /\ \A i \in Unread : \E k \in 1..Len(q) : q[k] = i
  BY <1>2, EachRowOnce
<1>4. Len(q) \in Nat /\ DOMAIN q = 1..Len(q) /\ \A k \in 1..Len(q) : q[k] \in Unread
  <2> HIDE DEF q
  <2> QED
    BY <1>3
<1>5. a = [page |-> p, next |-> IF f.more THEN KeyOf(p[Len(p)]) ELSE Nothing]
  BY DEF Listings!ByKey, Listings!Last, KeyOf
<1> HIDE DEF q
<1>6. p \in Seq(Unread) /\ (f.more <=> Len(q) > n) /\ (f.more => p[Len(p)] = l)
  <2>1. /\ p \in Seq(Unread) /\ (f.more <=> Len(q) > 0 + n)
        /\ Len(p) = (IF 0 >= Len(q) THEN 0 ELSE IF f.more THEN n ELSE Len(q) - 0)
        /\ \A k \in 1..Len(p) : p[k] = q[0 + k]
    BY <1>1, <1>3, PageHas
  <2> HIDE DEF f, p
  <2>2. f.more => Len(p) = n /\ n \in 1..Len(p)
    BY <1>1, <1>4, <2>1
  <2> QED
    BY <1>1, <1>4, <2>1, <2>2
<1>7. /\ \A i \in RowIds \ Unread : CountIn(p, i) = 0
      /\ \A k \in 1..Len(q) : CountIn(p, q[k]) = IF k <= n THEN 1 ELSE 0
  <2>1. /\ \A i \in RowIds \ Unread : CountIn(p, i) = 0
        /\ \A k \in 1..Len(q) : CountIn(p, q[k]) = IF 0 < k /\ k <= 0 + n THEN 1 ELSE 0
    BY <1>1, <1>2, PageRows
  <2> HIDE DEF p, f
  <2> QED
    BY <1>1, <1>4, <2>1
<1> HIDE DEF f, p
<1>8. a.page = p /\ a.next = IF f.more THEN KeyOf(l) ELSE Nothing
  BY <1>5, <1>6
<1>9. f.more => l \in Unread /\ n \in 1..Len(q)
  BY <1>1, <1>4, <1>6
<1>10. walk.cursor = Nothing \/ walk.cursor \in [t : RowTimes, id : RowIds]
  <2>1. walk.cursor \in Listings!Cursor
    BY <1>1 DEF Tables, Listings!Walk
  <2> QED
    BY <2>1, CursorKinds DEF Listings!Readable
<1>11. \A i \in RowIds : g[i] = got[i] + CountIn(p, i)
  BY <1>8
<1>12. /\ \A i \in RowIds : ListedRow(i) /\ Ahead(i) => got[i] = 0
       /\ \A i \in steady : i \in RowIds /\ (~Ahead(i) => got[i] = 1) /\ (Ahead(i) => i \in Unread)
       /\ \A i \in RowIds : got[i] \in 0..1
  BY KeyBefore
<1>13. \A i \in Unread : i \in RowIds /\ ListedRow(i) /\ Ahead(i) /\ got[i] = 0 /\ table[i] # Listings!New
  BY <1>12 DEF Unread, ListedRow, Ahead, Listings!Matches, Listings!New
<1>14. \A k \in 1..Len(q) : g[q[k]] = IF k <= n THEN 1 ELSE 0
  BY <1>4, <1>7, <1>11, <1>13
<1>15. \A i \in RowIds \ Unread : g[i] = got[i]
  BY <1>7, <1>11, <1>12
<1>16. \A i \in RowIds : g[i] \in 0..1 /\ (table[i] = Listings!New => g[i] = 0)
  <2>1. \A i \in Unread : g[i] \in 0..1 /\ table[i] # Listings!New
    BY <1>3, <1>13, <1>14
  <2> QED
    BY <1>1, <1>12, <1>15, <2>1 DEF Tables
<1>17. g \in [RowIds -> 0..1]
  BY <1>16
<1>18. CASE ~f.more
  <2>1. a.next = Nothing /\ Len(q) <= n
    BY <1>1, <1>4, <1>6, <1>8, <1>18
  <2>2. \A i \in Unread : g[i] = 1
    BY <1>1, <1>3, <1>4, <1>14, <2>1
  <2>3. \A i \in steady : g[i] = 1
    BY <1>12, <1>15, <1>13, <2>2
  <2>4. a # Nothing
    BY <1>5, <1>6, <1>2, <1>18, ListingConstants DEF Listings!Cursor
  <2> QED
    BY <1>16, <1>17, <2>1, <2>3, <2>4
<1>19. CASE f.more
  <2>1. a.next = KeyOf(l)
    BY <1>8, <1>19
  <2>2. /\ KeyOf(l) \in [t : RowTimes, id : RowIds] /\ KeyOf(l) # Nothing
        /\ \A i \in RowIds : ListedRow(i) /\ Listings!Beyond(i, KeyOf(l)) => Ahead(i)
        /\ \A i \in RowIds : Listings!Newer(l, i) <=> Listings!Beyond(i, KeyOf(l))
        /\ \A i \in Unread : i # l /\ Listings!Newer(i, l) => ~Listings!Beyond(i, KeyOf(l))
        /\ ~Listings!Beyond(l, KeyOf(l))
    BY <1>1, <1>9, <1>10, <1>19, KeysOrder
  <2>3. \A k \in 1..Len(q) : k <= n <=> ~Listings!Beyond(q[k], KeyOf(l))
    <3> SUFFICES ASSUME NEW k \in 1..Len(q) PROVE k <= n <=> ~Listings!Beyond(q[k], KeyOf(l))
      OBVIOUS
    <3>1. q[k] \in Unread /\ q[k] \in RowIds /\ n \in 1..Len(q) /\ k \in Int /\ n \in Int
      BY <1>4, <1>9, <1>13, <1>19
    <3>2. CASE k = n
      BY <2>2, <3>2
    <3>3. CASE k < n
      BY <1>2, <1>3, <1>4, <2>2, <3>1, <3>3
    <3>4. CASE k > n
      BY <1>2, <1>4, <2>2, <3>1, <3>4
    <3> QED
      BY <3>1, <3>2, <3>3, <3>4
  <2>4. \A i \in Unread : g[i] = IF Listings!Beyond(i, KeyOf(l)) THEN 0 ELSE 1
    <3> SUFFICES ASSUME NEW i \in Unread PROVE g[i] = IF Listings!Beyond(i, KeyOf(l)) THEN 0 ELSE 1
      OBVIOUS
    <3>1. PICK k \in 1..Len(q) : q[k] = i
      BY <1>3
    <3>2. g[q[k]] = (IF k <= n THEN 1 ELSE 0) /\ (k <= n <=> ~Listings!Beyond(q[k], KeyOf(l)))
      BY <1>14, <2>3
    <3> QED
      BY <3>1, <3>2
  <2>5. \A i \in RowIds : ListedRow(i) /\ Listings!Beyond(i, KeyOf(l)) => g[i] = 0
    BY <1>12, <1>15, <2>2, <2>4
  <2>6. \A i \in steady : ~Listings!Beyond(i, KeyOf(l)) => g[i] = 1
    BY <1>12, <1>13, <1>15, <2>4
  <2>7. a # Nothing
    <3>1. p \in Seq(RowIds)
      BY <1>2, <1>6
    <3>2. a \in [page : Seq(RowIds), next : Listings!Cursor]
      BY <1>5, <1>8, <2>1, <2>2, <3>1 DEF Listings!Cursor
    <3> QED
      BY <3>2, ListingConstants
  <2> QED
    BY <1>16, <1>17, <2>1, <2>2, <2>5, <2>6, <2>7
<1> QED
  BY <1>18, <1>19

\* A page by key, while the table gets no rows but new ones.
LEMMA KeyStep ==
  ASSUME ListingsSound, NEW n \in 1..Cap, walk.state = "walking", ~ByColumn, Listings!Readable({"t", "id"}),
         Listings!Given(Listings!ByKey(n)), UNCHANGED <<list, steady, moved>>,
         table' \in [RowIds -> Listings!Stored \cup {Listings!New, Listings!Gone}],
         \A i \in RowIds : table'[i] = table[i] \/ (table[i] = Listings!New /\ table'[i] # Listings!New)
  PROVE ListingsSound'
<1>1. Tables /\ Walks
  BY DEF ListingsSound
<1>a. PICK a : a = Listings!ByKey(n)
  OBVIOUS
<1>c. PICK c : c = a.next
  OBVIOUS
<1>g. PICK g : g = [i \in RowIds |-> got[i] + CountIn(a.page, i)]
  OBVIOUS
<1>2. /\ a # Nothing /\ c \in {Nothing} \cup [t : RowTimes, id : RowIds]
      /\ g \in [RowIds -> 0..1] /\ \A i \in RowIds : table[i] = Listings!New => g[i] = 0
      /\ c = Nothing => \A i \in steady : g[i] = 1
      /\ c # Nothing => /\ \A i \in RowIds : ListedRow(i) /\ Listings!Beyond(i, c) => g[i] = 0
                        /\ \A i \in steady : ~Listings!Beyond(i, c) => g[i] = 1
  BY <1>a, <1>c, <1>g, KeyPage
<1>3. /\ walk' = [walk EXCEPT !.cursor = c, !.state = IF c = Nothing THEN "over" ELSE "walking"]
      /\ got' = g
  BY <1>2, <1>a, <1>c, <1>g DEF Listings!Given, CountIn
<1>4. /\ walk'.cursor = c /\ walk'.state = (IF c = Nothing THEN "over" ELSE "walking")
      /\ walk'.sort = walk.sort /\ walk'.want = walk.want /\ walk' \in Listings!Walk
  BY <1>1, <1>2, <1>3 DEF Tables, Listings!Walk, Listings!Cursor
<1>5. c = Nothing \/ (c \in [t : RowTimes, id : RowIds] /\ c # Nothing)
  BY <1>2
<1>6. c \notin [o : Nat]
  BY <1>5, CursorKinds, ListingConstants DEF Listings!Cursor
<1>7. \A i \in RowIds : (table[i] = Listings!New => ~ListedRow(i)) /\ (table'[i] = Listings!New => table[i] = Listings!New)
  BY DEF ListedRow, Listings!New
<1>8. \A i \in steady : i \in RowIds /\ ListedRow(i) /\ table'[i] = table[i]
  BY <1>1, <1>7 DEF Tables, Wanted, Listings!Matches, ListedRow
<1>9. steady \subseteq Wanted'
  BY <1>1, <1>4, <1>8 DEF Tables, Wanted, Listings!Matches
<1>10. Tables'
  <2>1. g \in [RowIds -> Nat]
    BY <1>2
  <2> QED
    BY <1>1, <1>2, <1>3, <1>4, <1>6, <1>7, <1>9, <2>1 DEF Tables
<1>11. ~ByColumn'
  BY <1>4 DEF ByColumn, Listings!ParseSort
<1>12. Once'
  BY <1>2, <1>3 DEF Once
<1>13. CASE c = Nothing
  <2>1. AllGiven'
    BY <1>2, <1>3, <1>12, <1>13 DEF AllGiven
  <2>2. walk'.cursor = Nothing /\ walk'.state = "over"
    BY <1>4, <1>13
  <2>3. walk'.cursor \notin [t : RowTimes, id : RowIds] /\ walk'.cursor \notin [o : Nat]
    BY <2>2, ListingConstants
  <2> QED
    BY <1>10, <2>1, <2>2, <2>3 DEF ListingsSound, Walks
<1>14. CASE c # Nothing
  <2>1. \A i \in RowIds : ListedRow(i)' /\ (Listings!Beyond(i, c))' => g[i] = 0
    BY <1>2, <1>7, <1>14 DEF ListedRow, Listings!Beyond
  <2>2. \A i \in steady : ~(Listings!Beyond(i, c))' => g[i] = 1
    BY <1>2, <1>8, <1>14 DEF Listings!Beyond
  <2>3. /\ \A i \in RowIds : ListedRow(i)' /\ (Listings!Beyond(i, c))' => got'[i] = 0
        /\ \A i \in steady' : ~(Listings!Beyond(i, c))' => got'[i] = 1
    BY <1>3, <2>1, <2>2
  <2>4. AtKey(c)'
    BY <1>12, <2>3 DEF AtKey, ListedRow, Listings!Beyond
  <2>5. walk'.cursor = c /\ walk'.state = "walking"
    BY <1>4, <1>14
  <2>6. AtCursor'
    BY <2>4, <2>5 DEF AtCursor, AtKey, ListedRow, Listings!Beyond
  <2>7. walk'.cursor # Nothing /\ walk'.cursor \notin [o : Nat]
    BY <1>6, <1>14, <2>5
  <2> QED
    BY <1>10, <2>5, <2>6, <2>7 DEF ListingsSound, Walks
<1> QED
  BY <1>13, <1>14

\* A page by offset, of a table that stays as it is.
LEMMA OffsetStep ==
  ASSUME ListingsSound, NEW n \in 1..Cap, walk.state = "walking", ByColumn, Listings!Readable({"o"}),
         Listings!Given(Listings!ByOffset(n, Descending)), UNCHANGED <<list, table, steady, moved>>
  PROVE ListingsSound'
<1>1. Tables /\ Walks /\ n \in Nat \ {0} /\ Descending \in BOOLEAN
  BY ListingConstants DEF ListingsSound, Descending, Listings!ParseSort
<1>o. PICK o : o = IF walk.cursor = Nothing THEN 0 ELSE walk.cursor.o
  OBVIOUS
<1>q. PICK q : q = Listings!InColumn(Descending)
  OBVIOUS
<1>p. PICK p : p = Listings!Fetch(q, o, n).page
  OBVIOUS
<1>g. PICK g : g = [i \in RowIds |-> got[i] + CountIn(p, i)]
  OBVIOUS
<1>2. walk.cursor = Nothing \/ walk.cursor \in [o : Nat]
  <2>1. walk.cursor \in Listings!Cursor
    BY <1>1 DEF Tables, Listings!Walk
  <2> QED
    BY <2>1, CursorKinds DEF Listings!Readable
<1>3. o \in Nat
  BY <1>2, <1>o
<1>4. q \in Listings!SetToSeqs(Wanted) /\ IsFiniteSet(Wanted) /\ Wanted \in SUBSET RowIds
  BY <1>1, <1>q, ColumnListed DEF Wanted
<1>5. q \in Seq(Wanted) /\ (\A j, k \in 1..Len(q) : q[j] = q[k] => j = k) /\ \A i \in Wanted : \E k \in 1..Len(q) : q[k] = i
  BY <1>4, EachRowOnce
<1>6. Len(q) \in Nat /\ \A k \in 1..Len(q) : q[k] \in Wanted
  BY <1>5
<1>7. /\ \A i \in RowIds \ Wanted : CountIn(p, i) = 0
      /\ \A k \in 1..Len(q) : CountIn(p, q[k]) = IF o < k /\ k <= o + n THEN 1 ELSE 0
  BY <1>1, <1>3, <1>4, <1>p, PageRows
<1>m. PICK more : more = Listings!Fetch(q, o, n).more
  OBVIOUS
<1>8. /\ more <=> Len(q) > o + n
      /\ Listings!ByOffset(n, Descending) = [page |-> p, next |-> IF more THEN [o |-> o + n] ELSE Nothing]
  <2>1. more <=> Len(q) > o + n
    BY <1>1, <1>3, <1>5, <1>m, PageHas
  <2>2. Listings!ByOffset(n, Descending) = [page |-> p, next |-> IF more THEN [o |-> o + n] ELSE Nothing]
    BY <1>o, <1>q, <1>p, <1>m, Zenon DEF Listings!ByOffset
  <2> QED
    BY <2>1, <2>2
<1>9. p \in Seq(RowIds)
  <2>1. p \in Seq(Wanted)
    BY <1>1, <1>3, <1>5, <1>p, PageHas
  <2> QED
    BY <1>4, <2>1
<1>c. PICK c : c = IF more THEN [o |-> o + n] ELSE Nothing
  OBVIOUS
<1>10. c \in Listings!Cursor /\ (c # Nothing <=> more) /\ (more => c \in [o : Nat] /\ c.o = o + n)
  BY <1>1, <1>3, <1>c, ListingConstants DEF Listings!Cursor
<1>11. Listings!ByOffset(n, Descending) # Nothing
  <2>1. [page |-> p, next |-> c] \in [page : Seq(RowIds), next : Listings!Cursor]
    BY <1>9, <1>10
  <2> QED
    BY <1>8, <1>c, <2>1, ListingConstants
<1>12. /\ walk' = [walk EXCEPT !.cursor = c, !.state = IF c = Nothing THEN "over" ELSE "walking"]
       /\ got' = g
  BY <1>8, <1>11, <1>c, <1>g DEF Listings!Given, CountIn
<1>13. /\ walk'.cursor = c /\ walk'.state = (IF c = Nothing THEN "over" ELSE "walking")
       /\ walk'.sort = walk.sort /\ walk'.want = walk.want /\ walk' \in Listings!Walk
  BY <1>1, <1>10, <1>12 DEF Tables, Listings!Walk
<1>14. Wanted' = Wanted /\ ByColumn' /\ Descending' = Descending
  BY <1>13 DEF Wanted, Listings!Matches, ByColumn, Descending, Listings!ParseSort
<1>15. (Listings!InColumn(Descending))' = q
  BY <1>13, <1>14, <1>q DEF Listings!InColumn, Listings!InOrder, Listings!Matches, Listings!Lower, Descending
<1>16. \A i \in RowIds : g[i] = got[i] + CountIn(p, i)
  BY <1>g
<1>17. \A i \in RowIds : got[i] \in Nat /\ (i \in Wanted => table[i] # Listings!New)
  BY <1>1 DEF Tables, Wanted, Listings!Matches, Listings!New
<1>18. /\ \A i \in RowIds \ Wanted : g[i] = got[i]
       /\ \A k \in 1..Len(q) : q[k] \in RowIds /\ g[q[k]] = got[q[k]] + IF o < k /\ k <= o + n THEN 1 ELSE 0
  BY <1>4, <1>6, <1>7, <1>16, <1>17
<1>19. \A i \in RowIds : g[i] \in Nat /\ (table[i] = Listings!New => g[i] = 0)
  <2>1. \A k \in 1..Len(q) : g[q[k]] \in Nat
    BY <1>17, <1>18
  <2>2. \A i \in Wanted : g[i] \in Nat
    BY <1>5, <2>1
  <2> QED
    BY <1>1, <1>17, <1>18, <2>2 DEF Tables
<1>20. list \in Listings!Sortable
  BY <1>1 DEF Tables, ByColumn, Listings!ParseSort
<1>21. Tables'
  <2>1. g \in [RowIds -> Nat]
    BY <1>19, <1>g
  <2> QED
    BY <1>1, <1>12, <1>13, <1>14, <1>19, <1>20, <2>1 DEF Tables
<1>22. ASSUME moved = 0
       PROVE Once' /\ Upwards(q, o + n)' /\ (~more => AllGiven')
  <2>1. Once /\ \A k \in 1..Len(q) : got[q[k]] = IF k <= o THEN 1 ELSE 0
    <3>1. CASE walk.cursor = Nothing
      BY <1>1, <1>6, <1>17, <1>o, <3>1, <1>4 DEF Walks, Once
    <3>2. CASE walk.cursor # Nothing
      BY <1>1, <1>2, <1>22, <1>o, <1>q, <3>2 DEF Walks, AtOffset, Upwards
    <3> QED
      BY <3>1, <3>2
  <2>2. \A k \in 1..Len(q) : g[q[k]] = IF k <= o + n THEN 1 ELSE 0
    BY <1>1, <1>3, <1>6, <1>18, <2>1
  <2>3. \A i \in RowIds : g[i] <= 1
    <3>1. \A i \in Wanted : g[i] <= 1
      BY <1>5, <2>2
    <3> QED
      BY <1>18, <2>1, <3>1 DEF Once
  <2>4. ~more => \A i \in steady : g[i] = 1
    <3> SUFFICES ASSUME ~more, NEW i \in steady PROVE g[i] = 1
      OBVIOUS
    <3>1. i \in Wanted
      BY <1>1 DEF Tables
    <3>2. PICK k \in 1..Len(q) : q[k] = i
      BY <1>5, <3>1
    <3>3. k \in Nat /\ k <= Len(q) /\ ~(Len(q) > o + n)
      <4>1. ~(Len(q) > o + n)
        BY <1>8
      <4> QED
        BY <1>6, <4>1
    <3>4. k <= o + n
      BY <1>1, <1>3, <1>6, <3>3
    <3> QED
      BY <2>2, <3>2, <3>4
  <2> QED
    BY <1>12, <2>2, <2>3, <2>4 DEF Once, Upwards, AllGiven
<1>23. CASE ~more
  <2>1. walk'.cursor = Nothing /\ walk'.state = "over"
    BY <1>10, <1>13, <1>23
  <2>2. moved' = 0 => AllGiven'
    BY <1>22, <1>23
  <2>3. Walks'
    BY <1>14, <2>1, <2>2, ListingConstants DEF Walks
  <2> QED
    BY <1>21, <2>3 DEF ListingsSound
<1>24. CASE more
  <2>1. walk'.cursor = c /\ walk'.state = "walking" /\ c \in [o : Nat] /\ c # Nothing /\ c \notin [t : RowTimes, id : RowIds] /\ c.o = o + n
    BY <1>10, <1>13, <1>24, CursorKinds
  <2>2. moved' = 0 => Once' /\ AtOffset'
    BY <1>12, <1>15, <2>1, <1>22 DEF AtOffset, Upwards
  <2>3. Walks'
    BY <2>1, <2>2 DEF Walks
  <2> QED
    BY <1>21, <2>3 DEF ListingsSound
<1> QED
  BY <1>23, <1>24

\* The client's words change and nothing else: its state, or the order it asks for.
LEMMA WalkOnly ==
  ASSUME ListingsSound, walk.cursor # Nothing, walk' \in Listings!Walk, walk'.cursor = walk.cursor, walk'.want = walk.want,
         walk'.state # "over", UNCHANGED <<table, got, list, steady, moved>>,
         \/ walk'.sort = walk.sort
         \/ list \in Listings!Sortable /\ (walk.cursor \in [o : Nat] => ~ByColumn')
  PROVE ListingsSound'
<1>1. Tables /\ Walks
  BY DEF ListingsSound
<1>2. Wanted' = Wanted
  BY DEF Wanted, Listings!Matches
<1>3. Tables'
  BY <1>1, <1>2 DEF Tables
<1>4. AtCursor => AtCursor'
  BY DEF AtCursor, AtKey, Once, ListedRow, Listings!Beyond
<1>5. Once => Once'
  BY DEF Once
<1>6. walk'.sort = walk.sort => ByColumn' = ByColumn /\ (Listings!InColumn(Descending))' = Listings!InColumn(Descending)
  BY DEF ByColumn, Descending, Listings!ParseSort, Listings!InColumn, Listings!InOrder, Listings!Matches, Listings!Lower
<1>7. walk.cursor \in [o : Nat] /\ moved = 0 => Once' /\ (ByColumn' => AtOffset')
  BY <1>1, <1>5, <1>6 DEF Walks, AtOffset, Upwards
<1>8. Walks'
  BY <1>1, <1>4, <1>7 DEF Walks
<1> QED
  BY <1>3, <1>8 DEF ListingsSound

\* The table changes, with no row getting another time.
LEMMA TableStep ==
  ASSUME ListingsSound, walk.state = "walking", moved' = moved + 1, UNCHANGED <<list, walk, got>>,
         table' \in [RowIds -> Listings!Stored \cup {Listings!New, Listings!Gone}],
         \A i \in RowIds : \/ table[i] = Listings!New \/ table'[i].is = "gone"
                           \/ ListedRow(i) /\ table'[i].is = "stored" /\ table'[i].t = table[i].t
                           \/ table'[i] = table[i],
         steady' \subseteq steady \cap Wanted', \A i \in steady' : table'[i].t = table[i].t
  PROVE ListingsSound'
<1>1. Tables /\ Walks
  BY DEF ListingsSound
<1>2. moved' \in Nat /\ moved' # 0
  BY <1>1 DEF Tables
<1>3. \A i \in RowIds : table'[i] = Listings!New => got[i] = 0
  BY <1>1 DEF Tables, Listings!New
<1>4. Tables'
  BY <1>1, <1>2, <1>3 DEF Tables
<1>5. ASSUME walk.cursor \in [t : RowTimes, id : RowIds]
      PROVE AtCursor'
  <2>1. AtKey(walk.cursor)
    BY <1>1, <1>5 DEF Walks, AtCursor
  <2>2. ASSUME NEW i \in RowIds, ListedRow(i)', (Listings!Beyond(i, walk.cursor))'
        PROVE got[i] = 0
    <3>1. table[i] = Listings!New \/ (ListedRow(i) /\ table'[i].t = table[i].t)
      BY <2>2 DEF ListedRow
    <3>2. CASE table[i] = Listings!New
      BY <1>1, <3>2 DEF Tables
    <3>3. CASE ListedRow(i) /\ table'[i].t = table[i].t
      <4>1. Listings!Beyond(i, walk.cursor)
        BY <2>2, <3>3 DEF Listings!Beyond
      <4> QED
        BY <2>1, <3>3, <4>1 DEF AtKey
    <3> QED
      BY <3>1, <3>2, <3>3
  <2>3. \A i \in steady' : ~(Listings!Beyond(i, walk.cursor))' => got[i] = 1
    BY <2>1 DEF AtKey, Listings!Beyond
  <2> QED
    BY <2>1, <2>2, <2>3 DEF AtCursor, AtKey, Once, ListedRow, Listings!Beyond
<1>6. Walks'
  BY <1>1, <1>2, <1>5 DEF Walks
<1> QED
  BY <1>4, <1>6 DEF ListingsSound

\* A request for a page.
LEMMA PageAsked ==
  ASSUME ListingsSound, NEW n \in 1..Cap, walk.state = "walking",
         \/ /\ list \in Listings!Sortable /\ UNCHANGED table
            /\ \/ ByColumn /\ Listings!Readable({"o"}) /\ Listings!Given(Listings!ByOffset(n, Descending))
               \/ ~ByColumn /\ Listings!Readable({"t", "id"}) /\ Listings!Given(Listings!ByKey(n))
               \/ /\ ~(ByColumn /\ Listings!Readable({"o"})) /\ ~(~ByColumn /\ Listings!Readable({"t", "id"}))
                  /\ Listings!Given(Nothing)
         \/ /\ list \notin Listings!Sortable /\ Listings!Given(Listings!ByKey(n))
            /\ table' \in [RowIds -> Listings!Stored \cup {Listings!New, Listings!Gone}]
            /\ \A i \in RowIds : table'[i] = table[i] \/ (table[i] = Listings!New /\ table'[i] # Listings!New),
         UNCHANGED <<list, steady, moved>>
  PROVE ListingsSound'
<1>1. Tables /\ Walks
  BY DEF ListingsSound
<1>2. UNCHANGED table => table' \in [RowIds -> Listings!Stored \cup {Listings!New, Listings!Gone}] /\ \A i \in RowIds : table'[i] = table[i]
  BY <1>1 DEF Tables
<1>3. CASE UNCHANGED table /\ ByColumn /\ Listings!Readable({"o"}) /\ Listings!Given(Listings!ByOffset(n, Descending))
  BY <1>3, OffsetStep
<1>4. CASE UNCHANGED table /\ ~ByColumn /\ Listings!Readable({"t", "id"}) /\ Listings!Given(Listings!ByKey(n))
  BY <1>2, <1>4, KeyStep
<1>5. CASE /\ UNCHANGED table /\ ~(ByColumn /\ Listings!Readable({"o"})) /\ ~(~ByColumn /\ Listings!Readable({"t", "id"}))
           /\ Listings!Given(Nothing)
  <2>1. walk.cursor # Nothing
    BY <1>5 DEF Listings!Readable
  <2>2. walk' = [walk EXCEPT !.state = "refused"] /\ UNCHANGED <<table, got, list, steady, moved>>
    BY <1>5 DEF Listings!Given
  <2>3. /\ walk' \in Listings!Walk /\ walk'.state = "refused" /\ walk'.cursor = walk.cursor
        /\ walk'.sort = walk.sort /\ walk'.want = walk.want
    BY <1>1, <2>2 DEF Tables, Listings!Walk
  <2> QED
    BY <2>1, <2>2, <2>3, WalkOnly
<1>6. CASE /\ list \notin Listings!Sortable /\ Listings!Given(Listings!ByKey(n))
           /\ table' \in [RowIds -> Listings!Stored \cup {Listings!New, Listings!Gone}]
           /\ \A i \in RowIds : table'[i] = table[i] \/ (table[i] = Listings!New /\ table'[i] # Listings!New)
  <2>1. ~ByColumn /\ walk.cursor \notin [o : Nat] /\ walk.cursor \in Listings!Cursor
    BY <1>1, <1>6 DEF Tables, ByColumn, Listings!ParseSort, Listings!Walk
  <2>2. Listings!Readable({"t", "id"})
    BY <2>1, CursorKinds DEF Listings!Readable
  <2> QED
    BY <1>6, <2>1, <2>2, KeyStep
<1> QED
  BY <1>3, <1>4, <1>5, <1>6

LEMMA ListingsRequest ==
  ASSUME ListingsSound, NEW n \in 0..Cap + 1,
         \/ Listings!SpansEndpoint(n) \/ Listings!TracesEndpoint(n) \/ Listings!EventsEndpoint(n) \/ Listings!DeliveriesEndpoint(n)
  PROVE ListingsSound'
<1>1. Listings!Clamp(n) \in 1..Cap /\ (n \in 1..Cap => Listings!Clamp(n) = n) /\ Cap \in Nat
  BY ListingConstants DEF Listings!Clamp
<1>2. table \in [RowIds -> Listings!Stored \cup {Listings!New, Listings!Gone}]
  BY DEF ListingsSound, Tables
<1>3. CASE Listings!SpansEndpoint(n) \/ Listings!TracesEndpoint(n)
  <2>1. PICK m \in 1..Cap : m = Listings!Clamp(n)
    BY <1>1
  <2>2. /\ walk.state = "walking" /\ list \in Listings!Sortable /\ UNCHANGED <<list, table, steady, moved>>
        /\ Listings!Given(Listings!ListSpans(n))
    BY <1>3 DEF Listings!SpansEndpoint, Listings!TracesEndpoint, Listings!ListTraces, Listings!Asks, Listings!Sortable
  <2>3. CASE ByColumn /\ Listings!Readable({"o"})
    <3>1. Listings!ListSpans(n) = Listings!ByOffset(m, Descending)
      BY <2>1, <2>3 DEF Listings!ListSpans, ByColumn, Descending
    <3> QED
      BY <2>2, <2>3, <3>1, PageAsked
  <2>4. CASE ~ByColumn /\ Listings!Readable({"t", "id"})
    <3>1. Listings!ListSpans(n) = Listings!ByKey(m)
      BY <2>1, <2>4 DEF Listings!ListSpans, ByColumn
    <3> QED
      BY <2>2, <2>4, <3>1, PageAsked
  <2>5. CASE ~(ByColumn /\ Listings!Readable({"o"})) /\ ~(~ByColumn /\ Listings!Readable({"t", "id"}))
    <3>1. Listings!ListSpans(n) = Nothing
      BY <2>5 DEF Listings!ListSpans, ByColumn
    <3> QED
      BY <2>2, <2>5, <3>1, PageAsked
  <2> QED
    BY <2>3, <2>4, <2>5
<1>4. CASE Listings!EventsEndpoint(n)
  <2>1. PICK m \in 1..Cap : m = Listings!Clamp(n)
    BY <1>1
  <2>2. walk.state = "walking" /\ list = "events" /\ UNCHANGED <<list, steady, moved>> /\ Listings!Given(Listings!ByKey(m))
    BY <1>4, <2>1 DEF Listings!EventsEndpoint, Listings!ListEvents, Listings!Asks
  <2>3. /\ table' \in [RowIds -> Listings!Stored \cup {Listings!New, Listings!Gone}]
        /\ \A i \in RowIds : table'[i] = table[i] \/ (table[i] = Listings!New /\ table'[i] # Listings!New)
    <3>1. CASE UNCHANGED table
      BY <1>2, <3>1
    <3>2. ASSUME NEW i \in RowIds, NEW row \in Listings!Stored, table[i] = Listings!New, table' = [table EXCEPT ![i] = row]
          PROVE /\ table' \in [RowIds -> Listings!Stored \cup {Listings!New, Listings!Gone}]
                /\ \A j \in RowIds : table'[j] = table[j] \/ (table[j] = Listings!New /\ table'[j] # Listings!New)
      <4>1. row # Listings!New
        BY DEF Listings!Stored, Listings!New
      <4> QED
        BY <1>2, <3>2, <4>1
    <3> QED
      BY <1>4, <3>1, <3>2 DEF Listings!EventsEndpoint
  <2>4. list \notin Listings!Sortable
    BY <2>2 DEF Listings!Sortable
  <2> QED
    BY <2>2, <2>3, <2>4, PageAsked
<1>5. CASE Listings!DeliveriesEndpoint(n)
  <2>1. PICK m \in 1..Cap : m = Listings!Clamp(n)
    BY <1>1
  <2>2. walk.state = "walking" /\ list \notin Listings!Sortable /\ UNCHANGED <<list, table, steady, moved>> /\ Listings!Given(Listings!ByKey(m))
    BY <1>5, <2>1 DEF Listings!DeliveriesEndpoint, Listings!ListDeliveries, Listings!Asks, Listings!Sortable
  <2> QED
    BY <1>2, <2>2, PageAsked
<1> QED
  BY <1>3, <1>4, <1>5

LEMMA ListingsResort ==
  ASSUME ListingsSound, NEW s \in Listings!Sorts, Listings!Resort(s)
  PROVE ListingsSound'
<1>1. /\ walk.state = "walking" /\ walk.cursor # Nothing /\ list \in Listings!Sortable
      /\ walk' = [walk EXCEPT !.sort = s] /\ UNCHANGED <<list, table, got, steady, moved>>
  BY DEF Listings!Resort
<1>2. walk \in Listings!Walk
  BY DEF ListingsSound, Tables
<1>3. /\ walk' \in Listings!Walk /\ walk'.cursor = walk.cursor /\ walk'.want = walk.want
      /\ walk'.state # "over" /\ walk'.sort = s
  BY <1>1, <1>2 DEF Listings!Walk
<1>4. walk.cursor \in [o : Nat] => ~ByColumn'
  <2>1. ByColumn = (DOMAIN walk.cursor = {"o"}) /\ ByColumn' # ByColumn /\ ByColumn \in BOOLEAN /\ ByColumn' \in BOOLEAN
    BY <1>3 DEF Listings!Resort, Listings!ParseSort, ByColumn
  <2>2. walk.cursor \in [o : Nat] => DOMAIN walk.cursor = {"o"}
    OBVIOUS
  <2> QED
    BY <2>1, <2>2
<1> QED
  BY <1>1, <1>3, <1>4, WalkOnly

LEMMA ListingsChange ==
  ASSUME ListingsSound, NEW i \in RowIds,
         Listings!Delete(i) \/ (\E row \in Listings!Stored : Listings!Insert(i, row)) \/ (\E v \in Vals : Listings!Update(i, v))
  PROVE ListingsSound'
<1>1. table \in [RowIds -> Listings!Stored \cup {Listings!New, Listings!Gone}] /\ steady \subseteq Wanted
  BY DEF ListingsSound, Tables
<1>2. CASE Listings!Delete(i)
  <2>1. /\ ListedRow(i) /\ walk.state = "walking" /\ moved' = moved + 1 /\ UNCHANGED <<list, walk, got>>
        /\ table' = [table EXCEPT ![i] = Listings!Gone] /\ steady' = steady \ {i}
    BY <1>2 DEF Listings!Delete, Listings!Changes, ListedRow
  <2>2. /\ table' \in [RowIds -> Listings!Stored \cup {Listings!New, Listings!Gone}] /\ table'[i].is = "gone"
        /\ \A j \in RowIds \ {i} : table'[j] = table[j]
    BY <1>1, <2>1 DEF Listings!Gone
  <2>3. steady' \subseteq steady \cap Wanted' /\ \A j \in steady' : table'[j].t = table[j].t
    BY <1>1, <2>1, <2>2 DEF Wanted, Listings!Matches
  <2> QED
    BY <2>1, <2>2, <2>3, TableStep
<1>3. ASSUME NEW row \in Listings!Stored, Listings!Insert(i, row)
      PROVE ListingsSound'
  <2>1. /\ table[i] = Listings!New /\ walk.state = "walking" /\ moved' = moved + 1 /\ UNCHANGED <<list, walk, got, steady>>
        /\ table' = [table EXCEPT ![i] = row]
    BY <1>3 DEF Listings!Insert, Listings!Changes
  <2>2. /\ table' \in [RowIds -> Listings!Stored \cup {Listings!New, Listings!Gone}]
        /\ \A j \in RowIds \ {i} : table'[j] = table[j]
    BY <1>1, <2>1
  <2>3. i \notin steady
    BY <1>1, <2>1 DEF Wanted, Listings!Matches, Listings!New
  <2>4. steady' \subseteq steady \cap Wanted' /\ \A j \in steady' : table'[j].t = table[j].t
    BY <1>1, <2>1, <2>2, <2>3 DEF Wanted, Listings!Matches
  <2> QED
    BY <2>1, <2>2, <2>4, TableStep
<1>4. ASSUME NEW v \in Vals, Listings!Update(i, v)
      PROVE ListingsSound'
  <2>1. /\ ListedRow(i) /\ walk.state = "walking" /\ moved' = moved + 1 /\ UNCHANGED <<list, walk, got>>
        /\ table' = [table EXCEPT ![i] = [table[i] EXCEPT !.v = v]]
        /\ steady' = IF walk.want = Nothing THEN steady ELSE steady \ {i}
    BY <1>4 DEF Listings!Update, Listings!Changes, ListedRow
  <2>2. table[i] \in Listings!Stored
    BY <1>1, <2>1 DEF ListedRow, Listings!New, Listings!Gone
  <2>3. [table[i] EXCEPT !.v = v] \in Listings!Stored /\ [table[i] EXCEPT !.v = v].t = table[i].t
    BY <2>2 DEF Listings!Stored
  <2>4. /\ table' \in [RowIds -> Listings!Stored \cup {Listings!New, Listings!Gone}]
        /\ table'[i].is = "stored" /\ table'[i].t = table[i].t
        /\ \A j \in RowIds \ {i} : table'[j] = table[j]
    BY <1>1, <2>1, <2>3 DEF Listings!Stored
  <2>5. steady' \subseteq steady \cap Wanted' /\ \A j \in steady' : table'[j].t = table[j].t
    BY <1>1, <2>1, <2>4 DEF Wanted, Listings!Matches
  <2> QED
    BY <2>1, <2>4, <2>5, TableStep
<1> QED
  BY <1>2, <1>3, <1>4

LEMMA ListingsStep == ListingsSound /\ Listings!Next => ListingsSound'
  BY ListingsRequest, ListingsResort, ListingsChange DEF Listings!Next

LEMMA ListingsStutter ==
  ASSUME ListingsSound, UNCHANGED <<list, table, walk, got, steady, moved>>
  PROVE ListingsSound'
<1>1. Tables /\ Walks
  BY DEF ListingsSound
<1>2. Wanted' = Wanted
  BY DEF Wanted, Listings!Matches
<1>3. Tables'
  BY <1>1, <1>2 DEF Tables
<1>4. AtCursor => AtCursor'
  BY DEF AtCursor, AtKey, Once, ListedRow, Listings!Beyond
<1>5. (Once => Once') /\ (AllGiven => AllGiven')
  BY DEF Once, AllGiven
<1>6. ByColumn' = ByColumn /\ (Listings!InColumn(Descending))' = Listings!InColumn(Descending)
  BY DEF ByColumn, Descending, Listings!ParseSort, Listings!InColumn, Listings!InOrder, Listings!Matches, Listings!Lower
<1>7. AtOffset => AtOffset'
  BY <1>6 DEF AtOffset, Upwards
<1>8. Walks'
  BY <1>1, <1>4, <1>5, <1>6, <1>7 DEF Walks
<1> QED
  BY <1>3, <1>8 DEF ListingsSound

LEMMA ListingsInvariant == PartsSpec => [](part = "listings" => ListingsSound)
<1> DEFINE Sound == part = "listings" => ListingsSound
<1>1. PartsInit => Sound
  BY ListingsInit DEF PartsInit
<1>2. Sound /\ [PartsNext]_partsVars => Sound'
  <2> SUFFICES ASSUME Sound, [PartsNext]_partsVars PROVE Sound'
    OBVIOUS
  <2>1. CASE PartsNext
    BY <2>1, PartStays, ListingsRuns, ListingsStep
  <2>2. CASE UNCHANGED partsVars
    <3>1. UNCHANGED <<part, list, table, walk, got, steady, moved>>
      BY <2>2 DEF partsVars, OfListings
    <3> QED
      BY <3>1, ListingsStutter
  <2> QED
    BY <2>1, <2>2
<1> QED
  BY <1>1, <1>2, PTL DEF PartsSpec

\* By key a walk shows every row that was there and matched from its beginning to its
\* end once and no row twice, whatever comes, changes and goes meanwhile; by offset it
\* does as long as nothing changes.
THEOREM WalksAreWholeHolds == PartsSpec => []WalksAreWhole
<1>1. (part = "listings" => ListingsSound) => WalksAreWhole
  BY ListingsAgree DEF WalksAreWhole
<1> QED
  BY <1>1, ListingsInvariant, PTL
=============================================================================
