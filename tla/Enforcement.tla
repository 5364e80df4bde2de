----------------------------- MODULE Enforcement -----------------------------
(***************************************************************************)
(* The SDK's decision about a tool call (sdk policy/enforcer.py,           *)
(* throttle.py, steer.py and the adapters of the agent frameworks): a      *)
(* thread per call checks the operators' halts, then the policies it has   *)
(* copied from the cache, while another thread refreshes that cache and    *)
(* all of them take tokens from the same throttle buckets.                 *)
(*                                                                         *)
(* An adapter that offers two hooks for the same call checks it twice.     *)
(* What a person answers to a request for approval is in Approvals, how    *)
(* halts arrive in HaltSync: here both are given.                          *)
(***************************************************************************)
EXTENDS Integers, Sequences, FiniteSets

CONSTANTS
  Policies,
  Rank,      \* [Policies -> Nat]: priority, then name; higher first
  Action,    \* [Policies -> what the policy does]
  Skipped,   \* policies that are disabled, or only observe (shadow)
  Calls,
  Matches,   \* [Policies -> SUBSET Calls]: applies_to and the match expression
  Malformed, \* throttle policies without a usable max_calls or window_seconds
  Key,       \* [Policies -> [Calls -> what a throttle policy counts by]]
  PathsOf,   \* [Calls -> SUBSET Seq(Surfaces)]: the hooks a call may pass
  Versions,  \* what /v1/policies may answer
  Window,    \* the longest window_seconds
  Unit,      \* parts of a token, of which a second refills a whole number
  IdleTimeout, PruneInterval,
  FailClosed, MaxStale,   \* fail_closed, fail_closed_max_staleness_sec
  MaxTime, MaxChanges, MaxFaults  \* bounds

Surfaces == {"dispatch", "dispatch_async", "crewai", "langgraph", "agents_hook",
             "agents_guardrail", "google_adk", "pydantic_ai", "claude", "autogen"}

ASSUME EnforcementAssumption ==
  /\ IsFiniteSet(Policies) /\ Rank \in [Policies -> Nat]
  /\ \A p, q \in Policies : Rank[p] = Rank[q] => p = q
  /\ Action \in [Policies -> {"log", "alert", "allow", "block", "steer", "throttle",
                              "require_approval", "other"}]
  /\ Skipped \subseteq Policies /\ Malformed \subseteq Policies
  /\ Matches \in [Policies -> SUBSET Calls]
  /\ DOMAIN Key = Policies /\ \A p \in Policies : DOMAIN Key[p] = Calls
  /\ PathsOf \in [Calls -> SUBSET (Seq(Surfaces) \ {<<>>})]
  /\ Versions # {}
  /\ Window \in Nat \ {0} /\ Unit \in Nat \ {0}
  /\ Versions \subseteq [list : SUBSET Policies, default : {"allow", "block"},
                        limit : Nat \ {0}, window : 1..Window, refill : Nat]
  /\ IdleTimeout \in Nat /\ PruneInterval \in Nat
  /\ FailClosed \in BOOLEAN /\ MaxStale \in Nat
  /\ MaxTime \in Nat /\ MaxChanges \in Nat /\ MaxFaults \in Nat

\* A window refills what the limit allows in it.
ASSUME RefillAssumption == \A v \in Versions : v.refill * v.window = v.limit * Unit

VARIABLES
  now,
  published, \* the version the receiver answers with
  halted,    \* the halt cache says stop
  cache,     \* _policies, _intervention_default_action, _last_refresh_at
  refresh,   \* the refresh thread: "idle", or the answer on its way
  bucket,    \* the buckets ever made, each [key, limit, refill, tokens, refilled, used]
  store,     \* ThrottleStore._buckets: [key -> index in bucket], and the last prune
  call,      \* [Calls -> the thread of the call]
  admitted,  \* every token taken: <<key, the reading of the clock, call, hook>>
  changes, faults

vars == <<now, published, halted, cache, refresh, bucket, store, call, admitted, changes, faults>>

Times == 0..MaxTime
Keys == {<<p, Key[p][c]>> : p \in Policies, c \in Calls}

(* Before the first refresh: no policies, allow, and a time long past.     *)
Unloaded == [list |-> {}, default |-> "allow", limit |-> 1, window |-> 1, refill |-> Unit]
LongAgo == -(MaxStale + 1)

\* A thread between two checks, with what the hooks before have left.
Stage(pc, path, at, marks, log) ==
  [pc |-> pc, path |-> path, at |-> at, v |-> Unloaded, late |-> FALSE, todo |-> {}, passed |-> {},
   policy |-> <<>>, read |-> 0, ref |-> 0, ok |-> TRUE, log |-> log, marks |-> marks]

Init ==
  /\ now = 0
  /\ published \in Versions
  /\ halted = FALSE
  /\ cache = [v |-> Unloaded, stamp |-> LongAgo, got |-> LongAgo]
  /\ refresh = [pc |-> "idle"]
  /\ bucket = <<>>
  /\ store = [of |-> [k \in Keys |-> 0], pruned |-> -PruneInterval]
  /\ \E f \in [Calls -> UNION {PathsOf[c] : c \in Calls}] :
       /\ \A c \in Calls : f[c] \in PathsOf[c]
       /\ call = [c \in Calls |-> Stage("halt", f[c], 1, {}, <<>>)]
  /\ admitted = {}
  /\ changes = 0 /\ faults = 0

-----------------------------------------------------------------------------
(* What each hook does with a decision: run the tool, raise, answer in its *)
(* place, or hold the call; and the record it emits.                       *)

Go == [then |-> "run", mark |-> "none"]
Run(m) == [then |-> "run", mark |-> m]
Raise(m) == [then |-> "raise", mark |-> m]
Answer(m) == [then |-> "answer", mark |-> m]
Hold(m) == [then |-> "hold", mark |-> m]

(* dispatch_policy_decision: enforce_steer's patched tools.                *)
Dispatch(d) ==
  CASE d = "allow"            -> Go
    [] d = "throttle"         -> Raise("throttled")
    [] d = "steer"            -> Answer("steered")
    [] d = "require_approval" -> Hold("approval_requested")
    [] OTHER                  -> Raise("blocked")

DispatchAsync(d) == Dispatch(d)

CrewTool(d) == Dispatch(d)

(* A callback cannot change what the tool returns: a steer only leaves its *)
(* record; and it cannot wait, so what needs approval is refused.          *)
LangGraphTool(d) ==
  CASE d = "allow"            -> Go
    [] d = "block"            -> Raise("blocked")
    [] d = "throttle"         -> Raise("throttled")
    [] d = "require_approval" -> Raise("approval_denied")
    [] d = "steer"            -> Run("steered")

AgentsHook(d) ==
  CASE d = "allow"            -> Go
    [] d = "block"            -> Raise("blocked")
    [] d = "throttle"         -> Raise("throttled")
    [] d = "require_approval" -> Hold("none")
    [] d = "steer"            -> Run("steer_attempted")

(* The guardrail emits no record of its own.                               *)
AgentsGuardrail(d) ==
  CASE d = "allow"                -> Go
    [] d \in {"block", "throttle"} -> Raise("none")
    [] d = "require_approval"     -> Hold("none")
    [] d = "steer"                -> Answer("none")

AdkTool(d) ==
  CASE d = "allow"            -> Go
    [] d = "block"            -> Answer("blocked")
    [] d = "throttle"         -> Answer("throttled")
    [] d = "require_approval" -> Hold("none")
    [] d = "steer"            -> Answer("steered")

PydanticTool(d) ==
  CASE d = "allow"            -> Go
    [] d = "block"            -> Answer("blocked")
    [] d = "throttle"         -> Answer("throttled")
    [] d = "require_approval" -> Answer("approval_denied")
    [] d = "steer"            -> Answer("steered")

ClaudeTool(d) ==
  CASE d = "allow"            -> Go
    [] d = "block"            -> Answer("blocked")
    [] d = "throttle"         -> Answer("throttled")
    [] d = "require_approval" -> Hold("none")
    [] d = "steer"            -> Answer("steered")

AutogenTool(d) ==
  CASE d = "allow"            -> Go
    [] d = "block"            -> Raise("blocked")
    [] d = "throttle"         -> Raise("throttled")
    [] d = "require_approval" -> Hold("none")
    [] d = "steer"            -> Answer("steered")

Outcome(s, d) ==
  CASE s = "dispatch"         -> Dispatch(d)
    [] s = "dispatch_async"   -> DispatchAsync(d)
    [] s = "crewai"           -> CrewTool(d)
    [] s = "langgraph"        -> LangGraphTool(d)
    [] s = "agents_hook"      -> AgentsHook(d)
    [] s = "agents_guardrail" -> AgentsGuardrail(d)
    [] s = "google_adk"       -> AdkTool(d)
    [] s = "pydantic_ai"      -> PydanticTool(d)
    [] s = "claude"           -> ClaudeTool(d)
    [] s = "autogen"          -> AutogenTool(d)

(* wait_for_approval has returned, or raised.                              *)
AfterWait(s, granted) ==
  CASE s \in {"dispatch", "dispatch_async", "crewai", "agents_guardrail"} ->
         IF granted THEN Go ELSE Raise("none")
    [] s \in {"google_adk", "claude"} ->
         IF granted THEN Run("approval_granted") ELSE Answer("approval_denied")
    [] OTHER ->
         IF granted THEN Run("approval_granted") ELSE Raise("approval_denied")

(* check_halt_or_raise.                                                    *)
Halted(s) == IF s = "agents_guardrail" THEN Raise("none") ELSE Raise("halted")

-----------------------------------------------------------------------------
(* The receiver's answer and the cache.                                    *)

Publish(v) ==
  /\ changes < MaxChanges /\ changes' = changes + 1
  /\ v # published /\ published' = v
  /\ UNCHANGED <<now, halted, cache, refresh, bucket, store, call, admitted, faults>>

(* The halt thread replaces the cache of halts.                            *)
HaltOrResume ==
  /\ changes < MaxChanges /\ changes' = changes + 1
  /\ halted' = ~halted
  /\ UNCHANGED <<now, published, cache, refresh, bucket, store, call, admitted, faults>>

(* start() and _refresh_loop: the receiver answers a refresh.  The         *)
(* interval between two is not modelled: one may come at any time.         *)
(* start() returns when the first has ended; a call during it is as one    *)
(* during the second, had the first one failed.                            *)
Serve ==
  /\ refresh.pc = "idle"
  /\ refresh' = [pc |-> "served", v |-> published]
  /\ UNCHANGED <<now, published, halted, cache, bucket, store, call, admitted, changes, faults>>

(* List, default action and time are stored under the lock.                *)
Deliver ==
  /\ refresh.pc = "served"
  /\ cache' = [v |-> refresh.v, stamp |-> now, got |-> now]
  /\ refresh' = [pc |-> "idle"]
  /\ UNCHANGED <<now, published, halted, bucket, store, call, admitted, changes, faults>>

(* Mutant: a refresh that failed counts as one.                            *)
RefreshFailsStamped ==
  /\ refresh.pc = "served"
  /\ faults < MaxFaults /\ faults' = faults + 1
  /\ refresh' = [pc |-> "idle"]
  /\ cache' = [cache EXCEPT !.stamp = now]
  /\ UNCHANGED <<now, published, halted, bucket, store, call, admitted, changes>>

(* No answer, an error, or an answer that does not parse: the cache stays. *)
RefreshFails ==
  /\ refresh.pc = "served"
  /\ faults < MaxFaults /\ faults' = faults + 1
  /\ refresh' = [pc |-> "idle"]
  /\ UNCHANGED <<now, published, halted, cache, bucket, store, call, admitted, changes>>

-----------------------------------------------------------------------------
(* The check of a call at one hook.                                        *)

Surface(c) == call[c].path[call[c].at]

(* What an outcome makes of the thread t of a call: on to the next hook,   *)
(* to the tool, or to its end.  The log keeps how each hook decided.       *)
Follow(t, out, fate) ==
  LET log == Append(t.log, [v |-> t.v, late |-> t.late, passed |-> t.passed, fate |-> fate])
      marks == t.marks \cup ({out.mark} \ {"none"})
  IN CASE out.then = "hold" -> [t EXCEPT !.pc = "held", !.marks = marks]
       [] out.then = "run"  -> IF t.at < Len(t.path) THEN Stage("halt", t.path, t.at + 1, marks, log)
                               ELSE Stage("ran", t.path, t.at, marks, log)
       [] OTHER             -> Stage("stopped", t.path, t.at, marks, log)

Fate(out, d) ==
  IF out.then # "run" THEN "stopped" ELSE IF d = "allow" THEN "allowed" ELSE "observed"

(* The hook acts on a decision.                                            *)
ActOn(t, d) == LET out == Outcome(t.path[t.at], d) IN Follow(t, out, Fate(out, d))

Same == UNCHANGED <<now, published, halted, cache, refresh, changes>>

CheckHalt(c) ==
  /\ call[c].pc = "halt"
  /\ call' = [call EXCEPT ![c] = IF halted THEN Follow(@, Halted(Surface(c)), "halted")
                                 ELSE [@ EXCEPT !.pc = "fresh"]]
  /\ Same /\ UNCHANGED <<bucket, store, admitted, faults>>

(* _assert_fresh_if_fail_closed reads the time of the last refresh under   *)
(* the lock, lets go of it, and refuses the call by it.                    *)
CheckFresh(c) ==
  /\ call[c].pc = "fresh"
  /\ call' = [call EXCEPT ![c] = IF FailClosed /\ now - cache.stamp > MaxStale
                                 THEN Follow(@, Raise("none"), "unreachable")
                                 ELSE [@ EXCEPT !.pc = "copy", !.read = now]]
  /\ Same /\ UNCHANGED <<bucket, store, admitted, faults>>

Relevant(list, c) ==
  {p \in list \ Skipped : c \in Matches[p] /\ Action[p] \notin {"log", "alert"}}

(* List and default action are copied under the lock.                      *)
Copy(c) ==
  /\ call[c].pc = "copy"
  /\ call' = [call EXCEPT ![c].pc = "walk", ![c].v = cache.v, ![c].late = call[c].read - cache.got > MaxStale,
                          ![c].todo = Relevant(cache.v.list, c), ![c].read = 0]
  /\ Same /\ UNCHANGED <<bucket, store, admitted, faults>>

First(list) == CHOOSE p \in list : \A q \in list : Rank[q] <= Rank[p]

(* What a policy decides; an action this SDK does not know blocks.         *)
Decision(p) == CASE Action[p] \in {"allow", "block", "steer", "throttle", "require_approval"} -> Action[p]
                 [] OTHER -> "block"

(* Mutant: the loop reads the list as it is now.                           *)
WalkLive(c) ==
  /\ call[c].pc = "walk"
  /\ LET t == call[c]
         todo == Relevant(cache.v.list, c) \ t.passed
         p == First(todo) IN
     call' = [call EXCEPT ![c] =
       IF todo = {} THEN ActOn(t, t.v.default)
       ELSE IF Action[p] = "throttle" /\ p \notin Malformed
            THEN [t EXCEPT !.pc = "look", !.policy = <<p>>]
            ELSE ActOn(t, Decision(p))]
  /\ Same /\ UNCHANGED <<bucket, store, admitted, faults>>

(* check_policy: the first policy that matches decides, but a throttle     *)
(* only when it has no token left; none decides: the default action.       *)
Walk(c) ==
  /\ call[c].pc = "walk"
  /\ LET t == call[c]
         p == First(t.todo) IN
     call' = [call EXCEPT ![c] =
       IF t.todo = {} THEN ActOn(t, t.v.default)
       ELSE IF Action[p] = "throttle" /\ p \notin Malformed
            THEN [t EXCEPT !.pc = "look", !.policy = <<p>>]
            ELSE ActOn(t, Decision(p))]
  /\ Same /\ UNCHANGED <<bucket, store, admitted, faults>>

KeyOf(c) == LET p == call[c].policy[1] IN <<p, Key[p][c]>>

(* ThrottleStore.consume reads the clock, and looks for the bucket without *)
(* a lock.                                                                 *)
Look(c) ==
  /\ call[c].pc = "look"
  /\ LET i == store.of[KeyOf(c)] IN
     call' = [call EXCEPT ![c].pc = IF i = 0 THEN "make" ELSE "shape", ![c].read = now, ![c].ref = i]
  /\ Same /\ UNCHANGED <<bucket, store, admitted, faults>>

Full(limit) == limit * Unit

(* Mutant: a new bucket is empty.                                          *)
NewBucketEmpty(k, v, t) ==
  [key |-> k, limit |-> v.limit, refill |-> v.refill, tokens |-> 0, refilled |-> t, used |-> t]

NewBucket(k, v, t) ==
  [key |-> k, limit |-> v.limit, refill |-> v.refill, tokens |-> Full(v.limit), refilled |-> t, used |-> t]

(* A bucket that was not there is made under the creation lock, unless     *)
(* another thread has by now: that one is used with the shape it has.      *)
Make(c) ==
  /\ call[c].pc = "make"
  /\ LET t == call[c]
         k == KeyOf(c)
         i == IF store.of[k] = 0 THEN Len(bucket) + 1 ELSE store.of[k]
     IN /\ bucket' = IF store.of[k] = 0 THEN Append(bucket, NewBucket(k, t.v, t.read)) ELSE bucket
        /\ store' = [store EXCEPT !.of[k] = i]
        /\ call' = [call EXCEPT ![c].pc = "take", ![c].ref = i]
  /\ Same /\ UNCHANGED <<admitted, faults>>

(* One that was found gets the capacity and the rate of the caller's       *)
(* policy, under its lock, which is then let go.  The reference is used    *)
(* even if the store has dropped the bucket.                               *)
Shape(c) ==
  /\ call[c].pc = "shape"
  /\ bucket' = [bucket EXCEPT ![call[c].ref].limit = call[c].v.limit, ![call[c].ref].refill = call[c].v.refill]
  /\ call' = [call EXCEPT ![c].pc = "take"]
  /\ Same /\ UNCHANGED <<store, admitted, faults>>

Larger(a, b) == IF a > b THEN a ELSE b
Smaller(a, b) == IF a < b THEN a ELSE b

Refilled(b, t) ==
  [b EXCEPT !.tokens = Smaller(Full(b.limit), @ + Larger(0, t - b.refilled) * b.refill),
            !.refilled = t, !.used = t]

(* _consume_one, under the lock again: by now another thread may have      *)
(* given the bucket the shape of another version.                          *)
Take(c) ==
  /\ call[c].pc = "take"
  /\ LET t == call[c]
         b == Refilled(bucket[t.ref], t.read)
         ok == b.tokens >= Unit
     IN /\ bucket' = [bucket EXCEPT ![t.ref] = IF ok THEN [b EXCEPT !.tokens = @ - Unit] ELSE b]
        /\ call' = [call EXCEPT ![c].pc = "prune", ![c].ok = ok, ![c].ref = 0]
        /\ admitted' = admitted \cup (IF ok THEN {<<KeyOf(c), t.read, c, t.at>>} ELSE {})
  /\ Same /\ UNCHANGED <<store, faults>>

(* Behind the throttle: on in the list if there was a token.               *)
Consumed(t) ==
  IF t.ok THEN [t EXCEPT !.pc = "walk", !.passed = @ \cup {t.policy[1]},
                         !.todo = @ \ {t.policy[1]}, !.policy = <<>>]
  ELSE ActOn([t EXCEPT !.policy = <<>>], "throttle")

(* Whether the last prune was long ago is read without a lock.             *)
Prune(c) ==
  /\ call[c].pc = "prune"
  /\ call' = [call EXCEPT ![c] = IF @.read - store.pruned >= PruneInterval THEN [@ EXCEPT !.pc = "drop"]
                                 ELSE Consumed(@)]
  /\ Same /\ UNCHANGED <<bucket, store, admitted, faults>>

(* The buckets that have been idle for long are dropped.                   *)
Drop(c) ==
  /\ call[c].pc = "drop"
  /\ LET idle(k) == store.of[k] # 0 /\ call[c].read - bucket[store.of[k]].used > IdleTimeout IN
     store' = [of |-> [k \in Keys |-> IF idle(k) THEN 0 ELSE store.of[k]], pruned |-> call[c].read]
  /\ call' = [call EXCEPT ![c] = Consumed(@)]
  /\ Same /\ UNCHANGED <<bucket, admitted, faults>>

(* A person approves, or does not: denied, expired or timed out.           *)
Await(c) ==
  /\ call[c].pc = "held"
  /\ \E granted \in BOOLEAN :
       call' = [call EXCEPT ![c] = Follow(@, AfterWait(Surface(c), granted),
                                          IF granted THEN "approved" ELSE "stopped")]
  /\ Same /\ UNCHANGED <<bucket, store, admitted, faults>>

(* A check raises what the SDK did not mean to raise: after the halts the  *)
(* policies are still checked, and then the tool runs.                     *)
CheckFails(c) ==
  /\ call[c].pc \in {"halt", "walk"}
  /\ faults < MaxFaults /\ faults' = faults + 1
  /\ call' = [call EXCEPT ![c] = IF @.pc = "halt" THEN [@ EXCEPT !.pc = "fresh"]
                                 ELSE Follow(@, Go, "error")]
  /\ Same /\ UNCHANGED <<bucket, store, admitted>>

Tick ==
  /\ now < MaxTime
  /\ now' = now + 1
  /\ UNCHANGED <<published, halted, cache, refresh, bucket, store, call, admitted, changes, faults>>

Next ==
  \/ \E v \in Versions : Publish(v)
  \/ HaltOrResume \/ Serve \/ Deliver \/ RefreshFails
  \/ \E c \in Calls : \/ CheckHalt(c) \/ CheckFresh(c) \/ Copy(c) \/ Walk(c)
                      \/ Look(c) \/ Make(c) \/ Shape(c) \/ Take(c) \/ Prune(c) \/ Drop(c) \/ Await(c) \/ CheckFails(c)
  \/ Tick

Spec == Init /\ [][Next]_vars

-----------------------------------------------------------------------------
(* Properties.                                                             *)

Fates == {"halted", "unreachable", "error", "stopped", "allowed", "approved", "observed"}
Marks == {"blocked", "throttled", "steered", "steer_attempted", "approval_requested",
          "approval_granted", "approval_denied", "halted"}

Entry == [v : Versions \cup {Unloaded}, late : BOOLEAN, passed : SUBSET Policies, fate : Fates]
Thread ==
  [pc : {"halt", "fresh", "copy", "walk", "look", "make", "shape", "take", "prune", "drop", "held", "ran", "stopped"},
   path : Seq(Surfaces), at : Nat \ {0}, v : Versions \cup {Unloaded}, late : BOOLEAN,
   todo : SUBSET Policies, passed : SUBSET Policies, policy : {<<>>} \cup {<<p>> : p \in Policies},
   read : Times, ref : Nat, ok : BOOLEAN, log : Seq(Entry), marks : SUBSET Marks]
Bucket == [key : Keys, limit : Nat, refill : Nat, tokens : Nat, refilled : Times, used : Times]

(* Every variable has its type.                                            *)
TypeOK ==
  /\ now \in Times /\ published \in Versions /\ halted \in BOOLEAN
  /\ cache \in [v : Versions \cup {Unloaded}, stamp : Times \cup {LongAgo}, got : Times \cup {LongAgo}]
  /\ refresh \in [pc : {"idle"}] \cup [pc : {"served"}, v : Versions]
  /\ bucket \in Seq(Bucket)
  /\ store \in [of : [Keys -> 0..Len(bucket)], pruned : Times \cup {-PruneInterval}]
  /\ call \in [Calls -> Thread]
  /\ \A c \in Calls : call[c].path \in PathsOf[c] /\ call[c].at <= Len(call[c].path)
  /\ admitted \subseteq Keys \X Times \X Calls \X Nat
  /\ changes \in 0..MaxChanges /\ faults \in 0..MaxFaults

(* What one version of the policies says of a call, when the throttles in  *)
(* passed had a token for it.                                              *)
Says(v, passed, c) ==
  LET left == Relevant(v.list, c) \ passed IN
  IF left = {} THEN v.default ELSE Decision(First(left))

Judged(c) == {i \in DOMAIN call[c].log : call[c].log[i].fate \notin {"halted", "unreachable", "error"}}

(* A tool runs only if, at each hook the call passed, the first policy     *)
(* that matched in the list copied there, or the default action of that    *)
(* list, let it: allowed it, was approved by a person, or steers where     *)
(* that cannot be enforced.  A call is stopped only by such a decision, by *)
(* a halt, or by a stale cache; and the records of a stop are of calls     *)
(* whose tool does not run (check_policy, dispatch_policy_decision and the *)
(* hooks of the adapters).                                                 *)
RunsAsDecided ==
  \A c \in Calls :
    LET t == call[c] IN
    /\ \A i \in Judged(c) :
         LET says == Says(t.log[i].v, t.log[i].passed, c) IN
         CASE t.log[i].fate = "allowed"  -> says = "allow"
           [] t.log[i].fate = "approved" -> says = "require_approval"
           [] t.log[i].fate = "observed" -> says = "steer" /\ t.path[i] \in {"langgraph", "agents_hook"}
           [] t.log[i].fate = "stopped"  -> says # "allow"
    /\ t.pc = "ran" =>
         /\ Len(t.log) = Len(t.path)
         /\ \A i \in DOMAIN t.log : t.log[i].fate \notin {"stopped", "halted", "unreachable"}
         /\ t.marks \cap {"blocked", "throttled", "halted", "approval_denied"} = {}

(* What decides a call is a list and a default action that the receiver    *)
(* answered together; and if the client fails closed, it was answered at   *)
(* most MaxStale before the check (refresh, _assert_fresh_if_fail_closed). *)
OneFreshVersion ==
  \A c \in Calls : \A i \in Judged(c) :
    /\ call[c].log[i].v \in Versions \cup {Unloaded}
    /\ FailClosed => call[c].log[i].v \in Versions /\ ~call[c].log[i].late

(* What a version may ask of the throttle p, and the least of it.          *)
Limits(p) == {v.limit : v \in {w \in Versions : p \in w.list}}
LeastLimit(p) == CHOOSE n \in Limits(p) : \A m \in Limits(p) : n <= m

(* The tokens of a key taken within the window before t.                   *)
TakenBy(k, t) == {a \in admitted : a[1] = k /\ a[2] > t - Window}

(* A call is throttled only when as many calls as the least limit of the   *)
(* policy allows were admitted within its longest window, however the      *)
(* threads' readings of the clock, the shapes that the threads of two      *)
(* versions give one bucket, its making and the pruning of buckets fall    *)
(* (ThrottleStore.consume).                                                *)
DenialsAreDue ==
  [][\A c \in Calls :
       call[c].pc = "take" /\ call'[c].pc = "prune" /\ ~call'[c].ok
         => Cardinality(TakenBy(KeyOf(c), call[c].read)) >= LeastLimit(KeyOf(c)[1])]_vars

Greatest(S) == CHOOSE n \in S : \A m \in S : n >= m

(* Between two readings of the clock no more calls are admitted than a     *)
(* full bucket holds and the time between refills (throttle.py: a token    *)
(* bucket gives the same average max_calls per window_seconds guarantee).  *)
(* Violated by three calls (README, 4).                                    *)
WithinRate ==
  \A k \in Keys : \A t1, t2 \in Times :
    t1 <= t2 => Unit * Cardinality({a \in admitted : a[1] = k /\ a[2] \in t1..t2})
                  <= Full(Greatest({v.limit : v \in Versions}))
                       + Greatest({v.refill : v \in Versions}) * (t2 - t1)
=============================================================================
