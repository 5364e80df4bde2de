-------------------------- MODULE EnforcementProofs --------------------------
(***************************************************************************)
(* Proofs about Enforcement: a tool runs only as each hook decided, by one *)
(* fresh version of the policies, and a call that is throttled was over    *)
(* its limit; for any policies, calls, hooks, versions, window and times.  *)
(***************************************************************************)
EXTENDS Enforcement, FiniteSetTheorems, WellFoundedInduction, TLAPS

Decisions == {"allow", "block", "steer", "throttle", "require_approval"}
Passes == {"allowed", "approved", "observed", "error"}
Stops == {"blocked", "throttled", "halted", "approval_denied"}
Throttling == {"look", "make", "shape", "take", "prune", "drop"}
Walking == {"walk", "look", "make", "shape", "take", "prune", "drop", "held"}

(* The log has the hooks a call has left; until it is stopped, all of them *)
(* let it pass.                                                            *)
Progress(t) ==
  /\ Len(t.log) = IF t.pc \in {"ran", "stopped"} THEN t.at ELSE t.at - 1
  /\ t.pc = "ran" => t.at = Len(t.path)
  /\ t.pc # "stopped" => /\ \A i \in DOMAIN t.log : t.log[i].fate \in Passes
                         /\ t.marks \cap Stops = {}

(* What is left of the list a call goes through, and why it waits.         *)
Walked(t, c) ==
  /\ t.pc \in {"halt", "fresh", "copy"} => t.passed = {}
  /\ t.pc \in Walking => /\ t.todo = Relevant(t.v.list, c) \ t.passed
                         /\ FailClosed => t.v \in Versions /\ ~t.late
  /\ t.pc \in Throttling => /\ t.todo # {} /\ t.policy = <<First(t.todo)>>
                            /\ Decision(First(t.todo)) = "throttle"
  /\ t.pc = "held" => Says(t.v, t.passed, c) = "require_approval"

(* An entry of the log is as the version it names says.                    *)
EntrySound(e, s, c) ==
  /\ e.fate = "allowed" => Says(e.v, e.passed, c) = "allow"
  /\ e.fate = "approved" => Says(e.v, e.passed, c) = "require_approval"
  /\ e.fate = "observed" => Says(e.v, e.passed, c) = "steer" /\ s \in {"langgraph", "agents_hook"}
  /\ e.fate = "stopped" => Says(e.v, e.passed, c) # "allow"
  /\ FailClosed /\ e.fate \in {"allowed", "approved", "observed", "stopped"} => e.v \in Versions /\ ~e.late

Logged(t, c) == \A i \in DOMAIN t.log : EntrySound(t.log[i], t.path[i], c)

Sound(t, c) == Progress(t) /\ Walked(t, c) /\ Logged(t, c)

(* What a call has found fresh is still fresh when it copies the cache.    *)
CacheCurrent ==
  /\ cache.stamp = cache.got /\ cache.got <= now
  /\ cache.got \in Times => cache.v \in Versions
  /\ \A c \in Calls : call[c].pc = "copy" => /\ call[c].read <= now
                                             /\ FailClosed => call[c].read - cache.got <= MaxStale

(* A reference a call has found is to a bucket that was made.              *)
Placed == \A c \in Calls : call[c].pc \in {"shape", "take"} => call[c].ref \in 1..Len(bucket)

Inductive == TypeOK /\ CacheCurrent /\ Placed /\ \A c \in Calls : Sound(call[c], c)

(* The buckets: the store and the calls refer to buckets of their key.     *)
References ==
  /\ \A k \in Keys : store.of[k] # 0 => bucket[store.of[k]].key = k
  /\ \A c \in Calls : call[c].pc \in {"shape", "take"} => bucket[call[c].ref].key = KeyOf(c)

(* A bucket has the capacity and the rate that a version gives its policy. *)
ShapeOf(b) == \E v \in Versions : b.key[1] \in v.list /\ b.limit = v.limit /\ b.refill = v.refill

Shaped == \A i \in DOMAIN bucket : ShapeOf(bucket[i])

(* A call takes one token of a policy at one hook: the policies it has     *)
(* taken one of, at the hook it is at.                                     *)
Checking == {"halt", "fresh", "copy", "walk"} \cup Throttling

Used(t) == t.passed \cup (IF t.pc \in {"prune", "drop"} THEN {t.policy[1]} ELSE {})

TakenOnce ==
  \A a \in admitted :
    LET t == call[a[3]] IN
    a[4] <= t.at /\ (a[4] = t.at /\ t.pc \in Checking => a[1][1] \in Used(t))

Since(A, k, s) == {a \in A : a[1] = k /\ a[2] > s}

(* What a version may refill of the throttle p in a second, at the least.  *)
Refills(p) == {v.refill : v \in {w \in Versions : p \in w.list}}
LeastRefill(p) == CHOOSE n \in Refills(p) : \A m \in Refills(p) : n <= m

(* Whenever one looks back to s, what is in a bucket and what has been     *)
(* taken since then is the smallest full bucket, or the slowest refill     *)
(* since.                                                                  *)
Due(p, t, s) == Smaller(Full(LeastLimit(p)), LeastRefill(p) * (t - s))

Covers(b, A, s) == b.tokens + Unit * Cardinality(Since(A, b.key, s)) >= Due(b.key[1], b.refilled, s)

Credit == \A i \in DOMAIN bucket : \A s \in -Window..MaxTime : Covers(bucket[i], admitted, s)

Accounted == IsFiniteSet(admitted) /\ References /\ Shaped /\ TakenOnce /\ Credit

-----------------------------------------------------------------------------
(* The model's operators.                                                  *)

(* A list has a policy of the highest rank: the sets of higher ones, of    *)
(* which each is smaller than those of the policies in it, are finite.     *)
LEMMA FirstIsThere ==
  ASSUME NEW L \in SUBSET Policies, L # {}
  PROVE  First(L) \in L
<1> DEFINE Higher(p) == {q \in L : Rank[p] < Rank[q]}
<1> DEFINE T == {Higher(p) : p \in L}
<1>1. IsFiniteSet(L)
  BY EnforcementAssumption, FS_Subset
<1>2. IsWellFoundedOn(StrictSubsetOrdering(L), FiniteSubsetsOf(L))
  BY <1>1, FS_StrictSubsetOrderingWellFounded
<1>3. T \subseteq FiniteSubsetsOf(L) /\ T # {}
  <2>1. FiniteSubsetsOf(L) = SUBSET L
    BY <1>1, FS_FiniteSubsetsOfFinite
  <2>2. \A p \in L : Higher(p) \in SUBSET L
    OBVIOUS
  <2>3. T \subseteq SUBSET L
    <3> HIDE DEF Higher
    <3> QED BY <2>2
  <2>4. T # {}
    OBVIOUS
  <2>5. QED
    BY <2>1, <2>3, <2>4
<1>4. PICK S \in T : \A R \in T : <<R, S>> \notin StrictSubsetOrdering(L)
  <2> HIDE DEF T
  <2> QED BY <1>2, <1>3, WFMin
<1>5. PICK p \in L : S = Higher(p)
  BY <1>4
<1>6. ASSUME NEW q \in L PROVE Rank[q] <= Rank[p]
  <2>1. SUFFICES ASSUME Rank[p] < Rank[q] PROVE FALSE
    BY EnforcementAssumption
  <2>2. Higher(q) \subseteq Higher(p) /\ q \in Higher(p) /\ q \notin Higher(q)
    BY <2>1, EnforcementAssumption
  <2>3. <<Higher(q), S>> \in StrictSubsetOrdering(L)
    BY <2>2, <1>5 DEF StrictSubsetOrdering
  <2>4. QED
    BY <2>3, <1>4
<1>7. QED
  BY <1>6 DEF First

LEMMA Bounds ==
  /\ MaxTime \in Nat /\ MaxChanges \in Nat /\ MaxFaults \in Nat /\ MaxStale \in Nat /\ FailClosed \in BOOLEAN
  /\ Window \in Nat \ {0} /\ Unit \in Nat \ {0}
BY EnforcementAssumption

LEMMA LeastIs ==
  ASSUME NEW T \in SUBSET Nat, T # {}
  PROVE  \E n \in T : \A m \in T : n <= m
<1>1. PICK n \in T : \A m \in T : <<m, n>> \notin OpToRel(<, Nat)
  BY NatLessThanWellFounded, WFMin
<1>2. OpToRel(<, Nat) = {ss \in Nat \X Nat : ss[1] < ss[2]}
  BY DEF OpToRel
<1>3. ASSUME NEW m \in T PROVE n <= m
  <2>1. SUFFICES ASSUME m < n PROVE FALSE
    OBVIOUS
  <2>2. <<m, n>> \in {ss \in Nat \X Nat : ss[1] < ss[2]}
    BY <2>1
  <2>3. QED
    BY <1>1, <1>2, <2>2
<1>4. QED
  BY <1>3

LEMMA Products ==
  ASSUME NEW x \in Nat, NEW a \in Nat, NEW b \in Nat, a <= b
  PROVE  x * a <= x * b /\ x * a \in Nat
<1>1. PICK d \in Nat : b = a + d
  <2>1. b - a \in Nat /\ b = a + (b - a)
    OBVIOUS
  <2>2. QED
    BY <2>1
<1>2. x * b = x * a + x * d
  BY <1>1
<1>3. x * d \in Nat /\ x * a \in Nat
  OBVIOUS
<1>4. QED
  BY <1>2, <1>3

(* A version of the policies: its limit refills within its window.         *)
LEMMA VersionFields ==
  ASSUME NEW v \in Versions
  PROVE  /\ v.limit \in Nat \ {0} /\ v.refill \in Nat /\ v.window \in 1..Window
         /\ v.refill * v.window = Full(v.limit)
  BY EnforcementAssumption, RefillAssumption DEF Full

(* Of the versions with a throttle, one has the least limit, at least one  *)
(* call, and one the slowest refill; this one is full within the longest   *)
(* window.                                                                 *)
LEMMA LeastOfPolicy ==
  ASSUME NEW v \in Versions, NEW p \in v.list
  PROVE  /\ LeastLimit(p) \in Nat \ {0} /\ LeastLimit(p) <= v.limit
         /\ LeastRefill(p) \in Nat /\ LeastRefill(p) <= v.refill
         /\ Full(LeastLimit(p)) \in Nat /\ Full(LeastLimit(p)) <= Full(v.limit) /\ Full(v.limit) \in Nat
         /\ Full(LeastLimit(p)) <= LeastRefill(p) * Window
<1>1. Window \in Nat /\ Unit \in Nat
  BY EnforcementAssumption
<1>2. v.limit \in Limits(p) /\ Limits(p) \subseteq Nat \ {0}
  BY VersionFields DEF Limits
<1>3. v.refill \in Refills(p) /\ Refills(p) \subseteq Nat
  BY VersionFields DEF Refills
<1>4. LeastLimit(p) \in Limits(p) /\ \A m \in Limits(p) : LeastLimit(p) <= m
  BY <1>2, LeastIs DEF LeastLimit
<1>5. LeastRefill(p) \in Refills(p) /\ \A m \in Refills(p) : LeastRefill(p) <= m
  BY <1>3, LeastIs DEF LeastRefill
<1>6. /\ LeastLimit(p) \in Nat \ {0} /\ LeastLimit(p) <= v.limit /\ v.limit \in Nat
      /\ LeastRefill(p) \in Nat /\ LeastRefill(p) <= v.refill
  BY <1>2, <1>3, <1>4, <1>5
<1>7. ASSUME NEW a \in Nat, NEW b \in Nat, a <= b
      PROVE  Full(a) <= Full(b) /\ Full(a) \in Nat /\ Full(b) \in Nat
  <2>1. Unit * a <= Unit * b /\ Unit * a \in Nat /\ Unit * b \in Nat
    BY <1>1, <1>7, Products
  <2>2. a * Unit = Unit * a /\ b * Unit = Unit * b
    BY <1>1
  <2>3. QED
    BY <2>1, <2>2 DEF Full
<1>8. Full(LeastLimit(p)) <= LeastRefill(p) * Window
  <2>1. PICK w \in Versions : p \in w.list /\ LeastRefill(p) = w.refill
    BY <1>5 DEF Refills
  <2>2. w.limit \in Limits(p) /\ w.limit \in Nat /\ w.refill \in Nat /\ w.window \in Nat /\ w.window <= Window
        /\ w.refill * w.window = Full(w.limit)
    BY <1>1, <2>1, VersionFields DEF Limits
  <2>3. LeastLimit(p) <= w.limit
    BY <1>4, <2>2
  <2>4. Full(LeastLimit(p)) <= Full(w.limit) /\ Full(LeastLimit(p)) \in Nat /\ Full(w.limit) \in Nat
    BY <1>6, <1>7, <2>2, <2>3
  <2>5. w.refill * w.window <= w.refill * Window
    BY <1>1, <2>2, Products
  <2>6. w.refill * Window \in Nat
    BY <1>1, <2>2
  <2>7. QED
    BY <2>1, <2>2, <2>4, <2>5, <2>6
<1>9. QED
  BY <1>6, <1>7, <1>8

(* What a hook may do with a decision.                                     *)
LEMMA Outcomes ==
  ASSUME NEW s \in Surfaces, NEW d \in Decisions
  PROVE  LET out == Outcome(s, d) IN
         /\ out.then \in {"run", "raise", "answer", "hold"} /\ out.mark \in Marks \cup {"none"}
         /\ out.then = "run" => /\ out.mark \notin Stops
                                /\ d = "allow" \/ (d = "steer" /\ s \in {"langgraph", "agents_hook"})
         /\ out.then = "hold" => d = "require_approval" /\ out.mark \notin Stops
         /\ d = "allow" => out.then = "run"
<1> USE DEF Decisions, Stops, Marks, Go, Run, Raise, Answer, Hold
<1>1. CASE s \in {"dispatch", "dispatch_async", "crewai"}
  BY <1>1 DEF Outcome, Dispatch, DispatchAsync, CrewTool
<1>2. CASE s = "langgraph"
  BY <1>2 DEF Outcome, LangGraphTool
<1>3. CASE s = "agents_hook"
  BY <1>3 DEF Outcome, AgentsHook
<1>4. CASE s = "agents_guardrail"
  BY <1>4 DEF Outcome, AgentsGuardrail
<1>5. CASE s = "google_adk"
  BY <1>5 DEF Outcome, AdkTool
<1>6. CASE s = "pydantic_ai"
  BY <1>6 DEF Outcome, PydanticTool
<1>7. CASE s = "claude"
  BY <1>7 DEF Outcome, ClaudeTool
<1>8. CASE s = "autogen"
  BY <1>8 DEF Outcome, AutogenTool
<1>9. QED
  BY <1>1, <1>2, <1>3, <1>4, <1>5, <1>6, <1>7, <1>8 DEF Surfaces

LEMMA AfterWaits ==
  ASSUME NEW s \in Surfaces, NEW granted \in BOOLEAN
  PROVE  LET out == AfterWait(s, granted) IN
         /\ out.then = IF granted THEN "run" ELSE out.then
         /\ out.then \in {"run", "raise", "answer"} /\ out.mark \in Marks \cup {"none"}
         /\ out.then = "run" => granted /\ out.mark \notin Stops
BY DEF AfterWait, Go, Run, Raise, Answer, Marks, Stops

LEMMA DecisionIsOne ==
  ASSUME NEW p
  PROVE  Decision(p) \in Decisions
BY DEF Decision, Decisions

LEMMA ThreadFields ==
  ASSUME NEW t \in Thread
  PROVE  /\ t.pc \in {"halt", "fresh", "copy", "walk", "look", "make", "shape", "take", "prune", "drop", "held",
                     "ran", "stopped"}
         /\ t.path \in Seq(Surfaces) /\ t.at \in Nat \ {0} /\ t.v \in Versions \cup {Unloaded} /\ t.late \in BOOLEAN
         /\ t.todo \in SUBSET Policies /\ t.passed \in SUBSET Policies
         /\ t.policy \in {<<>>} \cup {<<p>> : p \in Policies}
         /\ t.read \in Times /\ t.ref \in Nat /\ t.ok \in BOOLEAN /\ t.log \in Seq(Entry) /\ t.marks \in SUBSET Marks
BY DEF Thread

(* A thread that is held keeps what it has copied.                         *)
LEMMA Held ==
  ASSUME NEW t \in Thread, NEW fate, NEW out, out.then = "hold", out.mark \in Marks \cup {"none"}
  PROVE  LET u == Follow(t, out, fate) IN
         /\ u \in Thread /\ u.path = t.path /\ u.marks = t.marks \cup ({out.mark} \ {"none"})
         /\ u.pc = "held" /\ u.at = t.at /\ u.log = t.log
         /\ u.v = t.v /\ u.late = t.late /\ u.todo = t.todo /\ u.passed = t.passed
<1> DEFINE marks == t.marks \cup ({out.mark} \ {"none"})
           u == Follow(t, out, fate)
<1>1. marks \in SUBSET Marks
  BY ThreadFields
<1>2. u = [t EXCEPT !.pc = "held", !.marks = marks]
  BY DEF Follow
<1> HIDE DEF u, marks
<1>3. u \in Thread /\ u.path = t.path /\ u.marks = marks /\ u.pc = "held" /\ u.at = t.at /\ u.log = t.log
      /\ u.v = t.v /\ u.late = t.late /\ u.todo = t.todo /\ u.passed = t.passed
  BY <1>2, <1>1, ThreadFields DEF Thread
<1>4. QED
  BY <1>3 DEF u, marks

(* One that has ended its check at a hook goes on to the next hook, to the *)
(* tool, or no further.                                                    *)
LEMMA Followed ==
  ASSUME NEW t \in Thread, t.at <= Len(t.path), NEW fate \in Fates,
         NEW out, out.then \in {"run", "raise", "answer"}, out.mark \in Marks \cup {"none"}
  PROVE  LET u == Follow(t, out, fate) IN
         /\ u \in Thread /\ u.path = t.path /\ u.marks = t.marks \cup ({out.mark} \ {"none"})
         /\ u.log = Append(t.log, [v |-> t.v, late |-> t.late, passed |-> t.passed, fate |-> fate])
         /\ u.passed = {}
         /\ u.pc = IF out.then # "run" THEN "stopped" ELSE IF t.at < Len(t.path) THEN "halt" ELSE "ran"
         /\ u.at = IF u.pc = "halt" THEN t.at + 1 ELSE t.at
<1> DEFINE e == [v |-> t.v, late |-> t.late, passed |-> t.passed, fate |-> fate]
           log == Append(t.log, e)
           marks == t.marks \cup ({out.mark} \ {"none"})
           u == Follow(t, out, fate)
           pc == IF out.then # "run" THEN "stopped" ELSE IF t.at < Len(t.path) THEN "halt" ELSE "ran"
           at == IF pc = "halt" THEN t.at + 1 ELSE t.at
<1>1. e \in Entry
  BY ThreadFields DEF Entry
<1>2. log \in Seq(Entry)
  <2> HIDE DEF e
  <2> QED BY <1>1, ThreadFields
<1>3. marks \in SUBSET Marks
  BY ThreadFields
<1>4. u = Stage(pc, t.path, at, marks, log)
  <2> HIDE DEF log, marks
  <2> QED BY DEF Follow, log, marks, e
<1>5. 0 \in Times /\ pc \in {"stopped", "halt", "ran"} /\ at \in Nat \ {0}
  BY EnforcementAssumption, ThreadFields DEF Times
<1> HIDE DEF pc, at, log, marks, u
<1>6. u \in Thread /\ u.path = t.path /\ u.marks = marks /\ u.log = log /\ u.passed = {} /\ u.pc = pc /\ u.at = at
  BY <1>2, <1>3, <1>4, <1>5, ThreadFields DEF Stage, Thread
<1>7. QED
  BY <1>6 DEF pc, at, log, marks, u, e

(* Either way it is a thread of the same hooks.                            *)
LEMMA Stays ==
  ASSUME NEW t \in Thread, t.at <= Len(t.path), NEW fate \in Fates,
         NEW out, out.then \in {"run", "raise", "answer", "hold"}, out.mark \in Marks \cup {"none"}
  PROVE  LET u == Follow(t, out, fate) IN
         u \in Thread /\ u.path = t.path /\ u.pc \notin {"copy", "shape", "take"} /\ u.at <= Len(u.path)
<1> DEFINE u == Follow(t, out, fate)
<1>1. t.at \in Nat /\ Len(t.path) \in Nat
  BY ThreadFields
<1>2. CASE out.then = "hold"
  BY <1>2, Held
<1>3. CASE out.then # "hold"
  <2>1. /\ u \in Thread /\ u.path = t.path /\ u.marks = t.marks \cup ({out.mark} \ {"none"})
        /\ u.log = Append(t.log, [v |-> t.v, late |-> t.late, passed |-> t.passed, fate |-> fate])
        /\ u.passed = {}
        /\ u.pc = IF out.then # "run" THEN "stopped" ELSE IF t.at < Len(t.path) THEN "halt" ELSE "ran"
        /\ u.at = IF u.pc = "halt" THEN t.at + 1 ELSE t.at
    BY <1>3, Followed
  <2> HIDE DEF u
  <2>2. u \in Thread /\ u.path = t.path /\ u.pc \notin {"copy", "shape", "take"} /\ u.at <= Len(u.path)
    BY <2>1, <1>1
  <2>3. QED
    BY <2>2 DEF u
<1>4. QED
  BY <1>2, <1>3

-----------------------------------------------------------------------------
(* The threads.                                                            *)

(* A thread that ends its check at a hook is sound if the entry it leaves  *)
(* in the log is.                                                          *)
LEMMA FollowSound ==
  ASSUME NEW c \in Calls, NEW t \in Thread, t.at <= Len(t.path), t.pc \notin {"ran", "stopped"},
         Progress(t), Logged(t, c), NEW fate \in Fates,
         NEW out, out.then \in {"run", "raise", "answer"}, out.mark \in Marks \cup {"none"},
         out.then = "run" => fate \in Passes /\ out.mark \notin Stops,
         EntrySound([v |-> t.v, late |-> t.late, passed |-> t.passed, fate |-> fate], t.path[t.at], c)
  PROVE  Sound(Follow(t, out, fate), c)
<1> DEFINE e == [v |-> t.v, late |-> t.late, passed |-> t.passed, fate |-> fate]
           u == Follow(t, out, fate)
<1>1. /\ u.path = t.path /\ u.marks = t.marks \cup ({out.mark} \ {"none"}) /\ u.passed = {}
      /\ u.log = Append(t.log, e)
      /\ u.pc = IF out.then # "run" THEN "stopped" ELSE IF t.at < Len(t.path) THEN "halt" ELSE "ran"
      /\ u.at = IF u.pc = "halt" THEN t.at + 1 ELSE t.at
  BY Followed
<1>2. /\ t.log \in Seq(Entry) /\ t.at \in Nat \ {0} /\ t.path \in Seq(Surfaces) /\ Len(t.log) = t.at - 1
      /\ e.fate = fate
  BY ThreadFields DEF Progress
<1> HIDE DEF e, u
<1>3. /\ Len(u.log) = t.at /\ DOMAIN u.log = 1 .. t.at /\ DOMAIN t.log = 1 .. t.at - 1
      /\ u.log[t.at] = e /\ \A i \in 1 .. t.at - 1 : u.log[i] = t.log[i]
  BY <1>1, <1>2
<1>4. Progress(u)
  <2>1. Len(u.log) = IF u.pc \in {"ran", "stopped"} THEN u.at ELSE u.at - 1
    BY <1>1, <1>2, <1>3
  <2>2. u.pc = "ran" => u.at = Len(u.path)
    BY <1>1, <1>2
  <2>3. ASSUME u.pc # "stopped" PROVE u.marks \cap Stops = {} /\ \A i \in DOMAIN u.log : u.log[i].fate \in Passes
    <3>1. out.then = "run"
      BY <2>3, <1>1
    <3>2. t.marks \cap Stops = {} /\ \A i \in DOMAIN t.log : t.log[i].fate \in Passes
      BY DEF Progress
    <3>3. u.marks \cap Stops = {}
      BY <3>1, <3>2, <1>1
    <3>4. ASSUME NEW i \in 1 .. t.at PROVE u.log[i].fate \in Passes
      <4>1. CASE i = t.at
        <5>1. u.log[i] = e /\ fate \in Passes
          BY <4>1, <3>1, <1>3
        <5>2. QED
          BY <5>1, <1>2
      <4>2. CASE i # t.at
        <5>1. i \in 1 .. t.at - 1
          BY <4>2, <1>2
        <5>2. u.log[i] = t.log[i] /\ i \in DOMAIN t.log
          BY <5>1, <1>3
        <5>3. QED
          BY <5>2, <3>2
      <4>3. QED
        BY <4>1, <4>2
    <3>5. QED
      BY <3>3, <3>4, <1>3
  <2>4. QED
    BY <2>1, <2>2, <2>3 DEF Progress
<1>5. Walked(u, c)
  BY <1>1 DEF Walked, Walking, Throttling
<1>6. Logged(u, c)
  <2>1. ASSUME NEW i \in 1 .. t.at PROVE EntrySound(u.log[i], u.path[i], c)
    <3>1. CASE i = t.at
      BY <3>1, <1>1, <1>3 DEF e
    <3>2. CASE i # t.at
      BY <3>2, <1>1, <1>2, <1>3 DEF Logged
    <3>3. QED
      BY <3>1, <3>2
  <2>2. QED
    BY <2>1, <1>3 DEF Logged
<1>7. QED
  BY <1>4, <1>5, <1>6 DEF Sound, u

(* What a hook does with the decision of the version it has copied.        *)
LEMMA ActSound ==
  ASSUME NEW c \in Calls, NEW t \in Thread, t.at <= Len(t.path), t.pc \notin {"ran", "stopped"},
         Progress(t), Logged(t, c), t.todo = Relevant(t.v.list, c) \ t.passed,
         FailClosed => t.v \in Versions /\ ~t.late,
         NEW d \in Decisions, d = Says(t.v, t.passed, c)
  PROVE  Sound(ActOn(t, d), c)
<1> DEFINE s == t.path[t.at]
           out == Outcome(s, d)
           fate == Fate(out, d)
           e == [v |-> t.v, late |-> t.late, passed |-> t.passed, fate |-> fate]
           u == ActOn(t, d)
<1>1. s \in Surfaces
  BY ThreadFields
<1>2. /\ out.then \in {"run", "raise", "answer", "hold"} /\ out.mark \in Marks \cup {"none"}
      /\ out.then = "run" => /\ out.mark \notin Stops
                             /\ d = "allow" \/ (d = "steer" /\ s \in {"langgraph", "agents_hook"})
      /\ out.then = "hold" => d = "require_approval" /\ out.mark \notin Stops
      /\ d = "allow" => out.then = "run"
  <2> HIDE DEF s
  <2> QED BY <1>1, Outcomes
<1>3. u = Follow(t, out, fate)
  BY DEF ActOn
<1> HIDE DEF s, out, u
<1>4. /\ fate \in {"stopped", "allowed", "observed"}
      /\ fate = "stopped" => out.then # "run"
      /\ out.then = "run" => fate = IF d = "allow" THEN "allowed" ELSE "observed"
      /\ out.then # "run" => fate = "stopped"
  <2>1. CASE out.then # "run"
    BY <2>1 DEF Fate
  <2>2. CASE out.then = "run" /\ d = "allow"
    BY <2>2 DEF Fate
  <2>3. CASE out.then = "run" /\ d # "allow"
    BY <2>3 DEF Fate
  <2>4. QED
    BY <2>1, <2>2, <2>3
<1> HIDE DEF fate
<1>5. fate \in Fates /\ (out.then = "run" => fate \in Passes)
  BY <1>4 DEF Fates, Passes
<1>6. EntrySound(e, s, c)
  BY <1>2, <1>4 DEF EntrySound
<1>7. CASE out.then = "hold"
  <2>1. /\ u.path = t.path /\ u.marks = t.marks \cup ({out.mark} \ {"none"}) /\ u.pc = "held" /\ u.at = t.at
        /\ u.log = t.log /\ u.v = t.v /\ u.late = t.late /\ u.todo = t.todo /\ u.passed = t.passed
    BY <1>2, <1>3, <1>7, Held
  <2>2. Progress(u)
    BY <2>1, <1>2, <1>7 DEF Progress
  <2>3. Walked(u, c)
    BY <2>1, <1>2, <1>7 DEF Walked, Walking, Throttling
  <2>4. Logged(u, c)
    BY <2>1 DEF Logged
  <2>5. QED
    BY <2>2, <2>3, <2>4 DEF Sound, u
<1>8. CASE out.then # "hold"
  <2> HIDE DEF e
  <2>1. Sound(Follow(t, out, fate), c)
    BY <1>2, <1>5, <1>6, <1>8, FollowSound DEF e, s
  <2>2. QED
    BY <2>1, <1>3 DEF u
<1>9. QED
  BY <1>7, <1>8

(* A step of one thread that leaves it sound keeps everything.             *)
LEMMA CallStep ==
  ASSUME Inductive, NEW c \in Calls, NEW u \in Thread, call' = [call EXCEPT ![c] = u],
         u.path = call[c].path, u.at <= Len(u.path), Sound(u, c),
         u.pc = "copy" => u.read <= now /\ (FailClosed => u.read - cache.got <= MaxStale),
         u.pc \in {"shape", "take"} => u.ref \in 1..Len(bucket'), Len(bucket) <= Len(bucket'),
         Same, bucket' \in Seq(Bucket),
         store' \in [of : [Keys -> 0..Len(bucket')], pruned : Times \cup {-PruneInterval}],
         admitted' \subseteq Keys \X Times \X Calls \X Nat, faults' \in 0..MaxFaults
  PROVE  Inductive'
<1>1. call \in [Calls -> Thread]
  BY DEF Inductive, TypeOK
<1>2. \A d \in Calls : call'[d] = IF d = c THEN u ELSE call[d]
  BY <1>1
<1>3. call' \in [Calls -> Thread]
  BY <1>1
<1>4. TypeOK'
  BY <1>2, <1>3 DEF Inductive, TypeOK, Same
<1>5. CacheCurrent'
  BY <1>2 DEF Inductive, CacheCurrent, Same
<1>6. Placed'
  <2>1. SUFFICES ASSUME NEW d \in Calls, call'[d].pc \in {"shape", "take"} PROVE call'[d].ref \in 1..Len(bucket')
    BY DEF Placed
  <2>2. CASE d = c
    BY <1>2, <2>1, <2>2
  <2>3. CASE d # c
    <3>1. call[d].ref \in 1..Len(bucket) /\ Len(bucket) \in Nat /\ Len(bucket') \in Nat
      BY <1>1, <1>2, <2>1, <2>3 DEF Inductive, Placed, TypeOK
    <3>2. QED
      BY <1>2, <2>3, <3>1
  <2>4. QED
    BY <2>2, <2>3
<1>7. \A d \in Calls : Sound(call'[d], d)
  BY <1>2 DEF Inductive
<1>8. QED
  BY <1>4, <1>5, <1>6, <1>7 DEF Inductive

(* What the steps of a thread that keep the buckets leave alone.           *)
LEMMA Alone ==
  ASSUME Inductive, UNCHANGED <<bucket, store, admitted>>
  PROVE  /\ bucket' \in Seq(Bucket)
         /\ store' \in [of : [Keys -> 0..Len(bucket')], pruned : Times \cup {-PruneInterval}]
         /\ admitted' \subseteq Keys \X Times \X Calls \X Nat
         /\ Len(bucket) <= Len(bucket')
BY DEF Inductive, TypeOK

(* The thread of a call.                                                   *)
LEMMA CallIsSound ==
  ASSUME Inductive, NEW c \in Calls
  PROVE  /\ call[c] \in Thread /\ call[c].at <= Len(call[c].path)
         /\ Progress(call[c]) /\ Walked(call[c], c) /\ Logged(call[c], c)
BY DEF Inductive, TypeOK, Sound

(* A thread that ends its check at a hook without a decision of its own.   *)
LEMMA Ended ==
  ASSUME Inductive, NEW c \in Calls, call[c].pc \notin {"ran", "stopped"},
         NEW fate \in Fates,
         fate \in {"halted", "unreachable", "error"} \/ (fate \in {"approved", "stopped"} /\ call[c].pc = "held"),
         NEW out, out.then \in {"run", "raise", "answer"}, out.mark \in Marks \cup {"none"},
         out.then = "run" => fate \in {"error", "approved"} /\ out.mark \notin Stops
  PROVE  LET u == Follow(call[c], out, fate) IN
         u \in Thread /\ u.path = call[c].path /\ u.pc \notin {"copy", "shape", "take"} /\ u.at <= Len(u.path) /\ Sound(u, c)
<1> DEFINE t == call[c]
           u == Follow(t, out, fate)
           e == [v |-> t.v, late |-> t.late, passed |-> t.passed, fate |-> fate]
<1>1. t \in Thread /\ t.at <= Len(t.path) /\ Progress(t) /\ Logged(t, c) /\ Walked(t, c)
  BY CallIsSound
<1>2. (out.then = "run" => fate \in Passes)
  BY DEF Fates, Passes
<1>3. EntrySound(e, t.path[t.at], c)
  <2>1. CASE fate \in {"halted", "unreachable", "error"}
    BY <2>1 DEF EntrySound
  <2>2. CASE fate \in {"approved", "stopped"} /\ t.pc = "held"
    <3>1. Says(t.v, t.passed, c) = "require_approval" /\ (FailClosed => t.v \in Versions /\ ~t.late)
      BY <1>1, <2>2 DEF Walked, Walking
    <3>2. QED
      BY <3>1, <2>2 DEF EntrySound
  <2>3. QED
    BY <2>1, <2>2
<1>4. u \in Thread /\ u.path = t.path /\ u.pc \notin {"copy", "shape", "take"} /\ u.at <= Len(u.path)
  <2> HIDE DEF t
  <2> QED BY <1>1, <1>2, Stays
<1>5. Sound(u, c)
  BY <1>1, <1>2, <1>3, FollowSound
<1>6. QED
  BY <1>4, <1>5

(* A thread that acts on what its version says.                            *)
LEMMA ActStep ==
  ASSUME Inductive, NEW c \in Calls, NEW t \in Thread, t.path = call[c].path, t.at = call[c].at,
         t.pc \notin {"ran", "stopped"}, Progress(t), Logged(t, c), t.todo = Relevant(t.v.list, c) \ t.passed,
         FailClosed => t.v \in Versions /\ ~t.late,
         NEW d \in Decisions, d = Says(t.v, t.passed, c),
         call' = [call EXCEPT ![c] = ActOn(t, d)], Same, bucket' = bucket,
         store' \in [of : [Keys -> 0..Len(bucket')], pruned : Times \cup {-PruneInterval}],
         admitted' = admitted, faults' = faults
  PROVE  Inductive'
<1> DEFINE s == t.path[t.at]
           out == Outcome(s, d)
           fate == Fate(out, d)
           u == ActOn(t, d)
<1>1. s \in Surfaces /\ t.at <= Len(t.path) /\ t.at \in Nat /\ Len(t.path) \in Nat
  BY CallIsSound, ThreadFields
<1>2. out.then \in {"run", "raise", "answer", "hold"} /\ out.mark \in Marks \cup {"none"}
  <2> HIDE DEF s
  <2> QED BY <1>1, Outcomes
<1>3. u = Follow(t, out, fate)
  BY DEF ActOn
<1>4. fate \in Fates
  BY DEF Fate, Fates
<1>5. Sound(u, c)
  BY <1>1, ActSound
<1>6. call' = [call EXCEPT ![c] = u]
  OBVIOUS
<1> HIDE DEF u, out, fate, s
<1>7. u \in Thread /\ u.path = t.path /\ u.pc \notin {"copy", "shape", "take"} /\ u.at <= Len(u.path)
  <2>1. /\ Follow(t, out, fate) \in Thread /\ Follow(t, out, fate).path = t.path
        /\ Follow(t, out, fate).pc \notin {"copy", "shape", "take"} /\ Follow(t, out, fate).at <= Len(Follow(t, out, fate).path)
    BY <1>1, <1>2, <1>4, Stays
  <2>2. QED
    BY <2>1, <1>3
<1>8. /\ bucket' \in Seq(Bucket) /\ admitted' \subseteq Keys \X Times \X Calls \X Nat
      /\ faults' \in 0..MaxFaults /\ Len(bucket) <= Len(bucket')
  BY DEF Inductive, TypeOK
<1>9. QED
  BY <1>5, <1>6, <1>7, <1>8, CallStep

(* What a throttle policy counts by is a key.                              *)
LEMMA KeyIsOne ==
  ASSUME Inductive, NEW c \in Calls, call[c].pc \in Throttling
  PROVE  /\ KeyOf(c) \in Keys /\ KeyOf(c)[1] = First(call[c].todo)
         /\ call[c].policy = <<First(call[c].todo)>>
         /\ First(call[c].todo) \in call[c].todo /\ First(call[c].todo) \in Policies
<1> DEFINE p == First(call[c].todo)
<1>1. call[c].todo \in SUBSET Policies /\ call[c].todo # {} /\ call[c].policy = <<p>>
  BY CallIsSound, ThreadFields DEF Walked
<1>2. p \in call[c].todo /\ p \in Policies
  BY <1>1, FirstIsThere
<1> HIDE DEF p
<1>3. KeyOf(c) = <<p, Key[p][c]>>
  BY <1>1 DEF KeyOf
<1>4. QED
  BY <1>1, <1>2, <1>3 DEF Keys, p

LEMMA InitInductive ==
  ASSUME Init
  PROVE  Inductive
<1>1. PICK f \in [Calls -> UNION {PathsOf[c] : c \in Calls}] :
        /\ \A c \in Calls : f[c] \in PathsOf[c]
        /\ call = [c \in Calls |-> Stage("halt", f[c], 1, {}, <<>>)]
  BY DEF Init
<1>2. ASSUME NEW c \in Calls
      PROVE  /\ call[c] \in Thread /\ call[c].path \in PathsOf[c] /\ call[c].at <= Len(call[c].path)
             /\ call[c].pc = "halt" /\ Sound(call[c], c)
  <2>1. f[c] \in Seq(Surfaces) /\ f[c] # <<>> /\ 0 \in Times
    BY <1>1, EnforcementAssumption DEF Times
  <2>2. call[c] = Stage("halt", f[c], 1, {}, <<>>)
    BY <1>1
  <2>3. /\ call[c].pc = "halt" /\ call[c].path = f[c] /\ call[c].at = 1 /\ call[c].log = <<>>
        /\ call[c].marks = {} /\ call[c].passed = {}
    BY <2>2 DEF Stage
  <2>4. <<>> \in Seq(Entry) /\ {} \in SUBSET Marks
    OBVIOUS
  <2>5. call[c] \in Thread
    BY <2>1, <2>2, <2>4 DEF Stage, Thread
  <2>6. Progress(call[c]) /\ Walked(call[c], c) /\ Logged(call[c], c)
    BY <2>3 DEF Progress, Walked, Logged, Walking, Throttling
  <2>7. QED
    BY <1>1, <2>1, <2>3, <2>5, <2>6 DEF Sound
<1>3. TypeOK
  <2>1. call \in [Calls -> Thread]
    BY <1>1, <1>2
  <2>2. store \in [of : [Keys -> 0..Len(bucket)], pruned : Times \cup {-PruneInterval}]
    BY DEF Init
  <2>3. now \in Times /\ changes \in 0..MaxChanges /\ faults \in 0..MaxFaults
    BY EnforcementAssumption DEF Init, Times
  <2>4. bucket = <<>> /\ admitted = {} /\ published \in Versions /\ halted \in BOOLEAN
    BY DEF Init
  <2>5. bucket \in Seq(Bucket) /\ admitted \subseteq Keys \X Times \X Calls \X Nat
    BY <2>4
  <2>6. cache \in [v : Versions \cup {Unloaded}, stamp : Times \cup {LongAgo}, got : Times \cup {LongAgo}]
    BY DEF Init
  <2>7. refresh \in [pc : {"idle"}] \cup [pc : {"served"}, v : Versions]
    BY DEF Init
  <2>8. QED
    BY <1>2, <2>1, <2>2, <2>3, <2>4, <2>5, <2>6, <2>7 DEF TypeOK
<1>4. CacheCurrent
  <2>1. cache.stamp = LongAgo /\ cache.got = LongAgo /\ now = 0
    BY DEF Init
  <2>2. LongAgo <= 0 /\ LongAgo \notin Times
    BY EnforcementAssumption DEF LongAgo, Times
  <2>3. QED
    BY <1>2, <2>1, <2>2 DEF CacheCurrent
<1>5. Placed
  BY <1>2 DEF Placed
<1>6. QED
  BY <1>2, <1>3, <1>4, <1>5 DEF Inductive

(* The steps that are not of a thread of a call.                           *)
LEMMA OtherSteps ==
  ASSUME Inductive,
         \/ \E v \in Versions : Publish(v)
         \/ HaltOrResume \/ Serve \/ Deliver \/ RefreshFails \/ Tick \/ UNCHANGED vars
  PROVE  Inductive'
<1>1. UNCHANGED <<bucket, store, call, admitted>>
  BY DEF Publish, HaltOrResume, Serve, Deliver, RefreshFails, Tick, vars
<1>2. Placed' /\ \A c \in Calls : Sound(call'[c], c)
  BY <1>1 DEF Inductive, Placed
<1> USE Bounds DEF Inductive
<1>3. CASE \E v \in Versions : Publish(v)
  BY <1>1, <1>2, <1>3 DEF Publish, TypeOK, CacheCurrent
<1>4. CASE HaltOrResume
  BY <1>1, <1>2, <1>4 DEF HaltOrResume, TypeOK, CacheCurrent
<1>5. CASE Serve
  BY <1>1, <1>2, <1>5 DEF Serve, TypeOK, CacheCurrent
<1>6. CASE Deliver
  <2>1. refresh.v \in Versions /\ now \in Times
    BY <1>6 DEF Deliver, TypeOK
  <2>2. /\ cache' = [v |-> refresh.v, stamp |-> now, got |-> now] /\ refresh' = [pc |-> "idle"]
        /\ UNCHANGED <<now, published, halted, changes, faults>>
    BY <1>6 DEF Deliver
  <2>3. TypeOK'
    BY <1>1, <2>1, <2>2 DEF TypeOK
  <2>4. cache'.stamp = now /\ cache'.got = now /\ cache'.v = refresh.v /\ now' = now
    BY <2>2
  <2>5. \A c \in Calls : call[c].pc = "copy" => call[c].read <= now /\ call[c].read - now <= MaxStale
    <3>1. SUFFICES ASSUME NEW c \in Calls, call[c].pc = "copy"
                   PROVE  call[c].read <= now /\ call[c].read - now <= MaxStale
      OBVIOUS
    <3>2. call[c].read <= now /\ call[c].read \in Times
      BY <3>1, CallIsSound, ThreadFields DEF CacheCurrent
    <3>3. QED
      BY <2>1, <3>2 DEF Times
  <2>6. CacheCurrent'
    BY <1>1, <2>1, <2>4, <2>5 DEF CacheCurrent, Times
  <2>7. QED
    BY <1>2, <2>3, <2>6
<1>7. CASE RefreshFails
  BY <1>1, <1>2, <1>7 DEF RefreshFails, TypeOK, CacheCurrent
<1>8. CASE Tick
  <2>1. now' \in Times /\ UNCHANGED <<published, halted, cache, refresh, changes, faults>>
    BY <1>8 DEF Tick, TypeOK, Times
  <2>2. now \in Nat /\ now' = now + 1 /\ UNCHANGED cache
    BY <1>8 DEF Tick, TypeOK, Times
  <2>3. CacheCurrent'
    <3>1. cache'.got <= now'
      BY <2>2 DEF CacheCurrent, TypeOK, Times, LongAgo
    <3>2. ASSUME NEW c \in Calls, call[c].pc = "copy" PROVE call[c].read <= now'
      BY <2>2, <3>2, CallIsSound, ThreadFields DEF CacheCurrent, Times
    <3>3. QED
      BY <1>1, <2>2, <3>1, <3>2 DEF CacheCurrent
  <2>4. TypeOK'
    BY <1>1, <2>1 DEF TypeOK
  <2>5. QED
    BY <1>2, <2>4, <2>3
<1>9. CASE UNCHANGED vars
  BY <1>1, <1>2, <1>9 DEF vars, TypeOK, CacheCurrent
<1>10. QED
  BY <1>3, <1>4, <1>5, <1>6, <1>7, <1>8, <1>9

(* A step inside the check at a hook leaves the log and the marks.         *)
LEMMA InsideStep ==
  ASSUME Inductive, NEW c \in Calls, NEW u \in Thread, call' = [call EXCEPT ![c] = u],
         call[c].pc \notin {"ran", "stopped"}, u.pc \notin {"ran", "stopped"},
         u.path = call[c].path, u.at = call[c].at, u.log = call[c].log, u.marks = call[c].marks, Walked(u, c),
         u.pc = "copy" => u.read <= now /\ (FailClosed => u.read - cache.got <= MaxStale),
         u.pc \in {"shape", "take"} => u.ref \in 1..Len(bucket'), Len(bucket) <= Len(bucket'),
         Same, bucket' \in Seq(Bucket),
         store' \in [of : [Keys -> 0..Len(bucket')], pruned : Times \cup {-PruneInterval}],
         admitted' \subseteq Keys \X Times \X Calls \X Nat, faults' \in 0..MaxFaults
  PROVE  Inductive'
<1>1. Progress(u) /\ Logged(u, c) /\ u.at <= Len(u.path)
  BY CallIsSound DEF Progress, Logged
<1>2. Sound(u, c)
  BY <1>1 DEF Sound
<1>3. QED
  BY <1>1, <1>2, CallStep

LEMMA CheckHaltKeeps ==
  ASSUME Inductive, NEW c \in Calls, CheckHalt(c)
  PROVE  Inductive'
<1> DEFINE t == call[c]
           u == [t EXCEPT !.pc = "fresh"]
<1>1. call[c].pc = "halt" /\ Same /\ UNCHANGED <<bucket, store, admitted, faults>>
  BY DEF CheckHalt
<1>2. faults' \in 0..MaxFaults
  BY <1>1 DEF Inductive, TypeOK
<1>3. CASE halted
  <2> DEFINE out == Halted(Surface(c))
  <2> DEFINE w == Follow(call[c], out, "halted")
  <2>1. out.then = "raise" /\ out.mark \in Marks \cup {"none"} /\ "halted" \in Fates
    BY DEF Halted, Raise, Marks, Fates, Stops
  <2>2. call' = [call EXCEPT ![c] = w]
    BY <1>3 DEF CheckHalt
  <2> HIDE DEF out
  <2>3. w \in Thread /\ w.path = call[c].path /\ w.pc \notin {"copy", "shape", "take"} /\ w.at <= Len(w.path) /\ Sound(w, c)
    BY <1>1, <2>1, Ended
  <2> HIDE DEF w
  <2>4. QED
    BY <1>1, <1>2, <2>2, <2>3, Alone, CallStep
<1>4. CASE ~halted
  <2>1. call' = [call EXCEPT ![c] = u] /\ t \in Thread /\ Walked(t, c)
    BY <1>4, CallIsSound DEF CheckHalt
  <2>2. /\ u \in Thread /\ u.pc = "fresh" /\ u.path = t.path /\ u.at = t.at /\ u.log = t.log
        /\ u.marks = t.marks /\ u.passed = t.passed
    BY <2>1 DEF Thread
  <2>3. Walked(u, c)
    BY <1>1, <2>1, <2>2 DEF Walked, Walking, Throttling
  <2> HIDE DEF u
  <2>4. QED
    BY <1>1, <1>2, <2>1, <2>2, <2>3, Alone, InsideStep
<1>5. QED
  BY <1>3, <1>4

LEMMA CheckFreshKeeps ==
  ASSUME Inductive, NEW c \in Calls, CheckFresh(c)
  PROVE  Inductive'
<1> DEFINE t == call[c]
           u == [t EXCEPT !.pc = "copy", !.read = now]
<1>1. call[c].pc = "fresh" /\ Same /\ UNCHANGED <<bucket, store, admitted, faults>>
  BY DEF CheckFresh
<1>2. faults' \in 0..MaxFaults
  BY <1>1 DEF Inductive, TypeOK
<1>3. CASE FailClosed /\ now - cache.stamp > MaxStale
  <2> DEFINE out == Raise("none")
  <2> DEFINE w == Follow(call[c], out, "unreachable")
  <2>1. out.then = "raise" /\ out.mark \in Marks \cup {"none"} /\ "unreachable" \in Fates
    BY DEF Raise, Fates
  <2>2. call' = [call EXCEPT ![c] = w]
    BY <1>3 DEF CheckFresh
  <2> HIDE DEF out
  <2>3. w \in Thread /\ w.path = call[c].path /\ w.pc \notin {"copy", "shape", "take"} /\ w.at <= Len(w.path) /\ Sound(w, c)
    BY <1>1, <2>1, Ended
  <2> HIDE DEF w
  <2>4. QED
    BY <1>1, <1>2, <2>2, <2>3, Alone, CallStep
<1>4. CASE ~(FailClosed /\ now - cache.stamp > MaxStale)
  <2>1. call' = [call EXCEPT ![c] = u] /\ t \in Thread /\ Walked(t, c) /\ now \in Times
    BY <1>4, CallIsSound DEF CheckFresh, Inductive, TypeOK
  <2>2. /\ u \in Thread /\ u.pc = "copy" /\ u.path = t.path /\ u.at = t.at /\ u.log = t.log
        /\ u.marks = t.marks /\ u.passed = t.passed /\ u.read = now
    BY <2>1 DEF Thread
  <2>3. Walked(u, c)
    BY <1>1, <2>1, <2>2 DEF Walked, Walking, Throttling
  <2> HIDE DEF u
  <2>4. u.read <= now /\ (FailClosed => u.read - cache.got <= MaxStale)
    BY <1>4, <2>2, Bounds DEF Inductive, CacheCurrent, TypeOK, Times, LongAgo
  <2>5. QED
    BY <1>1, <1>2, <2>1, <2>2, <2>3, <2>4, Alone, InsideStep
<1>5. QED
  BY <1>3, <1>4

LEMMA CopyKeeps ==
  ASSUME Inductive, NEW c \in Calls, Copy(c)
  PROVE  Inductive'
<1> DEFINE t == call[c]
           late == t.read - cache.got > MaxStale
           todo == Relevant(cache.v.list, c)
           u == [t EXCEPT !.pc = "walk", !.v = cache.v, !.late = late, !.todo = todo, !.read = 0]
<1>1. call[c].pc = "copy" /\ Same /\ UNCHANGED <<bucket, store, admitted, faults>>
  BY DEF Copy
<1>2. faults' \in 0..MaxFaults
  BY <1>1 DEF Inductive, TypeOK
<1>3. t \in Thread /\ Walked(t, c) /\ cache.v \in Versions \cup {Unloaded} /\ 0 \in Times
  BY CallIsSound, EnforcementAssumption DEF Inductive, TypeOK, Times
<1>4. todo \in SUBSET Policies /\ late \in BOOLEAN
  BY <1>3, EnforcementAssumption DEF Relevant, Unloaded
<1>5. call' = [call EXCEPT ![c] = u]
  BY DEF Copy
<1>6. FailClosed => cache.v \in Versions /\ ~late
  <2>1. t.read \in Times
    BY <1>3, ThreadFields
  <2>2. QED
    BY <1>1, <2>1, Bounds DEF Inductive, CacheCurrent, TypeOK, Times, LongAgo
<1> HIDE DEF late, todo
<1>7. /\ u \in Thread /\ u.pc = "walk" /\ u.path = t.path /\ u.at = t.at /\ u.log = t.log
      /\ u.marks = t.marks /\ u.passed = t.passed /\ u.v = cache.v /\ u.late = late /\ u.todo = todo
  BY <1>3, <1>4 DEF Thread
<1> HIDE DEF u
<1>8. t.passed = {}
  BY <1>1, <1>3 DEF Walked
<1>9. Walked(u, c)
  BY <1>6, <1>7, <1>8 DEF Walked, Walking, Throttling, todo
<1>10. QED
  BY <1>1, <1>2, <1>5, <1>7, <1>9, Alone, InsideStep

LEMMA WalkKeeps ==
  ASSUME Inductive, NEW c \in Calls, Walk(c)
  PROVE  Inductive'
<1> DEFINE t == call[c]
           p == First(t.todo)
           u == [t EXCEPT !.pc = "look", !.policy = <<p>>]
<1>1. t.pc = "walk" /\ Same /\ UNCHANGED <<bucket, store, admitted, faults>>
  BY DEF Walk
<1>2. faults' \in 0..MaxFaults
  BY <1>1 DEF Inductive, TypeOK
<1>3. /\ t \in Thread /\ Walked(t, c) /\ Progress(t) /\ Logged(t, c)
      /\ t.todo = Relevant(t.v.list, c) \ t.passed /\ t.todo \in SUBSET Policies
      /\ FailClosed => t.v \in Versions /\ ~t.late
  <2>1. t \in Thread /\ Walked(t, c) /\ Progress(t) /\ Logged(t, c)
    BY CallIsSound
  <2>2. /\ t.todo = Relevant(t.v.list, c) \ t.passed
        /\ FailClosed => t.v \in Versions /\ ~t.late
    BY <1>1, <2>1 DEF Walked, Walking
  <2>3. QED
    BY <2>1, <2>2, ThreadFields
<1>4. CASE t.todo = {}
  <2>1. call' = [call EXCEPT ![c] = ActOn(t, t.v.default)]
    BY <1>4 DEF Walk
  <2>2. t.v.default = Says(t.v, t.passed, c)
    BY <1>3, <1>4 DEF Says
  <2>3. t.v.default \in Decisions
    BY <1>3, ThreadFields, EnforcementAssumption DEF Decisions, Unloaded
  <2>4. t.pc \notin {"ran", "stopped"} /\ bucket' = bucket /\ admitted' = admitted /\ faults' = faults
    BY <1>1
  <2>5. QED
    BY <1>1, <1>3, <2>1, <2>2, <2>3, <2>4, Alone, ActStep
<1>5. CASE t.todo # {} /\ Action[p] = "throttle" /\ p \notin Malformed
  <2>1. call' = [call EXCEPT ![c] = u] /\ p \in Policies /\ Decision(p) = "throttle"
    BY <1>3, <1>5, FirstIsThere DEF Walk, Decision
  <2> HIDE DEF p
  <2>2. /\ u \in Thread /\ u.pc = "look" /\ u.path = t.path /\ u.at = t.at /\ u.log = t.log
        /\ u.marks = t.marks /\ u.passed = t.passed /\ u.v = t.v /\ u.late = t.late /\ u.todo = t.todo
        /\ u.policy = <<p>>
    BY <1>3, <2>1 DEF Thread
  <2> HIDE DEF u
  <2>3. Walked(u, c)
    BY <1>3, <1>5, <2>1, <2>2 DEF Walked, Walking, Throttling, p
  <2>4. QED
    BY <1>1, <1>2, <2>1, <2>2, <2>3, Alone, InsideStep
<1>6. CASE t.todo # {} /\ ~(Action[p] = "throttle" /\ p \notin Malformed)
  <2>1. call' = [call EXCEPT ![c] = ActOn(t, Decision(p))]
    BY <1>6 DEF Walk
  <2>2. Decision(p) = Says(t.v, t.passed, c)
    BY <1>3, <1>6 DEF Says
  <2>3. Decision(p) \in Decisions
    BY DecisionIsOne
  <2>4. t.pc \notin {"ran", "stopped"} /\ bucket' = bucket /\ admitted' = admitted /\ faults' = faults
    BY <1>1
  <2>5. QED
    BY <1>1, <1>3, <2>1, <2>2, <2>3, <2>4, Alone, ActStep
<1>7. QED
  BY <1>4, <1>5, <1>6

(* The version that a call throttled by it has copied lists the policy.    *)
LEMMA CallerLists ==
  ASSUME Inductive, NEW c \in Calls, call[c].pc \in Throttling
  PROVE  call[c].v \in Versions /\ KeyOf(c)[1] \in call[c].v.list
<1> DEFINE t == call[c]
<1>1. t.v \in Versions \cup {Unloaded} /\ t.todo = Relevant(t.v.list, c) \ t.passed
  BY CallIsSound, ThreadFields DEF Walked, Walking, Throttling
<1>2. KeyOf(c)[1] \in t.todo
  BY KeyIsOne
<1>3. KeyOf(c)[1] \in t.v.list
  BY <1>1, <1>2 DEF Relevant
<1>4. QED
  BY <1>1, <1>3 DEF Unloaded

LEMMA LookKeeps ==
  ASSUME Inductive, NEW c \in Calls, Look(c)
  PROVE  Inductive'
<1> DEFINE t == call[c]
           r == store.of[KeyOf(c)]
           pc == IF r = 0 THEN "make" ELSE "shape"
           u == [t EXCEPT !.pc = pc, !.read = now, !.ref = r]
<1>1. t.pc = "look" /\ Same /\ UNCHANGED <<bucket, store, admitted, faults>>
  BY DEF Look
<1>2. faults' \in 0..MaxFaults
  BY <1>1 DEF Inductive, TypeOK
<1>3. t \in Thread /\ Walked(t, c) /\ now \in Times
  BY CallIsSound DEF Inductive, TypeOK
<1>4. KeyOf(c) \in Keys
  BY <1>1, KeyIsOne DEF Throttling
<1>5. r \in 0..Len(bucket) /\ r \in Nat /\ (pc = "shape" => r # 0) /\ pc \in {"make", "shape"}
  BY <1>4 DEF Inductive, TypeOK
<1>6. call' = [call EXCEPT ![c] = u]
  BY DEF Look
<1> HIDE DEF r, pc
<1>7. /\ u \in Thread /\ u.pc = pc /\ u.path = t.path /\ u.at = t.at /\ u.log = t.log
      /\ u.marks = t.marks /\ u.passed = t.passed /\ u.v = t.v /\ u.late = t.late /\ u.todo = t.todo
      /\ u.policy = t.policy /\ u.ref = r
  BY <1>3, <1>5 DEF Thread
<1> HIDE DEF u
<1>8. Walked(u, c)
  BY <1>1, <1>3, <1>5, <1>7 DEF Walked, Walking, Throttling
<1>9. u.pc \in {"shape", "take"} => u.ref \in 1..Len(bucket')
  <2>1. Len(bucket') = Len(bucket) /\ Len(bucket) \in Nat
    BY <1>1 DEF Inductive, TypeOK
  <2>2. QED
    BY <1>5, <1>7, <2>1
<1>10. QED
  BY <1>1, <1>2, <1>5, <1>6, <1>7, <1>8, <1>9, Alone, InsideStep

(* The place of the bucket that a call makes, or finds made.               *)
Place(c) == IF store.of[KeyOf(c)] = 0 THEN Len(bucket) + 1 ELSE store.of[KeyOf(c)]

Made(c) == NewBucket(KeyOf(c), call[c].v, call[c].read)

LEMMA MakeIs ==
  ASSUME Inductive, NEW c \in Calls, Make(c)
  PROVE  /\ call[c].pc = "make" /\ Same /\ UNCHANGED <<admitted, faults>>
         /\ KeyOf(c) \in Keys /\ Place(c) \in 1..Len(bucket')
         /\ store.of[KeyOf(c)] = 0 => bucket' = Append(bucket, Made(c)) /\ Place(c) = Len(bucket) + 1
         /\ store.of[KeyOf(c)] # 0 => bucket' = bucket /\ Place(c) = store.of[KeyOf(c)]
         /\ bucket' \in Seq(Bucket) /\ Len(bucket) <= Len(bucket')
         /\ store' \in [of : [Keys -> 0..Len(bucket')], pruned : Times \cup {-PruneInterval}]
         /\ \A k \in Keys : store'.of[k] = IF k = KeyOf(c) THEN Place(c) ELSE store.of[k]
         /\ call' = [call EXCEPT ![c] = [@ EXCEPT !.pc = "take", !.ref = Place(c)]]
         /\ Made(c) \in Bucket /\ Made(c).key = KeyOf(c) /\ Made(c).tokens = Full(call[c].v.limit)
         /\ Made(c).limit = call[c].v.limit /\ Made(c).refill = call[c].v.refill
         /\ Made(c).refilled = call[c].read
<1> DEFINE k == KeyOf(c)
           t == call[c]
<1>1. /\ t.pc = "make" /\ Same /\ UNCHANGED <<admitted, faults>>
      /\ bucket' = IF store.of[k] = 0 THEN Append(bucket, Made(c)) ELSE bucket
      /\ store' = [store EXCEPT !.of[k] = Place(c)]
      /\ call' = [call EXCEPT ![c].pc = "take", ![c].ref = Place(c)]
  BY DEF Make, Place, Made
<1>2. k \in Keys /\ t.v \in Versions
  BY <1>1, KeyIsOne, CallerLists DEF Throttling
<1>3. t.read \in Times /\ t.v.limit \in Nat /\ t.v.refill \in Nat /\ Full(t.v.limit) \in Nat
  BY <1>2, CallIsSound, ThreadFields, VersionFields, EnforcementAssumption DEF Full
<1>4. /\ Made(c) \in Bucket /\ Made(c).key = k /\ Made(c).tokens = Full(t.v.limit)
      /\ Made(c).limit = t.v.limit /\ Made(c).refill = t.v.refill /\ Made(c).refilled = t.read
  <2> HIDE DEF k, t
  <2>1. Made(c) = [key |-> k, limit |-> t.v.limit, refill |-> t.v.refill, tokens |-> Full(t.v.limit),
                   refilled |-> t.read, used |-> t.read]
    BY DEF Made, NewBucket, k, t
  <2>2. QED
    BY <1>2, <1>3, <2>1 DEF Bucket
<1> HIDE DEF k
<1>5. /\ bucket \in Seq(Bucket) /\ Len(bucket) \in Nat /\ store.of[k] \in 0..Len(bucket)
      /\ store \in [of : [Keys -> 0..Len(bucket)], pruned : Times \cup {-PruneInterval}]
  BY <1>2 DEF Inductive, TypeOK
<1>6. Place(c) = IF store.of[k] = 0 THEN Len(bucket) + 1 ELSE store.of[k]
  BY DEF Place, k
<1>7. /\ bucket' \in Seq(Bucket) /\ Len(bucket) <= Len(bucket') /\ Len(bucket') \in Nat /\ Place(c) \in 1..Len(bucket')
  BY <1>1, <1>4, <1>5, <1>6
<1> DEFINE of == [store.of EXCEPT ![k] = Place(c)]
<1>8. store' = [store EXCEPT !.of = of]
  BY <1>1
<1>9. of \in [Keys -> 0..Len(bucket')] /\ \A j \in Keys : of[j] = IF j = k THEN Place(c) ELSE store.of[j]
  BY <1>2, <1>5, <1>7
<1> HIDE DEF of
<1>10. /\ store' \in [of : [Keys -> 0..Len(bucket')], pruned : Times \cup {-PruneInterval}]
       /\ \A j \in Keys : store'.of[j] = IF j = k THEN Place(c) ELSE store.of[j]
  BY <1>5, <1>8, <1>9
<1>11. call' = [call EXCEPT ![c] = [@ EXCEPT !.pc = "take", !.ref = Place(c)]]
  BY <1>1
<1>12. QED
  BY <1>1, <1>2, <1>4, <1>6, <1>7, <1>10, <1>11 DEF k

LEMMA MakeKeeps ==
  ASSUME Inductive, NEW c \in Calls, Make(c)
  PROVE  Inductive'
<1> DEFINE t == call[c]
           u == [t EXCEPT !.pc = "take", !.ref = Place(c)]
<1>1. /\ t.pc = "make" /\ Same /\ UNCHANGED <<admitted, faults>> /\ call' = [call EXCEPT ![c] = u]
      /\ Place(c) \in 1..Len(bucket') /\ bucket' \in Seq(Bucket) /\ Len(bucket) <= Len(bucket')
      /\ store' \in [of : [Keys -> 0..Len(bucket')], pruned : Times \cup {-PruneInterval}]
  BY MakeIs
<1>2. t \in Thread /\ Walked(t, c)
  BY CallIsSound
<1>3. Place(c) \in Nat
  BY <1>1
<1>4. /\ u \in Thread /\ u.pc = "take" /\ u.path = t.path /\ u.at = t.at /\ u.log = t.log
      /\ u.marks = t.marks /\ u.passed = t.passed /\ u.v = t.v /\ u.late = t.late /\ u.todo = t.todo
      /\ u.policy = t.policy /\ u.ref = Place(c)
  BY <1>2, <1>3 DEF Thread
<1> HIDE DEF u
<1>5. Walked(u, c)
  BY <1>1, <1>2, <1>4 DEF Walked, Walking, Throttling
<1>6. admitted' \subseteq Keys \X Times \X Calls \X Nat /\ faults' \in 0..MaxFaults
  BY <1>1 DEF Inductive, TypeOK
<1>7. QED
  BY <1>1, <1>4, <1>5, <1>6, InsideStep

(* The bucket with the shape of the caller's version.                      *)
Reshaped(c) == [bucket[call[c].ref] EXCEPT !.limit = call[c].v.limit, !.refill = call[c].v.refill]

LEMMA ShapeIs ==
  ASSUME Inductive, NEW c \in Calls, Shape(c)
  PROVE  /\ call[c].pc = "shape" /\ Same /\ UNCHANGED <<store, admitted, faults>>
         /\ call' = [call EXCEPT ![c] = [@ EXCEPT !.pc = "take"]]
         /\ bucket \in Seq(Bucket) /\ call[c].ref \in DOMAIN bucket
         /\ bucket' \in Seq(Bucket) /\ Len(bucket') = Len(bucket)
         /\ \A i \in DOMAIN bucket : bucket'[i] = IF i = call[c].ref THEN Reshaped(c) ELSE bucket[i]
         /\ Reshaped(c).limit = call[c].v.limit /\ Reshaped(c).refill = call[c].v.refill
         /\ Reshaped(c).key = bucket[call[c].ref].key /\ Reshaped(c).tokens = bucket[call[c].ref].tokens
         /\ Reshaped(c).refilled = bucket[call[c].ref].refilled
<1> DEFINE r == call[c].ref
           v == call[c].v
<1>1. /\ call[c].pc = "shape" /\ Same /\ UNCHANGED <<store, admitted, faults>>
      /\ bucket' = [bucket EXCEPT ![r].limit = v.limit, ![r].refill = v.refill]
      /\ call' = [call EXCEPT ![c] = [@ EXCEPT !.pc = "take"]]
  BY DEF Shape
<1>2. bucket \in Seq(Bucket) /\ r \in DOMAIN bucket /\ bucket[r] \in Bucket
  BY <1>1 DEF Inductive, TypeOK, Placed
<1>3. v.limit \in Nat /\ v.refill \in Nat
  BY <1>1, CallerLists, VersionFields DEF Throttling
<1> HIDE DEF r, v
<1>4. Reshaped(c) = [bucket[r] EXCEPT !.limit = v.limit, !.refill = v.refill]
  BY DEF Reshaped, r, v
<1>5. /\ Reshaped(c) \in Bucket /\ Reshaped(c).limit = v.limit /\ Reshaped(c).refill = v.refill
      /\ Reshaped(c).key = bucket[r].key /\ Reshaped(c).tokens = bucket[r].tokens
      /\ Reshaped(c).refilled = bucket[r].refilled
  BY <1>2, <1>3, <1>4 DEF Bucket
<1>6. bucket' = [bucket EXCEPT ![r] = Reshaped(c)]
  BY <1>1, <1>2, <1>4
<1>7. /\ bucket' \in Seq(Bucket) /\ Len(bucket') = Len(bucket)
      /\ \A i \in DOMAIN bucket : bucket'[i] = IF i = r THEN Reshaped(c) ELSE bucket[i]
  BY <1>2, <1>5, <1>6
<1>8. QED
  BY <1>1, <1>2, <1>5, <1>7 DEF r, v

LEMMA ShapeKeeps ==
  ASSUME Inductive, NEW c \in Calls, Shape(c)
  PROVE  Inductive'
<1> DEFINE t == call[c]
           u == [t EXCEPT !.pc = "take"]
<1>1. /\ t.pc = "shape" /\ Same /\ UNCHANGED <<store, admitted, faults>> /\ call' = [call EXCEPT ![c] = u]
      /\ t.ref \in 1..Len(bucket') /\ bucket' \in Seq(Bucket) /\ Len(bucket') = Len(bucket) /\ Len(bucket) \in Nat
  BY ShapeIs
<1>2. t \in Thread /\ Walked(t, c)
  BY CallIsSound
<1>3. /\ u \in Thread /\ u.pc = "take" /\ u.path = t.path /\ u.at = t.at /\ u.log = t.log
      /\ u.marks = t.marks /\ u.passed = t.passed /\ u.v = t.v /\ u.late = t.late /\ u.todo = t.todo
      /\ u.policy = t.policy /\ u.ref = t.ref
  BY <1>2 DEF Thread
<1> HIDE DEF u
<1>4. Walked(u, c)
  BY <1>1, <1>2, <1>3 DEF Walked, Walking, Throttling
<1>5. /\ admitted' \subseteq Keys \X Times \X Calls \X Nat /\ faults' \in 0..MaxFaults
      /\ store' \in [of : [Keys -> 0..Len(bucket')], pruned : Times \cup {-PruneInterval}]
      /\ Len(bucket) <= Len(bucket')
  BY <1>1 DEF Inductive, TypeOK
<1>6. QED
  BY <1>1, <1>3, <1>4, <1>5, InsideStep

(* The bucket of a call that takes a token, with what has been refilled,   *)
(* and what is left of it.                                                 *)
Ready(c) == Refilled(bucket[call[c].ref], call[c].read)

Given(c) == Ready(c).tokens >= Unit

Left(c) == IF Given(c) THEN [Ready(c) EXCEPT !.tokens = @ - Unit] ELSE Ready(c)

LEMMA TakeIs ==
  ASSUME NEW c \in Calls, Take(c)
  PROVE  /\ call[c].pc = "take" /\ Same /\ UNCHANGED <<store, faults>>
         /\ bucket' = [bucket EXCEPT ![call[c].ref] = Left(c)]
         /\ call' = [call EXCEPT ![c].pc = "prune", ![c].ok = Given(c), ![c].ref = 0]
         /\ admitted' = admitted \cup (IF Given(c) THEN {<<KeyOf(c), call[c].read, c, call[c].at>>} ELSE {})
BY DEF Take, Ready, Given, Left

(* A refill makes a bucket of a bucket.                                    *)
LEMMA RefillIs ==
  ASSUME NEW b \in Bucket, NEW t \in Times
  PROVE  LET r == Refilled(b, t) IN
         /\ r \in Bucket /\ r.key = b.key /\ r.refilled = t /\ r.limit = b.limit /\ r.refill = b.refill
         /\ r.tokens = Smaller(Full(b.limit), b.tokens + Larger(0, t - b.refilled) * b.refill)
<1> DEFINE more == Larger(0, t - b.refilled) * b.refill
           tokens == Smaller(Full(b.limit), b.tokens + more)
<1>1. /\ b.key \in Keys /\ b.limit \in Nat /\ b.refill \in Nat /\ b.tokens \in Nat /\ b.refilled \in Int
      /\ b.used \in Times /\ t \in Int /\ Unit \in Nat
  BY EnforcementAssumption DEF Bucket, Times
<1>2. Larger(0, t - b.refilled) \in Nat
  BY <1>1 DEF Larger
<1>3. more \in Nat /\ Full(b.limit) \in Nat
  <2>1. \A x, y \in Nat : x * y \in Nat
    OBVIOUS
  <2> HIDE DEF more
  <2>2. more = Larger(0, t - b.refilled) * b.refill
    BY DEF more
  <2>3. QED
    BY <1>1, <1>2, <2>1, <2>2 DEF Full
<1> HIDE DEF more
<1>4. tokens \in Nat
  BY <1>1, <1>3 DEF Smaller
<1>5. Refilled(b, t) = [b EXCEPT !.tokens = tokens, !.refilled = t, !.used = t]
  BY DEF Refilled, more
<1> HIDE DEF tokens
<1>6. /\ Refilled(b, t) \in Bucket /\ Refilled(b, t).key = b.key /\ Refilled(b, t).limit = b.limit
      /\ Refilled(b, t).refill = b.refill /\ Refilled(b, t).refilled = t /\ Refilled(b, t).tokens = tokens
  BY <1>1, <1>4, <1>5 DEF Bucket
<1>7. QED
  BY <1>6 DEF tokens, more

(* The bucket of a call that takes a token, before and after it.           *)
LEMMA LeftIs ==
  ASSUME Inductive, NEW c \in Calls, call[c].pc = "take"
  PROVE  LET b == bucket[call[c].ref] IN
         /\ call[c].ref \in DOMAIN bucket /\ b \in Bucket /\ call[c].read \in Times
         /\ Ready(c) \in Bucket /\ Left(c) \in Bucket
         /\ Left(c).key = b.key /\ Left(c).limit = b.limit /\ Left(c).refill = b.refill
         /\ Left(c).refilled = call[c].read
         /\ Left(c).tokens = IF Given(c) THEN Ready(c).tokens - Unit ELSE Ready(c).tokens
         /\ Ready(c).tokens
              = Smaller(Full(b.limit), b.tokens + Larger(0, call[c].read - b.refilled) * b.refill)
<1> DEFINE b == bucket[call[c].ref]
           read == call[c].read
<1>1. call[c].ref \in DOMAIN bucket /\ b \in Bucket
  BY DEF Inductive, TypeOK, Placed
<1>2. read \in Times /\ Unit \in Nat
  BY CallIsSound, ThreadFields, EnforcementAssumption
<1> HIDE DEF b, read
<1>3. /\ Ready(c) \in Bucket /\ Ready(c).key = b.key /\ Ready(c).refilled = read
      /\ Ready(c).limit = b.limit /\ Ready(c).refill = b.refill
      /\ Ready(c).tokens = Smaller(Full(b.limit), b.tokens + Larger(0, read - b.refilled) * b.refill)
  <2>1. Ready(c) = Refilled(b, read)
    BY DEF Ready, b, read
  <2>2. QED
    BY <1>1, <1>2, <2>1, RefillIs
<1>4. /\ Left(c) \in Bucket /\ Left(c).key = Ready(c).key /\ Left(c).refilled = Ready(c).refilled
      /\ Left(c).limit = Ready(c).limit /\ Left(c).refill = Ready(c).refill
      /\ Left(c).tokens = IF Given(c) THEN Ready(c).tokens - Unit ELSE Ready(c).tokens
  <2>1. CASE Given(c)
    <3>1. Left(c) = [Ready(c) EXCEPT !.tokens = @ - Unit]
      BY <2>1 DEF Left
    <3>2. Ready(c).tokens \in Nat
      BY <1>3 DEF Bucket
    <3>3. Ready(c).tokens - Unit \in Nat
      BY <1>2, <2>1, <3>2 DEF Given
    <3>4. QED
      BY <1>3, <2>1, <3>1, <3>3 DEF Bucket
  <2>2. CASE ~Given(c)
    BY <1>3, <2>2 DEF Left
  <2>3. QED
    BY <2>1, <2>2
<1>5. QED
  BY <1>1, <1>2, <1>3, <1>4 DEF b, read

LEMMA TakeKeeps ==
  ASSUME Inductive, NEW c \in Calls, Take(c)
  PROVE  Inductive'
<1> DEFINE t == call[c]
           u == [t EXCEPT !.pc = "prune", !.ok = Given(c), !.ref = 0]
<1>1. /\ t.pc = "take" /\ Same /\ UNCHANGED <<store, faults>>
      /\ bucket' = [bucket EXCEPT ![t.ref] = Left(c)]
      /\ call' = [call EXCEPT ![c].pc = "prune", ![c].ok = Given(c), ![c].ref = 0]
      /\ admitted' = admitted \cup (IF Given(c) THEN {<<KeyOf(c), t.read, c, t.at>>} ELSE {})
  BY TakeIs
<1>2. call' = [call EXCEPT ![c] = u]
  BY <1>1
<1>3. t \in Thread /\ Walked(t, c) /\ t.read \in Times /\ t.at \in Nat
  BY CallIsSound, ThreadFields
<1>4. KeyOf(c) \in Keys /\ Left(c) \in Bucket /\ t.ref \in DOMAIN bucket /\ bucket \in Seq(Bucket)
  BY <1>1, KeyIsOne, LeftIs DEF Throttling, Inductive, TypeOK
<1>5. bucket' \in Seq(Bucket) /\ Len(bucket') = Len(bucket) /\ Len(bucket) \in Nat
  BY <1>1, <1>4
<1>6. store' \in [of : [Keys -> 0..Len(bucket')], pruned : Times \cup {-PruneInterval}]
  BY <1>1, <1>5 DEF Inductive, TypeOK
<1>7. admitted' \subseteq Keys \X Times \X Calls \X Nat /\ faults' \in 0..MaxFaults
  <2>1. admitted \subseteq Keys \X Times \X Calls \X Nat /\ faults \in 0..MaxFaults
    BY DEF Inductive, TypeOK
  <2>2. <<KeyOf(c), t.read, c, t.at>> \in Keys \X Times \X Calls \X Nat
    BY <1>3, <1>4
  <2>3. QED
    BY <1>1, <2>1, <2>2
<1>8. Given(c) \in BOOLEAN
  BY DEF Given
<1>9. /\ u \in Thread /\ u.pc = "prune" /\ u.path = t.path /\ u.at = t.at /\ u.log = t.log
      /\ u.marks = t.marks /\ u.passed = t.passed /\ u.v = t.v /\ u.late = t.late /\ u.todo = t.todo
      /\ u.policy = t.policy
  BY <1>3, <1>8 DEF Thread
<1> HIDE DEF u
<1>10. Walked(u, c)
  BY <1>1, <1>3, <1>9 DEF Walked, Walking, Throttling
<1>11. Len(bucket) <= Len(bucket')
  BY <1>5
<1>12. QED
  BY <1>1, <1>2, <1>5, <1>6, <1>7, <1>9, <1>10, <1>11, InsideStep

(* What a call does behind the throttle, wherever it has pruned.           *)
LEMMA ConsumedSound ==
  ASSUME Inductive, NEW c \in Calls, call[c].pc \in {"prune", "drop"}
  PROVE  LET u == Consumed(call[c]) IN
         /\ u \in Thread /\ u.path = call[c].path /\ u.pc \notin {"copy", "shape", "take"} /\ u.at <= Len(u.path)
         /\ Sound(u, c)
<1> DEFINE t == call[c]
           p == First(t.todo)
           v == Consumed(t)
<1>1. /\ t \in Thread /\ Walked(t, c) /\ Progress(t) /\ Logged(t, c) /\ t.at <= Len(t.path)
      /\ t.todo \in SUBSET Policies /\ t.passed \in SUBSET Policies
  BY CallIsSound, ThreadFields
<1>2. /\ t.todo = Relevant(t.v.list, c) \ t.passed /\ t.todo # {} /\ t.policy = <<p>>
      /\ Decision(p) = "throttle"
      /\ FailClosed => t.v \in Versions /\ ~t.late
  BY <1>1 DEF Walked, Walking, Throttling
<1>3. p \in t.todo /\ p \in Policies
  BY <1>1, <1>2, FirstIsThere
<1>4. CASE t.ok
  <2> DEFINE u == [t EXCEPT !.pc = "walk", !.passed = @ \cup {p}, !.todo = @ \ {p}, !.policy = <<>>]
  <2>1. v = u
    BY <1>2, <1>4 DEF Consumed
  <2> HIDE DEF p, v
  <2>2. /\ u \in Thread /\ u.pc = "walk" /\ u.path = t.path /\ u.at = t.at /\ u.log = t.log
        /\ u.marks = t.marks /\ u.passed = t.passed \cup {p} /\ u.v = t.v /\ u.late = t.late
        /\ u.todo = t.todo \ {p}
    BY <1>1, <1>3 DEF Thread
  <2> HIDE DEF u
  <2>3. Walked(u, c)
    BY <1>2, <2>2 DEF Walked, Walking, Throttling
  <2>4. Progress(u) /\ Logged(u, c)
    BY <1>1, <2>2 DEF Progress, Logged
  <2>5. u.pc \notin {"copy", "shape", "take"} /\ u.at <= Len(u.path) /\ Sound(u, c)
    BY <1>1, <2>2, <2>3, <2>4 DEF Sound
  <2>6. QED
    BY <2>1, <2>2, <2>5 DEF v
<1>5. CASE ~t.ok
  <2> DEFINE w == [t EXCEPT !.policy = <<>>]
             out == Outcome(w.path[w.at], "throttle")
             fate == Fate(out, "throttle")
  <2>1. v = ActOn(w, "throttle")
    BY <1>5 DEF Consumed
  <2>2. v = Follow(w, out, fate)
    BY <2>1 DEF ActOn
  <2>3. /\ w \in Thread /\ w.pc = t.pc /\ w.path = t.path /\ w.at = t.at /\ w.log = t.log
        /\ w.marks = t.marks /\ w.passed = t.passed /\ w.v = t.v /\ w.late = t.late /\ w.todo = t.todo
    BY <1>1 DEF Thread
  <2> HIDE DEF w, v
  <2>4. Progress(w) /\ Logged(w, c)
    BY <1>1, <2>3 DEF Progress, Logged
  <2>5. Says(w.v, w.passed, c) = "throttle"
    BY <1>2, <2>3 DEF Says
  <2>6. "throttle" \in Decisions /\ w.pc \notin {"ran", "stopped"} /\ w.at <= Len(w.path) /\ w.at \in Nat \ {0}
    BY <1>1, <2>3, ThreadFields DEF Decisions
  <2>7. w.todo = Relevant(w.v.list, c) \ w.passed /\ (FailClosed => w.v \in Versions /\ ~w.late)
    BY <1>2, <2>3
  <2>8. Sound(v, c)
    BY <2>1, <2>3, <2>4, <2>5, <2>6, <2>7, ActSound
  <2>9. w.path[w.at] \in Surfaces
    BY <2>3, <2>6, ThreadFields
  <2>10. out.then \in {"run", "raise", "answer", "hold"} /\ out.mark \in Marks \cup {"none"} /\ fate \in Fates
    BY <2>6, <2>9, Outcomes DEF Fate, Fates
  <2> HIDE DEF out, fate
  <2>11. v \in Thread /\ v.path = w.path /\ v.pc \notin {"copy", "shape", "take"} /\ v.at <= Len(v.path)
    BY <2>2, <2>3, <2>6, <2>10, Stays
  <2>12. QED
    BY <2>3, <2>8, <2>11 DEF v
<1>6. QED
  BY <1>4, <1>5

LEMMA PruneKeeps ==
  ASSUME Inductive, NEW c \in Calls, Prune(c)
  PROVE  Inductive'
<1> DEFINE t == call[c]
           u == [t EXCEPT !.pc = "drop"]
<1>1. t.pc = "prune" /\ Same /\ UNCHANGED <<bucket, store, admitted, faults>>
  BY DEF Prune
<1>2. /\ faults' \in 0..MaxFaults
      /\ store' \in [of : [Keys -> 0..Len(bucket)], pruned : Times \cup {-PruneInterval}]
  BY <1>1 DEF Inductive, TypeOK
<1>3. CASE t.read - store.pruned >= PruneInterval
  <2>1. call' = [call EXCEPT ![c] = u] /\ t \in Thread /\ Walked(t, c)
    BY <1>3, CallIsSound DEF Prune
  <2>2. /\ u \in Thread /\ u.pc = "drop" /\ u.path = t.path /\ u.at = t.at /\ u.log = t.log
        /\ u.marks = t.marks /\ u.passed = t.passed /\ u.v = t.v /\ u.late = t.late /\ u.todo = t.todo
        /\ u.policy = t.policy
    BY <2>1 DEF Thread
  <2> HIDE DEF u
  <2>3. Walked(u, c)
    BY <1>1, <2>1, <2>2 DEF Walked, Walking, Throttling
  <2>4. QED
    BY <1>1, <1>2, <2>1, <2>2, <2>3, Alone, InsideStep
<1>4. CASE ~(t.read - store.pruned >= PruneInterval)
  <2> DEFINE w == Consumed(t)
  <2>1. call' = [call EXCEPT ![c] = w]
    BY <1>4 DEF Prune
  <2>2. /\ w \in Thread /\ w.path = call[c].path /\ w.pc \notin {"copy", "shape", "take"}
        /\ w.at <= Len(w.path) /\ Sound(w, c)
    BY <1>1, ConsumedSound
  <2> HIDE DEF w
  <2>3. QED
    BY <1>1, <1>2, <2>1, <2>2, Alone, CallStep
<1>5. QED
  BY <1>3, <1>4

(* The buckets that have been idle are dropped.                            *)
LEMMA DropStore ==
  ASSUME Inductive, NEW c \in Calls, Drop(c)
  PROVE  /\ store' \in [of : [Keys -> 0..Len(bucket)], pruned : Times \cup {-PruneInterval}]
         /\ \A k \in Keys : store'.of[k] \in {0, store.of[k]}
<1> DEFINE idle(k) == store.of[k] # 0 /\ call[c].read - bucket[store.of[k]].used > IdleTimeout
           of == [k \in Keys |-> IF idle(k) THEN 0 ELSE store.of[k]]
<1>1. /\ store \in [of : [Keys -> 0..Len(bucket)], pruned : Times \cup {-PruneInterval}]
      /\ Len(bucket) \in Nat /\ call[c].read \in Times
  BY CallIsSound, ThreadFields DEF Inductive, TypeOK
<1>2. store' = [of |-> of, pruned |-> call[c].read]
  BY DEF Drop
<1> HIDE DEF idle
<1>3. of \in [Keys -> 0..Len(bucket)] /\ \A k \in Keys : of[k] \in {0, store.of[k]}
  BY <1>1
<1> HIDE DEF of
<1>4. QED
  BY <1>1, <1>2, <1>3

LEMMA DropKeeps ==
  ASSUME Inductive, NEW c \in Calls, Drop(c)
  PROVE  Inductive'
<1> DEFINE w == Consumed(call[c])
<1>1. /\ call[c].pc = "drop" /\ Same /\ UNCHANGED <<bucket, admitted, faults>>
      /\ call' = [call EXCEPT ![c] = w]
  BY DEF Drop
<1>2. /\ w \in Thread /\ w.path = call[c].path /\ w.pc \notin {"copy", "shape", "take"}
      /\ w.at <= Len(w.path) /\ Sound(w, c)
  BY <1>1, ConsumedSound
<1>3. /\ bucket' \in Seq(Bucket) /\ admitted' \subseteq Keys \X Times \X Calls \X Nat
      /\ faults' \in 0..MaxFaults /\ Len(bucket) <= Len(bucket')
      /\ store' \in [of : [Keys -> 0..Len(bucket')], pruned : Times \cup {-PruneInterval}]
  BY <1>1, DropStore DEF Inductive, TypeOK
<1> HIDE DEF w
<1>4. QED
  BY <1>1, <1>2, <1>3, CallStep

LEMMA AwaitKeeps ==
  ASSUME Inductive, NEW c \in Calls, Await(c)
  PROVE  Inductive'
<1>1. call[c].pc = "held" /\ Same /\ UNCHANGED <<bucket, store, admitted, faults>>
  BY DEF Await
<1>2. faults' \in 0..MaxFaults
  BY <1>1 DEF Inductive, TypeOK
<1>3. PICK granted \in BOOLEAN :
        call' = [call EXCEPT ![c] = Follow(@, AfterWait(Surface(c), granted),
                                           IF granted THEN "approved" ELSE "stopped")]
  BY DEF Await
<1> DEFINE out == AfterWait(Surface(c), granted)
           fate == IF granted THEN "approved" ELSE "stopped"
           w == Follow(call[c], out, fate)
<1>4. Surface(c) \in Surfaces
  BY CallIsSound, ThreadFields DEF Surface
<1>5. /\ out.then \in {"run", "raise", "answer"} /\ out.mark \in Marks \cup {"none"}
      /\ out.then = "run" => granted /\ out.mark \notin Stops
  BY <1>4, AfterWaits
<1>6. fate \in Fates /\ fate \in {"approved", "stopped"} /\ (granted => fate = "approved")
  BY DEF Fates
<1>7. call' = [call EXCEPT ![c] = w]
  BY <1>3
<1> HIDE DEF out, fate
<1>8. w \in Thread /\ w.path = call[c].path /\ w.pc \notin {"copy", "shape", "take"} /\ w.at <= Len(w.path) /\ Sound(w, c)
  BY <1>1, <1>5, <1>6, Ended
<1> HIDE DEF w
<1>9. QED
  BY <1>1, <1>2, <1>7, <1>8, Alone, CallStep

LEMMA CheckFailsKeeps ==
  ASSUME Inductive, NEW c \in Calls, CheckFails(c)
  PROVE  Inductive'
<1> DEFINE t == call[c]
           u == [t EXCEPT !.pc = "fresh"]
<1>1. t.pc \in {"halt", "walk"} /\ Same /\ UNCHANGED <<bucket, store, admitted>>
  BY DEF CheckFails
<1>2. faults' \in 0..MaxFaults
  BY Bounds DEF CheckFails, Inductive, TypeOK
<1>3. CASE t.pc = "halt"
  <2>1. call' = [call EXCEPT ![c] = u] /\ t \in Thread /\ Walked(t, c)
    BY <1>3, CallIsSound DEF CheckFails
  <2>2. /\ u \in Thread /\ u.pc = "fresh" /\ u.path = t.path /\ u.at = t.at /\ u.log = t.log
        /\ u.marks = t.marks /\ u.passed = t.passed
    BY <2>1 DEF Thread
  <2>3. Walked(u, c)
    BY <1>3, <2>1, <2>2 DEF Walked, Walking, Throttling
  <2> HIDE DEF u
  <2>4. QED
    BY <1>1, <1>2, <2>1, <2>2, <2>3, Alone, InsideStep
<1>4. CASE t.pc = "walk"
  <2> DEFINE w == Follow(call[c], Go, "error")
  <2>1. Go.then = "run" /\ Go.mark \in Marks \cup {"none"} /\ Go.mark \notin Stops /\ "error" \in Fates
    BY DEF Go, Fates, Stops
  <2>2. call' = [call EXCEPT ![c] = w]
    BY <1>4 DEF CheckFails
  <2>3. w \in Thread /\ w.path = call[c].path /\ w.pc \notin {"copy", "shape", "take"} /\ w.at <= Len(w.path) /\ Sound(w, c)
    BY <1>1, <2>1, Ended
  <2> HIDE DEF w
  <2>4. QED
    BY <1>1, <1>2, <2>2, <2>3, Alone, CallStep
<1>5. QED
  BY <1>1, <1>3, <1>4

-----------------------------------------------------------------------------
(* The theorems.                                                           *)

LEMMA NextInductive ==
  ASSUME Inductive, [Next]_vars
  PROVE  Inductive'
<1>1. ASSUME NEW c \in Calls, \/ CheckHalt(c) \/ CheckFresh(c) \/ Copy(c) \/ Walk(c) \/ Look(c)
                             \/ Make(c) \/ Shape(c) \/ Take(c) \/ Prune(c) \/ Drop(c) \/ Await(c) \/ CheckFails(c)
      PROVE  Inductive'
  BY <1>1, CheckHaltKeeps, CheckFreshKeeps, CopyKeeps, WalkKeeps, LookKeeps, MakeKeeps, ShapeKeeps,
     TakeKeeps, PruneKeeps, DropKeeps, AwaitKeeps, CheckFailsKeeps
<1>2. CASE \E c \in Calls : \/ CheckHalt(c) \/ CheckFresh(c) \/ Copy(c) \/ Walk(c) \/ Look(c)
                            \/ Make(c) \/ Shape(c) \/ Take(c) \/ Prune(c) \/ Drop(c) \/ Await(c) \/ CheckFails(c)
  BY <1>1, <1>2
<1>3. CASE \/ \E v \in Versions : Publish(v)
           \/ HaltOrResume \/ Serve \/ Deliver \/ RefreshFails \/ Tick \/ UNCHANGED vars
  BY <1>3, OtherSteps
<1>4. QED
  BY <1>2, <1>3 DEF Next

(* The log of every call is as the hooks and versions it names say, and    *)
(* what a call found fresh is fresh when it is copied.                     *)
THEOREM InductiveInvariant == Spec => []Inductive
<1>1. Init => Inductive
  BY InitInductive
<1>2. Inductive /\ [Next]_vars => Inductive'
  BY NextInductive
<1>3. QED
  BY <1>1, <1>2, PTL DEF Spec

(* Every variable has its type, whatever the threads of the calls, the     *)
(* refresh and the operators do.                                           *)
THEOREM TypeCorrect == Spec => []TypeOK
<1>1. Inductive => TypeOK
  BY DEF Inductive
<1>2. QED
  BY <1>1, InductiveInvariant, PTL

LEMMA SoundRuns ==
  ASSUME Inductive
  PROVE  RunsAsDecided
<1>1. SUFFICES ASSUME NEW c \in Calls
      PROVE  LET t == call[c] IN
             /\ \A i \in Judged(c) :
                  LET says == Says(t.log[i].v, t.log[i].passed, c) IN
                  CASE t.log[i].fate = "allowed"  -> says = "allow"
                    [] t.log[i].fate = "approved" -> says = "require_approval"
                    [] t.log[i].fate = "observed" -> says = "steer" /\ t.path[i] \in {"langgraph", "agents_hook"}
                    [] t.log[i].fate = "stopped"  -> says # "allow"
             /\ t.pc = "ran" =>
                  /\ Len(t.log) = Len(t.path)
                  /\ \A i \in DOMAIN t.log : t.log[i].fate \notin {"stopped", "halted", "unreachable"}
                  /\ t.marks \cap {"blocked", "throttled", "halted", "approval_denied"} = {}
  BY DEF RunsAsDecided
<1> DEFINE t == call[c]
<1>2. Progress(t) /\ Logged(t, c) /\ t.log \in Seq(Entry)
  BY CallIsSound, ThreadFields
<1>3. ASSUME NEW i \in Judged(c)
      PROVE  LET says == Says(t.log[i].v, t.log[i].passed, c) IN
             CASE t.log[i].fate = "allowed"  -> says = "allow"
               [] t.log[i].fate = "approved" -> says = "require_approval"
               [] t.log[i].fate = "observed" -> says = "steer" /\ t.path[i] \in {"langgraph", "agents_hook"}
               [] t.log[i].fate = "stopped"  -> says # "allow"
  <2>1. i \in DOMAIN t.log /\ t.log[i].fate \notin {"halted", "unreachable", "error"}
    BY DEF Judged
  <2>2. t.log[i] \in Entry /\ t.log[i].fate \in Fates
    <3>1. t.log[i] \in Entry
      BY <1>2, <2>1
    <3>2. QED
      BY <3>1 DEF Entry
  <2>3. EntrySound(t.log[i], t.path[i], c)
    BY <1>2, <2>1 DEF Logged
  <2>4. t.log[i].fate \in {"allowed", "approved", "observed", "stopped"}
    BY <2>1, <2>2 DEF Fates
  <2> HIDE DEF t
  <2>5. CASE t.log[i].fate = "allowed"
    BY <2>3, <2>5 DEF EntrySound
  <2>6. CASE t.log[i].fate = "approved"
    BY <2>3, <2>6 DEF EntrySound
  <2>7. CASE t.log[i].fate = "observed"
    BY <2>3, <2>7 DEF EntrySound
  <2>8. CASE t.log[i].fate = "stopped"
    BY <2>3, <2>8 DEF EntrySound
  <2>9. QED
    BY <2>4, <2>5, <2>6, <2>7, <2>8
<1>4. ASSUME t.pc = "ran"
      PROVE  /\ Len(t.log) = Len(t.path)
             /\ \A i \in DOMAIN t.log : t.log[i].fate \notin {"stopped", "halted", "unreachable"}
             /\ t.marks \cap {"blocked", "throttled", "halted", "approval_denied"} = {}
  BY <1>2, <1>4 DEF Progress, Passes, Stops
<1>5. QED
  BY <1>3, <1>4

(* A tool runs only if every hook the call passed let it, by the first     *)
(* policy that matched in the list copied there or by its default, and     *)
(* only such a decision, a halt or a stale cache stops a call.             *)
THEOREM RunsAsDecidedHolds == Spec => []RunsAsDecided
<1>1. Inductive => RunsAsDecided
  BY SoundRuns
<1>2. QED
  BY <1>1, InductiveInvariant, PTL

LEMMA SoundVersions ==
  ASSUME Inductive
  PROVE  OneFreshVersion
<1>1. SUFFICES ASSUME NEW c \in Calls, NEW i \in Judged(c)
      PROVE  /\ call[c].log[i].v \in Versions \cup {Unloaded}
             /\ FailClosed => call[c].log[i].v \in Versions /\ ~call[c].log[i].late
  BY DEF OneFreshVersion
<1>2. i \in DOMAIN call[c].log /\ call[c].log[i].fate \notin {"halted", "unreachable", "error"}
  BY DEF Judged
<1>3. call[c].log[i] \in Entry /\ EntrySound(call[c].log[i], call[c].path[i], c)
  BY <1>2, CallIsSound, ThreadFields DEF Logged
<1>4. QED
  BY <1>2, <1>3 DEF Entry, EntrySound, Fates

(* A call is decided by one version the receiver answered; a client that   *)
(* fails closed, by one at most MaxStale old when it was checked.          *)
THEOREM OneFreshVersionHolds == Spec => []OneFreshVersion
<1>1. Inductive => OneFreshVersion
  BY SoundVersions
<1>2. QED
  BY <1>1, InductiveInvariant, PTL

-----------------------------------------------------------------------------
(* The tokens.                                                             *)

(* A refill by the shape of a version keeps the credit of a bucket with P  *)
(* taken since s: tokens are lost only above a full bucket.                *)
LEMMA RefillCredit ==
  ASSUME NEW full \in Nat, NEW rate \in Nat, NEW enough \in Nat, enough <= full, NEW least \in Nat, least <= rate,
         NEW tokens \in Nat, NEW f \in Int, NEW r \in Int, NEW s \in Int, NEW P \in Nat,
         tokens + P >= Smaller(enough, least * (f - s))
  PROVE  Smaller(full, tokens + Larger(0, r - f) * rate) + P >= Smaller(enough, least * (r - s))
<1> DEFINE more == Larger(0, r - f) * rate
           ls == least * (r - s)
           lf == least * (f - s)
           lr == least * (r - f)
<1>1. more \in Nat /\ more >= lr
  <2>1. CASE r >= f
    <3>1. PICK d \in Nat : d = r - f
      BY <2>1
    <3>2. d * least <= d * rate /\ d * rate \in Nat
      BY Products
    <3>3. more = d * rate /\ lr = d * least
      BY <3>1 DEF Larger
    <3>4. QED
      BY <3>2, <3>3
  <2>2. CASE r < f
    <3>1. PICK d \in Nat : d = f - r
      BY <2>2
    <3>2. more = 0
      BY <2>2 DEF Larger
    <3>3. lr = -(d * least) /\ d * least \in Nat
      BY <3>1
    <3>4. QED
      BY <3>2, <3>3
  <2>3. QED
    BY <2>1, <2>2
<1>2. ls = lf + lr /\ ls \in Int /\ lf \in Int /\ lr \in Int
  OBVIOUS
<1>3. tokens + P >= Smaller(enough, lf)
  OBVIOUS
<1> HIDE DEF more, ls, lf, lr
<1>4. Smaller(full, tokens + more) + P >= Smaller(enough, ls)
  BY <1>1, <1>2, <1>3 DEF Smaller
<1>5. QED
  BY <1>4 DEF more, ls

(* What has been taken is a finite number of tokens.                       *)
LEMMA TakenCounts ==
  ASSUME NEW A, IsFiniteSet(A), NEW k, NEW s
  PROVE  /\ IsFiniteSet(Since(A, k, s)) /\ Cardinality(Since(A, k, s)) \in Nat
         /\ Unit * Cardinality(Since(A, k, s)) \in Nat
<1>1. IsFiniteSet(Since(A, k, s))
  BY FS_Subset DEF Since
<1>2. Cardinality(Since(A, k, s)) \in Nat
  BY <1>1, FS_CardinalityType
<1>3. QED
  BY <1>1, <1>2, EnforcementAssumption

(* One more is taken.                                                      *)
LEMMA TakenGrows ==
  ASSUME NEW A, IsFiniteSet(A), NEW a, a \notin A, NEW k, NEW s
  PROVE  Cardinality(Since(A \cup {a}, k, s)) =
           Cardinality(Since(A, k, s)) + (IF a[1] = k /\ a[2] > s THEN 1 ELSE 0)
<1>1. IsFiniteSet(Since(A, k, s)) /\ Cardinality(Since(A, k, s)) \in Nat
  BY TakenCounts
<1>2. CASE a[1] = k /\ a[2] > s
  <2>1. Since(A \cup {a}, k, s) = Since(A, k, s) \cup {a} /\ a \notin Since(A, k, s)
    BY <1>2 DEF Since
  <2>2. QED
    BY <1>1, <1>2, <2>1, FS_AddElement
<1>3. CASE ~(a[1] = k /\ a[2] > s)
  <2>1. Since(A \cup {a}, k, s) = Since(A, k, s)
    BY <1>3 DEF Since
  <2>2. QED
    BY <1>1, <1>3, <2>1
<1>4. QED
  BY <1>2, <1>3

(* A thread that moves on at a hook keeps the policies it took a token of. *)
Moves(t, u) ==
  /\ u.at \in Nat /\ u.at >= t.at
  /\ u.at = t.at /\ u.pc \in Checking => t.pc \in Checking /\ Used(t) \subseteq Used(u)

LEMMA FollowMoves ==
  ASSUME NEW t \in Thread, NEW out, NEW fate
  PROVE  LET u == Follow(t, out, fate) IN
         Moves(t, u) /\ u.pc \notin {"shape", "take"} /\ u.at \in Nat /\ u.at >= t.at /\ (u.at = t.at => u.pc \notin Checking)
<1> DEFINE u == Follow(t, out, fate)
<1>1. t.at \in Nat
  BY ThreadFields
<1>2. CASE out.then = "hold"
  <2>1. u.pc = "held" /\ u.at = t.at
    BY <1>2 DEF Follow, Thread
  <2>2. QED
    BY <1>1, <2>1 DEF Moves, Checking, Throttling
<1>3. CASE out.then = "run" /\ t.at < Len(t.path)
  <2>1. u.pc = "halt" /\ u.at = t.at + 1
    BY <1>3 DEF Follow, Stage
  <2>2. QED
    BY <1>1, <2>1 DEF Moves, Checking, Throttling
<1>4. CASE out.then = "run" /\ ~(t.at < Len(t.path))
  <2>1. u.pc = "ran" /\ u.at = t.at
    BY <1>4 DEF Follow, Stage
  <2>2. QED
    BY <1>1, <2>1 DEF Moves, Checking, Throttling
<1>5. CASE out.then \notin {"hold", "run"}
  <2>1. u.pc = "stopped" /\ u.at = t.at
    BY <1>5 DEF Follow, Stage
  <2>2. QED
    BY <1>1, <2>1 DEF Moves, Checking, Throttling
<1>6. QED
  BY <1>2, <1>3, <1>4, <1>5

(* A step that takes nothing, of a thread that moves on.                   *)
LEMMA OnceStep ==
  ASSUME Inductive, Accounted, NEW c \in Calls, NEW u, call' = [call EXCEPT ![c] = u], Moves(call[c], u),
         UNCHANGED admitted
  PROVE  TakenOnce'
<1>1. call \in [Calls -> Thread]
  BY DEF Inductive, TypeOK
<1>2. \A d \in Calls : call'[d] = IF d = c THEN u ELSE call[d]
  BY <1>1
<1>3. SUFFICES ASSUME NEW a \in admitted
      PROVE  /\ a[4] <= call'[a[3]].at
             /\ a[4] = call'[a[3]].at /\ call'[a[3]].pc \in Checking => a[1][1] \in Used(call'[a[3]])
  BY DEF TakenOnce, Used
<1>4. /\ a[4] <= call[a[3]].at /\ a[3] \in Calls /\ a[4] \in Nat
      /\ a[4] = call[a[3]].at /\ call[a[3]].pc \in Checking => a[1][1] \in Used(call[a[3]])
  BY DEF Accounted, TakenOnce, Inductive, TypeOK
<1>5. CASE a[3] = c
  <2>1. call'[a[3]] = u /\ call[c].at \in Nat
    BY <1>2, <1>5, CallIsSound, ThreadFields
  <2>2. QED
    BY <1>4, <1>5, <2>1 DEF Moves
<1>6. CASE a[3] # c
  <2>1. call'[a[3]] = call[a[3]]
    BY <1>2, <1>4, <1>6
  <2>2. QED
    BY <1>4, <2>1
<1>7. QED
  BY <1>5, <1>6

(* A step of one thread that keeps the keys of the buckets: it leaves the  *)
(* references to them right.                                               *)
LEMMA BucketStep ==
  ASSUME Inductive, Accounted, NEW c \in Calls, NEW u, call' = [call EXCEPT ![c] = u],
         DOMAIN bucket \subseteq DOMAIN bucket', \A i \in DOMAIN bucket : bucket'[i].key = bucket[i].key,
         \A k \in Keys : \/ store'.of[k] \in {0, store.of[k]}
                         \/ store'.of[k] \in DOMAIN bucket' /\ bucket'[store'.of[k]].key = k,
         u.pc \in {"shape", "take"} => u.policy = call[c].policy /\ bucket'[u.ref].key = KeyOf(c)
  PROVE  References'
<1>1. call \in [Calls -> Thread]
  BY DEF Inductive, TypeOK
<1>2. \A d \in Calls : call'[d] = IF d = c THEN u ELSE call[d]
  BY <1>1
<1>3. ASSUME NEW k \in Keys, store'.of[k] # 0
      PROVE  bucket'[store'.of[k]].key = k
  <2>1. CASE store'.of[k] = store.of[k]
    <3>1. store.of[k] \in DOMAIN bucket /\ bucket[store.of[k]].key = k
      BY <1>3, <2>1 DEF Accounted, References, Inductive, TypeOK
    <3>2. QED
      BY <2>1, <3>1
  <2>2. CASE store'.of[k] # store.of[k]
    BY <1>3, <2>2
  <2>3. QED
    BY <2>1, <2>2
<1>4. ASSUME NEW d \in Calls, call'[d].pc \in {"shape", "take"}
      PROVE  bucket'[call'[d].ref].key = KeyOf(d)'
  <2>1. CASE d = c
    <3>1. call'[d] = u /\ u.policy = call[c].policy /\ bucket'[u.ref].key = KeyOf(c)
      BY <1>2, <1>4, <2>1
    <3>2. KeyOf(d)' = KeyOf(c)
      BY <2>1, <3>1 DEF KeyOf
    <3>3. QED
      BY <3>1, <3>2
  <2>2. CASE d # c
    <3>1. call'[d] = call[d]
      BY <1>2, <2>2
    <3>2. KeyOf(d)' = KeyOf(d)
      BY <3>1 DEF KeyOf
    <3>3. call[d].ref \in DOMAIN bucket /\ bucket[call[d].ref].key = KeyOf(d)
      BY <1>4, <3>1 DEF Accounted, References, Inductive, Placed, TypeOK
    <3>4. QED
      BY <3>1, <3>2, <3>3
  <2>3. QED
    BY <2>1, <2>2
<1>5. QED
  BY <1>3, <1>4 DEF References

LEMMA QuietStep ==
  ASSUME Inductive, Accounted, NEW c \in Calls, NEW u, call' = [call EXCEPT ![c] = u], Moves(call[c], u),
         UNCHANGED <<bucket, admitted>>, \A k \in Keys : store'.of[k] \in {0, store.of[k]},
         u.pc \in {"shape", "take"} => u.policy = call[c].policy /\ bucket[u.ref].key = KeyOf(c)
  PROVE  Accounted'
<1>1. IsFiniteSet(admitted') /\ Credit'
  BY DEF Accounted, Credit
<1>2. Shaped'
  BY DEF Accounted, Shaped
<1>3. References'
  BY BucketStep
<1>4. TakenOnce'
  BY OnceStep
<1>5. QED
  BY <1>1, <1>2, <1>3, <1>4 DEF Accounted

LEMMA CheckHaltQuiet ==
  ASSUME Inductive, Accounted, NEW c \in Calls, CheckHalt(c)
  PROVE  Accounted'
<1> DEFINE t == call[c]
           u == IF halted THEN Follow(t, Halted(Surface(c)), "halted") ELSE [t EXCEPT !.pc = "fresh"]
<1>1. t \in Thread /\ t.at \in Nat
  BY CallIsSound, ThreadFields
<1>2. t.pc = "halt" /\ call' = [call EXCEPT ![c] = u] /\ UNCHANGED <<bucket, store, admitted>>
  BY DEF CheckHalt
<1>3. Moves(t, u) /\ u.pc \notin {"shape", "take"}
  <2>1. CASE halted
    BY <1>1, <2>1, FollowMoves
  <2>2. CASE ~halted
    <3>1. u.pc = "fresh" /\ u.at = t.at /\ u.passed = t.passed
      BY <1>1, <2>2 DEF Thread
    <3> HIDE DEF u
    <3>2. QED
      BY <1>1, <1>2, <3>1 DEF Moves, Used, Checking
  <2>3. QED
    BY <2>1, <2>2
<1> HIDE DEF u
<1>4. QED
  BY <1>2, <1>3, QuietStep

LEMMA CheckFreshQuiet ==
  ASSUME Inductive, Accounted, NEW c \in Calls, CheckFresh(c)
  PROVE  Accounted'
<1> DEFINE t == call[c]
           stale == FailClosed /\ now - cache.stamp > MaxStale
           u == IF stale THEN Follow(t, Raise("none"), "unreachable") ELSE [t EXCEPT !.pc = "copy", !.read = now]
<1>1. t \in Thread /\ t.at \in Nat
  BY CallIsSound, ThreadFields
<1>2. t.pc = "fresh" /\ call' = [call EXCEPT ![c] = u] /\ UNCHANGED <<bucket, store, admitted>>
  BY DEF CheckFresh
<1> HIDE DEF stale
<1>3. Moves(t, u) /\ u.pc \notin {"shape", "take"}
  <2>1. CASE stale
    BY <1>1, <2>1, FollowMoves
  <2>2. CASE ~stale
    <3>1. u.pc = "copy" /\ u.at = t.at /\ u.passed = t.passed
      BY <1>1, <2>2 DEF Thread
    <3> HIDE DEF u
    <3>2. QED
      BY <1>1, <1>2, <3>1 DEF Moves, Used, Checking
  <2>3. QED
    BY <2>1, <2>2
<1> HIDE DEF u
<1>4. QED
  BY <1>2, <1>3, QuietStep

LEMMA CopyQuiet ==
  ASSUME Inductive, Accounted, NEW c \in Calls, Copy(c)
  PROVE  Accounted'
<1> DEFINE t == call[c]
           late == t.read - cache.got > MaxStale
           u == [t EXCEPT !.pc = "walk", !.v = cache.v, !.late = late, !.todo = Relevant(cache.v.list, c), !.read = 0]
<1>1. t \in Thread /\ t.at \in Nat
  BY CallIsSound, ThreadFields
<1>2. t.pc = "copy" /\ call' = [call EXCEPT ![c] = u] /\ UNCHANGED <<bucket, store, admitted>>
  BY DEF Copy
<1>3. u.pc = "walk" /\ u.at = t.at /\ u.passed = t.passed
  BY <1>1 DEF Thread
<1> HIDE DEF u
<1>4. Moves(t, u)
  BY <1>1, <1>2, <1>3 DEF Moves, Used, Checking
<1>5. QED
  BY <1>2, <1>3, <1>4, QuietStep

LEMMA WalkQuiet ==
  ASSUME Inductive, Accounted, NEW c \in Calls, Walk(c)
  PROVE  Accounted'
<1> DEFINE t == call[c]
           p == First(t.todo)
           u == IF t.todo = {} THEN ActOn(t, t.v.default)
                ELSE IF Action[p] = "throttle" /\ p \notin Malformed THEN [t EXCEPT !.pc = "look", !.policy = <<p>>]
                ELSE ActOn(t, Decision(p))
<1>1. t \in Thread /\ t.at \in Nat
  BY CallIsSound, ThreadFields
<1>2. t.pc = "walk" /\ call' = [call EXCEPT ![c] = u] /\ UNCHANGED <<bucket, store, admitted>>
  BY DEF Walk
<1>3. Moves(t, u) /\ u.pc \notin {"shape", "take"}
  <2>1. \A d : Moves(t, ActOn(t, d)) /\ ActOn(t, d).pc \notin {"shape", "take"}
    BY <1>1, FollowMoves DEF ActOn
  <2>2. Moves(t, [t EXCEPT !.pc = "look", !.policy = <<p>>])
    <3> DEFINE w == [t EXCEPT !.pc = "look", !.policy = <<p>>]
    <3>1. w.pc = "look" /\ w.at = t.at /\ w.passed = t.passed
      BY <1>1 DEF Thread
    <3> HIDE DEF w
    <3>2. Moves(t, w)
      BY <1>1, <1>2, <3>1 DEF Moves, Used, Checking
    <3>3. QED
      BY <3>2 DEF w
  <2>3. [t EXCEPT !.pc = "look", !.policy = <<p>>].pc \notin {"shape", "take"}
    BY <1>1 DEF Thread
  <2>4. QED
    BY <2>1, <2>2, <2>3
<1> HIDE DEF u
<1>4. QED
  BY <1>2, <1>3, QuietStep

LEMMA LookQuiet ==
  ASSUME Inductive, Accounted, NEW c \in Calls, Look(c)
  PROVE  Accounted'
<1> DEFINE t == call[c]
           r == store.of[KeyOf(c)]
           pc == IF r = 0 THEN "make" ELSE "shape"
           u == [t EXCEPT !.pc = pc, !.read = now, !.ref = r]
<1>1. t \in Thread /\ t.at \in Nat
  BY CallIsSound, ThreadFields
<1>2. t.pc = "look" /\ call' = [call EXCEPT ![c] = u] /\ UNCHANGED <<bucket, store, admitted>>
  BY DEF Look
<1>3. KeyOf(c) \in Keys
  BY <1>2, KeyIsOne DEF Throttling
<1>4. pc \in {"make", "shape"} /\ (pc = "shape" => bucket[r].key = KeyOf(c))
  BY <1>3 DEF Accounted, References
<1> HIDE DEF pc, r
<1>5. /\ u.pc = pc /\ u.at = t.at /\ u.passed = t.passed /\ u.policy = t.policy
      /\ u.ref = r
  BY <1>1 DEF Thread
<1> HIDE DEF u
<1>6. Moves(t, u)
  BY <1>1, <1>2, <1>4, <1>5 DEF Moves, Used, Checking, Throttling
<1>7. QED
  BY <1>2, <1>4, <1>5, <1>6, QuietStep

(* A bucket that is made is full, for its version and so for every one.    *)
LEMMA MakeAccounted ==
  ASSUME Inductive, Accounted, NEW c \in Calls, Make(c)
  PROVE  Accounted'
<1> DEFINE t == call[c]
           k == KeyOf(c)
           p == k[1]
           u == [t EXCEPT !.pc = "take", !.ref = Place(c)]
<1>1. /\ t.pc = "make" /\ UNCHANGED admitted /\ k \in Keys /\ call' = [call EXCEPT ![c] = u]
      /\ store.of[k] = 0 => bucket' = Append(bucket, Made(c)) /\ Place(c) = Len(bucket) + 1
      /\ store.of[k] # 0 => bucket' = bucket /\ Place(c) = store.of[k]
      /\ \A j \in Keys : store'.of[j] = IF j = k THEN Place(c) ELSE store.of[j]
      /\ Made(c) \in Bucket /\ Made(c).key = k /\ Made(c).tokens = Full(t.v.limit)
      /\ Made(c).limit = t.v.limit /\ Made(c).refill = t.v.refill /\ Made(c).refilled = t.read
  BY MakeIs
<1>2. t \in Thread /\ t.at \in Nat /\ bucket \in Seq(Bucket) /\ Len(bucket) \in Nat /\ t.read \in Times
  BY CallIsSound, ThreadFields DEF Inductive, TypeOK
<1>3. /\ u.pc = "take" /\ u.at = t.at /\ u.passed = t.passed /\ u.policy = t.policy /\ u.ref = Place(c)
  BY <1>2 DEF Thread
<1>4. t.v \in Versions /\ p \in t.v.list
  BY <1>1, CallerLists DEF Throttling
<1> HIDE DEF u, k
<1>5. Moves(t, u)
  BY <1>1, <1>2, <1>3 DEF Moves, Used, Checking, Throttling
<1>6. CASE store.of[k] # 0
  <2>1. bucket[Place(c)].key = k
    BY <1>1, <1>6 DEF Accounted, References
  <2>2. \A j \in Keys : store'.of[j] \in {0, store.of[j]}
    BY <1>1, <1>6
  <2>3. QED
    BY <1>1, <1>3, <1>5, <1>6, <2>1, <2>2, QuietStep DEF k
<1>7. CASE store.of[k] = 0
  <2>1. /\ DOMAIN bucket' = 1 .. Len(bucket) + 1 /\ DOMAIN bucket = 1 .. Len(bucket)
        /\ \A i \in DOMAIN bucket : bucket'[i] = bucket[i]
        /\ bucket'[Len(bucket) + 1] = Made(c)
    BY <1>1, <1>2, <1>7
  <2>2. References'
    <3>1. DOMAIN bucket \subseteq DOMAIN bucket' /\ \A i \in DOMAIN bucket : bucket'[i].key = bucket[i].key
      BY <1>2, <2>1
    <3>2. \A j \in Keys : \/ store'.of[j] \in {0, store.of[j]}
                          \/ store'.of[j] \in DOMAIN bucket' /\ bucket'[store'.of[j]].key = j
      BY <1>1, <1>2, <1>7, <2>1
    <3>3. bucket'[u.ref].key = KeyOf(c)
      BY <1>1, <1>3, <1>7, <2>1 DEF k
    <3>4. QED
      BY <1>1, <1>3, <3>1, <3>2, <3>3, BucketStep
  <2>3. Shaped'
    <3>1. ShapeOf(Made(c))
      BY <1>1, <1>4 DEF ShapeOf
    <3>2. QED
      BY <2>1, <3>1 DEF Accounted, Shaped
  <2>4. ASSUME NEW s \in -Window..MaxTime PROVE Covers(Made(c), admitted, s)
    <3> DEFINE P == Unit * Cardinality(Since(admitted, k, s))
               most == Full(LeastLimit(p))
               since == LeastRefill(p) * (t.read - s)
    <3>1. P \in Nat /\ t.read \in Int /\ s \in Int
      BY <1>2, TakenCounts, EnforcementAssumption DEF Accounted, Times
    <3>2. /\ most \in Nat /\ most <= Full(t.v.limit) /\ Full(t.v.limit) \in Nat
          /\ LeastRefill(p) \in Nat
      BY <1>4, LeastOfPolicy
    <3>3. since \in Int
      BY <3>1, <3>2
    <3> HIDE DEF P, most, since
    <3>4. Full(t.v.limit) + P >= Smaller(most, since)
      BY <3>1, <3>2, <3>3 DEF Smaller
    <3>5. QED
      BY <1>1, <3>4 DEF Covers, Due, P, most, since
  <2>5. Credit'
    <3>1. SUFFICES ASSUME NEW i \in DOMAIN bucket', NEW s \in -Window..MaxTime
          PROVE  Covers(bucket'[i], admitted, s)
      BY <1>1 DEF Credit, Covers, Due, Since
    <3>2. CASE i \in DOMAIN bucket
      BY <2>1, <3>2 DEF Accounted, Credit
    <3>3. CASE i \notin DOMAIN bucket
      <4>1. bucket'[i] = Made(c)
        BY <1>2, <2>1, <3>3
      <4>2. QED
        BY <2>4, <4>1
    <3>4. QED
      BY <3>2, <3>3
  <2>6. TakenOnce'
    BY <1>1, <1>5, OnceStep
  <2>7. QED
    BY <1>1, <2>2, <2>3, <2>5, <2>6 DEF Accounted
<1>8. QED
  BY <1>6, <1>7

(* Another shape leaves the tokens of the bucket.                          *)
LEMMA ShapeAccounted ==
  ASSUME Inductive, Accounted, NEW c \in Calls, Shape(c)
  PROVE  Accounted'
<1> DEFINE t == call[c]
           b == bucket[t.ref]
           u == [t EXCEPT !.pc = "take"]
<1>1. /\ t.pc = "shape" /\ UNCHANGED <<store, admitted>> /\ call' = [call EXCEPT ![c] = u]
      /\ bucket \in Seq(Bucket) /\ t.ref \in DOMAIN bucket /\ DOMAIN bucket' = DOMAIN bucket
      /\ \A i \in DOMAIN bucket : bucket'[i] = IF i = t.ref THEN Reshaped(c) ELSE bucket[i]
      /\ Reshaped(c).limit = t.v.limit /\ Reshaped(c).refill = t.v.refill
      /\ Reshaped(c).key = b.key /\ Reshaped(c).tokens = b.tokens /\ Reshaped(c).refilled = b.refilled
  BY ShapeIs
<1>2. t \in Thread /\ t.at \in Nat
  BY CallIsSound, ThreadFields
<1>3. u.pc = "take" /\ u.at = t.at /\ u.passed = t.passed /\ u.policy = t.policy /\ u.ref = t.ref
  BY <1>2 DEF Thread
<1>4. t.v \in Versions /\ KeyOf(c)[1] \in t.v.list /\ b.key = KeyOf(c)
  BY <1>1, CallerLists DEF Throttling, Accounted, References
<1> HIDE DEF u, b
<1>5. Moves(t, u)
  BY <1>1, <1>2, <1>3 DEF Moves, Used, Checking, Throttling
<1>6. \A i \in DOMAIN bucket : bucket'[i].key = bucket[i].key
  BY <1>1 DEF b
<1>7. References'
  <2>1. bucket'[u.ref].key = KeyOf(c)
    BY <1>1, <1>3, <1>4
  <2>2. \A k \in Keys : store'.of[k] \in {0, store.of[k]}
    BY <1>1
  <2>3. QED
    BY <1>1, <1>3, <1>6, <2>1, <2>2, BucketStep
<1>8. Shaped'
  <2>1. ShapeOf(Reshaped(c))
    BY <1>1, <1>4 DEF ShapeOf
  <2>2. QED
    BY <1>1, <2>1 DEF Accounted, Shaped
<1>9. Credit'
  <2>1. SUFFICES ASSUME NEW i \in DOMAIN bucket, NEW s \in -Window..MaxTime
        PROVE  Covers(bucket'[i], admitted, s)
    BY <1>1 DEF Credit, Covers, Due, Since
  <2>2. Covers(bucket[i], admitted, s)
    BY DEF Accounted, Credit
  <2>3. bucket'[i].key = bucket[i].key /\ bucket'[i].tokens = bucket[i].tokens /\ bucket'[i].refilled = bucket[i].refilled
    BY <1>1 DEF b
  <2>4. QED
    BY <2>2, <2>3 DEF Covers
<1>10. TakenOnce'
  BY <1>1, <1>5, OnceStep
<1>11. QED
  BY <1>1, <1>7, <1>8, <1>9, <1>10 DEF Accounted

(* Behind the throttle the call keeps the policy it has taken a token of.  *)
LEMMA ConsumedMoves ==
  ASSUME NEW t \in Thread, t.pc \in {"prune", "drop"}
  PROVE  Moves(t, Consumed(t)) /\ Consumed(t).pc \notin {"shape", "take"}
<1> DEFINE u == Consumed(t)
<1>1. t.at \in Nat
  BY ThreadFields
<1>2. CASE t.ok
  <2>1. u.pc = "walk" /\ u.at = t.at /\ u.passed = t.passed \cup {t.policy[1]}
    BY <1>2 DEF Consumed, Thread
  <2> HIDE DEF u
  <2>2. Moves(t, u) /\ u.pc \notin {"shape", "take"}
    BY <1>1, <2>1 DEF Moves, Used, Checking, Throttling
  <2>3. QED
    BY <2>2 DEF u
<1>3. CASE ~t.ok
  <2> DEFINE w == [t EXCEPT !.policy = <<>>]
             out == Outcome(w.path[w.at], "throttle")
             fate == Fate(out, "throttle")
             f == Follow(w, out, fate)
  <2>1. w \in Thread /\ w.at = t.at
    BY DEF Thread
  <2>2. u = f
    BY <1>3 DEF Consumed, ActOn
  <2> HIDE DEF w, u
  <2>3. f.pc \notin {"shape", "take"} /\ f.at \in Nat /\ f.at >= w.at /\ (f.at = w.at => f.pc \notin Checking)
    BY <2>1, FollowMoves
  <2> HIDE DEF f
  <2>4. Moves(t, u) /\ u.pc \notin {"shape", "take"}
    BY <2>1, <2>2, <2>3 DEF Moves
  <2>5. QED
    BY <2>4 DEF u
<1>4. QED
  BY <1>2, <1>3

LEMMA PruneQuiet ==
  ASSUME Inductive, Accounted, NEW c \in Calls, Prune(c)
  PROVE  Accounted'
<1> DEFINE t == call[c]
           due == t.read - store.pruned >= PruneInterval
           w == [t EXCEPT !.pc = "drop"]
           u == IF due THEN w ELSE Consumed(t)
<1>1. t \in Thread /\ t.at \in Nat
  BY CallIsSound, ThreadFields
<1>2. t.pc = "prune" /\ call' = [call EXCEPT ![c] = u] /\ UNCHANGED <<bucket, store, admitted>>
  BY DEF Prune
<1> HIDE DEF due
<1>3. Moves(t, u) /\ u.pc \notin {"shape", "take"}
  <2>1. CASE due
    <3>1. w.pc = "drop" /\ w.at = t.at /\ w.passed = t.passed /\ w.policy = t.policy
      BY <1>1 DEF Thread
    <3>2. u = w
      BY <2>1
    <3> HIDE DEF u, w
    <3>3. QED
      BY <1>1, <1>2, <3>1, <3>2 DEF Moves, Used, Checking, Throttling
  <2>2. CASE ~due
    <3>1. u = Consumed(t)
      BY <2>2
    <3> HIDE DEF u
    <3>2. QED
      BY <1>1, <1>2, <3>1, ConsumedMoves
  <2>3. QED
    BY <2>1, <2>2
<1> HIDE DEF u
<1>4. QED
  BY <1>2, <1>3, QuietStep

LEMMA DropQuiet ==
  ASSUME Inductive, Accounted, NEW c \in Calls, Drop(c)
  PROVE  Accounted'
<1>1. call[c] \in Thread
  BY CallIsSound
<1>2. call[c].pc = "drop" /\ call' = [call EXCEPT ![c] = Consumed(call[c])] /\ UNCHANGED <<bucket, admitted>>
  BY DEF Drop
<1>3. QED
  BY <1>1, <1>2, DropStore, ConsumedMoves, QuietStep

LEMMA AwaitQuiet ==
  ASSUME Inductive, Accounted, NEW c \in Calls, Await(c)
  PROVE  Accounted'
<1>1. PICK granted \in BOOLEAN :
        call' = [call EXCEPT ![c] = Follow(@, AfterWait(Surface(c), granted),
                                           IF granted THEN "approved" ELSE "stopped")]
  BY DEF Await
<1> DEFINE t == call[c]
           u == Follow(t, AfterWait(Surface(c), granted), IF granted THEN "approved" ELSE "stopped")
<1>2. t \in Thread
  BY CallIsSound
<1>3. call' = [call EXCEPT ![c] = u] /\ UNCHANGED <<bucket, store, admitted>>
  BY <1>1 DEF Await
<1>4. Moves(t, u) /\ u.pc \notin {"shape", "take"}
  BY <1>2, FollowMoves
<1> HIDE DEF u
<1>5. QED
  BY <1>3, <1>4, QuietStep

LEMMA CheckFailsQuiet ==
  ASSUME Inductive, Accounted, NEW c \in Calls, CheckFails(c)
  PROVE  Accounted'
<1> DEFINE t == call[c]
           u == IF t.pc = "halt" THEN [t EXCEPT !.pc = "fresh"] ELSE Follow(t, Go, "error")
<1>1. t \in Thread /\ t.at \in Nat
  BY CallIsSound, ThreadFields
<1>2. call' = [call EXCEPT ![c] = u] /\ UNCHANGED <<bucket, store, admitted>>
  BY DEF CheckFails
<1>3. Moves(t, u) /\ u.pc \notin {"shape", "take"}
  <2>1. CASE t.pc = "halt"
    <3>1. u.pc = "fresh" /\ u.at = t.at /\ u.passed = t.passed
      BY <1>1, <2>1 DEF Thread
    <3> HIDE DEF u
    <3>2. QED
      BY <1>1, <2>1, <3>1 DEF Moves, Used, Checking
  <2>2. CASE t.pc # "halt"
    BY <1>1, <2>2, FollowMoves
  <2>3. QED
    BY <2>1, <2>2
<1> HIDE DEF u
<1>4. QED
  BY <1>2, <1>3, QuietStep

(* What a call that takes a token has found, of which key and version.     *)
LEMMA TakeFinds ==
  ASSUME Inductive, Accounted, NEW c \in Calls, call[c].pc = "take"
  PROVE  /\ KeyOf(c) \in Keys /\ bucket[call[c].ref].key = KeyOf(c)
         /\ <<KeyOf(c), call[c].read, c, call[c].at>> \notin admitted
         /\ call[c].ref \in DOMAIN bucket /\ ShapeOf(bucket[call[c].ref])
<1> DEFINE t == call[c]
           k == KeyOf(c)
           a == <<k, t.read, c, t.at>>
<1>1. /\ t \in Thread /\ Walked(t, c) /\ t.at \in Nat
  BY CallIsSound, ThreadFields
<1>2. t.todo = Relevant(t.v.list, c) \ t.passed
  BY <1>1 DEF Walked, Walking
<1>3. k \in Keys /\ k[1] \in t.todo
  BY KeyIsOne DEF Throttling
<1>4. bucket[t.ref].key = k
  BY DEF Accounted, References
<1>5. t.ref \in DOMAIN bucket /\ ShapeOf(bucket[t.ref])
  BY LeftIs DEF Accounted, Shaped
<1>6. a \notin admitted
  <2>1. SUFFICES ASSUME a \in admitted PROVE FALSE
    OBVIOUS
  <2>2. a[1] = k /\ a[3] = c /\ a[4] = t.at
    OBVIOUS
  <2>3. t.pc \in Checking /\ Used(t) = t.passed
    BY DEF Checking, Throttling, Used
  <2> HIDE DEF k, a
  <2>4. a[1][1] \in Used(call[a[3]])
    BY <2>1, <2>2, <2>3 DEF Accounted, TakenOnce
  <2>5. QED
    BY <1>2, <1>3, <2>2, <2>3, <2>4
<1>7. QED
  BY <1>3, <1>4, <1>5, <1>6

(* The bucket found has its credit when it has been refilled, by the shape *)
(* it has then.                                                            *)
LEMMA ReadyCredit ==
  ASSUME Inductive, Accounted, NEW c \in Calls, call[c].pc = "take", NEW s \in -Window..MaxTime
  PROVE  /\ Ready(c).tokens + Unit * Cardinality(Since(admitted, KeyOf(c), s)) >= Due(KeyOf(c)[1], call[c].read, s)
         /\ LeastLimit(KeyOf(c)[1]) \in Nat \ {0} /\ LeastRefill(KeyOf(c)[1]) \in Nat
         /\ Full(LeastLimit(KeyOf(c)[1])) \in Nat
         /\ Full(LeastLimit(KeyOf(c)[1])) <= LeastRefill(KeyOf(c)[1]) * Window
<1> DEFINE k == KeyOf(c)
           p == k[1]
           b == bucket[call[c].ref]
           read == call[c].read
           P == Unit * Cardinality(Since(admitted, k, s))
           full == Full(b.limit)
           enough == Full(LeastLimit(p))
           least == LeastRefill(p)
<1>1. b.key = k /\ call[c].ref \in DOMAIN bucket /\ ShapeOf(b)
  BY TakeFinds
<1>2. PICK v \in Versions : p \in v.list /\ b.limit = v.limit /\ b.refill = v.refill
  BY <1>1 DEF ShapeOf
<1>3. /\ full \in Nat /\ b.refill \in Nat /\ enough \in Nat /\ enough <= full /\ least \in Nat /\ least <= b.refill
      /\ LeastLimit(p) \in Nat \ {0} /\ enough <= least * Window
  BY <1>2, LeastOfPolicy, VersionFields
<1>4. P \in Nat /\ s \in Int
  BY TakenCounts, EnforcementAssumption DEF Accounted
<1>5. /\ b \in Bucket /\ read \in Times
      /\ Ready(c).tokens = Smaller(full, b.tokens + Larger(0, read - b.refilled) * b.refill)
  BY LeftIs
<1>6. b.tokens \in Nat /\ b.refilled \in Int /\ read \in Int
  BY <1>5 DEF Bucket, Times
<1>7. b.tokens + P >= Smaller(enough, least * (b.refilled - s))
  <2>1. Covers(b, admitted, s)
    BY <1>1 DEF Accounted, Credit
  <2>2. QED
    BY <1>1, <2>1 DEF Covers, Due
<1> HIDE DEF P, b, k, full, enough, least, read
<1>8. Smaller(full, b.tokens + Larger(0, read - b.refilled) * b.refill) + P >= Smaller(enough, least * (read - s))
  BY <1>3, <1>4, <1>6, <1>7, RefillCredit
<1>9. QED
  BY <1>3, <1>5, <1>8 DEF Due, P, k, full, enough, least, read

(* Taking more keeps what a bucket covers.                                 *)
LEMMA CoversGrows ==
  ASSUME NEW A, IsFiniteSet(A), NEW a, NEW b \in Bucket, ShapeOf(b), NEW s \in Int, Covers(b, A, s)
  PROVE  Covers(b, A \cup {a}, s)
<1>1. CASE a \in A
  <2>1. A \cup {a} = A
    BY <1>1
  <2>2. QED
    BY <2>1
<1>2. CASE a \notin A
  <2> DEFINE n == Cardinality(Since(A, b.key, s))
             m == Cardinality(Since(A \cup {a}, b.key, s))
             due == Due(b.key[1], b.refilled, s)
  <2>1. n \in Nat /\ m = n + (IF a[1] = b.key /\ a[2] > s THEN 1 ELSE 0)
    BY <1>2, TakenCounts, TakenGrows
  <2>2. b.tokens \in Nat /\ b.refilled \in Int /\ Unit \in Nat
    BY EnforcementAssumption DEF Bucket, Times
  <2>3. due \in Int
    <3>1. PICK v \in Versions : b.key[1] \in v.list
      BY DEF ShapeOf
    <3>2. Full(LeastLimit(b.key[1])) \in Nat /\ LeastRefill(b.key[1]) \in Nat
      BY <3>1, LeastOfPolicy
    <3>3. LeastRefill(b.key[1]) * (b.refilled - s) \in Int
      BY <2>2, <3>2
    <3>4. QED
      BY <3>2, <3>3 DEF Due, Smaller
  <2>4. b.tokens + Unit * n >= due
    BY DEF Covers
  <2> HIDE DEF n, m, due
  <2>5. m \in Nat /\ n <= m
    BY <2>1
  <2>6. Unit * n <= Unit * m /\ Unit * n \in Nat /\ Unit * m \in Nat
    BY <2>1, <2>2, <2>5, Products
  <2>7. b.tokens + Unit * m >= due
    BY <2>2, <2>3, <2>4, <2>6
  <2>8. QED
    BY <2>7 DEF Covers, m, due
<1>3. QED
  BY <1>1, <1>2

(* The bucket of a call that has taken a token, or was refused one, has    *)
(* its credit.                                                             *)
LEMMA LeftCovers ==
  ASSUME Inductive, Accounted, NEW c \in Calls, call[c].pc = "take", NEW s \in -Window..MaxTime,
         NEW A, A = admitted \cup (IF Given(c) THEN {<<KeyOf(c), call[c].read, c, call[c].at>>} ELSE {})
  PROVE  Covers(Left(c), A, s)
<1> DEFINE k == KeyOf(c)
           p == k[1]
           read == call[c].read
           a == <<k, read, c, call[c].at>>
           n == Cardinality(Since(admitted, k, s))
           m == Cardinality(Since(A, k, s))
           R == Ready(c).tokens
           enough == Full(LeastLimit(p))
           least == LeastRefill(p)
           lr == least * (read - s)
<1>1. a \notin admitted /\ bucket[call[c].ref].key = k
  BY TakeFinds
<1>2. /\ Left(c).key = k /\ Left(c).refilled = read /\ R \in Nat /\ read \in Times
      /\ Left(c).tokens = IF Given(c) THEN R - Unit ELSE R
  <2>1. Ready(c) \in Bucket
    BY LeftIs
  <2>2. R \in Nat
    BY <2>1 DEF Bucket
  <2>3. QED
    BY <1>1, <2>2, LeftIs
<1>3. R + Unit * n >= Smaller(enough, lr) /\ enough \in Nat /\ least \in Nat
  BY ReadyCredit DEF Due
<1>4. /\ n \in Nat /\ Unit \in Nat /\ s \in Int /\ read \in Int /\ Unit * n \in Nat
  BY <1>2, TakenCounts, EnforcementAssumption DEF Accounted, Times
<1>5. lr \in Int
  BY <1>3, <1>4
<1>6. CASE Given(c)
  <2>1. A = admitted \cup {a}
    BY <1>6
  <2>2. m = n + (IF a[1] = k /\ a[2] > s THEN 1 ELSE 0)
    <3> HIDE DEF a, k
    <3> QED BY <1>1, <2>1, TakenGrows DEF Accounted
  <2>3. m = IF read > s THEN n + 1 ELSE n
    BY <1>4, <2>2
  <2>4. R >= Unit
    BY <1>6 DEF Given
  <2>5. lr <= 0 \/ read > s
    <3>1. CASE read <= s
      <4>1. s - read \in Nat
        BY <1>4, <3>1
      <4>2. least * (s - read) \in Nat
        BY <1>3, <4>1
      <4>3. lr = -(least * (s - read))
        BY <1>3, <1>4
      <4>4. QED
        BY <4>2, <4>3
    <3>2. QED
      BY <1>4, <3>1
  <2> HIDE DEF R, n, m, enough, least, lr, read, k
  <2>6. R - Unit + Unit * m >= Smaller(enough, lr)
    <3>1. CASE read > s
      <4>1. Unit * m = Unit * n + Unit
        BY <1>4, <2>3, <3>1
      <4>2. QED
        BY <1>2, <1>3, <1>4, <1>5, <4>1 DEF Smaller
    <3>2. CASE ~(read > s)
      BY <1>2, <1>3, <1>4, <1>5, <2>3, <2>4, <2>5, <3>2 DEF Smaller
    <3>3. QED
      BY <3>1, <3>2
  <2>7. QED
    BY <1>2, <1>6, <2>6 DEF Covers, Due, m, enough, least, lr
<1>7. CASE ~Given(c)
  <2>1. A = admitted
    BY <1>7
  <2>2. QED
    BY <1>2, <1>3, <1>7, <2>1 DEF Covers, Due
<1>8. QED
  BY <1>6, <1>7

LEMMA TakeAccounted ==
  ASSUME Inductive, Accounted, NEW c \in Calls, Take(c)
  PROVE  Accounted'
<1> DEFINE t == call[c]
           k == KeyOf(c)
           a == <<k, t.read, c, t.at>>
           u == [t EXCEPT !.pc = "prune", !.ok = Given(c), !.ref = 0]
<1>1. /\ t.pc = "take" /\ Same /\ UNCHANGED store
      /\ bucket' = [bucket EXCEPT ![t.ref] = Left(c)]
      /\ call' = [call EXCEPT ![c].pc = "prune", ![c].ok = Given(c), ![c].ref = 0]
      /\ admitted' = admitted \cup (IF Given(c) THEN {a} ELSE {})
  BY TakeIs
<1>2. /\ t \in Thread /\ t.at \in Nat /\ bucket \in Seq(Bucket) /\ call \in [Calls -> Thread]
      /\ admitted \subseteq Keys \X Times \X Calls \X Nat
  BY CallIsSound, ThreadFields DEF Inductive, TypeOK
<1>3. /\ bucket[t.ref].key = k /\ ShapeOf(bucket[t.ref]) /\ t.ref \in DOMAIN bucket /\ Left(c) \in Bucket
      /\ Left(c).key = k /\ Left(c).limit = bucket[t.ref].limit /\ Left(c).refill = bucket[t.ref].refill
  <2>1. bucket[t.ref].key = k /\ ShapeOf(bucket[t.ref])
    BY <1>1, TakeFinds
  <2>2. QED
    BY <1>1, <2>1, LeftIs
<1>4. /\ u.pc = "prune" /\ u.at = t.at /\ u.passed = t.passed /\ u.policy = t.policy
      /\ call' = [call EXCEPT ![c] = u]
      /\ \A d \in Calls : call'[d] = IF d = c THEN u ELSE call[d]
  BY <1>1, <1>2 DEF Thread
<1>5. IsFiniteSet(admitted')
  BY <1>1, FS_AddElement DEF Accounted
<1>6. DOMAIN bucket' = DOMAIN bucket /\ \A i \in DOMAIN bucket : bucket'[i] = IF i = t.ref THEN Left(c) ELSE bucket[i]
  BY <1>1, <1>2, <1>3
<1>7. References'
  <2>1. \A i \in DOMAIN bucket : bucket'[i].key = bucket[i].key
    BY <1>3, <1>6
  <2>2. \A j \in Keys : store'.of[j] \in {0, store.of[j]}
    BY <1>1
  <2>3. u.pc \notin {"shape", "take"}
    BY <1>4
  <2> HIDE DEF u
  <2>4. QED
    BY <1>4, <1>6, <2>1, <2>2, <2>3, BucketStep
<1>8. Shaped'
  <2>1. ShapeOf(Left(c))
    BY <1>3 DEF ShapeOf
  <2>2. QED
    BY <1>6, <2>1 DEF Accounted, Shaped
<1>9. TakenOnce'
  <2>1. SUFFICES ASSUME NEW x \in admitted'
        PROVE  /\ x[4] <= call'[x[3]].at
               /\ x[4] = call'[x[3]].at /\ call'[x[3]].pc \in Checking => x[1][1] \in Used(call'[x[3]])
    BY DEF TakenOnce, Used
  <2>2. Used(t) = t.passed /\ t.pc \in Checking /\ Used(u) = t.passed \cup {t.policy[1]}
    BY <1>1, <1>4 DEF Used, Checking, Throttling
  <2>3. CASE x \in admitted
    <3>1. /\ x[4] <= call[x[3]].at /\ x[3] \in Calls
          /\ x[4] = call[x[3]].at /\ call[x[3]].pc \in Checking => x[1][1] \in Used(call[x[3]])
      BY <1>2, <2>3 DEF Accounted, TakenOnce
    <3>2. CASE x[3] = c
      BY <1>4, <2>2, <3>1, <3>2
    <3>3. CASE x[3] # c
      BY <1>4, <3>1, <3>3
    <3>4. QED
      BY <3>2, <3>3
  <2>4. CASE x \notin admitted
    <3>1. x = a
      BY <1>1, <2>4
    <3>2. x[3] = c /\ x[4] = t.at /\ x[1][1] = t.policy[1]
      BY <3>1 DEF KeyOf
    <3>3. call'[x[3]] = u
      BY <1>4, <3>2
    <3> HIDE DEF u
    <3>4. QED
      BY <1>2, <1>4, <2>2, <3>2, <3>3
  <2>5. QED
    BY <2>3, <2>4
<1>10. Credit'
  <2>1. SUFFICES ASSUME NEW i \in DOMAIN bucket, NEW s \in -Window..MaxTime
        PROVE  Covers(bucket'[i], admitted', s)
    BY <1>6 DEF Credit, Covers, Due, Since
  <2>2. s \in Int
    BY EnforcementAssumption
  <2>3. CASE i = t.ref
    BY <1>1, <1>6, <2>3, LeftCovers
  <2>4. CASE i # t.ref
    <3>1. bucket'[i] = bucket[i] /\ Covers(bucket[i], admitted, s) /\ bucket[i] \in Bucket /\ ShapeOf(bucket[i])
      BY <1>2, <1>6, <2>4 DEF Accounted, Credit, Shaped
    <3>2. CASE Given(c)
      <4>1. admitted' = admitted \cup {a}
        BY <1>1, <3>2
      <4>2. QED
        BY <2>2, <3>1, <4>1, CoversGrows DEF Accounted
    <3>3. CASE ~Given(c)
      <4>1. admitted' = admitted
        BY <1>1, <3>3
      <4>2. QED
        BY <3>1, <4>1
    <3>4. QED
      BY <3>2, <3>3
  <2>5. QED
    BY <2>3, <2>4
<1>11. QED
  BY <1>5, <1>7, <1>8, <1>9, <1>10 DEF Accounted

LEMMA InitAccounted ==
  ASSUME Init
  PROVE  Accounted
<1>1. admitted = {} /\ bucket = <<>> /\ store.of = [k \in Keys |-> 0]
  BY DEF Init
<1>2. ASSUME NEW c \in Calls PROVE call[c].pc = "halt"
  BY DEF Init, Stage
<1>3. IsFiniteSet(admitted)
  BY <1>1, FS_EmptySet
<1>4. References /\ Shaped
  BY <1>1, <1>2 DEF References, Shaped
<1>5. TakenOnce
  BY <1>1 DEF TakenOnce
<1>6. Credit
  BY <1>1 DEF Credit
<1>7. QED
  BY <1>3, <1>4, <1>5, <1>6 DEF Accounted

LEMMA NextAccounted ==
  ASSUME Inductive, Accounted, [Next]_vars
  PROVE  Accounted'
<1>1. ASSUME NEW c \in Calls, \/ CheckHalt(c) \/ CheckFresh(c) \/ Copy(c) \/ Walk(c) \/ Look(c)
                             \/ Make(c) \/ Shape(c) \/ Take(c) \/ Prune(c) \/ Drop(c) \/ Await(c) \/ CheckFails(c)
      PROVE  Accounted'
  BY <1>1, CheckHaltQuiet, CheckFreshQuiet, CopyQuiet, WalkQuiet, LookQuiet, MakeAccounted, ShapeAccounted,
     TakeAccounted, PruneQuiet, DropQuiet, AwaitQuiet, CheckFailsQuiet
<1>2. CASE \E c \in Calls : \/ CheckHalt(c) \/ CheckFresh(c) \/ Copy(c) \/ Walk(c) \/ Look(c)
                            \/ Make(c) \/ Shape(c) \/ Take(c) \/ Prune(c) \/ Drop(c) \/ Await(c) \/ CheckFails(c)
  BY <1>1, <1>2
<1>3. CASE \/ \E v \in Versions : Publish(v)
           \/ HaltOrResume \/ Serve \/ Deliver \/ RefreshFails \/ Tick \/ UNCHANGED vars
  <2>1. UNCHANGED <<bucket, store, call, admitted>>
    BY <1>3 DEF Publish, HaltOrResume, Serve, Deliver, RefreshFails, Tick, vars
  <2>2. References' /\ Shaped' /\ TakenOnce' /\ Credit' /\ IsFiniteSet(admitted')
    BY <2>1 DEF Accounted, References, Shaped, TakenOnce, Credit, KeyOf
  <2>3. QED
    BY <2>2 DEF Accounted
<1>4. QED
  BY <1>2, <1>3 DEF Next

(* Every token is of a bucket of its key and is counted once; a bucket has *)
(* the shape of some version that lists its policy, whichever thread gave  *)
(* it that; and looking back it holds what the slowest of those versions   *)
(* refills and has not been taken.                                         *)
THEOREM TokensAccounted == Spec => [](Inductive /\ Accounted)
<1>1. Init => Inductive /\ Accounted
  BY InitInductive, InitAccounted
<1>2. Inductive /\ Accounted /\ [Next]_vars => (Inductive /\ Accounted)'
  BY NextInductive, NextAccounted
<1>3. QED
  BY <1>1, <1>2, PTL DEF Spec

(* A call is refused a token only by a bucket without one, of which the    *)
(* tokens were taken within the longest window.                            *)
LEMMA RefusedIsDue ==
  ASSUME Inductive, Accounted, NEW c \in Calls, call[c].pc = "take", ~Given(c)
  PROVE  Cardinality(TakenBy(KeyOf(c), call[c].read)) >= LeastLimit(KeyOf(c)[1])
<1> DEFINE k == KeyOf(c)
           L == LeastLimit(k[1])
           s == call[c].read - Window
           R == Ready(c).tokens
           n == Cardinality(Since(admitted, k, s))
<1>1. Window \in Nat \ {0} /\ Unit \in Nat \ {0} /\ MaxTime \in Nat /\ call[c].read \in Times
  BY LeftIs, EnforcementAssumption
<1>2. s \in -Window..MaxTime /\ call[c].read - s = Window
  BY <1>1 DEF Times
<1>3. L \in Nat \ {0} /\ R + Unit * n >= L * Unit
  <2> DEFINE enough == Full(L)
             lr == LeastRefill(k[1]) * (call[c].read - s)
  <2>1. /\ R + Unit * n >= Smaller(enough, lr)
        /\ L \in Nat \ {0} /\ enough \in Nat /\ LeastRefill(k[1]) \in Nat /\ enough <= LeastRefill(k[1]) * Window
    BY <1>2, ReadyCredit DEF Due
  <2>2. enough <= lr
    BY <1>2, <2>1
  <2>3. lr \in Int
    BY <1>1, <1>2, <2>1
  <2>4. enough = L * Unit
    BY DEF Full
  <2> HIDE DEF R, n, s, k, L, enough, lr
  <2>5. Smaller(enough, lr) = enough
    BY <2>1, <2>2, <2>3 DEF Smaller
  <2>6. QED
    BY <2>1, <2>4, <2>5
<1>4. R \in Nat /\ R < Unit
  <2>1. Ready(c) \in Bucket
    BY LeftIs
  <2>2. R \in Nat
    BY <2>1 DEF Bucket
  <2>3. QED
    BY <1>1, <2>2 DEF Given
<1>5. n \in Nat
  BY TakenCounts DEF Accounted
<1>6. TakenBy(k, call[c].read) = Since(admitted, k, s)
  BY DEF TakenBy, Since
<1> HIDE DEF R, n, s, k, L
<1>7. n >= L
  <2>1. SUFFICES ASSUME n + 1 <= L PROVE FALSE
    BY <1>3, <1>5
  <2>2. Unit * (n + 1) <= Unit * L
    BY <1>1, <1>3, <1>5, <2>1, Products
  <2>3. Unit * (n + 1) = Unit * n + Unit /\ Unit * L = L * Unit
    BY <1>1, <1>3, <1>5
  <2>4. Unit * n \in Nat /\ L * Unit \in Nat
    BY <1>1, <1>3, <1>5
  <2>5. QED
    BY <1>1, <1>3, <1>4, <2>2, <2>3, <2>4
<1>8. QED
  BY <1>6, <1>7 DEF n, k, L

(* Only the call itself ends its taking of a token.                        *)
LEMMA OnlyTakeRefuses ==
  ASSUME Inductive, Next, NEW c \in Calls, call[c].pc = "take", call'[c].pc = "prune", ~call'[c].ok
  PROVE  ~Given(c)
<1>1. call \in [Calls -> Thread]
  BY DEF Inductive, TypeOK
<1>2. ASSUME NEW d \in Calls, \/ CheckHalt(d) \/ CheckFresh(d) \/ Copy(d) \/ Walk(d) \/ Look(d)
                             \/ Make(d) \/ Shape(d) \/ Prune(d) \/ Drop(d) \/ Await(d) \/ CheckFails(d)
      PROVE  call'[c] = call[c]
  <2>1. call[d].pc # "take"
    BY <1>2 DEF CheckHalt, CheckFresh, Copy, Walk, Look, Make, Shape, Prune, Drop, Await, CheckFails
  <2>2. d # c
    BY <2>1
  <2>3. CASE CheckHalt(d)
    BY <1>1, <2>2, <2>3 DEF CheckHalt
  <2>4. CASE CheckFresh(d)
    BY <1>1, <2>2, <2>4 DEF CheckFresh
  <2>5. CASE Copy(d)
    BY <1>1, <2>2, <2>5 DEF Copy
  <2>6. CASE Walk(d)
    BY <1>1, <2>2, <2>6 DEF Walk
  <2>7. CASE Look(d)
    BY <1>1, <2>2, <2>7 DEF Look
  <2>8. CASE Prune(d)
    BY <1>1, <2>2, <2>8 DEF Prune
  <2>9. CASE Await(d)
    BY <1>1, <2>2, <2>9 DEF Await
  <2>10. CASE CheckFails(d)
    BY <1>1, <2>2, <2>10 DEF CheckFails
  <2>11. CASE Make(d)
    BY <1>1, <2>2, <2>11 DEF Make
  <2>12. CASE Shape(d)
    BY <1>1, <2>2, <2>12 DEF Shape
  <2>13. CASE Drop(d)
    BY <1>1, <2>2, <2>13 DEF Drop
  <2>14. QED
    BY <1>2, <2>3, <2>4, <2>5, <2>6, <2>7, <2>8, <2>9, <2>10, <2>11, <2>12, <2>13
<1>3. ASSUME NEW d \in Calls, Take(d)
      PROVE  d = c
  <2>1. SUFFICES ASSUME d # c PROVE call'[c] = call[c]
    OBVIOUS
  <2>2. call' = [call EXCEPT ![d].pc = "prune", ![d].ok = Given(d), ![d].ref = 0]
    BY <1>3, TakeIs
  <2>3. QED
    BY <1>1, <2>1, <2>2
<1>4. CASE Take(c)
  <2>1. call' = [call EXCEPT ![c].pc = "prune", ![c].ok = Given(c), ![c].ref = 0]
    BY <1>4, TakeIs
  <2>2. call'[c].ok = Given(c)
    BY <1>1, <2>1 DEF Thread
  <2>3. QED
    BY <2>2
<1>5. CASE \/ \E v \in Versions : Publish(v)
           \/ HaltOrResume \/ Serve \/ Deliver \/ RefreshFails \/ Tick
  <2>1. call' = call
    BY <1>5 DEF Publish, HaltOrResume, Serve, Deliver, RefreshFails, Tick
  <2>2. QED
    BY <2>1
<1>6. QED
  BY <1>2, <1>3, <1>4, <1>5 DEF Next

(* A call is throttled only when as many calls as the least limit of the   *)
(* versions that list the policy have been admitted within the longest     *)
(* window before it read the clock, whichever version's shape its bucket   *)
(* has when the lock is taken again (ThrottleStore.consume, _consume_one). *)
THEOREM DenialsAreDueHolds == Spec => DenialsAreDue
<1>1. ASSUME Inductive, Accounted, [Next]_vars, NEW c \in Calls,
             call[c].pc = "take", call'[c].pc = "prune", ~call'[c].ok
      PROVE  Cardinality(TakenBy(KeyOf(c), call[c].read)) >= LeastLimit(KeyOf(c)[1])
  <2>1. Next
    BY <1>1 DEF vars
  <2>2. ~Given(c)
    BY <1>1, <2>1, OnlyTakeRefuses
  <2>3. QED
    BY <1>1, <2>2, RefusedIsDue
<1>2. Inductive /\ Accounted /\ [Next]_vars
        => [\A c \in Calls :
              call[c].pc = "take" /\ call'[c].pc = "prune" /\ ~call'[c].ok
                => Cardinality(TakenBy(KeyOf(c), call[c].read)) >= LeastLimit(KeyOf(c)[1])]_vars
  BY <1>1
<1>3. QED
  BY <1>2, TokensAccounted, PTL DEF Spec, DenialsAreDue
=============================================================================
