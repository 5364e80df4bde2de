--------------------------- MODULE BudgetMonitor ----------------------------
(***************************************************************************)
(* Budgets and the halts they produce: the rows of budgets and halt_state, *)
(* the requests that change them (api/budgets.py, api/halts.py), the spans *)
(* they are measured on, and the budget monitor that each receiver process *)
(* runs (budget_monitor.py).                                               *)
(*                                                                         *)
(* A tick takes a session-level advisory lock, lists the active budgets    *)
(* once and evaluates each in a transaction of its own: an aggregation, a  *)
(* look for the budget's halt, and a write.  Requests run between any two  *)
(* of these statements, so the tick works on a list that may be stale.     *)
(* The lock is lost when its connection dies, and the tick goes on.        *)
(*                                                                         *)
(* Time is counted in units of which a budget's window has Window.         *)
(***************************************************************************)
EXTENDS Integers, Sequences, FiniteSets

CONSTANTS
  Budgets,    \* ids of budgets
  Operator,   \* in place of a budget in a halt raised by an operator
  Monitors,   \* receiver processes
  NoMonitor,  \* the holder of a free lock
  Limits,     \* thresholds an operator may set
  Window,     \* length of a budget's window
  MaxTime,    \* bound on the clock
  MaxSpans,   \* bound on the spans that count for one budget
  HaltIds,    \* the ids of halts that the table's readers follow
  MaxEdits,   \* bound on the operators' changes
  MaxFaults   \* bound on crashes, lost locks and failed evaluations

ASSUME NamesAssumption == Operator \notin Budgets /\ NoMonitor \notin Monitors
ASSUME SizesAssumption == /\ Limits \subseteq Nat \ {0}
                          /\ Window \in Nat \ {0}
                          /\ MaxTime \in Nat

VARIABLES
  clock,    \* now
  budgets,  \* [Budgets -> Budget]
  spans,    \* [Budgets -> times of the spans in the budget's scope]
  halts,    \* halt_state: a sequence of HaltRow, in order of id
  mon,      \* [Monitors -> Tick]: where each process's monitor loop is
  lock,     \* the process that holds the monitor's advisory lock
  lost,     \* history: a lock was lost in the middle of a tick
  edits, faults

vars == <<clock, budgets, spans, halts, mon, lock, lost, edits, faults>>

Times == 0..MaxTime

(* reset is budget_reset_at; iteration budgets have none.                  *)
Budget == [status : {"absent", "active", "inactive", "deleted"},
           kind : {"cost", "iteration"}, limit : Nat, reset : Nat]

HaltRow == [by : Budgets \cup {Operator}, status : {"active", "cleared", "deleted"}]

(* A budget as the tick listed it.                                         *)
Listed == [id : Budgets, kind : {"cost", "iteration"}, limit : Nat, reset : Nat]

Idle == [at |-> "idle"]
Tick ==
  {Idle}
  \cup [at : {"ticking"}, now : Times, todo : SUBSET Listed]
  \cup [at : {"measured"}, now : Times, todo : SUBSET Listed, one : Listed, over : BOOLEAN]
  \cup [at : {"decided"}, now : Times, todo : SUBSET Listed, one : Listed, over : BOOLEAN,
        found : Nat]

Init ==
  /\ clock = 0
  /\ budgets = [b \in Budgets |->
                  [status |-> "absent", kind |-> "cost", limit |-> 0, reset |-> 0]]
  /\ spans = [b \in Budgets |-> <<>>]
  /\ halts = <<>>
  /\ mon = [m \in Monitors |-> Idle]
  /\ lock = NoMonitor
  /\ lost = FALSE
  /\ edits = 0
  /\ faults = 0

-----------------------------------------------------------------------------
(* The threshold.                                                          *)

(* budget_reset_at advanced by whole windows until it lies in the future.  *)
NextReset(reset, now) ==
  IF reset > now THEN reset
  ELSE reset + Window * (1 + ((now - reset) \div Window))

(* A cost budget's window is fixed, an iteration budget's rolls.           *)
WindowStart(b, now) ==
  IF b.kind = "cost" THEN NextReset(b.reset, now) - Window ELSE now - Window

(* The aggregation has a lower bound and no upper one.                     *)
Used(id, start) == Cardinality({i \in DOMAIN spans[id] : spans[id][i] >= start})

Over(id, b, now) == Used(id, WindowStart(b, now)) >= b.limit

HaltsOf(id) == {h \in DOMAIN halts : halts[h].by = id /\ halts[h].status = "active"}

-----------------------------------------------------------------------------
(* Requests.                                                               *)

Edit == edits < MaxEdits /\ edits' = edits + 1

CreateBudget(b) ==
  /\ budgets[b].status = "absent"
  /\ \E k \in {"cost", "iteration"}, l \in Limits :
       budgets' = [budgets EXCEPT ![b] =
                     [status |-> "active", kind |-> k, limit |-> l,
                      reset |-> IF k = "cost" THEN clock + Window ELSE 0]]
  /\ UNCHANGED <<clock, spans, halts, mon, lock, lost, edits, faults>>

(* PATCH: the threshold and is_active.                                     *)
PatchBudget(b) ==
  /\ budgets[b].status \in {"active", "inactive"}
  /\ \E l \in Limits, s \in {"active", "inactive"} :
       budgets' = [budgets EXCEPT ![b].limit = l, ![b].status = s]
  /\ budgets' # budgets
  /\ Edit
  /\ UNCHANGED <<clock, spans, halts, mon, lock, lost, faults>>

(* DELETE: the budget's halts go with it (ON DELETE CASCADE).              *)
DeleteBudget(b) ==
  /\ budgets[b].status \in {"active", "inactive"}
  /\ budgets' = [budgets EXCEPT ![b].status = "deleted"]
  /\ halts' = [h \in DOMAIN halts |->
                 IF halts[h].by = b THEN [halts[h] EXCEPT !.status = "deleted"] ELSE halts[h]]
  /\ Edit
  /\ UNCHANGED <<clock, spans, mon, lock, lost, faults>>

OperatorHalt ==
  /\ halts' = Append(halts, [by |-> Operator, status |-> "active"])
  /\ Edit
  /\ UNCHANGED <<clock, budgets, spans, mon, lock, lost, faults>>

(* An operator may clear any active halt, the monitor's too.               *)
OperatorClear(h) ==
  /\ halts[h].status = "active"
  /\ halts' = [halts EXCEPT ![h].status = "cleared"]
  /\ Edit
  /\ UNCHANGED <<clock, budgets, spans, mon, lock, lost, faults>>

(* Ingest stores a span; it may be reported some time after it ended.      *)
Span(b) ==
  /\ Len(spans[b]) < MaxSpans
  /\ \E t \in 0..clock : spans' = [spans EXCEPT ![b] = Append(@, t)]
  /\ UNCHANGED <<clock, budgets, halts, mon, lock, lost, edits, faults>>

TimePasses ==
  /\ clock < MaxTime
  /\ clock' = clock + 1
  /\ UNCHANGED <<budgets, spans, halts, mon, lock, lost, edits, faults>>

-----------------------------------------------------------------------------
(* The monitor of a process.                                               *)

List == {[id |-> b, kind |-> budgets[b].kind, limit |-> budgets[b].limit,
          reset |-> budgets[b].reset] : b \in {c \in Budgets : budgets[c].status = "active"}}

(* Mutant: the tick does not wait for the lock.                            *)
StartUnlocked(m) ==
  /\ mon[m] = Idle
  /\ lock' = m
  /\ mon' = [mon EXCEPT ![m] = [at |-> "ticking", now |-> clock, todo |-> List]]
  /\ UNCHANGED <<clock, budgets, spans, halts, lost, edits, faults>>

(* pg_try_advisory_lock; a process that does not get it skips its tick.    *)
StartTick(m) ==
  /\ mon[m] = Idle
  /\ lock = NoMonitor
  /\ lock' = m
  /\ mon' = [mon EXCEPT ![m] = [at |-> "ticking", now |-> clock, todo |-> List]]
  /\ UNCHANGED <<clock, budgets, spans, halts, lost, edits, faults>>

Measure(m) ==
  /\ mon[m].at = "ticking"
  /\ \E b \in mon[m].todo :
       mon' = [mon EXCEPT ![m] = [at |-> "measured", now |-> @.now, todo |-> @.todo \ {b},
                                  one |-> b, over |-> Over(b.id, b, @.now)]]
  /\ UNCHANGED <<clock, budgets, spans, halts, lock, lost, edits, faults>>

(* Mutant: the look-up does not filter by budget.                          *)
LookUpAny(m) ==
  /\ mon[m].at = "measured"
  /\ \E f \in IF \A h \in DOMAIN halts : halts[h].status # "active" THEN {0}
              ELSE {h \in DOMAIN halts : halts[h].status = "active"} :
       mon' = [mon EXCEPT ![m] = [at |-> "decided", now |-> @.now, todo |-> @.todo,
                                  one |-> @.one, over |-> @.over, found |-> f]]
  /\ UNCHANGED <<clock, budgets, spans, halts, lock, lost, edits, faults>>

(* The budget's own active halt, any of them if there are several; 0: none. *)
LookUp(m) ==
  /\ mon[m].at = "measured"
  /\ \E f \in IF HaltsOf(mon[m].one.id) = {} THEN {0} ELSE HaltsOf(mon[m].one.id) :
       mon' = [mon EXCEPT ![m] = [at |-> "decided", now |-> @.now, todo |-> @.todo,
                                  one |-> @.one, over |-> @.over, found |-> f]]
  /\ UNCHANGED <<clock, budgets, spans, halts, lock, lost, edits, faults>>

Rest(m) == [at |-> "ticking", now |-> mon[m].now, todo |-> mon[m].todo]

(* Mutant: the halt is made active again at every tick over the threshold. *)
ReconciledReviving(t) ==
  halts' = CASE t.over /\ t.found = 0 -> Append(halts, [by |-> t.one.id, status |-> "active"])
             [] t.found # 0 -> [halts EXCEPT ![t.found].status =
                                  IF t.over THEN "active" ELSE "cleared"]
             [] OTHER -> halts

(* The halt is raised or cleared to follow the measure.  Clearing is an    *)
(* UPDATE by id: a row that was cleared or deleted meanwhile stays so.     *)
Reconciled(t) ==
  halts' = CASE t.over /\ t.found = 0 -> Append(halts, [by |-> t.one.id, status |-> "active"])
             [] ~t.over /\ t.found # 0 /\ halts[t.found].status = "active" ->
                  [halts EXCEPT ![t.found].status = "cleared"]
             [] OTHER -> halts

(* The write and the commit, with the new budget_reset_at of a cost        *)
(* budget.  The new halt of a budget deleted meanwhile violates its        *)
(* foreign key, and the transaction fails.                                 *)
Write(m) ==
  /\ mon[m].at = "decided"
  /\ LET t     == mon[m]
         gone  == budgets[t.one.id].status = "deleted"
         reset == NextReset(t.one.reset, t.now)
     IN
       IF gone /\ t.over /\ t.found = 0 THEN UNCHANGED <<halts, budgets>>
       ELSE /\ Reconciled(t)
            /\ budgets' = IF gone \/ t.one.kind # "cost" \/ reset = t.one.reset THEN budgets
                          ELSE [budgets EXCEPT ![t.one.id].reset = reset]
  /\ mon' = [mon EXCEPT ![m] = Rest(m)]
  /\ UNCHANGED <<clock, spans, lock, lost, edits, faults>>

Fault == faults < MaxFaults /\ faults' = faults + 1

(* The evaluation raises: it is rolled back and the tick goes on.          *)
EvaluationFails(m) ==
  /\ mon[m].at \in {"measured", "decided"}
  /\ mon' = [mon EXCEPT ![m] = Rest(m)]
  /\ Fault
  /\ UNCHANGED <<clock, budgets, spans, halts, lock, lost, edits>>

(* Mutant: the session goes back to the pool with its lock.                *)
UnlockForgotten(m) == UNCHANGED lock

Unlocked(m) == lock' = IF lock = m THEN NoMonitor ELSE lock

EndTick(m) ==
  /\ mon[m].at = "ticking"
  /\ mon[m].todo = {}
  /\ mon' = [mon EXCEPT ![m] = Idle]
  /\ Unlocked(m)
  /\ UNCHANGED <<clock, budgets, spans, halts, lost, edits, faults>>

(* The process dies, with its transaction and its lock, and is restarted.  *)
Crash(m) ==
  /\ mon[m] # Idle
  /\ mon' = [mon EXCEPT ![m] = Idle]
  /\ Unlocked(m)
  /\ Fault
  /\ UNCHANGED <<clock, budgets, spans, halts, lost, edits>>

(* The connection that holds the lock is dropped, or handed to another     *)
(* session by a transaction pooler.                                        *)
LoseLock(m) ==
  /\ lock = m
  /\ lock' = NoMonitor
  /\ lost' = TRUE
  /\ Fault
  /\ UNCHANGED <<clock, budgets, spans, halts, mon, edits>>

-----------------------------------------------------------------------------

Requests == \/ \E b \in Budgets : CreateBudget(b) \/ PatchBudget(b) \/ DeleteBudget(b) \/ Span(b)
            \/ OperatorHalt
            \/ \E h \in DOMAIN halts : OperatorClear(h)

Step(m) == StartTick(m) \/ Measure(m) \/ LookUp(m) \/ Write(m) \/ EndTick(m)

Faulty(m) == EvaluationFails(m) \/ Crash(m) \/ LoseLock(m)

Next == \/ Requests
        \/ TimePasses
        \/ \E m \in Monitors : Step(m) \/ Faulty(m)

(* The monitor loop ticks for ever and its statements return.              *)
Fairness == \A m \in Monitors : WF_vars(Step(m))

Spec == Init /\ [][Next]_vars /\ Fairness

-----------------------------------------------------------------------------
(* Properties.                                                             *)

TypeOK ==
  /\ clock \in Times
  /\ budgets \in [Budgets -> Budget]
  /\ spans \in [Budgets -> Seq(Times)]
  /\ halts \in Seq(HaltRow)
  /\ mon \in [Monitors -> Tick]
  /\ lock \in Monitors \cup {NoMonitor}
  /\ lost \in BOOLEAN

(* A budget has at most one active halt of its own, whatever operators     *)
(* clear, change or delete between the monitor's look-up and its write,    *)
(* and however many processes run a monitor: unless a lock was lost.       *)
OneHaltPerBudget ==
  lost \/ \A b \in Budgets : \A g, h \in HaltsOf(b) : g = h

(* Only an operator ends a halt that an operator raised.                   *)
OperatorHaltsKept ==
  [][\A h \in HaltsOf(Operator) : h \notin HaltsOf(Operator)' => OperatorClear(h)]_vars

(* A budget at its threshold is halted, unless it falls below it or stops  *)
(* being active first: a failed evaluation, a crash, a lost lock or an     *)
(* operator who clears the halt only delays it.                            *)
Breached(b) == budgets[b].status = "active" /\ Over(b, budgets[b], clock)

BreachIsHalted ==
  \A b \in Budgets : Breached(b) ~> (~Breached(b) \/ HaltsOf(b) # {})

(* Once an active budget is below its threshold - its window has rolled    *)
(* over, its limit was raised - every halt it produced is cleared, also    *)
(* when a lost lock has left several.                                      *)
Recovered(b) == budgets[b].status = "active" /\ ~Over(b, budgets[b], clock)

RecoveryIsCleared ==
  \A b \in Budgets : Recovered(b) ~> (~Recovered(b) \/ HaltsOf(b) = {})

(* Both: the halts of a budget follow its spend.                           *)
HaltsFollowSpend == BreachIsHalted /\ RecoveryIsCleared

(* The rows of halt_state are what readers take them for: raised once,     *)
(* cleared once.                                                           *)
Table == INSTANCE HaltTable WITH
  Ids <- HaltIds,
  status <- [h \in HaltIds |->
               IF h \notin DOMAIN halts THEN "unset"
               ELSE IF halts[h].status = "active" THEN "active" ELSE "cleared"]

ImplementsHaltTable == Table!Spec

(* docs/budgets.md:9-10: "When the budget's window rolls over to a fresh   *)
(* one, the halt automatically clears."  The budget below its threshold    *)
(* may have been deactivated, and the monitor then never looks at it.      *)
(* Violated (README, 4).                                                   *)
BelowThreshold(b) ==
  budgets[b].status \in {"active", "inactive"} /\ ~Over(b, budgets[b], clock)

HaltClearsByItself ==
  \A b \in Budgets : BelowThreshold(b) ~> (~BelowThreshold(b) \/ HaltsOf(b) = {})
=============================================================================
