------------------------- MODULE BudgetMonitorProofs -------------------------
(***************************************************************************)
(* Proofs about BudgetMonitor: at most one halt per budget while no lock   *)
(* is lost, operators' halts left alone, and the implementation of         *)
(* HaltTable, for any number of budgets, processes and requests.           *)
(***************************************************************************)
EXTENDS BudgetMonitor, SequenceTheorems, TLAPS

(* Only the holder of the advisory lock is in a tick.                      *)
HolderTicks == \A m \in Monitors : mon[m] # Idle => lock = m

(* A halt the look-up found is a halt of the budget under evaluation.      *)
FoundIsOwn ==
  \A m \in Monitors : mon[m].at = "decided" /\ mon[m].found # 0 =>
    mon[m].found \in DOMAIN halts /\ halts[mon[m].found].by = mon[m].one.id

(* When it found none there is still none: only the monitor raises them.   *)
NoneAppeared ==
  \A m \in Monitors : mon[m].at = "decided" /\ mon[m].found = 0 =>
    HaltsOf(mon[m].one.id) = {}

OneEach == \A b \in Budgets : \A g, h \in HaltsOf(b) : g = h

Exclusive == HolderTicks /\ NoneAppeared /\ OneEach

Inductive == TypeOK /\ FoundIsOwn /\ (lost \/ Exclusive)

-----------------------------------------------------------------------------
(* How the table changes.                                                  *)

Raised(x) == halts' = Append(halts, [by |-> x, status |-> "active"])

(* Rows keep their origin, and none becomes active again.                  *)
Kept ==
  /\ DOMAIN halts' = DOMAIN halts
  /\ \A h \in DOMAIN halts :
       /\ halts'[h].by = halts[h].by
       /\ halts'[h].status = "active" => halts[h].status = "active"

(* A row that is raised is the last of the table.                          *)
LEMMA RaisedRow ==
  ASSUME halts \in Seq(HaltRow), NEW x \in Budgets \cup {Operator}, Raised(x)
  PROVE  /\ halts' \in Seq(HaltRow)
         /\ DOMAIN halts = 1..Len(halts) /\ DOMAIN halts' = 1..(Len(halts) + 1)
         /\ halts'[Len(halts) + 1] = [by |-> x, status |-> "active"]
         /\ \A h \in DOMAIN halts : halts'[h] = halts[h]
<1> DEFINE row == [by |-> x, status |-> "active"]
<1>1. row \in HaltRow
  BY DEF HaltRow
<1> HIDE DEF row
<1>2. halts' = Append(halts, row)
  BY DEF Raised, row
<1>3. QED
  BY <1>1, <1>2 DEF row

(* It is a halt of x, and of nobody else.                                  *)
LEMMA RaisedHalts ==
  ASSUME halts \in Seq(HaltRow), NEW x \in Budgets \cup {Operator}, Raised(x)
  PROVE  /\ \A y : y # x => HaltsOf(y)' = HaltsOf(y)
         /\ HaltsOf(x)' = HaltsOf(x) \cup {Len(halts) + 1}
<1> DEFINE n == Len(halts) + 1
           row == [by |-> x, status |-> "active"]
<1>1. /\ DOMAIN halts' = DOMAIN halts \cup {n} /\ n \notin DOMAIN halts
      /\ halts'[n] = row
      /\ \A h \in DOMAIN halts : halts'[h] = halts[h]
  <2>1. Len(halts) \in Nat
    OBVIOUS
  <2>2. /\ DOMAIN halts = 1..Len(halts) /\ DOMAIN halts' = 1..(Len(halts) + 1)
        /\ halts'[Len(halts) + 1] = [by |-> x, status |-> "active"]
        /\ \A h \in DOMAIN halts : halts'[h] = halts[h]
    BY RaisedRow
  <2>3. QED
    BY <2>1, <2>2
<1>2. row.by = x /\ row.status = "active"
  OBVIOUS
<1> HIDE DEF n, row
<1>3. \A y : HaltsOf(y)' = HaltsOf(y) \cup {h \in {n} : x = y}
  BY <1>1, <1>2 DEF HaltsOf
<1>4. QED
  BY <1>3 DEF n

LEMMA KeptHalts ==
  ASSUME Kept, NEW x
  PROVE  HaltsOf(x)' \subseteq HaltsOf(x)
BY DEF Kept, HaltsOf

(* One row's status is rewritten.                                          *)
LEMMA RewrittenRow ==
  ASSUME halts \in Seq(HaltRow), NEW g \in DOMAIN halts, NEW s \in {"cleared", "deleted"},
         halts' = [halts EXCEPT ![g].status = s]
  PROVE  /\ halts' \in Seq(HaltRow)
         /\ Kept
         /\ \A h \in DOMAIN halts : h # g => halts'[h] = halts[h]
         /\ halts'[g].status = s
<1>1. halts[g] \in HaltRow
  OBVIOUS
<1>2. halts'[g] = [by |-> halts[g].by, status |-> s] /\ halts'[g] \in HaltRow
  BY <1>1 DEF HaltRow
<1>3. \A h \in DOMAIN halts : h # g => halts'[h] = halts[h]
  OBVIOUS
<1>4. DOMAIN halts' = 1..Len(halts) /\ Len(halts) \in Nat /\ DOMAIN halts = 1..Len(halts)
  OBVIOUS
<1>5. \A h \in 1..Len(halts) : halts'[h] \in HaltRow
  BY <1>2, <1>3, <1>4
<1>6. halts' = [h \in 1..Len(halts) |-> halts'[h]]
  BY <1>4
<1>7. halts' \in Seq(HaltRow)
  BY <1>4, <1>5, <1>6, IsASeq
<1>8. QED
  BY <1>2, <1>3, <1>4, <1>7 DEF Kept

(* The halts of one budget are deleted.                                    *)
LEMMA DeletedRows ==
  ASSUME halts \in Seq(HaltRow), NEW b,
         halts' = [h \in DOMAIN halts |->
                     IF halts[h].by = b THEN [halts[h] EXCEPT !.status = "deleted"] ELSE halts[h]]
  PROVE  halts' \in Seq(HaltRow) /\ Kept
<1>1. DOMAIN halts = 1..Len(halts) /\ Len(halts) \in Nat
  OBVIOUS
<1>2. \A h \in DOMAIN halts : halts[h] \in HaltRow
  OBVIOUS
<1>3. \A h \in DOMAIN halts : halts'[h] \in HaltRow /\ halts'[h].by = halts[h].by
  BY <1>2 DEF HaltRow
<1>4. halts' \in Seq(HaltRow)
  BY <1>1, <1>3, IsASeq
<1>5. \A h \in DOMAIN halts : halts'[h].status = "active" => halts[h].status = "active"
  BY <1>2 DEF HaltRow
<1>6. QED
  BY <1>3, <1>4, <1>5 DEF Kept

-----------------------------------------------------------------------------
(* What a tick carries.                                                    *)
LEMMA TickStages ==
  ASSUME NEW x \in Tick
  PROVE  /\ x.at \in {"idle", "ticking", "measured", "decided"}
         /\ x.at = "idle" <=> x = Idle
         /\ x.at # "idle" => x.now \in Times /\ x.todo \subseteq Listed
         /\ x.at \in {"measured", "decided"} => x.one \in Listed /\ x.over \in BOOLEAN
         /\ x.at = "decided" => x.found \in Nat
BY DEF Tick, Idle

(* The stages of a tick.                                                   *)
LEMMA IdleTick == Idle \in Tick
BY DEF Tick

LEMMA TickingTick ==
  ASSUME NEW t \in Times, NEW todo \in SUBSET Listed
  PROVE  [at |-> "ticking", now |-> t, todo |-> todo] \in Tick
BY DEF Tick

LEMMA MeasuredTick ==
  ASSUME NEW t \in Times, NEW todo \in SUBSET Listed, NEW b \in Listed, NEW o \in BOOLEAN
  PROVE  [at |-> "measured", now |-> t, todo |-> todo, one |-> b, over |-> o] \in Tick
BY DEF Tick

LEMMA DecidedTick ==
  ASSUME NEW t \in Times, NEW todo \in SUBSET Listed, NEW b \in Listed, NEW o \in BOOLEAN,
         NEW f \in Nat
  PROVE  [at |-> "decided", now |-> t, todo |-> todo, one |-> b, over |-> o, found |-> f] \in Tick
BY DEF Tick

(* The roll-over yields a time.                                            *)
LEMMA NextResetIsTime ==
  ASSUME NEW reset \in Nat, NEW now \in Nat
  PROVE  NextReset(reset, now) \in Nat
<1>1. Window \in Nat /\ Window > 0
  BY SizesAssumption
<1>2. CASE reset > now
  BY <1>2 DEF NextReset
<1>3. CASE ~(reset > now)
  <2> DEFINE q == (now - reset) \div Window
  <2>1. now - reset \in Nat
    BY <1>3
  <2>2. q \in Nat
    BY <2>1, <1>1
  <2> HIDE DEF q
  <2>3. Window * (1 + q) \in Nat
    BY <1>1, <2>2
  <2>4. reset + Window * (1 + q) \in Nat
    BY <2>3
  <2>5. QED
    BY <1>3, <2>4 DEF NextReset, q
<1>4. QED
  BY <1>2, <1>3

LEMMA ListIsListed == TypeOK => List \subseteq Listed
BY DEF TypeOK, List, Listed, Budget

-----------------------------------------------------------------------------

LEMMA InitInductive == Init => Inductive
<1> SUFFICES ASSUME Init PROVE Inductive
  OBVIOUS
<1> USE SizesAssumption DEF Init
<1>1. Idle.at = "idle"
  BY DEF Idle
<1>2. TypeOK
  <2>1. budgets \in [Budgets -> Budget]
    BY DEF Budget
  <2>2. spans \in [Budgets -> Seq(Times)] /\ halts \in Seq(HaltRow)
    OBVIOUS
  <2>3. mon \in [Monitors -> Tick] /\ clock \in Times
    BY IdleTick DEF Times
  <2>4. QED
    BY <2>1, <2>2, <2>3 DEF TypeOK
<1>3. FoundIsOwn /\ HolderTicks /\ NoneAppeared
  BY <1>1 DEF FoundIsOwn, HolderTicks, NoneAppeared
<1>4. OneEach
  BY DEF OneEach, HaltsOf
<1>5. QED
  BY <1>2, <1>3, <1>4 DEF Inductive, Exclusive

(* A step that leaves the ticks alone, and raises no budget's halt.        *)
LEMMA TicksApart ==
  ASSUME Inductive, TypeOK', UNCHANGED <<mon, lock, lost>>,
         UNCHANGED halts \/ Kept \/ Raised(Operator)
  PROVE  Inductive'
<1> USE NamesAssumption DEF Inductive
<1>1. halts \in Seq(HaltRow)
  BY DEF TypeOK
<1>2. \A b \in Budgets : HaltsOf(b)' \subseteq HaltsOf(b)
  <2>1. CASE UNCHANGED halts
    BY <2>1 DEF HaltsOf
  <2>2. CASE Kept
    BY <2>2, KeptHalts
  <2>3. CASE Raised(Operator)
    BY <1>1, <2>3, RaisedHalts
  <2>4. QED
    BY <2>1, <2>2, <2>3
<1>3. \A h \in DOMAIN halts : h \in DOMAIN halts' /\ halts'[h].by = halts[h].by
  <2>1. CASE Raised(Operator)
    <3>1. /\ DOMAIN halts = 1..Len(halts) /\ DOMAIN halts' = 1..(Len(halts) + 1)
          /\ \A h \in DOMAIN halts : halts'[h] = halts[h]
      BY <1>1, <2>1, RaisedRow
    <3>2. Len(halts) \in Nat
      BY <1>1
    <3>3. QED
      BY <3>1, <3>2
  <2>2. QED
    BY <2>1 DEF Kept
<1>4. FoundIsOwn'
  BY <1>3 DEF FoundIsOwn
<1>5. ASSUME ~lost PROVE Exclusive'
  <2>1. \A m \in Monitors : mon[m].at = "decided" => mon[m].one.id \in Budgets
    BY TickStages DEF TypeOK, Listed
  <2>2. QED
    BY <1>2, <1>5, <2>1 DEF Exclusive, HolderTicks, NoneAppeared, OneEach
<1>6. QED
  BY <1>4, <1>5

(* Requests, spans and the clock.                                          *)
LEMMA RequestStep ==
  ASSUME Inductive, Requests \/ TimePasses
  PROVE  Inductive'
<1> USE SizesAssumption
<1>0. TypeOK
  BY DEF Inductive
<1>1. ASSUME NEW b \in Budgets, CreateBudget(b) PROVE Inductive'
  <2>1. PICK k \in {"cost", "iteration"}, l \in Limits :
          budgets' = [budgets EXCEPT ![b] =
                        [status |-> "active", kind |-> k, limit |-> l,
                         reset |-> IF k = "cost" THEN clock + Window ELSE 0]]
    BY <1>1 DEF CreateBudget
  <2>2. [status |-> "active", kind |-> k, limit |-> l,
         reset |-> IF k = "cost" THEN clock + Window ELSE 0] \in Budget
    BY <1>0 DEF TypeOK, Budget, Times
  <2>3. TypeOK'
    BY <1>0, <1>1, <2>1, <2>2 DEF CreateBudget, TypeOK
  <2>4. QED
    BY <1>1, <2>3, TicksApart DEF CreateBudget
<1>2. ASSUME NEW b \in Budgets, PatchBudget(b) PROVE Inductive'
  <2>1. PICK l \in Limits, s \in {"active", "inactive"} :
          budgets' = [budgets EXCEPT ![b].limit = l, ![b].status = s]
    BY <1>2 DEF PatchBudget
  <2>2. budgets' \in [Budgets -> Budget]
    BY <1>0, <2>1 DEF TypeOK, Budget
  <2>3. TypeOK'
    BY <1>0, <1>2, <2>2 DEF PatchBudget, TypeOK
  <2>4. QED
    BY <1>2, <2>3, TicksApart DEF PatchBudget
<1>3. ASSUME NEW b \in Budgets, DeleteBudget(b) PROVE Inductive'
  <2>1. halts' \in Seq(HaltRow) /\ Kept
    BY <1>0, <1>3, DeletedRows DEF DeleteBudget, TypeOK
  <2>2. budgets' \in [Budgets -> Budget]
    BY <1>0, <1>3 DEF DeleteBudget, TypeOK, Budget
  <2>3. TypeOK'
    BY <1>0, <1>3, <2>1, <2>2 DEF DeleteBudget, TypeOK
  <2>4. QED
    BY <1>3, <2>1, <2>3, TicksApart DEF DeleteBudget
<1>4. ASSUME NEW b \in Budgets, Span(b) PROVE Inductive'
  <2>1. PICK t \in 0..clock : spans' = [spans EXCEPT ![b] = Append(@, t)]
    BY <1>4 DEF Span
  <2>2. t \in Times /\ spans[b] \in Seq(Times)
    BY <1>0 DEF TypeOK, Times
  <2>3. Append(spans[b], t) \in Seq(Times)
    BY <2>2, AppendProperties
  <2>4. TypeOK'
    BY <1>0, <1>4, <2>1, <2>3 DEF Span, TypeOK
  <2>5. QED
    BY <1>4, <2>4, TicksApart DEF Span
<1>5. ASSUME OperatorHalt PROVE Inductive'
  <2>1. Raised(Operator)
    BY <1>5 DEF OperatorHalt, Raised
  <2>2. halts' \in Seq(HaltRow)
    BY <1>0, <2>1, RaisedRow DEF TypeOK
  <2>3. TypeOK'
    BY <1>0, <1>5, <2>2 DEF OperatorHalt, TypeOK
  <2>4. QED
    BY <1>5, <2>1, <2>3, TicksApart DEF OperatorHalt
<1>6. ASSUME NEW h \in DOMAIN halts, OperatorClear(h) PROVE Inductive'
  <2>1. halts' \in Seq(HaltRow) /\ Kept
    BY <1>0, <1>6, RewrittenRow DEF OperatorClear, TypeOK
  <2>2. TypeOK'
    BY <1>0, <1>6, <2>1 DEF OperatorClear, TypeOK
  <2>3. QED
    BY <1>6, <2>1, <2>2, TicksApart DEF OperatorClear
<1>7. ASSUME TimePasses PROVE Inductive'
  <2>1. TypeOK'
    BY <1>0, <1>7 DEF TimePasses, TypeOK, Times
  <2>2. QED
    BY <1>7, <2>1, TicksApart DEF TimePasses
<1>8. QED
  BY <1>1, <1>2, <1>3, <1>4, <1>5, <1>6, <1>7 DEF Requests

(* A step of a tick that leaves the halts alone: it starts with a free     *)
(* lock, goes on, or ends.                                                 *)
Decides(x) ==
  x.at = "decided" => /\ x.found # 0 => x.found \in DOMAIN halts /\ halts[x.found].by = x.one.id
                      /\ x.found = 0 => HaltsOf(x.one.id) = {}

LEMMA TickMoves ==
  ASSUME Inductive, NEW m \in Monitors, NEW x \in Tick,
         mon' = [mon EXCEPT ![m] = x], UNCHANGED <<clock, budgets, spans, halts, lost>>,
         Decides(x),
         \/ lock = NoMonitor /\ lock' = m
         \/ mon[m] # Idle /\ lock' = lock
         \/ x = Idle /\ lock' = IF lock = m THEN NoMonitor ELSE lock
  PROVE  Inductive'
<1> USE NamesAssumption DEF Inductive
<1>1. TypeOK'
  BY DEF TypeOK
<1>2. \A k \in Monitors : mon'[k] = IF k = m THEN x ELSE mon[k]
  BY DEF TypeOK
<1>3. FoundIsOwn'
  BY <1>2 DEF FoundIsOwn, Decides
<1>4. ASSUME ~lost PROVE Exclusive'
  <2>1. \A b : HaltsOf(b)' = HaltsOf(b)
    BY DEF HaltsOf
  <2>2. OneEach' /\ NoneAppeared'
    BY <1>2, <1>4, <2>1 DEF Exclusive, OneEach, NoneAppeared, Decides
  <2>3. HolderTicks'
    BY <1>2, <1>4 DEF Exclusive, HolderTicks
  <2>4. QED
    BY <2>2, <2>3 DEF Exclusive
<1>5. QED
  BY <1>1, <1>3, <1>4

(* What a write does: nothing to the halts, or the first halt of a budget  *)
(* without one, or the end of the halt that was found.                     *)
LEMMA WriteKinds ==
  ASSUME Inductive, NEW m \in Monitors, Write(m)
  PROVE  \/ UNCHANGED halts
         \/ Raised(mon[m].one.id) /\ mon[m].found = 0
         \/ /\ mon[m].found \in DOMAIN halts
            /\ halts[mon[m].found].by = mon[m].one.id
            /\ halts[mon[m].found].status = "active"
            /\ halts' = [halts EXCEPT ![mon[m].found].status = "cleared"]
<1> DEFINE t == mon[m]
<1>1. t.at = "decided" /\ (UNCHANGED halts \/ Reconciled(t))
  BY DEF Write
<1>2. CASE t.over /\ t.found = 0 /\ Reconciled(t)
  <2>1. Reconciled(t) => halts' = Append(halts, [by |-> t.one.id, status |-> "active"])
    BY <1>2 DEF Reconciled
  <2>2. QED
    BY <1>2, <2>1 DEF Raised
<1>3. CASE ~(t.over /\ t.found = 0) /\ Reconciled(t)
  <2>1. CASE ~t.over /\ t.found # 0 /\ halts[t.found].status = "active"
    <3>1. halts' = [halts EXCEPT ![t.found].status = "cleared"]
      BY <1>3, <2>1 DEF Reconciled
    <3>2. t.found \in DOMAIN halts /\ halts[t.found].by = t.one.id
      BY <1>1, <2>1 DEF Inductive, FoundIsOwn
    <3>3. QED
      BY <2>1, <3>1, <3>2
  <2>2. CASE ~(~t.over /\ t.found # 0 /\ halts[t.found].status = "active")
    <3>1. UNCHANGED halts
      BY <1>3, <2>2 DEF Reconciled
    <3>2. QED
      BY <3>1
  <2>3. QED
    BY <2>1, <2>2
<1>4. QED
  BY <1>1, <1>2, <1>3

LEMMA WriteStep ==
  ASSUME Inductive, NEW m \in Monitors, Write(m)
  PROVE  Inductive'
<1> USE NamesAssumption DEF Inductive
<1> DEFINE t == mon[m]
           id == t.one.id
<1>1. /\ t \in Tick /\ t.at = "decided" /\ t # Idle
      /\ t.now \in Times /\ t.todo \subseteq Listed /\ t.one \in Listed /\ t.found \in Nat
  BY TickStages DEF Write, TypeOK
<1>2. id \in Budgets /\ t.one.reset \in Nat
  BY <1>1 DEF Listed
<1>3. Rest(m) \in Tick /\ Rest(m).at = "ticking"
  BY <1>1, TickingTick DEF Rest
<1>4. \A k \in Monitors : mon'[k] = IF k = m THEN Rest(m) ELSE mon[k]
  BY DEF Write, TypeOK
<1>5. UNCHANGED <<clock, spans, lock, lost>>
  BY DEF Write
<1>6. halts \in Seq(HaltRow)
  BY DEF TypeOK
<1>7. budgets' \in [Budgets -> Budget]
  <2>1. NextReset(t.one.reset, t.now) \in Nat
    <3>1. t.now \in Nat
      BY <1>1, SizesAssumption DEF Times
    <3>2. QED
      BY <1>2, <3>1, NextResetIsTime
  <2>2. \/ budgets' = budgets
        \/ budgets' = [budgets EXCEPT ![id].reset = NextReset(t.one.reset, t.now)]
    BY DEF Write
  <2>3. \A n \in Nat : [budgets EXCEPT ![id].reset = n] \in [Budgets -> Budget]
    BY <1>2 DEF TypeOK, Budget
  <2>4. QED
    BY <2>1, <2>2, <2>3 DEF TypeOK
<1>8. mon' \in [Monitors -> Tick]
  BY <1>3 DEF Write, TypeOK
<1>9. ASSUME halts' \in Seq(HaltRow) PROVE TypeOK'
  BY <1>5, <1>7, <1>8, <1>9 DEF TypeOK
<1>10. ASSUME ~lost PROVE \A k \in Monitors : k # m => mon[k] = Idle
  BY <1>1, <1>10 DEF Exclusive, HolderTicks
<1>11. Idle.at = "idle"
  BY DEF Idle
<1>12. HolderTicks \/ lost => HolderTicks' \/ lost
  BY <1>1, <1>4, <1>5 DEF HolderTicks
<1>13. CASE UNCHANGED halts \/ (Kept /\ halts' \in Seq(HaltRow))
  <2>1. halts' \in Seq(HaltRow)
    BY <1>6, <1>13
  <2>2. \A b : HaltsOf(b)' \subseteq HaltsOf(b)
    BY <1>13, KeptHalts DEF HaltsOf
  <2>3. \A h \in DOMAIN halts : h \in DOMAIN halts' /\ halts'[h].by = halts[h].by
    BY <1>13 DEF Kept
  <2>4. FoundIsOwn'
    BY <1>3, <1>4, <2>3 DEF FoundIsOwn
  <2>5. ASSUME ~lost PROVE Exclusive'
    BY <1>3, <1>4, <1>5, <1>12, <2>2, <2>5 DEF Exclusive, NoneAppeared, OneEach
  <2>6. QED
    BY <1>5, <1>9, <2>1, <2>4, <2>5
<1>14. CASE Raised(id) /\ t.found = 0
  <2>1. halts' \in Seq(HaltRow)
    BY <1>2, <1>6, <1>14, RaisedRow
  <2>2. \A h \in DOMAIN halts : h \in DOMAIN halts' /\ halts'[h] = halts[h]
    <3>1. /\ DOMAIN halts = 1..Len(halts) /\ DOMAIN halts' = 1..(Len(halts) + 1)
          /\ \A h \in DOMAIN halts : halts'[h] = halts[h]
      BY <1>2, <1>6, <1>14, RaisedRow
    <3>2. Len(halts) \in Nat
      BY <1>6
    <3>3. QED
      BY <3>1, <3>2
  <2>3. FoundIsOwn'
    BY <1>3, <1>4, <2>2 DEF FoundIsOwn
  <2>4. ASSUME ~lost PROVE Exclusive'
    <3>1. HaltsOf(id) = {}
      BY <1>1, <1>14, <2>4 DEF Exclusive, NoneAppeared
    <3> DEFINE n == Len(halts) + 1
    <3>2. PICK c \in Budgets : c = id
      BY <1>2
    <3>3. OneEach'
      <4>1. Raised(c) /\ HaltsOf(c) = {}
        BY <1>14, <3>1, <3>2
      <4>2. /\ \A y : y # c => HaltsOf(y)' = HaltsOf(y)
            /\ HaltsOf(c)' = HaltsOf(c) \cup {n}
        BY <1>6, <4>1, RaisedHalts
      <4> HIDE DEF n
      <4> SUFFICES ASSUME NEW b \in Budgets, NEW g \in HaltsOf(b)', NEW h \in HaltsOf(b)'
                   PROVE  g = h
        BY DEF OneEach
      <4>3. CASE b = c
        BY <4>1, <4>2, <4>3
      <4>4. CASE b # c
        BY <2>4, <4>2, <4>4 DEF Exclusive, OneEach
      <4>5. QED
        BY <4>3, <4>4
    <3>4. NoneAppeared'
      BY <1>3, <1>4, <1>10, <1>11, <2>4 DEF NoneAppeared
    <3>5. QED
      BY <1>5, <1>12, <2>4, <3>3, <3>4 DEF Exclusive
  <2>5. QED
    BY <1>5, <1>9, <2>1, <2>3, <2>4
<1>15. CASE /\ t.found \in DOMAIN halts
            /\ halts' = [halts EXCEPT ![t.found].status = "cleared"]
  BY <1>6, <1>13, <1>15, RewrittenRow
<1>16. QED
  BY <1>13, <1>14, <1>15, WriteKinds

(* Every step of a tick.                                                   *)
LEMMA MonitorStep ==
  ASSUME Inductive, NEW m \in Monitors, Step(m) \/ Faulty(m)
  PROVE  Inductive'
<1> DEFINE t == mon[m]
<1>0. TypeOK /\ t \in Tick
  BY DEF Inductive, TypeOK
<1>1. /\ t.at = "idle" <=> t = Idle
      /\ t.at # "idle" => t.now \in Times /\ t.todo \in SUBSET Listed
      /\ t.at \in {"measured", "decided"} => t.one \in Listed /\ t.over \in BOOLEAN
  BY <1>0, TickStages
<1>2. CASE StartTick(m)
  <2> DEFINE x == [at |-> "ticking", now |-> clock, todo |-> List]
  <2>1. x \in Tick
    BY <1>0, TickingTick, ListIsListed DEF TypeOK
  <2>2. Decides(x)
    BY DEF Decides
  <2>3. QED
    BY <1>2, <2>1, <2>2, TickMoves DEF StartTick
<1>3. CASE Measure(m)
  <2>1. PICK b \in t.todo :
          mon' = [mon EXCEPT ![m] = [at |-> "measured", now |-> t.now, todo |-> t.todo \ {b},
                                     one |-> b, over |-> Over(b.id, b, t.now)]]
    BY <1>3 DEF Measure
  <2> DEFINE x == [at |-> "measured", now |-> t.now, todo |-> t.todo \ {b},
                   one |-> b, over |-> Over(b.id, b, t.now)]
  <2>2. t # Idle /\ Over(b.id, b, t.now) \in BOOLEAN
    BY <1>1, <1>3 DEF Measure, Over
  <2>3. x \in Tick
    BY <1>1, <1>3, <2>2, MeasuredTick DEF Measure
  <2>4. Decides(x)
    BY DEF Decides
  <2>5. QED
    BY <1>3, <2>1, <2>2, <2>3, <2>4, TickMoves DEF Measure
<1>4. CASE LookUp(m)
  <2>1. PICK f \in IF HaltsOf(t.one.id) = {} THEN {0} ELSE HaltsOf(t.one.id) :
          mon' = [mon EXCEPT ![m] = [at |-> "decided", now |-> t.now, todo |-> t.todo,
                                     one |-> t.one, over |-> t.over, found |-> f]]
    BY <1>4 DEF LookUp
  <2> DEFINE x == [at |-> "decided", now |-> t.now, todo |-> t.todo,
                   one |-> t.one, over |-> t.over, found |-> f]
  <2>2. \A h \in DOMAIN halts : h \in Nat /\ h # 0
    <3>1. DOMAIN halts = 1..Len(halts) /\ Len(halts) \in Nat
      BY <1>0 DEF TypeOK
    <3>2. QED
      BY <3>1
  <2>3. f \in Nat
    BY <2>2 DEF HaltsOf
  <2>4. x \in Tick /\ t # Idle
    BY <1>1, <1>4, <2>3, DecidedTick DEF LookUp
  <2>5. Decides(x)
    BY <2>2 DEF Decides, HaltsOf
  <2>6. QED
    BY <1>4, <2>1, <2>4, <2>5, TickMoves DEF LookUp
<1>5. CASE Write(m)
  BY <1>5, WriteStep
<1>6. CASE EndTick(m) \/ Crash(m)
  <2>1. Decides(Idle)
    BY DEF Decides, Idle
  <2>2. QED
    BY <1>6, <2>1, IdleTick, TickMoves DEF EndTick, Crash, Unlocked
<1>7. CASE EvaluationFails(m)
  <2>1. Rest(m) \in Tick /\ t # Idle
    BY <1>1, <1>7, TickingTick DEF EvaluationFails, Rest
  <2>2. Decides(Rest(m))
    BY DEF Decides, Rest
  <2>3. QED
    BY <1>7, <2>1, <2>2, TickMoves DEF EvaluationFails
<1>8. CASE LoseLock(m)
  <2>1. TypeOK'
    BY <1>0, <1>8 DEF LoseLock, TypeOK
  <2>2. FoundIsOwn'
    BY <1>8 DEF LoseLock, Inductive, FoundIsOwn
  <2>3. QED
    BY <1>8, <2>1, <2>2 DEF LoseLock, Inductive
<1>9. QED
  BY <1>2, <1>3, <1>4, <1>5, <1>6, <1>7, <1>8 DEF Step, Faulty

LEMMA NextInductive == Inductive /\ [Next]_vars => Inductive'
<1> SUFFICES ASSUME Inductive, [Next]_vars PROVE Inductive'
  OBVIOUS
<1>1. CASE UNCHANGED vars
  <2>1. TypeOK'
    BY <1>1 DEF vars, Inductive, TypeOK
  <2>2. QED
    BY <1>1, <2>1, TicksApart DEF vars
<1>2. CASE Next
  BY <1>2, RequestStep, MonitorStep DEF Next
<1>3. QED
  BY <1>1, <1>2

(* The inductive invariant of the budget monitor: only the holder of the   *)
(* lock is in a tick, and what its look-up found is still so when it       *)
(* writes.                                                                 *)
THEOREM InductiveInvariant == Spec => []Inductive
BY InitInductive, NextInductive, PTL DEF Spec

(* Budgets, spans, halts and ticks keep their types.                       *)
THEOREM TypeCorrect == Spec => []TypeOK
<1>1. Inductive => TypeOK
  BY DEF Inductive
<1>2. QED
  BY <1>1, InductiveInvariant, PTL

(* However many processes run a monitor, and whatever requests come        *)
(* between its statements, a budget has one active halt at most, unless a  *)
(* monitor lost its lock.                                                  *)
THEOREM OneHaltPerBudgetHolds == Spec => []OneHaltPerBudget
<1>1. Inductive => OneHaltPerBudget
  BY DEF Inductive, Exclusive, OneEach, OneHaltPerBudget
<1>2. QED
  BY <1>1, InductiveInvariant, PTL

-----------------------------------------------------------------------------
(* How each step changes the table: a row is raised, or rows end; a row of *)
(* an operator ends by an operator's request only.                         *)
SparesOperators == \A h \in HaltsOf(Operator) : h \in HaltsOf(Operator)' \/ OperatorClear(h)

LEMMA TableSteps ==
  ASSUME Inductive, [Next]_vars
  PROVE  \/ \E x \in Budgets \cup {Operator} : Raised(x)
         \/ Kept /\ SparesOperators
<1> USE NamesAssumption
<1>0. halts \in Seq(HaltRow)
  BY DEF Inductive, TypeOK
<1>1. ASSUME UNCHANGED halts PROVE Kept /\ SparesOperators
  BY <1>1 DEF Kept, SparesOperators, HaltsOf
<1>2. ASSUME NEW b \in Budgets, DeleteBudget(b) PROVE Kept /\ SparesOperators
  <2>1. Kept
    BY <1>0, <1>2, DeletedRows DEF DeleteBudget
  <2>2. SparesOperators
    BY <1>2 DEF DeleteBudget, SparesOperators, HaltsOf
  <2>3. QED
    BY <2>1, <2>2
<1>3. ASSUME NEW g \in DOMAIN halts, OperatorClear(g) PROVE Kept /\ SparesOperators
  <2>1. Kept /\ \A h \in DOMAIN halts : h # g => halts'[h] = halts[h]
    BY <1>0, <1>3, RewrittenRow DEF OperatorClear
  <2>2. SparesOperators
    BY <1>3, <2>1 DEF Kept, SparesOperators, HaltsOf
  <2>3. QED
    BY <2>1, <2>2
<1>4. ASSUME OperatorHalt PROVE Raised(Operator)
  BY <1>4 DEF OperatorHalt, Raised
<1>5. ASSUME NEW m \in Monitors, Write(m)
      PROVE  (\E x \in Budgets : Raised(x)) \/ (Kept /\ SparesOperators)
  <2> DEFINE f == mon[m].found
  <2>1. mon[m].one.id \in Budgets
    BY <1>5, TickStages DEF Write, Inductive, TypeOK, Listed
  <2>2. CASE UNCHANGED halts \/ Raised(mon[m].one.id)
    BY <1>1, <2>1, <2>2
  <2>3. CASE /\ f \in DOMAIN halts
             /\ halts[f].by = mon[m].one.id
             /\ halts' = [halts EXCEPT ![f].status = "cleared"]
    <3>1. Kept /\ \A h \in DOMAIN halts : h # f => halts'[h] = halts[h]
      BY <1>0, <2>3, RewrittenRow
    <3>2. f \notin HaltsOf(Operator)
      BY <2>1, <2>3 DEF HaltsOf
    <3>3. SparesOperators
      BY <3>1, <3>2 DEF Kept, SparesOperators, HaltsOf
    <3>4. QED
      BY <3>1, <3>3
  <2>4. QED
    BY <1>5, <2>2, <2>3, WriteKinds
<1>6. ASSUME NEW b \in Budgets, CreateBudget(b) \/ PatchBudget(b) \/ Span(b)
      PROVE  UNCHANGED halts
  BY <1>6 DEF CreateBudget, PatchBudget, Span
<1>7. ASSUME NEW m \in Monitors,
             StartTick(m) \/ Measure(m) \/ LookUp(m) \/ EndTick(m) \/ Faulty(m)
      PROVE  UNCHANGED halts
  BY <1>7 DEF StartTick, Measure, LookUp, EndTick, Faulty, EvaluationFails, Crash, LoseLock
<1>8. TimePasses => UNCHANGED halts
  BY DEF TimePasses
<1>9. CASE UNCHANGED vars
  BY <1>1, <1>9 DEF vars
<1>10. CASE Next
  BY <1>1, <1>2, <1>3, <1>4, <1>5, <1>6, <1>7, <1>8, <1>10 DEF Next, Requests, Step
<1>11. QED
  BY <1>9, <1>10

(* The monitor, a deletion and every fault leave the halts that operators  *)
(* raised alone.                                                           *)
THEOREM OperatorHaltsKeptHolds == Spec => OperatorHaltsKept
<1>1. ASSUME Inductive, [Next]_vars
      PROVE  \A h \in HaltsOf(Operator) : h \notin HaltsOf(Operator)' => OperatorClear(h)
  <2>1. CASE \E x \in Budgets \cup {Operator} : Raised(x)
    <3>1. PICK x \in Budgets \cup {Operator} : Raised(x)
      BY <2>1
    <3>2. HaltsOf(Operator) \subseteq HaltsOf(Operator)'
      BY <1>1, <3>1, RaisedHalts DEF Inductive, TypeOK
    <3>3. QED
      BY <3>2
  <2>2. CASE SparesOperators
    BY <2>2 DEF SparesOperators
  <2>3. QED
    BY <1>1, <2>1, <2>2, TableSteps
<1>2. Inductive /\ [Next]_vars =>
        [\A h \in HaltsOf(Operator) : h \notin HaltsOf(Operator)' => OperatorClear(h)]_vars
  BY <1>1
<1>3. QED
  BY <1>2, InductiveInvariant, PTL DEF Spec, OperatorHaltsKept

(* The rows of halt_state implement the table its readers rely on: a row   *)
(* is raised once, ends once, and never stops an agent again.              *)
THEOREM ImplementsHaltTableHolds == Spec => ImplementsHaltTable
<1> DEFINE seen == [h \in HaltIds |->
                      IF h \notin DOMAIN halts THEN "unset"
                      ELSE IF halts[h].status = "active" THEN "active" ELSE "cleared"]
<1>1. Init => Table!Init
  BY DEF Init, Table!Init
<1>2. Inductive /\ [Next]_vars => [Table!Next]_seen
  <2> SUFFICES ASSUME Inductive, [Next]_vars PROVE [Table!Next]_seen
    OBVIOUS
  <2>1. ASSUME NEW x \in Budgets \cup {Operator}, Raised(x) PROVE [Table!Next]_seen
    <3> DEFINE n == Len(halts) + 1
    <3>1. /\ DOMAIN halts = 1..Len(halts) /\ DOMAIN halts' = 1..(Len(halts) + 1)
          /\ halts'[Len(halts) + 1] = [by |-> x, status |-> "active"]
          /\ \A h \in DOMAIN halts : halts'[h] = halts[h]
      BY <2>1, RaisedRow DEF Inductive, TypeOK
    <3>2. Len(halts) \in Nat
      BY DEF Inductive, TypeOK
    <3>3. /\ DOMAIN halts' = DOMAIN halts \cup {n} /\ n \notin DOMAIN halts
          /\ halts'[n].status = "active"
      BY <3>1, <3>2
    <3> HIDE DEF n
    <3>4. CASE n \in HaltIds
      <4>1. PICK k \in HaltIds : k = n
        BY <3>4
      <4>2. Table!Raise(k)
        BY <3>1, <3>3, <4>1 DEF Table!Raise
      <4>3. QED
        BY <4>2 DEF Table!Next
    <3>5. CASE n \notin HaltIds
      BY <3>1, <3>3, <3>5
    <3>6. QED
      BY <3>4, <3>5
  <2>2. CASE Kept
    <3> DEFINE H == {h \in HaltIds : /\ h \in DOMAIN halts /\ halts[h].status = "active"
                                     /\ halts'[h].status # "active"}
    <3>1. PICK K \in SUBSET Table!Active : K = H
      BY DEF Table!Active
    <3>2. Table!Clear(K)
      BY <2>2, <3>1 DEF Table!Clear, Kept
    <3>3. QED
      BY <3>2 DEF Table!Next
  <2>3. QED
    BY <2>1, <2>2, TableSteps
<1>3. QED
  BY <1>1, <1>2, InductiveInvariant, PTL DEF Spec, ImplementsHaltTable, Table!Spec
=============================================================================
