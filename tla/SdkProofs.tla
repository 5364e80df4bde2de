------------------------------ MODULE SdkProofs -------------------------------
(***************************************************************************)
(* Proofs about the two modules of the SDK that keep a copy of what        *)
(* happens elsewhere.  HaltSync: how long a raised or a cleared halt can   *)
(* go unnoticed by a fail-closed client, for any number of halts, clients  *)
(* and calls, any threshold and any timeout.  SpanTables: that spans end   *)
(* with their operations and stay in their run's trace, in each of nine    *)
(* adapters, for any forest of operations.                                 *)
(***************************************************************************)
EXTENDS HaltSync, SpanTables, TLAPS

(* A set of halts read at time t tells every halt's status but of those    *)
(* that changed since.                                                     *)
Agrees(H, t) == \A h \in Halts : (h \in H) # (status[h] = "active") => since[h] >= t

(* A request under way is not older than the timeout, and was served in    *)
(* its course.                                                             *)
RequestsCurrent ==
  \A c \in Clients :
    /\ sync[c].at \in {"asked", "served"} => /\ sync[c].sent <= clock
                                             /\ clock <= sync[c].sent + Timeout
    /\ sync[c].at = "served" => /\ sync[c].sent <= sync[c].read
                                /\ sync[c].read <= clock
                                /\ Agrees(sync[c].halts, sync[c].read)

(* A cache was true when it was taken, at most Timeout before its stamp.   *)
CachesWereTrue ==
  \A c \in Clients : /\ taken[c] <= clock
                     /\ refreshed[c] - taken[c] <= Timeout
                     /\ Agrees(cache[c], taken[c])

Inductive == TypeOK /\ RequestsCurrent /\ CachesWereTrue

(* What a refresh in progress carries.                                     *)
LEMMA RefreshStages ==
  ASSUME NEW x \in Refresh
  PROVE  /\ x.at \in {"waiting", "asked", "served"}
         /\ x.at \in {"asked", "served"} => x.sent \in Times
         /\ x.at = "served" => x.read \in Times /\ x.halts \in SUBSET Halts
         /\ x.at = "waiting" => x = Waiting
BY DEF Refresh, Waiting

LEMMA InitInductive == Init => Inductive
<1> SUFFICES ASSUME Init PROVE Inductive
  OBVIOUS
<1> USE SyncAssumption DEF Init, Table!Init
<1>1. Waiting \in Refresh /\ Waiting.at = "waiting"
  BY DEF Refresh, Waiting
<1>2. TypeOK
  BY <1>1 DEF TypeOK, Times, Never
<1>3. RequestsCurrent
  BY <1>1 DEF RequestsCurrent
<1>4. CachesWereTrue
  BY DEF CachesWereTrue, Agrees, Never
<1>5. QED
  BY <1>2, <1>3, <1>4 DEF Inductive

(* A halt that changes now changes after any time a set was read.          *)
LEMMA ChangeIsLate ==
  ASSUME TypeOK, NEW g \in Halts, NEW s,
         status' = [status EXCEPT ![g] = s] \/ status' = [h \in Halts |-> IF h \in {g} THEN s ELSE status[h]],
         since' = [since EXCEPT ![g] = clock],
         NEW H, NEW t \in Int, t <= clock, Agrees(H, t)
  PROVE  Agrees(H, t)'
BY DEF TypeOK, Agrees, Times

(* Raising or clearing a halt.                                             *)
LEMMA HaltStep ==
  ASSUME Inductive, NEW g \in Halts, RaiseHalt(g) \/ ClearHalt(g)
  PROVE  Inductive'
<1> USE SyncAssumption DEF Inductive
<1>1. PICK s \in {"active", "cleared"} :
        status' = [status EXCEPT ![g] = s] \/ status' = [h \in Halts |-> IF h \in {g} THEN s ELSE status[h]]
  BY DEF RaiseHalt, ClearHalt, Table!Raise, Table!Clear
<1>2. /\ since' = [since EXCEPT ![g] = clock]
      /\ UNCHANGED <<clock, sync, phase, cache, refreshed, taken, call>>
  BY DEF RaiseHalt, ClearHalt
<1>3. TypeOK'
  BY <1>1, <1>2 DEF TypeOK
<1>4. \A H, t : t \in Int /\ t <= clock /\ Agrees(H, t) => Agrees(H, t)'
  BY <1>1, <1>2, ChangeIsLate
<1>5. RequestsCurrent'
  <2> SUFFICES ASSUME NEW c \in Clients
               PROVE  RequestsCurrent!(c)'
    BY DEF RequestsCurrent
  <2>1. sync[c] \in Refresh
    BY DEF TypeOK
  <2>2. QED
    BY <1>2, <1>4, <2>1, RefreshStages DEF RequestsCurrent, Times
<1>6. CachesWereTrue'
  BY <1>2, <1>4 DEF CachesWereTrue, TypeOK, Times
<1>7. QED
  BY <1>3, <1>5, <1>6

(* A client's step.                                                        *)
ClientStep(c) == Ask(c) \/ Serve(c) \/ Deliver(c) \/ RefreshFails(c) \/ Stop(c)

LEMMA RefreshStep ==
  ASSUME Inductive, NEW c \in Clients, ClientStep(c)
  PROVE  Inductive'
<1> USE SyncAssumption DEF Inductive
<1>1. sync[c] \in Refresh /\ Waiting \in Refresh /\ Waiting.at = "waiting"
  BY DEF TypeOK, Refresh, Waiting
<1>2. UNCHANGED <<clock, status, since, call>>
  BY DEF ClientStep, Ask, Serve, Deliver, RefreshFails, Stop
<1>3. \A H, t : Agrees(H, t)' <=> Agrees(H, t)
  BY <1>2 DEF Agrees
<1>4. CASE Ask(c)
  <2> DEFINE new == [at |-> "asked", sent |-> clock]
  <2>1. new \in Refresh
    BY DEF TypeOK, Refresh
  <2>2. TypeOK'
    BY <1>4, <2>1 DEF Ask, TypeOK
  <2>3. RequestsCurrent'
    BY <1>4, <1>3 DEF Ask, RequestsCurrent, TypeOK, Times
  <2>4. CachesWereTrue'
    BY <1>4, <1>3 DEF Ask, CachesWereTrue
  <2>5. QED
    BY <2>2, <2>3, <2>4
<1>5. CASE Serve(c)
  <2> DEFINE new == [at |-> "served", sent |-> sync[c].sent, read |-> clock, halts |-> Table!Active]
  <2>1. new \in Refresh
    BY <1>5, <1>1, RefreshStages DEF Serve, TypeOK, Refresh, Table!Active
  <2>2. TypeOK'
    BY <1>5, <2>1 DEF Serve, TypeOK
  <2>3. Agrees(Table!Active, clock)
    BY DEF Agrees, Table!Active
  <2>4. RequestsCurrent'
    BY <1>5, <1>3, <2>3 DEF Serve, RequestsCurrent, TypeOK, Times
  <2>5. CachesWereTrue'
    BY <1>5, <1>3 DEF Serve, CachesWereTrue
  <2>6. QED
    BY <2>2, <2>4, <2>5
<1>6. CASE Deliver(c)
  <2>1. sync[c].read \in Times /\ sync[c].sent \in Times /\ sync[c].halts \in SUBSET Halts
    BY <1>6, <1>1, RefreshStages DEF Deliver
  <2>2. TypeOK'
    BY <1>6, <1>1, <2>1 DEF Deliver, Returned, TypeOK
  <2>3. RequestsCurrent'
    BY <1>6, <1>1, <1>3 DEF Deliver, Returned, RequestsCurrent, TypeOK
  <2>4. CachesWereTrue'
    BY <1>6, <1>3, <2>1 DEF Deliver, CachesWereTrue, RequestsCurrent, TypeOK, Times
  <2>5. QED
    BY <2>2, <2>3, <2>4
<1>7. CASE RefreshFails(c)
  <2>1. TypeOK'
    BY <1>7, <1>1 DEF RefreshFails, Returned, TypeOK
  <2>2. RequestsCurrent'
    BY <1>7, <1>1, <1>3 DEF RefreshFails, Returned, RequestsCurrent, TypeOK
  <2>3. CachesWereTrue'
    BY <1>7, <1>3 DEF RefreshFails, CachesWereTrue
  <2>4. QED
    BY <2>1, <2>2, <2>3
<1>8. CASE Stop(c)
  BY <1>8, <1>3 DEF Stop, TypeOK, RequestsCurrent, CachesWereTrue
<1>9. QED
  BY <1>4, <1>5, <1>6, <1>7, <1>8 DEF ClientStep

LEMMA TimeStep ==
  ASSUME Inductive, TimePasses
  PROVE  Inductive'
<1> USE SyncAssumption DEF Inductive
<1>1. TypeOK'
  BY DEF TimePasses, TypeOK, Times
<1>2. \A H, t : Agrees(H, t)' <=> Agrees(H, t)
  BY DEF TimePasses, Agrees
<1>3. RequestsCurrent'
  <2> SUFFICES ASSUME NEW c \in Clients
               PROVE  RequestsCurrent!(c)'
    BY DEF RequestsCurrent
  <2>1. sync[c] \in Refresh /\ sync' = sync /\ clock' = clock + 1 /\ clock \in Int
    BY DEF TypeOK, TimePasses, Times
  <2>2. sync[c].at \in {"asked", "served"} => sync[c].sent \in Int /\ clock < sync[c].sent + Timeout
    BY <2>1, RefreshStages DEF TimePasses, Times
  <2>3. sync[c].at = "served" => sync[c].read \in Int
    BY <2>1, RefreshStages DEF Times
  <2>4. QED
    BY <1>2, <2>1, <2>2, <2>3 DEF RequestsCurrent
<1>4. CachesWereTrue'
  BY <1>2 DEF TimePasses, CachesWereTrue, TypeOK, Times
<1>5. QED
  BY <1>1, <1>3, <1>4

(* A call's step touches only the call.                                    *)
CallStep(k) == Check(k) \/ Decide(k) \/ Approved(k) \/ NotApproved(k)

LEMMA CallsApart ==
  ASSUME Inductive, NEW k \in Calls, CallStep(k)
  PROVE  Inductive'
<1>1. UNCHANGED <<clock, status, since, sync, phase, cache, refreshed, taken, faults>>
  BY DEF CallStep, Check, Decide, Approved, NotApproved
<1>2. call' \in [Calls -> {"new", "unreachable", "halted", "checked", "held", "ran", "refused"}]
  BY DEF CallStep, Check, Decide, Approved, NotApproved, Inductive, TypeOK
<1>3. TypeOK'
  BY <1>1, <1>2 DEF Inductive, TypeOK
<1>4. RequestsCurrent' /\ CachesWereTrue'
  BY <1>1 DEF Inductive, RequestsCurrent, CachesWereTrue, Agrees
<1>5. QED
  BY <1>3, <1>4 DEF Inductive

LEMMA NextInductive == Inductive /\ [Next]_vars => Inductive'
<1> SUFFICES ASSUME Inductive, [Next]_vars PROVE Inductive'
  OBVIOUS
<1>1. CASE UNCHANGED vars
  BY <1>1 DEF vars, Inductive, TypeOK, RequestsCurrent, CachesWereTrue, Agrees
<1>2. CASE Next
  BY <1>2, HaltStep, RefreshStep, TimeStep, CallsApart DEF Next, ClientStep, CallStep
<1>3. QED
  BY <1>1, <1>2

(* The inductive invariant of the halt caches: every copy of the halts, in *)
(* a cache or on its way, was true when the receiver read it, and is       *)
(* stamped at most a timeout later.                                        *)
THEOREM InductiveInvariant == Spec => []Inductive
BY InitInductive, NextInductive, PTL DEF Spec

(* Clocks, caches, refreshes and calls keep their types.                   *)
THEOREM TypeCorrect == Spec => []TypeOK
<1>1. Inductive => TypeOK
  BY DEF Inductive
<1>2. QED
  BY <1>1, InductiveInvariant, PTL

(* A copy is no older than its stamp and a timeout.                        *)
LEMMA FreshCopy ==
  ASSUME Inductive, NEW c \in FailClosed, ~Stale(c), NEW h \in Halts,
         (h \in cache[c]) # (status[h] = "active")
  PROVE  clock - since[h] <= Lag
<1> USE SyncAssumption
<1>1. c \in Clients
  OBVIOUS
<1>2. /\ clock \in Int /\ refreshed[c] \in Int /\ taken[c] \in Int /\ since[h] \in Int
  BY <1>1 DEF Inductive, TypeOK, Times, Never
<1>3. since[h] >= taken[c] /\ refreshed[c] - taken[c] <= Timeout
  BY <1>1 DEF Inductive, CachesWereTrue, Agrees
<1>4. ~(clock - refreshed[c] > MaxStale)
  BY DEF Stale
<1>5. QED
  BY <1>2, <1>3, <1>4 DEF Lag

(* A call that was new and is so no longer was checked.                    *)
LEMMA OnlyCheck ==
  ASSUME Inductive, [Next]_vars, NEW k \in Calls, call[k] = "new", call'[k] # "new"
  PROVE  Check(k)
<1>1. Next
  BY DEF vars
<1>2. ~ (UNCHANGED call)
  OBVIOUS
<1>3. PICK j \in Calls : CallStep(j)
  BY <1>1, <1>2 DEF Next, CallStep, RaiseHalt, ClearHalt, TimePasses, Ask, Serve, Deliver, RefreshFails, Stop
<1>4. j = k
  BY <1>3 DEF CallStep, Check, Decide, Approved, NotApproved, Inductive, TypeOK
<1>5. QED
  BY <1>3, <1>4 DEF CallStep, Decide, Approved, NotApproved

(* A halt stops the calls of a fail-closed client within the threshold and *)
(* one refresh of being raised.                                            *)
THEOREM HaltReachesCallsHolds == Spec => HaltReachesCalls
<1>1. ASSUME Inductive, [Next]_vars, NEW k \in Calls,
             call[k] = "new", call'[k] = "checked", ClientOf[k] \in FailClosed,
             NEW h \in Table!Active, ClientOf[k] \in Scope[h]
      PROVE  clock - since[h] <= Lag
  <2>1. Check(k)
    BY <1>1, OnlyCheck
  <2>2. ~Stale(ClientOf[k]) /\ Halting(ClientOf[k]) = {}
    BY <1>1, <2>1 DEF Check, Inductive, TypeOK
  <2>3. h \in Halts /\ status[h] = "active" /\ h \notin cache[ClientOf[k]]
    BY <1>1, <2>2 DEF Table!Active, Halting
  <2>4. QED
    BY <1>1, <2>2, <2>3, FreshCopy
<1>2. Inductive /\ [Next]_vars =>
        [\A k \in Calls : LET c == ClientOf[k] IN
           call[k] = "new" /\ call'[k] = "checked" /\ c \in FailClosed
             => \A h \in Table!Active : c \in Scope[h] => clock - since[h] <= Lag]_vars
  BY <1>1
<1>3. QED
  BY <1>2, InductiveInvariant, PTL DEF Spec, HaltReachesCalls

(* A halt that was cleared stops the calls of a fail-closed client no      *)
(* longer than that.                                                       *)
THEOREM ClearReachesCallsHolds == Spec => ClearReachesCalls
<1>1. ASSUME Inductive, [Next]_vars, NEW k \in Calls,
             call[k] = "new", call'[k] = "halted", ClientOf[k] \in FailClosed,
             NEW h \in Halting(ClientOf[k]), h \notin Table!Active
      PROVE  clock - since[h] <= Lag
  <2>1. Check(k)
    BY <1>1, OnlyCheck
  <2>2. ~Stale(ClientOf[k])
    BY <1>1, <2>1 DEF Check, Inductive, TypeOK
  <2>3. ClientOf[k] \in Clients
    BY SyncAssumption
  <2>4. h \in cache[ClientOf[k]] /\ h \in Halts
    BY <2>3, <1>1 DEF Halting, Inductive, TypeOK
  <2>5. status[h] # "active"
    BY <1>1, <2>4 DEF Table!Active
  <2>6. QED
    BY <1>1, <2>2, <2>4, <2>5, FreshCopy
<1>2. Inductive /\ [Next]_vars =>
        [\A k \in Calls : LET c == ClientOf[k] IN
           call[k] = "new" /\ call'[k] = "halted" /\ c \in FailClosed
             => \A h \in Halting(c) : h \in Table!Active \/ clock - since[h] <= Lag]_vars
  BY <1>1
<1>3. QED
  BY <1>2, InductiveInvariant, PTL DEF Spec, ClearReachesCalls
-----------------------------------------------------------------------------
(* A step runs while what called it runs, and after its run has begun.     *)
Nested ==
  \A s \in Steps : /\ run[s] = "running" => run[Parent[s]] = "running"
                   /\ run[s] # "new" => run[RunOf[s]] # "new"

(* No operation has a span, or an address, before it begins.               *)
Fresh == \A o \in Ops : run[o] = "new" => span[o] = "none" /\ at[o] = Nothing

(* The trace of a run is its own.                                          *)
Rooted == \A r \in Runs : span[r] # "none" => root[r] = r

(* The operations whose span is recorded when they are over.               *)
Late(o) == o \in Tools /\ framework \in {"google_adk", "claude_agent"}

Recording == \A o \in Ops : Late(o) /\ span[o] # "none" => run[o] = "over"

(* A span is open as long as its operation runs, where the adapter has it  *)
(* that way, and few adapters cut one off.                                 *)
Covering ==
  \A o \in Ops : framework # "crewai" /\ ~Mixed(o) /\ ~Late(o) /\ run[o] = "running"
                   => span[o] = "open" \/ o \in cut
Cutting == cut # {} => framework \in {"langgraph", "openai_agents", "claude_agent"}

(* The operations whose open spans are all in the table by their ids.      *)
Keyed(o) == \/ framework \in {"langgraph", "openai_agents"}
            \/ framework \in {"google_adk", "pydantic_ai"} /\ o \in Runs

(* What the table has by an operation's id is its open span.               *)
Tabled ==
  \A o \in Ops : /\ table[o] \in {Nothing, o}
                 /\ table[o] = o => span[o] = "open" /\ (Keyed(o) \/ framework = "crewai")
                 /\ Keyed(o) /\ span[o] = "open" => table[o] = o

(* What it has by a session is the open span of a turn of it, which is the *)
(* one that runs, if one does.                                             *)
TurnsTabled ==
  /\ \A k \in Sessions : table[k] # Nothing =>
       framework = "claude_agent" /\ table[k] \in Runs /\ Session[table[k]] = k /\ span[table[k]] = "open"
  /\ framework = "claude_agent" =>
       \A r \in Runs : /\ run[r] = "running" => table[Session[r]] = r
                       /\ run[r] = "over" => span[r] # "open"

(* The entry of an address in the table of model spans is that of the      *)
(* request that runs with it.                                              *)
ModelsSound ==
  /\ \A i \in DOMAIN models : /\ models[i].of \in Steps \ Tools /\ span[models[i].of] # "none"
                              /\ \A o \in Ops : run[o] = "running" /\ at[o] = models[i].at => models[i].of = o
                              /\ \A j \in DOMAIN models : models[i].at = models[j].at => i = j
  /\ models # <<>> => framework \in {"google_adk", "pydantic_ai"}

(* Google's callbacks find the entry of every request that runs.           *)
RequestsFound ==
  framework = "google_adk" => \A o \in Steps \ Tools : run[o] = "running" =>
    at[o] # Nothing /\ \E i \in DOMAIN models : models[i].at = at[o] /\ models[i].of = o

(* An event that waits for a thread has not been handled.                  *)
Pooled ==
  /\ pool # {} => framework = "crewai"
  /\ \A o \in Ops : /\ <<"start", o>> \in pool => span[o] = "none" /\ run[o] # "new"
                    /\ <<"end", o>> \in pool => run[o] = "over"

Following ==
  /\ SpanTypeOK /\ Nested /\ Fresh /\ Rooted /\ EndsWithRun /\ OneTrace
  /\ Recording /\ Covering /\ Cutting
  /\ Tabled /\ TurnsTabled /\ ModelsSound /\ RequestsFound /\ Pooled
-----------------------------------------------------------------------------
LEMMA SpanInitFollows == SpanInit => Following
<1> SUFFICES ASSUME SpanInit PROVE Following
  OBVIOUS
<1> USE SpanTablesAssumption DEF SpanInit, Ops, Keys, Some
<1>1. SpanTypeOK
  BY DEF SpanTypeOK, Status
<1>2. Nested /\ Fresh /\ Rooted /\ EndsWithRun /\ OneTrace
  BY DEF Nested, Fresh, Rooted, EndsWithRun, OneTrace
<1>3. Tabled /\ TurnsTabled /\ Recording /\ Covering /\ Cutting
  BY DEF Tabled, TurnsTabled, Recording, Covering, Cutting
<1>4. ModelsSound /\ RequestsFound /\ Pooled
  BY DEF ModelsSound, RequestsFound, Pooled
<1>5. QED
  BY <1>1, <1>2, <1>3, <1>4 DEF Following

(* A run goes on as long as a step of it does: calls do not go round.      *)
LEMMA RunGoesOn ==
  ASSUME SpanTypeOK, Nested, NEW s \in Steps, run[s] = "running"
  PROVE  run[RunOf[s]] = "running"
<1> DEFINE S == {x \in Steps : run[x] = "running" /\ RunOf[x] = RunOf[s]}
<1>1. S \in (SUBSET Steps) \ {{}}
  OBVIOUS
<1>2. PICK x \in S : Parent[x] \notin S
  BY <1>1, SpanTablesAssumption
<1>3. x \in Steps /\ run[x] = "running" /\ RunOf[x] = RunOf[s]
  OBVIOUS
<1>4. run[Parent[x]] = "running" /\ Parent[x] \in Ops
  BY <1>3, SpanTablesAssumption DEF Nested
<1>5. Parent[x] \notin Steps \/ RunOf[Parent[x]] # RunOf[s]
  BY <1>2, <1>4
<1>6. Parent[x] \in Runs /\ RunOf[x] = Parent[x]
  BY <1>3, <1>4, <1>5, SpanTablesAssumption DEF Ops
<1>7. QED
  BY <1>3, <1>4, <1>6

(* Whether an operation goes as the frameworks promise.                    *)
Goal(o, stage) ==
  \/ Begins(o) /\ stage \in {"running", "over"}
  \/ Finishes(o) /\ stage = "over"

(* A trace the span of an operation may be in.                             *)
Traced(o, first) ==
  /\ first \in Ops
  /\ o \in Runs => first = o
  /\ o \in Steps => \/ first = RunOf[o]
                    \/ first \in Steps /\ RunOf[first] = RunOf[o] /\ (Parent[first] \in cut \/ framework = "crewai")

(* The span of an operation is opened, recorded, ended or left alone.      *)
Spanned(o, kind, first) ==
  \/ kind = span[o] /\ first = root[o]
  \/ kind \in {"open", "ended"} /\ span[o] = "none" /\ Traced(o, first)
  \/ kind = "ended" /\ span[o] = "open" /\ first = root[o]

(* One operation goes on, with its span and its place in the table.        *)
Moves(o, stage, kind, first, entry) ==
  /\ framework' = framework /\ pool' = pool
  /\ framework # "crewai" /\ (framework = "claude_agent" => o \in Steps)
  /\ run' = [run EXCEPT ![o] = stage] /\ Goal(o, stage)
  /\ span' = [span EXCEPT ![o] = kind] /\ root' = [root EXCEPT ![o] = first] /\ Spanned(o, kind, first)
  /\ table' = [table EXCEPT ![o] = entry] /\ entry \in {Nothing, o}
  /\ entry = o => kind = "open" /\ Keyed(o)
  /\ Keyed(o) /\ kind = "open" => entry = o
  /\ cut' \in {cut, cut \cup {o}} /\ (framework # "langgraph" => cut' = cut)
  /\ Late(o) /\ kind # "none" => stage = "over"
  /\ ~Mixed(o) => /\ kind = "ended" => stage = "over" \/ o \in cut'
                  /\ ~(stage = "over" /\ kind = "open")
                  /\ ~Late(o) /\ stage = "running" => kind = "open" \/ o \in cut'

LEMMA GoingNests ==
  ASSUME SpanTypeOK, Nested, NEW o \in Ops, NEW stage, Goal(o, stage), run' = [run EXCEPT ![o] = stage]
  PROVE  run' \in [Ops -> Status] /\ Nested'
<1> USE SpanTablesAssumption
<1>1. run \in [Ops -> Status] /\ stage \in Status /\ Steps \subseteq Ops /\ Runs \subseteq Ops
  BY DEF SpanTypeOK, Goal, Status, Ops
<1>2. ASSUME NEW s \in Steps, run'[s] = "running"
      PROVE  run'[Parent[s]] = "running"
  <2>1. Parent[s] \in Ops /\ s \in Ops
    BY <1>1
  <2>2. CASE s = o
    <3>1. Begins(o)
      BY <1>1, <1>2, <2>2 DEF Goal
    <3>2. QED
      BY <1>1, <1>2, <2>1, <2>2, <3>1 DEF Begins
  <2>3. CASE s # o
    <3>1. run[s] = "running" /\ run[Parent[s]] = "running"
      BY <1>1, <1>2, <2>1, <2>3 DEF Nested
    <3>2. Parent[s] # o
      BY <3>1 DEF Goal, Begins, Finishes
    <3>3. QED
      BY <1>1, <2>1, <3>1, <3>2
  <2>4. QED
    BY <2>2, <2>3
<1>3. ASSUME NEW s \in Steps, run'[s] # "new"
      PROVE  run'[RunOf[s]] # "new"
  <2>1. RunOf[s] \in Ops /\ s \in Ops /\ Parent[s] \in Ops
    BY <1>1
  <2>2. stage # "new"
    BY DEF Goal
  <2>3. run[RunOf[s]] # "new"
    <3>1. CASE run[s] # "new"
      BY <3>1 DEF Nested
    <3>2. CASE run[s] = "new"
      <4>1. s = o /\ run[Parent[s]] = "running"
        BY <1>1, <1>3, <2>1, <3>2 DEF Goal, Begins, Finishes
      <4>2. QED
        BY <1>1, <2>1, <4>1 DEF Nested, Ops
    <3>3. QED
      BY <3>1, <3>2
  <2>4. QED
    BY <1>1, <2>1, <2>2, <2>3
<1>4. QED
  BY <1>1, <1>2, <1>3 DEF Nested

LEMMA SpannedKeeps ==
  ASSUME SpanTypeOK, Rooted, OneTrace, NEW o \in Ops, NEW kind, NEW first, Spanned(o, kind, first),
         span' = [span EXCEPT ![o] = kind], root' = [root EXCEPT ![o] = first],
         framework' = framework, cut \subseteq cut'
  PROVE  /\ span' \in [Ops -> {"none", "open", "ended"}] /\ root' \in [Ops -> Some(Ops)]
         /\ \A x \in Ops : span'[x] = "none" <=> root'[x] = Nothing
         /\ Rooted' /\ OneTrace'
<1>1. /\ span \in [Ops -> {"none", "open", "ended"}] /\ root \in [Ops -> Some(Ops)]
      /\ Runs \subseteq Ops /\ Steps \subseteq Ops /\ Nothing \notin Ops
      /\ \A x \in Ops : span[x] = "none" <=> root[x] = Nothing
  BY SpanTablesAssumption DEF SpanTypeOK, Ops
<1>2. /\ kind \in {"none", "open", "ended"} /\ first \in Some(Ops)
      /\ kind = "none" <=> first = Nothing
      /\ kind = "none" => span[o] = "none"
  BY <1>1 DEF Spanned, Traced, Some
<1>3. span' \in [Ops -> {"none", "open", "ended"}] /\ root' \in [Ops -> Some(Ops)]
  BY <1>1, <1>2
<1>4. /\ span'[o] = kind /\ root'[o] = first
      /\ \A x \in Ops : x # o => span'[x] = span[x] /\ root'[x] = root[x]
  BY <1>1
<1>5. \A x \in Ops : span'[x] = "none" <=> root'[x] = Nothing
  BY <1>1, <1>2, <1>4
<1>6. Rooted'
  BY <1>1, <1>4 DEF Rooted, Spanned, Traced
<1>7. ASSUME NEW s \in Steps, span'[s] # "none"
      PROVE  \/ root'[s] = RunOf[s]
             \/ /\ root'[s] \in Steps /\ RunOf[root'[s]] = RunOf[s]
                /\ Parent[root'[s]] \in cut' \/ framework' = "crewai"
  <2>1. CASE s # o
    BY <1>1, <1>4, <1>7, <2>1 DEF OneTrace
  <2>2. CASE s = o /\ span[o] # "none"
    BY <1>1, <1>4, <1>7, <2>2 DEF OneTrace, Spanned
  <2>3. CASE s = o /\ span[o] = "none"
    BY <1>1, <1>4, <1>7, <2>3 DEF Spanned, Traced
  <2>4. QED
    BY <2>1, <2>2, <2>3
<1>8. OneTrace'
  BY <1>7 DEF OneTrace
<1>9. QED
  BY <1>3, <1>5, <1>6, <1>8

(* ... keeps all but what is said of the model spans.                      *)
LEMMA MovesKeep ==
  ASSUME Following, NEW o \in Ops, NEW stage, NEW kind, NEW first, NEW entry, Moves(o, stage, kind, first, entry),
         at' \in [Ops -> Some(Addresses)], \A x \in Ops : x # o => at'[x] = at[x],
         models' \in Seq([at : Addresses, of : Steps])
  PROVE  /\ SpanTypeOK' /\ Nested' /\ Fresh' /\ Rooted' /\ EndsWithRun' /\ OneTrace'
         /\ Recording' /\ Covering' /\ Cutting'
         /\ Tabled' /\ TurnsTabled' /\ Pooled'
<1> USE SpanTablesAssumption DEF Following
<1>1. /\ framework' = framework /\ pool' = pool /\ framework # "crewai" /\ (framework = "claude_agent" => o \in Steps)
      /\ run' = [run EXCEPT ![o] = stage] /\ Goal(o, stage)
      /\ span' = [span EXCEPT ![o] = kind] /\ root' = [root EXCEPT ![o] = first] /\ Spanned(o, kind, first)
      /\ table' = [table EXCEPT ![o] = entry] /\ entry \in {Nothing, o}
      /\ cut' \in {cut, cut \cup {o}}
  BY DEF Moves
<1>2. /\ run \in [Ops -> Status] /\ span \in [Ops -> {"none", "open", "ended"}] /\ root \in [Ops -> Some(Ops)]
      /\ table \in [Keys -> Some(Ops)] /\ Ops \subseteq Keys /\ Sessions \subseteq Keys /\ Sessions \cap Ops = {}
      /\ Runs \subseteq Ops /\ Steps \subseteq Ops
      /\ \A x \in Ops : span[x] = "none" <=> root[x] = Nothing
  BY DEF SpanTypeOK, Keys, Ops
<1>3. run' \in [Ops -> Status] /\ Nested'
  BY <1>1, GoingNests
<1>4. /\ span' \in [Ops -> {"none", "open", "ended"}] /\ root' \in [Ops -> Some(Ops)]
      /\ \A x \in Ops : span'[x] = "none" <=> root'[x] = Nothing
  BY <1>1, SpannedKeeps
<1>5. SpanTypeOK'
  <2>1. cut' \subseteq Ops /\ pool' \subseteq {"start", "end"} \X Ops /\ framework' \in Frameworks
    BY <1>1 DEF SpanTypeOK
  <2>2. table' \in [Keys -> Some(Ops)]
    BY <1>1, <1>2 DEF Some
  <2>3. QED
    BY <1>3, <1>4, <2>1, <2>2 DEF SpanTypeOK
<1>6. /\ stage \in {"running", "over"}
      /\ run'[o] = stage /\ span'[o] = kind /\ root'[o] = first /\ table'[o] = entry
      /\ \A x \in Ops : x # o => run'[x] = run[x] /\ span'[x] = span[x] /\ root'[x] = root[x] /\ table'[x] = table[x]
      /\ \A k \in Sessions : table'[k] = table[k]
  BY <1>1, <1>2 DEF Goal
<1>7. Fresh'
  BY <1>6 DEF Fresh
<1>8. Rooted' /\ OneTrace'
  BY <1>1, SpannedKeeps
<1>9. EndsWithRun'
  <2>1. \A x \in Ops : Mixed(x)' <=> Mixed(x)
    BY <1>1 DEF Mixed
  <2>2. /\ ~Mixed(o) => (kind = "ended" => stage = "over" \/ o \in cut')
        /\ ~Mixed(o) => ~(stage = "over" /\ kind = "open")
    BY DEF Moves
  <2>3. QED
    BY <1>1, <1>6, <2>1, <2>2 DEF EndsWithRun
<1>10. Recording' /\ Covering'
  <2>1. \A x \in Ops : (Mixed(x)' <=> Mixed(x)) /\ (Late(x)' <=> Late(x))
    BY <1>1 DEF Mixed, Late
  <2>2. /\ ~Mixed(o) /\ ~Late(o) /\ stage = "running" => kind = "open" \/ o \in cut'
        /\ Late(o) /\ kind # "none" => stage = "over"
    BY DEF Moves
  <2>3. Recording'
    BY <1>6, <2>1, <2>2 DEF Recording
  <2>4. Covering'
    BY <1>1, <1>6, <2>1, <2>2 DEF Covering
  <2>5. QED
    BY <2>3, <2>4
<1>11. Cutting'
  BY <1>1 DEF Moves, Cutting
<1>12. Tabled'
  <2>1. \A x \in Ops : Keyed(x)' <=> Keyed(x)
    BY <1>1 DEF Keyed
  <2>2. (entry = o => kind = "open" /\ Keyed(o)) /\ (Keyed(o) /\ kind = "open" => entry = o)
    BY DEF Moves
  <2>3. QED
    BY <1>1, <1>6, <2>1, <2>2 DEF Tabled
<1>13. TurnsTabled'
  <2>1. ASSUME NEW k \in Sessions, table'[k] # Nothing
        PROVE  /\ framework' = "claude_agent" /\ table'[k] \in Runs /\ Session[table'[k]] = k
               /\ span'[table'[k]] = "open"
    BY <1>1, <1>2, <1>6, <2>1 DEF TurnsTabled
  <2>2. ASSUME framework' = "claude_agent", NEW r \in Runs
        PROVE  /\ run'[r] = "running" => table'[Session[r]] = r
               /\ run'[r] = "over" => span'[r] # "open"
    BY <1>1, <1>2, <1>6, <2>2 DEF TurnsTabled
  <2>3. QED
    BY <2>1, <2>2 DEF TurnsTabled
<1>14. Pooled'
  BY <1>1 DEF Pooled
<1>15. QED
  BY <1>3, <1>5, <1>7, <1>8, <1>9, <1>10, <1>11, <1>12, <1>13, <1>14

LEMMA EntryTyped ==
  ASSUME SpanTypeOK, NEW i \in DOMAIN models
  PROVE  models[i].at \in Addresses /\ models[i].at # Nothing /\ models[i].of \in Steps /\ models[i].of \in Ops
<1>1. models \in Seq([at : Addresses, of : Steps]) /\ Nothing \notin Addresses
  BY SpanTablesAssumption DEF SpanTypeOK
<1>2. models[i] \in [at : Addresses, of : Steps]
  <2> DEFINE R == [at : Addresses, of : Steps]
  <2>1. models \in Seq(R)
    BY <1>1
  <2> HIDE DEF R
  <2>2. DOMAIN models = 1..Len(models) /\ models[i] \in R
    BY <2>1
  <2>3. QED
    BY <2>2 DEF R
<1>3. QED
  BY <1>1, <1>2 DEF Ops

(* ... and that too where the table of model spans stays as it is.         *)
LEMMA MovesFollow ==
  ASSUME Following, NEW o \in Ops, NEW stage, NEW kind, NEW first, NEW entry, Moves(o, stage, kind, first, entry),
         UNCHANGED <<at, models>>, framework = "google_adk" /\ o \in Steps \ Tools => stage # "running"
  PROVE  Following'
<1>a. /\ at' \in [Ops -> Some(Addresses)] /\ \A x \in Ops : x # o => at'[x] = at[x]
      /\ models' \in Seq([at : Addresses, of : Steps])
  BY DEF Following, SpanTypeOK
<1>b. /\ SpanTypeOK' /\ Nested' /\ Fresh' /\ Rooted' /\ EndsWithRun' /\ OneTrace'
         /\ Recording' /\ Covering' /\ Cutting'
      /\ Tabled' /\ TurnsTabled' /\ Pooled'
  BY <1>a, MovesKeep
<1> USE SpanTablesAssumption DEF Following
<1>1. /\ framework' = framework /\ run' = [run EXCEPT ![o] = stage] /\ Goal(o, stage)
      /\ (span' = [span EXCEPT ![o] = kind] /\ kind # "none") \/ span' = span
      /\ run \in [Ops -> Status] /\ span \in [Ops -> {"none", "open", "ended"}] /\ Steps \subseteq Ops
      /\ at \in [Ops -> Some(Addresses)] /\ models \in Seq([at : Addresses, of : Steps]) /\ at' = at /\ models' = models
  BY DEF Moves, SpanTypeOK, Spanned, Ops
<1>2. \A i \in DOMAIN models : models[i].at \in Addresses /\ models[i].of \in Ops /\ models[i].at # Nothing
  BY EntryTyped
<1>3. ModelsSound'
  <2>1. ASSUME NEW i \in DOMAIN models, NEW x \in Ops, run'[x] = "running", at[x] = models[i].at
        PROVE  models[i].of = x
    <3>1. run[x] = "running" \/ run[x] = "new"
      BY <1>1, <2>1 DEF Goal, Begins, Finishes
    <3>2. run[x] # "new"
      BY <1>2, <2>1 DEF Fresh
    <3>3. QED
      BY <2>1, <3>1, <3>2 DEF ModelsSound
  <2>2. \A i \in DOMAIN models : span'[models[i].of] # "none"
    BY <1>1, <1>2 DEF ModelsSound
  <2>3. QED
    BY <1>1, <2>1, <2>2 DEF ModelsSound
<1>4. RequestsFound'
  BY <1>1 DEF RequestsFound
<1>5. QED
  BY <1>b, <1>3, <1>4
-----------------------------------------------------------------------------
(* What the adapters that keep every operation in the table find for it.   *)
LEMMA ParentFound ==
  ASSUME Following, NEW o \in Ops, Begins(o), framework \in {"langgraph", "openai_agents"},
         NEW p, p = Above(o) \/ (o \in Steps /\ p = LookupParent(o))
  PROVE  Traced(o, IF p = Nothing THEN o ELSE root[p])
<1> USE SpanTablesAssumption DEF Following
<1>1. /\ Runs \subseteq Ops /\ Steps \subseteq Ops /\ \A r \in Runs : r \notin Steps
      /\ root \in [Ops -> Some(Ops)] /\ Nothing \notin Ops
      /\ \A x \in Ops : span[x] = "none" <=> root[x] = Nothing
  BY DEF Ops, SpanTypeOK
<1>2. CASE o \in Runs
  BY <1>1, <1>2 DEF Above, Traced
<1>3. CASE o \in Steps
  <2>1. o \notin Runs /\ Parent[o] \in Ops /\ RunOf[o] \in Runs /\ Above(o) = table[Parent[o]]
        /\ RunOf[o] \in Ops /\ run[Parent[o]] = "running"
    BY <1>1, <1>3 DEF Above, Begins
  <2>2. table[Parent[o]] \in {Nothing, Parent[o]} /\ table[RunOf[o]] \in {Nothing, RunOf[o]}
    BY <2>1 DEF Tabled
  <2>3. CASE p = Nothing
    <3>1. table[Parent[o]] = Nothing
      BY <1>1, <2>1, <2>2, <2>3 DEF LookupParent
    <3>2. span[Parent[o]] # "open"
      BY <1>1, <2>1, <3>1 DEF Tabled, Keyed
    <3>3. Parent[o] \in cut
      BY <2>1, <3>2 DEF Covering, Mixed, Late
    <3>4. QED
      BY <1>1, <1>3, <2>3, <3>3 DEF Traced
  <2>4. CASE p = RunOf[o] /\ p # Nothing /\ p = table[RunOf[o]]
    <3>1. span[RunOf[o]] = "open"
      BY <2>1, <2>4 DEF Tabled
    <3>2. root[RunOf[o]] = RunOf[o]
      BY <2>1, <3>1 DEF Rooted
    <3>3. QED
      BY <1>1, <2>1, <2>4, <3>2 DEF Traced
  <2>5. CASE p = Parent[o] /\ p = table[Parent[o]]
    <3>1. span[Parent[o]] = "open" /\ p # Nothing
      BY <1>1, <2>1, <2>5 DEF Tabled
    <3>2. CASE Parent[o] \in Runs
      <4>1. RunOf[o] = Parent[o] /\ root[Parent[o]] = Parent[o]
        BY <1>3, <3>1, <3>2 DEF Rooted
      <4>2. QED
        BY <2>1, <2>5, <3>1, <4>1 DEF Traced
    <3>3. CASE Parent[o] \notin Runs
      <4>1. Parent[o] \in Steps /\ RunOf[o] = RunOf[Parent[o]]
        BY <1>3, <2>1, <3>3 DEF Ops
      <4>2. \/ root[p] = RunOf[o]
            \/ root[p] \in Steps /\ RunOf[root[p]] = RunOf[o] /\ (Parent[root[p]] \in cut \/ framework = "crewai")
        BY <2>5, <3>1, <4>1 DEF OneTrace
      <4>3. root[p] \in Ops /\ o \notin Runs
        BY <1>1, <2>1, <4>2
      <4>4. QED
        BY <3>1, <4>2, <4>3 DEF Traced
    <3>4. QED
      BY <3>2, <3>3
  <2>6. QED
    BY <2>1, <2>2, <2>3, <2>4, <2>5 DEF LookupParent
<1>4. QED
  BY <1>2, <1>3 DEF Ops

LEMMA FreshHasNone ==
  ASSUME Following, NEW o \in Ops, Begins(o)
  PROVE  span[o] = "none" /\ at[o] = Nothing /\ table[o] = Nothing
BY DEF Following, Fresh, Begins, Tabled

(* The end of an operation that is in the table by its id.                 *)
LEMMA EndFollows ==
  ASSUME Following, NEW o \in Ops, Finishes(o), Goes(o, "over"), EndOf(o), Keyed(o),
         UNCHANGED <<framework, at, models, pool, cut>>
  PROVE  Following'
<1> USE SpanTablesAssumption DEF Following
<1>1. table[o] \in {Nothing, o} /\ (table[o] = o => span[o] = "open") /\ (span[o] = "open" => table[o] = o)
  BY DEF Tabled
<1>2. Nothing \notin Ops
  OBVIOUS
<1>3. /\ framework \notin {"crewai", "claude_agent"} /\ ~(framework = "google_adk" /\ o \in Steps \ Tools)
  BY DEF Keyed, Ops
<1>4. span \in [Ops -> {"none", "open", "ended"}] /\ root \in [Ops -> Some(Ops)]
  BY DEF SpanTypeOK
<1>5. CASE table[o] = o
  <2>1. span' = [span EXCEPT ![o] = "ended"] /\ root' = [root EXCEPT ![o] = root[o]]
    BY <1>2, <1>4, <1>5 DEF EndOf, End
  <2>2. Moves(o, "over", "ended", root[o], Nothing)
    BY <1>1, <1>2, <1>3, <1>5, <2>1 DEF Moves, Goal, Goes, EndOf, Spanned, Late
  <2>3. QED
    BY <1>3, <2>2, MovesFollow
<1>6. CASE table[o] = Nothing
  <2>1. span' = [span EXCEPT ![o] = span[o]] /\ root' = [root EXCEPT ![o] = root[o]]
    BY <1>4, <1>6 DEF EndOf
  <2>2. span[o] # "open"
    BY <1>1, <1>2, <1>6
  <2>3. ~Mixed(o) /\ span[o] = "ended" => "over" = "over" \/ o \in cut'
    OBVIOUS
  <2>4. Moves(o, "over", span[o], root[o], Nothing)
    BY <1>1, <1>2, <1>3, <2>1, <2>2 DEF Moves, Goal, Goes, EndOf, Spanned, Late
  <2>5. QED
    BY <1>3, <2>4, MovesFollow
<1>7. QED
  BY <1>1, <1>5, <1>6

(* The start of one with a span that is kept in the table.                 *)
LEMMA StartFollows ==
  ASSUME Following, NEW o \in Ops, Begins(o), NEW p, Goes(o, "running"), StartAs(o, o, p),
         UNCHANGED <<framework, at, models, pool, cut>>,
         Keyed(o),
         Traced(o, IF p = Nothing THEN o ELSE root[p])
  PROVE  Following'
<1> DEFINE first == IF p = Nothing THEN o ELSE root[p]
<1>1. span[o] = "none"
  BY FreshHasNone
<1>2. span' = [span EXCEPT ![o] = "open"] /\ root' = [root EXCEPT ![o] = first] /\ table' = [table EXCEPT ![o] = o]
  BY DEF StartAs, Open
<1>3. Traced(o, first)
  OBVIOUS
<1> HIDE DEF first
<1>4. framework \notin {"crewai", "claude_agent"} /\ ~(framework = "google_adk" /\ o \in Steps \ Tools) /\ ~Late(o)
  BY SpanTablesAssumption DEF Keyed, Ops, Late
<1>5. Moves(o, "running", "open", first, o)
  BY <1>1, <1>2, <1>3, <1>4 DEF Moves, Goal, Goes, Spanned
<1>6. QED
  BY <1>4, <1>5, MovesFollow

LEMMA LangGraphFollows ==
  ASSUME Following, NEW o \in Ops, LangGraphStarts(o) \/ LangGraphToolStarts(o) \/ LangGraphEnds(o)
  PROVE  Following'
<1>1. CASE LangGraphStarts(o)
  BY <1>1, ParentFound, StartFollows DEF LangGraphStarts, Keyed
<1>2. CASE LangGraphToolStarts(o)
  <2> DEFINE first == IF Above(o) = Nothing THEN o ELSE root[Above(o)]
  <2>1. /\ framework = "langgraph" /\ Begins(o) /\ UNCHANGED <<framework, at, models, pool>>
        /\ span[o] = "none" /\ table[o] = Nothing
    BY <1>2, FreshHasNone DEF LangGraphToolStarts
  <2>2. Traced(o, first)
    BY <2>1, ParentFound
  <2>3. CASE Goes(o, "running") /\ StartAs(o, o, Above(o)) /\ UNCHANGED cut
    BY <2>1, <2>2, <2>3, StartFollows DEF Keyed
  <2>4. /\ span = [span EXCEPT ![o] = "none"] /\ root = [root EXCEPT ![o] = root[o]]
        /\ table = [table EXCEPT ![o] = Nothing]
    BY <2>1 DEF Following, SpanTypeOK
  <2>5. CASE Goes(o, "over") /\ UNCHANGED <<span, root, table, cut>>
    <3>1. Moves(o, "over", "none", root[o], Nothing)
      BY <2>1, <2>4, <2>5, SpanTablesAssumption DEF Moves, Goal, Goes, Spanned, Late
    <3>2. QED
      BY <2>1, <3>1, MovesFollow
  <2>6. CASE Goes(o, "over") /\ Record(o, Above(o)) /\ UNCHANGED <<table, cut>>
    <3>1. span' = [span EXCEPT ![o] = "ended"] /\ root' = [root EXCEPT ![o] = first]
      BY <2>6 DEF Record
    <3> HIDE DEF first
    <3>2. Moves(o, "over", "ended", first, Nothing)
      BY <2>1, <2>2, <2>4, <2>6, <3>1, SpanTablesAssumption DEF Moves, Goal, Goes, Spanned, Late
    <3>3. QED
      BY <2>1, <3>2, MovesFollow
  <2>7. CASE Goes(o, "running") /\ Record(o, Above(o)) /\ cut' = cut \cup {o} /\ UNCHANGED table
    <3>1. span' = [span EXCEPT ![o] = "ended"] /\ root' = [root EXCEPT ![o] = first]
      BY <2>7 DEF Record
    <3> HIDE DEF first
    <3>2. Moves(o, "running", "ended", first, Nothing)
      BY <2>1, <2>2, <2>4, <2>7, <3>1, SpanTablesAssumption DEF Moves, Goal, Goes, Spanned, Late
    <3>3. QED
      BY <2>1, <3>2, MovesFollow
  <2>8. QED
    BY <1>2, <2>3, <2>5, <2>6, <2>7 DEF LangGraphToolStarts
<1>3. CASE LangGraphEnds(o)
  BY <1>3, EndFollows DEF LangGraphEnds, Keyed
<1>4. QED
  BY <1>1, <1>2, <1>3

(* CrewAI's events, in any order the threads take them.                    *)
LEMMA CrewFollows ==
  ASSUME Following, NEW o \in Ops, CrewEmits(o) \/ CrewStarts(o) \/ CrewEnds(o)
  PROVE  Following'
<1> USE DEF Following
<1>1. /\ framework = "crewai" /\ framework' = framework /\ UNCHANGED <<at, models, cut>>
      /\ models = <<>> /\ models' = <<>>
  BY DEF CrewEmits, CrewStarts, CrewEnds, Pooled, ModelsSound
<1>2. Late(o)' = FALSE /\ ~Keyed(o) /\ \A x \in Ops : ~Mixed(x) /\ ~Mixed(x)' /\ ~Keyed(x)'
  BY <1>1 DEF Late, Keyed, Mixed
<1>3. /\ run \in [Ops -> Status] /\ span \in [Ops -> {"none", "open", "ended"}] /\ root \in [Ops -> Some(Ops)]
      /\ table \in [Keys -> Some(Ops)] /\ Ops \subseteq Keys /\ Sessions \subseteq Keys /\ Sessions \cap Ops = {}
      /\ Nothing \notin Ops
  BY SpanTablesAssumption DEF SpanTypeOK, Keys, Ops
<1>4. Recording' /\ Covering' /\ Cutting' /\ ModelsSound' /\ RequestsFound'
  BY <1>1 DEF Recording, Covering, Cutting, Late, ModelsSound, RequestsFound
<1>5. CASE CrewEmits(o)
  <2>1. PICK stage : Goal(o, stage) /\ run' = [run EXCEPT ![o] = stage]
                      /\ pool' = pool \cup {<<IF stage = "running" THEN "start" ELSE "end", o>>}
                      /\ (stage = "running" => Begins(o)) /\ (stage = "over" => Finishes(o))
                      /\ stage \in {"running", "over"}
    BY <1>5 DEF CrewEmits, Goal, Goes
  <2>2. UNCHANGED <<span, root, table>>
    BY <1>5 DEF CrewEmits
  <2>3. run' \in [Ops -> Status] /\ Nested'
    BY <2>1, GoingNests
  <2>4. SpanTypeOK'
    BY <1>1, <2>1, <2>2, <2>3 DEF SpanTypeOK
  <2>5. /\ run'[o] = stage /\ \A x \in Ops : x # o => run'[x] = run[x]
    BY <1>3, <2>1
  <2>6. Fresh' /\ Rooted' /\ OneTrace'
    BY <1>1, <2>1, <2>2, <2>5 DEF Fresh, Rooted, OneTrace
  <2>7. EndsWithRun'
    BY <1>1, <1>2, <2>1, <2>2, <2>5 DEF EndsWithRun, Goal, Begins, Fresh
  <2>8. Tabled' /\ TurnsTabled'
    BY <1>1, <1>2, <2>2 DEF Tabled, TurnsTabled
  <2>9. Pooled'
    BY <1>1, <2>1, <2>2, <2>5 DEF Pooled, Fresh, Begins, Finishes
  <2>10. QED
    BY <1>4, <2>3, <2>4, <2>6, <2>7, <2>8, <2>9
<1>6. ASSUME run' = run, pool' \subseteq pool, NEW kind, NEW first, NEW entry, Spanned(o, kind, first),
             span' = [span EXCEPT ![o] = kind], root' = [root EXCEPT ![o] = first],
             table' = [table EXCEPT ![o] = entry], entry \in {Nothing, o}, entry = o => kind = "open",
             kind = "ended" => run[o] = "over", run[o] # "new", <<"start", o>> \notin pool'
      PROVE  Following'
  <2>1. /\ span' \in [Ops -> {"none", "open", "ended"}] /\ root' \in [Ops -> Some(Ops)]
        /\ \A x \in Ops : span'[x] = "none" <=> root'[x] = Nothing
        /\ Rooted' /\ OneTrace'
    BY <1>1, <1>6, SpannedKeeps
  <2>2. table' \in [Keys -> Some(Ops)]
    BY <1>3, <1>6 DEF Some
  <2>3. pool' \subseteq {"start", "end"} \X Ops
    BY <1>6 DEF SpanTypeOK
  <2>4. SpanTypeOK'
    BY <1>1, <1>6, <2>1, <2>2, <2>3 DEF SpanTypeOK
  <2>5. Nested'
    BY <1>6 DEF Nested
  <2>6. /\ span'[o] = kind /\ table'[o] = entry
        /\ \A x \in Ops : x # o => span'[x] = span[x] /\ table'[x] = table[x]
        /\ \A k \in Sessions : table'[k] = table[k]
    BY <1>3, <1>6
  <2>7. Fresh'
    BY <1>1, <1>6, <2>6 DEF Fresh
  <2>8. EndsWithRun'
    BY <1>1, <1>2, <1>6, <2>6 DEF EndsWithRun
  <2>9. Tabled'
    BY <1>1, <1>2, <1>6, <2>6 DEF Tabled
  <2>10. TurnsTabled'
    BY <1>1, <2>6 DEF TurnsTabled
  <2>11. Pooled'
    BY <1>1, <1>6, <2>6 DEF Pooled
  <2>12. QED
    BY <1>4, <2>1, <2>4, <2>5, <2>7, <2>8, <2>9, <2>10, <2>11
<1>7. CASE CrewStarts(o)
  <2> DEFINE first == IF Above(o) = Nothing THEN o ELSE root[Above(o)]
  <2>1. /\ span[o] = "none" /\ run[o] # "new" /\ run' = run /\ pool' \subseteq pool /\ <<"start", o>> \notin pool'
        /\ span' = [span EXCEPT ![o] = "open"] /\ root' = [root EXCEPT ![o] = first] /\ table' = [table EXCEPT ![o] = o]
    BY <1>7 DEF CrewStarts, StartAs, Open, Pooled
  <2>2. Traced(o, first)
    <3>1. CASE o \in Runs
      BY <1>3, <3>1, SpanTablesAssumption DEF Above, Traced, Ops
    <3>2. CASE o \in Steps
      <4>1. o \notin Runs /\ Above(o) = table[Parent[o]] /\ Parent[o] \in Ops /\ RunOf[o] \in Ops
        BY <3>2, SpanTablesAssumption DEF Above, Ops
      <4>2. CASE Above(o) = Nothing
        BY <1>1, <3>2, <4>1, <4>2 DEF Traced
      <4>3. CASE Above(o) = Parent[o] /\ Parent[o] # Nothing
        <5>1. span[Parent[o]] = "open" /\ first = root[Parent[o]]
          BY <4>1, <4>3 DEF Tabled
        <5>2. CASE Parent[o] \in Runs
          BY <3>2, <4>1, <5>1, <5>2, SpanTablesAssumption DEF Rooted, Traced
        <5>3. CASE Parent[o] \in Steps
          <6>1. RunOf[o] = RunOf[Parent[o]]
            BY <3>2, <5>3, SpanTablesAssumption
          <6>2. \/ first = RunOf[o]
                \/ first \in Steps /\ RunOf[first] = RunOf[o]
            BY <5>1, <5>3, <6>1 DEF OneTrace
          <6>3. QED
            BY <1>1, <3>2, <4>1, <6>2 DEF Traced, Ops
        <5>4. QED
          BY <4>1, <5>2, <5>3 DEF Ops
      <4>4. QED
        BY <1>3, <4>1, <4>2, <4>3 DEF Tabled
    <3>3. QED
      BY <3>1, <3>2 DEF Ops
  <2> HIDE DEF first
  <2>3. Spanned(o, "open", first)
    BY <2>1, <2>2 DEF Spanned
  <2>4. QED
    BY <1>6, <2>1, <2>3
<1>8. CASE CrewEnds(o)
  <2>1. /\ run[o] = "over" /\ run' = run /\ pool' \subseteq pool /\ pool' = pool \ {<<"end", o>>}
        /\ table' = [table EXCEPT ![o] = Nothing] /\ EndOf(o)
    BY <1>8 DEF CrewEnds, EndOf, Pooled
  <2>2. CASE table[o] = o
    <3>1. span[o] = "open"
      BY <2>2 DEF Tabled
    <3>2. span' = [span EXCEPT ![o] = "ended"] /\ root' = [root EXCEPT ![o] = root[o]]
      BY <1>3, <2>1, <2>2 DEF EndOf, End
    <3>3. <<"start", o>> \notin pool' /\ Spanned(o, "ended", root[o])
      BY <2>1, <3>1 DEF Pooled, Spanned
    <3>4. QED
      BY <1>3, <1>6, <2>1, <3>2, <3>3
  <2>3. CASE table[o] = Nothing
    <3>1. UNCHANGED <<span, root>>
      BY <2>1, <2>3 DEF EndOf
    <3>2. table' = table
      BY <1>3, <2>1, <2>3
    <3>3. SpanTypeOK' /\ Nested' /\ Fresh' /\ Rooted' /\ OneTrace'
      BY <1>1, <2>1, <3>1, <3>2 DEF SpanTypeOK, Nested, Fresh, Rooted, OneTrace
    <3>4. EndsWithRun' /\ Tabled' /\ TurnsTabled' /\ Pooled'
      BY <1>1, <1>2, <2>1, <3>1, <3>2 DEF EndsWithRun, Tabled, TurnsTabled, Pooled
    <3>5. QED
      BY <1>4, <3>3, <3>4
  <2>4. QED
    BY <2>2, <2>3 DEF Tabled
<1>9. QED
  BY <1>5, <1>7, <1>8

(* OpenAI's agents, but for the shutdown.                                  *)
LEMMA AgentsFollow ==
  ASSUME Following, NEW o \in Ops,
         \/ AgentsTraceStart(o) /\ o \in Runs
         \/ AgentsSpanStart(o) /\ o \in Steps
         \/ AgentsEnd(o)
  PROVE  Following'
<1>1. CASE AgentsTraceStart(o) /\ o \in Runs
  <2>1. Above(o) = Nothing
    BY <1>1 DEF Above
  <2>2. Traced(o, IF Nothing = Nothing THEN o ELSE root[Nothing])
    BY <1>1, <2>1, ParentFound DEF AgentsTraceStart
  <2>3. QED
    BY <1>1, <2>2, StartFollows DEF AgentsTraceStart, Keyed
<1>2. CASE AgentsSpanStart(o) /\ o \in Steps
  BY <1>2, ParentFound, StartFollows DEF AgentsSpanStart, Keyed
<1>3. CASE AgentsEnd(o)
  BY <1>3, EndFollows DEF AgentsEnd, Keyed
<1>4. QED
  BY <1>1, <1>2, <1>3

(* An operation whose span, if it has one, is in no table.                 *)
LEMMA LocalFollows ==
  ASSUME Following, NEW o \in Ops, NEW stage, NEW kind, NEW first, Goal(o, stage), Spanned(o, kind, first),
         run' = [run EXCEPT ![o] = stage], span' = [span EXCEPT ![o] = kind], root' = [root EXCEPT ![o] = first],
         UNCHANGED <<framework, table, at, models, pool, cut>>,
         framework # "crewai", ~Keyed(o), framework = "claude_agent" => o \in Steps,
         framework = "google_adk" => o \notin Steps \ Tools, ~Mixed(o),
         kind = "ended" => stage = "over", stage = "over" => kind # "open", Late(o) /\ kind # "none" => stage = "over",
         ~Late(o) /\ stage = "running" => kind = "open"
  PROVE  Following'
<1>1. table[o] = Nothing
  BY DEF Following, Tabled
<1>2. table' = [table EXCEPT ![o] = Nothing]
  BY <1>1 DEF Following, SpanTypeOK
<1>3. ~Mixed(o) => /\ kind = "ended" => stage = "over" \/ o \in cut'
                   /\ ~(stage = "over" /\ kind = "open")
                   /\ ~Late(o) /\ stage = "running" => kind = "open" \/ o \in cut'
  OBVIOUS
<1>4. Moves(o, stage, kind, first, Nothing)
  BY <1>2, <1>3, SpanTablesAssumption DEF Moves
<1>5. QED
  BY <1>4, MovesFollow

(* The trace of a step that is started, or recorded, under its run.        *)
LEMMA RunFound ==
  ASSUME Following, NEW s \in Steps, run[s] = "running" \/ run[Parent[s]] = "running",
         framework \in {"google_adk", "pydantic_ai", "claude_agent"}, NEW p,
         p = IF framework = "claude_agent" THEN table[Session[RunOf[s]]] ELSE table[RunOf[s]]
  PROVE  Traced(s, IF p = Nothing THEN s ELSE root[p])
<1> USE SpanTablesAssumption DEF Following
<1>1. RunOf[s] \in Runs /\ RunOf[s] \in Ops /\ s \in Ops /\ s \notin Runs /\ Parent[s] \in Ops
  BY DEF Ops
<1>2. run[RunOf[s]] = "running"
  <2>1. CASE run[s] = "running"
    BY <2>1, RunGoesOn
  <2>2. CASE run[Parent[s]] = "running" /\ Parent[s] \in Runs
    BY <2>2
  <2>3. CASE run[Parent[s]] = "running" /\ Parent[s] \in Steps
    <3>1. run[RunOf[Parent[s]]] = "running"
      BY <2>3, RunGoesOn
    <3>2. RunOf[s] = RunOf[Parent[s]]
      BY <2>3
    <3>3. QED
      BY <3>1, <3>2
  <2>4. QED
    BY <1>1, <2>1, <2>2, <2>3 DEF Ops
<1>3. p = RunOf[s] /\ span[p] = "open"
  <2>1. CASE framework = "claude_agent"
    <3>1. table[Session[RunOf[s]]] = RunOf[s]
      BY <1>1, <1>2, <2>1 DEF TurnsTabled
    <3>2. Session[RunOf[s]] \in Sessions /\ RunOf[s] # Nothing
      BY <1>1
    <3>3. span[RunOf[s]] = "open"
      BY <3>1, <3>2 DEF TurnsTabled
    <3>4. QED
      BY <2>1, <3>1, <3>3
  <2>2. CASE framework \in {"google_adk", "pydantic_ai"}
    <3>1. ~Mixed(RunOf[s]) /\ ~Late(RunOf[s]) /\ Keyed(RunOf[s])
      BY <1>1, <2>2 DEF Mixed, Late, Keyed
    <3>2. RunOf[s] \notin cut
      BY <1>1, <2>2 DEF Cutting
    <3>3. span[RunOf[s]] = "open"
      BY <1>1, <1>2, <2>2, <3>1, <3>2 DEF Covering
    <3>4. table[RunOf[s]] = RunOf[s]
      BY <1>1, <3>1, <3>3 DEF Tabled
    <3>5. QED
      BY <2>2, <3>3, <3>4
  <2>3. QED
    BY <2>1, <2>2
<1>4. root[p] = RunOf[s] /\ p # Nothing
  BY <1>1, <1>3 DEF Rooted
<1>5. QED
  BY <1>1, <1>4 DEF Traced

(* Operations of Google ADK and Pydantic AI outside the model spans' table.*)
LEMMA HooksFollow ==
  ASSUME Following, NEW o \in Ops,
         \/ o \in Runs /\ (AdkBeforeRun(o) \/ AdkAfterRun(o) \/ PydanticBeforeRun(o) \/ PydanticAfterRun(o))
         \/ AdkBeforeTool(o) \/ AdkAfterTool(o) \/ PydanticToolStarts(o) \/ PydanticToolEnds(o)
  PROVE  Following'
<1> USE SpanTablesAssumption
<1>1. /\ span \in [Ops -> {"none", "open", "ended"}] /\ root \in [Ops -> Some(Ops)]
      /\ Tools \subseteq Steps /\ \A s \in Steps : s \notin Runs /\ s \in Ops
  BY DEF Following, SpanTypeOK, Ops
<1>2. CASE o \in Runs /\ (AdkBeforeRun(o) \/ PydanticBeforeRun(o))
  <2>1. /\ framework \in {"google_adk", "pydantic_ai"} /\ Begins(o) /\ Goes(o, "running") /\ StartAs(o, o, Nothing)
        /\ UNCHANGED <<framework, at, models, pool, cut>>
    BY <1>2 DEF AdkBeforeRun, PydanticBeforeRun, RunStarts
  <2>2. Traced(o, IF Nothing = Nothing THEN o ELSE root[Nothing])
    BY <1>1, <1>2 DEF Traced
  <2>3. QED
    BY <1>2, <2>1, <2>2, StartFollows DEF Keyed
<1>3. CASE o \in Runs /\ (AdkAfterRun(o) \/ PydanticAfterRun(o))
  BY <1>3, EndFollows DEF AdkAfterRun, PydanticAfterRun, RunEnds, Keyed
<1>4. CASE AdkBeforeTool(o)
  <2>1. span[o] = "none"
    BY <1>4, FreshHasNone DEF AdkBeforeTool
  <2>2. span' = [span EXCEPT ![o] = "none"] /\ root' = [root EXCEPT ![o] = root[o]] /\ Spanned(o, "none", root[o])
    BY <1>1, <1>4, <2>1 DEF AdkBeforeTool, Spanned
  <2>3. /\ Goal(o, "running") /\ run' = [run EXCEPT ![o] = "running"] /\ framework = "google_adk" /\ o \in Tools
        /\ UNCHANGED <<framework, table, at, models, pool, cut>>
    BY <1>4 DEF AdkBeforeTool, Goes, Goal
  <2>4. ~Keyed(o) /\ ~Mixed(o) /\ Late(o)
    BY <1>1, <2>3 DEF Mixed, Late, Keyed
  <2>5. QED
    BY <2>2, <2>3, <2>4, LocalFollows
<1>5. CASE AdkAfterTool(o)
  <2> DEFINE first == IF table[RunOf[o]] = Nothing THEN o ELSE root[table[RunOf[o]]]
  <2>1. span' = [span EXCEPT ![o] = "ended"] /\ root' = [root EXCEPT ![o] = first]
    BY <1>5 DEF AdkAfterTool, Record
  <2>2. Traced(o, first)
    BY <1>1, <1>5, RunFound DEF AdkAfterTool, Finishes
  <2>3. span[o] = "none"
    BY <1>5 DEF AdkAfterTool, Finishes, Following, Covering, Recording, Cutting, Late
  <2> HIDE DEF first
  <2>4. QED
    BY <1>1, <1>5, <2>1, <2>2, <2>3, LocalFollows DEF AdkAfterTool, Goes, Goal, Spanned, Mixed, Late, Keyed
<1>6. CASE PydanticToolStarts(o)
  <2> DEFINE first == IF table[RunOf[o]] = Nothing THEN o ELSE root[table[RunOf[o]]]
  <2>1. span' = [span EXCEPT ![o] = "open"] /\ root' = [root EXCEPT ![o] = first]
    BY <1>6 DEF PydanticToolStarts, Open
  <2>2. Traced(o, first)
    BY <1>1, <1>6, RunFound DEF PydanticToolStarts, Begins
  <2>3. span[o] = "none"
    BY <1>6, FreshHasNone DEF PydanticToolStarts
  <2> HIDE DEF first
  <2>4. QED
    BY <1>1, <1>6, <2>1, <2>2, <2>3, LocalFollows DEF PydanticToolStarts, Goes, Goal, Spanned, Mixed, Late, Keyed
<1>7. CASE PydanticToolEnds(o)
  <2>1. span' = [span EXCEPT ![o] = "ended"] /\ root' = [root EXCEPT ![o] = root[o]]
    BY <1>1, <1>7 DEF PydanticToolEnds, End
  <2>2. span[o] = "open"
    BY <1>7 DEF PydanticToolEnds, Finishes, Following, Covering, Recording, Cutting, Late, Mixed
  <2>3. QED
    BY <1>1, <1>7, <2>1, <2>2, LocalFollows DEF PydanticToolEnds, Goes, Goal, Spanned, Mixed, Late, Keyed
<1>8. QED
  BY <1>2, <1>3, <1>4, <1>5, <1>6, <1>7

(* The requests of Google ADK and Pydantic AI.                             *)
LEMMA StashHas ==
  ASSUME SpanTypeOK, ModelsSound, NEW a \in Addresses, NEW o \in Steps \ Tools, models' = Stash(a, o)
  PROVE  /\ models' \in Seq([at : Addresses, of : Steps])
         /\ \A i \in DOMAIN models' : \/ models'[i].at = a /\ models'[i].of = o
                                      \/ i \in DOMAIN models /\ models'[i] = models[i] /\ models[i].at # a
         /\ \A i \in DOMAIN models : models[i].at # a => i \in DOMAIN models' /\ models'[i] = models[i]
         /\ \E i \in DOMAIN models' : models'[i].at = a /\ models'[i].of = o
         /\ \A i, j \in DOMAIN models' : models'[i].at = models'[j].at => i = j
<1> DEFINE R == [at : Addresses, of : Steps]
           e == [at |-> a, of |-> o]
<1>1. models \in Seq(R) /\ e \in R /\ e.at = a /\ e.of = o
  BY DEF SpanTypeOK
<1>2. \A i, j \in DOMAIN models : models[i].at = models[j].at => i = j
  BY DEF ModelsSound
<1> HIDE DEF R, e
<1>3. CASE At(a) # {}
  <2>1. models' = [i \in DOMAIN models |-> IF models[i].at = a THEN e ELSE models[i]]
    BY <1>3 DEF Stash, e
  <2>2. PICK k \in DOMAIN models : models[k].at = a
    BY <1>3 DEF At
  <2>3. models' \in Seq(R) /\ DOMAIN models' = DOMAIN models
    <3>1. DOMAIN models = 1..Len(models) /\ Len(models) \in Nat /\ \A i \in DOMAIN models : models[i] \in R
      BY <1>1
    <3>2. models' \in [1..Len(models) -> R]
      BY <1>1, <2>1, <3>1
    <3>3. QED
      BY <2>1, <3>1, <3>2
  <2>4. QED
    BY <1>1, <1>2, <2>1, <2>2, <2>3 DEF R
<1>4. CASE At(a) = {}
  <2>1. models' = Append(models, e)
    BY <1>4 DEF Stash, e
  <2>2. \A i \in DOMAIN models : models[i].at # a
    BY <1>4 DEF At
  <2>3. /\ models' \in Seq(R) /\ DOMAIN models = 1..Len(models) /\ DOMAIN models' = 1..(Len(models) + 1) /\ Len(models) \in Nat
        /\ models'[Len(models) + 1] = e /\ \A i \in 1..Len(models) : models'[i] = models[i]
    BY <1>1, <2>1
  <2>4. ASSUME NEW i \in DOMAIN models'
        PROVE  \/ i \in DOMAIN models /\ models'[i] = models[i]
               \/ i = Len(models) + 1 /\ models'[i] = e
    <3>1. i \in 1..Len(models) \/ i = Len(models) + 1
      BY <2>3
    <3>2. QED
      BY <2>3, <3>1
  <2>5. ASSUME NEW i \in DOMAIN models', NEW j \in DOMAIN models', models'[i].at = models'[j].at
        PROVE  i = j
    BY <1>1, <1>2, <2>2, <2>4, <2>5
  <2>6. Len(models) + 1 \in DOMAIN models'
    BY <2>3
  <2>7. \A i \in DOMAIN models : i \in DOMAIN models' /\ models'[i] = models[i]
    BY <2>3
  <2>8. QED
    BY <1>1, <2>2, <2>3, <2>4, <2>5, <2>6, <2>7 DEF R
<1>5. QED
  BY <1>3, <1>4

LEMMA BeforeModelFollows ==
  ASSUME Following, NEW o \in Steps, BeforeModel(o), framework \in {"google_adk", "pydantic_ai"}
  PROVE  Following'
<1> DEFINE first == IF table[RunOf[o]] = Nothing THEN o ELSE root[table[RunOf[o]]]
<1>1. /\ o \in Ops /\ o \in Steps \ Tools /\ Begins(o) /\ Goes(o, "running") /\ UNCHANGED <<framework, table, pool, cut>>
      /\ span' = [span EXCEPT ![o] = "open"] /\ root' = [root EXCEPT ![o] = first]
      /\ o \notin Runs
  BY SpanTablesAssumption DEF BeforeModel, Open, Ops
<1>2. PICK a \in Unused : at' = [at EXCEPT ![o] = a] /\ models' = Stash(a, o)
  BY DEF BeforeModel
<1>3. a \in Addresses /\ a # Nothing /\ \A x \in Ops : run[x] = "running" => at[x] # a
  BY SpanTablesAssumption DEF Unused
<1>4. span[o] = "none" /\ table[o] = Nothing /\ run[o] = "new" /\ run[Parent[o]] = "running"
  BY <1>1, FreshHasNone DEF Begins
<1>5. Traced(o, first)
  BY <1>1, <1>4, RunFound
<1> HIDE DEF first
<1>6. /\ models' \in Seq([at : Addresses, of : Steps])
      /\ \A i \in DOMAIN models' : \/ models'[i].at = a /\ models'[i].of = o
                                   \/ i \in DOMAIN models /\ models'[i] = models[i] /\ models[i].at # a
      /\ \A i \in DOMAIN models : models[i].at # a => i \in DOMAIN models' /\ models'[i] = models[i]
      /\ \E i \in DOMAIN models' : models'[i].at = a /\ models'[i].of = o
      /\ \A i, j \in DOMAIN models' : models'[i].at = models'[j].at => i = j
  BY <1>1, <1>2, <1>3, StashHas DEF Following
<1>7. /\ run \in [Ops -> Status] /\ at \in [Ops -> Some(Addresses)] /\ table \in [Keys -> Some(Ops)]
      /\ span \in [Ops -> {"none", "open", "ended"}]
  BY DEF Following, SpanTypeOK
<1>8. /\ at' \in [Ops -> Some(Addresses)] /\ at'[o] = a /\ \A x \in Ops : x # o => at'[x] = at[x]
  BY <1>1, <1>2, <1>3, <1>7 DEF Some
<1>9. /\ run'[o] = "running" /\ \A x \in Ops : x # o => run'[x] = run[x]
      /\ span'[o] = "open" /\ \A x \in Ops : x # o => span'[x] = span[x]
  BY <1>1, <1>7 DEF Goes
<1>10. Moves(o, "running", "open", first, Nothing)
  <2>1. table' = [table EXCEPT ![o] = Nothing]
    BY <1>1, <1>4, <1>7
  <2>2. ~Keyed(o) /\ ~Late(o)
    BY <1>1 DEF Keyed, Late
  <2>3. QED
    BY <1>1, <1>4, <1>5, <2>1, <2>2, SpanTablesAssumption DEF Moves, Goal, Goes, Spanned
<1>11. /\ SpanTypeOK' /\ Nested' /\ Fresh' /\ Rooted' /\ EndsWithRun' /\ OneTrace'
       /\ Recording' /\ Covering' /\ Cutting'
       /\ Tabled' /\ TurnsTabled' /\ Pooled'
  BY <1>1, <1>6, <1>8, <1>10, MovesKeep
<1>12. ModelsSound'
  <2>1. ASSUME NEW i \in DOMAIN models'
        PROVE  models'[i].of \in Steps \ Tools /\ span'[models'[i].of] # "none"
    <3>1. CASE models'[i].at = a /\ models'[i].of = o
      BY <1>1, <1>9, <3>1
    <3>2. CASE i \in DOMAIN models /\ models'[i] = models[i]
      <4>1. models[i].of \in Steps \ Tools /\ span[models[i].of] # "none" /\ models[i].of \in Ops
        BY <3>2, EntryTyped DEF Following, ModelsSound
      <4>2. QED
        BY <1>9, <3>2, <4>1
    <3>3. QED
      BY <1>6, <3>1, <3>2
  <2>2. ASSUME NEW i \in DOMAIN models', NEW x \in Ops, run'[x] = "running", at'[x] = models'[i].at
        PROVE  models'[i].of = x
    <3>1. CASE x = o
      BY <1>6, <1>8, <2>2, <3>1
    <3>2. CASE x # o
      <4>1. run[x] = "running" /\ at[x] = models'[i].at /\ at[x] # a
        BY <1>3, <1>8, <1>9, <2>2, <3>2
      <4>2. i \in DOMAIN models /\ models'[i] = models[i]
        BY <1>6, <4>1
      <4>3. QED
        BY <4>1, <4>2 DEF Following, ModelsSound
    <3>3. QED
      BY <3>1, <3>2
  <2>3. QED
    BY <1>1, <1>6, <2>1, <2>2 DEF ModelsSound
<1>13. RequestsFound'
  <2>1. ASSUME framework' = "google_adk", NEW x \in Steps \ Tools, run'[x] = "running"
        PROVE  at'[x] # Nothing /\ \E i \in DOMAIN models' : models'[i].at = at'[x] /\ models'[i].of = x
    <3>1. x \in Ops
      BY DEF Ops
    <3>2. CASE x = o
      BY <1>3, <1>6, <1>8, <3>2
    <3>3. CASE x # o
      <4>1. run[x] = "running" /\ at'[x] = at[x] /\ at[x] # a
        BY <1>3, <1>8, <1>9, <2>1, <3>1, <3>3
      <4>2. at[x] # Nothing
        BY <1>1, <2>1, <4>1 DEF Following, RequestsFound
      <4>3. PICK i \in DOMAIN models : models[i].at = at[x] /\ models[i].of = x
        BY <1>1, <2>1, <4>1 DEF Following, RequestsFound
      <4>4. i \in DOMAIN models' /\ models'[i] = models[i]
        BY <1>6, <4>1, <4>3
      <4>5. QED
        BY <4>1, <4>2, <4>3, <4>4
    <3>4. QED
      BY <3>2, <3>3
  <2>2. QED
    BY <2>1 DEF RequestsFound
<1>14. QED
  BY <1>11, <1>12, <1>13 DEF Following

LEMMA RemovedFrom ==
  ASSUME SpanTypeOK, NEW i \in DOMAIN models, models' = RemoveAt(models, i)
  PROVE  /\ models' \in Seq([at : Addresses, of : Steps])
         /\ \A j \in DOMAIN models' : LET k == IF j < i THEN j ELSE j + 1 IN
              k \in DOMAIN models /\ k # i /\ models'[j] = models[k]
         /\ \A k \in DOMAIN models : k # i => \E j \in DOMAIN models' : models'[j] = models[k]
<1> DEFINE R == [at : Addresses, of : Steps]
<1>1. models \in Seq(R)
  BY DEF SpanTypeOK
<1> HIDE DEF R
<1> DEFINE n == Len(models)
           left == SubSeq(models, 1, i - 1)
           right == SubSeq(models, i + 1, n)
<1>2. n \in Nat /\ DOMAIN models = 1..n /\ i \in 1..n
  BY <1>1
<1>3. /\ left \in Seq(R) /\ Len(left) = i - 1 /\ \A j \in 1..(i - 1) : left[j] = models[j]
  BY <1>1, <1>2
<1>4. /\ right \in Seq(R) /\ Len(right) = n - i /\ \A j \in 1..(n - i) : right[j] = models[j + i]
  BY <1>1, <1>2
<1>5. models' = left \o right
  BY DEF RemoveAt
<1> HIDE DEF n, left, right
<1>6. /\ models' \in Seq(R) /\ DOMAIN models' = 1..(n - 1)
      /\ \A j \in 1..(n - 1) : models'[j] = IF j <= i - 1 THEN left[j] ELSE right[j - (i - 1)]
  <2>1. /\ models' \in Seq(R) /\ Len(models') = Len(left) + Len(right)
        /\ \A j \in 1..(Len(left) + Len(right)) : models'[j] = IF j <= Len(left) THEN left[j] ELSE right[j - Len(left)]
    BY <1>3, <1>4, <1>5
  <2>2. Len(left) + Len(right) = n - 1
    BY <1>2, <1>3, <1>4
  <2>3. DOMAIN models' = 1..Len(models')
    BY <2>1
  <2>4. QED
    BY <1>3, <2>1, <2>2, <2>3
<1>7. ASSUME NEW j \in 1..(n - 1)
      PROVE  models'[j] = models[IF j < i THEN j ELSE j + 1]
  <2>1. CASE j < i
    BY <1>2, <1>3, <1>6, <2>1
  <2>2. CASE j >= i
    <3>1. j - (i - 1) \in 1..(n - i) /\ (j - (i - 1)) + i = j + 1 /\ ~(j <= i - 1) /\ ~(j < i)
      BY <1>2, <2>2
    <3>2. QED
      BY <1>4, <1>6, <3>1
  <2>3. QED
    BY <1>2, <2>1, <2>2
<1>8. ASSUME NEW k \in DOMAIN models, k # i
      PROVE  \E j \in DOMAIN models' : models'[j] = models[k]
  <2>1. CASE k < i
    BY <1>2, <1>6, <1>7, <2>1
  <2>2. CASE k > i
    <3>1. k - 1 \in 1..(n - 1) /\ ~(k - 1 < i) /\ (k - 1) + 1 = k
      BY <1>2, <2>2
    <3>2. models'[k - 1] = models[k]
      BY <1>7, <3>1
    <3>3. QED
      BY <1>6, <3>1, <3>2
  <2>3. QED
    BY <1>2, <1>8, <2>1, <2>2
<1>9. ASSUME NEW j \in DOMAIN models'
      PROVE  LET k == IF j < i THEN j ELSE j + 1 IN k \in DOMAIN models /\ k # i /\ models'[j] = models[k]
  <2>1. (IF j < i THEN j ELSE j + 1) \in DOMAIN models /\ (IF j < i THEN j ELSE j + 1) # i
    BY <1>2, <1>6
  <2>2. QED
    BY <1>6, <1>7, <2>1
<1>10. QED
  BY <1>6, <1>8, <1>9 DEF R

(* What is left of the entries is as sound after an operation has ended.   *)
LEMMA RemovalSound ==
  ASSUME SpanTypeOK, ModelsSound, RequestsFound, NEW i \in DOMAIN models, models' = RemoveAt(models, i),
         UNCHANGED <<framework, at>>, \A x \in Ops : run'[x] = "running" => run[x] = "running",
         \A x \in Ops : span[x] # "none" => span'[x] # "none",
         framework = "google_adk" => run'[models[i].of] # "running"
  PROVE  ModelsSound' /\ RequestsFound'
<1>1. /\ \A j \in DOMAIN models' : LET k == IF j < i THEN j ELSE j + 1 IN
           k \in DOMAIN models /\ k # i /\ models'[j] = models[k]
      /\ \A k \in DOMAIN models : k # i => \E j \in DOMAIN models' : models'[j] = models[k]
  BY RemovedFrom
<1>2. ASSUME NEW j \in DOMAIN models'
      PROVE  /\ models'[j].of \in Steps \ Tools /\ span'[models'[j].of] # "none"
             /\ \A o \in Ops : run'[o] = "running" /\ at'[o] = models'[j].at => models'[j].of = o
  <2>1. PICK k \in DOMAIN models : models'[j] = models[k]
    BY <1>1
  <2>2. models[k].of \in Steps \ Tools /\ span[models[k].of] # "none" /\ models[k].of \in Ops
    BY EntryTyped DEF ModelsSound
  <2>3. QED
    BY <2>1, <2>2 DEF ModelsSound
<1>3. ASSUME NEW j \in DOMAIN models', NEW l \in DOMAIN models', models'[j].at = models'[l].at
      PROVE  j = l
  <2>1. /\ (IF j < i THEN j ELSE j + 1) \in DOMAIN models /\ models'[j] = models[IF j < i THEN j ELSE j + 1]
        /\ (IF l < i THEN l ELSE l + 1) \in DOMAIN models /\ models'[l] = models[IF l < i THEN l ELSE l + 1]
    BY <1>1
  <2>2. (IF j < i THEN j ELSE j + 1) = (IF l < i THEN l ELSE l + 1)
    BY <1>3, <2>1 DEF ModelsSound
  <2>3. j \in Int /\ l \in Int /\ i \in Int
    <3>1. models \in Seq([at : Addresses, of : Steps]) /\ models' \in Seq([at : Addresses, of : Steps])
      BY RemovedFrom DEF SpanTypeOK
    <3>2. DOMAIN models = 1..Len(models) /\ DOMAIN models' = 1..Len(models')
      BY <3>1
    <3>3. QED
      BY <3>2
  <2>4. QED
    BY <2>2, <2>3
<1>4. ModelsSound'
  <2>1. models # <<>>
    <3>1. DOMAIN models # {}
      OBVIOUS
    <3>2. QED
      BY <3>1
  <2>2. framework' \in {"google_adk", "pydantic_ai"}
    BY <2>1 DEF ModelsSound
  <2>3. QED
    BY <1>2, <1>3, <2>2 DEF ModelsSound
<1>5. ASSUME framework' = "google_adk", NEW x \in Steps \ Tools, run'[x] = "running"
      PROVE  at'[x] # Nothing /\ \E j \in DOMAIN models' : models'[j].at = at'[x] /\ models'[j].of = x
  <2>1. run[x] = "running"
    BY <1>5 DEF Ops
  <2>2. at[x] # Nothing
    BY <1>5, <2>1 DEF RequestsFound
  <2>3. PICK k \in DOMAIN models : models[k].at = at[x] /\ models[k].of = x
    BY <1>5, <2>1 DEF RequestsFound
  <2>4. k # i
    BY <1>5, <2>3
  <2>5. PICK j \in DOMAIN models' : models'[j] = models[k]
    BY <1>1, <2>4
  <2>6. QED
    BY <2>2, <2>3, <2>5
<1>6. RequestsFound'
  BY <1>5 DEF RequestsFound
<1>7. QED
  BY <1>4, <1>6

LEMMA AdkAfterModelFollows ==
  ASSUME Following, NEW o \in Steps, AdkAfterModel(o)
  PROVE  Following'
<1>1. /\ o \in Ops /\ o \in Steps \ Tools /\ o \notin Runs /\ framework = "google_adk" /\ run[o] = "running" /\ Finishes(o)
      /\ run' = [run EXCEPT ![o] = "over"] /\ UNCHANGED <<framework, root, table, at, pool, cut>>
  BY SpanTablesAssumption DEF AdkAfterModel, AfterModel, Finishes, Goes, Ops
<1>2. At(at[o]) # {}
  BY <1>1 DEF Following, RequestsFound, At
<1>3. PICK i \in At(at[o]) : span' = [span EXCEPT ![models[i].of] = "ended"] /\ models' = RemoveAt(models, i)
  BY <1>2 DEF AdkAfterModel, AfterModel
<1>4. i \in DOMAIN models /\ models[i].of = o /\ span[o] # "none"
  BY <1>1, <1>3 DEF At, Following, ModelsSound
<1>5. /\ run \in [Ops -> Status] /\ span \in [Ops -> {"none", "open", "ended"}] /\ root \in [Ops -> Some(Ops)]
      /\ table \in [Keys -> Some(Ops)] /\ at \in [Ops -> Some(Addresses)]
  BY DEF Following, SpanTypeOK
<1>6. ~Keyed(o) /\ ~Late(o) /\ table[o] = Nothing
  BY <1>1 DEF Keyed, Late, Following, Tabled
<1>7. Moves(o, "over", "ended", root[o], Nothing)
  <2>1. span' = [span EXCEPT ![o] = "ended"] /\ root' = [root EXCEPT ![o] = root[o]]
        /\ table' = [table EXCEPT ![o] = Nothing]
    BY <1>1, <1>3, <1>4, <1>5, <1>6
  <2>2. Spanned(o, "ended", root[o])
    BY <1>1, <1>4, <1>5 DEF Spanned
  <2>3. QED
    BY <1>1, <1>6, <2>1, <2>2, SpanTablesAssumption DEF Moves, Goal
<1>8. models' \in Seq([at : Addresses, of : Steps])
  BY <1>3, <1>4, RemovedFrom DEF Following
<1>9. ModelsSound' /\ RequestsFound'
  <2>1. /\ \A x \in Ops : run'[x] = "running" => run[x] = "running"
        /\ \A x \in Ops : span[x] # "none" => span'[x] # "none"
        /\ run'[models[i].of] # "running"
    BY <1>1, <1>3, <1>4, <1>5
  <2>2. QED
    BY <1>1, <1>3, <1>4, <2>1, RemovalSound DEF Following
<1>10. /\ SpanTypeOK' /\ Nested' /\ Fresh' /\ Rooted' /\ EndsWithRun' /\ OneTrace'
       /\ Recording' /\ Covering' /\ Cutting'
       /\ Tabled' /\ TurnsTabled' /\ Pooled'
  BY <1>1, <1>5, <1>7, <1>8, MovesKeep
<1>11. QED
  BY <1>9, <1>10 DEF Following

LEMMA PydanticAfterModelFollows ==
  ASSUME Following, NEW o \in Steps, PydanticAfterModel(o)
  PROVE  Following'
<1> USE DEF Following
<1>1. /\ o \in Ops /\ o \in Steps \ Tools /\ o \notin Runs /\ framework = "pydantic_ai" /\ run[o] = "running" /\ Finishes(o)
      /\ run' = [run EXCEPT ![o] = "over"] /\ UNCHANGED <<framework, root, table, at, pool, cut>>
  BY SpanTablesAssumption DEF PydanticAfterModel, AfterModel, Finishes, Goes, Ops
<1>2. /\ run \in [Ops -> Status] /\ span \in [Ops -> {"none", "open", "ended"}] /\ root \in [Ops -> Some(Ops)]
      /\ table \in [Keys -> Some(Ops)] /\ at \in [Ops -> Some(Addresses)]
      /\ models \in Seq([at : Addresses, of : Steps])
  BY DEF SpanTypeOK
<1>3. ~Keyed(o) /\ ~Late(o) /\ Mixed(o) /\ table[o] = Nothing
  BY <1>1 DEF Keyed, Late, Mixed, Tabled
<1>4. CASE UNCHANGED <<span, models>>
  <2>1. span' = [span EXCEPT ![o] = span[o]] /\ root' = [root EXCEPT ![o] = root[o]]
        /\ table' = [table EXCEPT ![o] = Nothing]
    BY <1>1, <1>2, <1>3, <1>4
  <2>2. Moves(o, "over", span[o], root[o], Nothing)
    BY <1>1, <1>3, <2>1, SpanTablesAssumption DEF Moves, Goal, Spanned
  <2>3. QED
    BY <1>1, <1>4, <2>2, MovesFollow
<1>5. ASSUME NEW i \in DOMAIN models, span' = [span EXCEPT ![models[i].of] = "ended"], models' = RemoveAt(models, i)
      PROVE  Following'
  <2> DEFINE x == models[i].of
  <2>1. x \in Steps \ Tools /\ x \in Ops /\ span[x] # "none" /\ x \notin Runs
    BY EntryTyped, SpanTablesAssumption DEF ModelsSound
  <2>2. span' = [span EXCEPT ![x] = "ended"] /\ root' = [root EXCEPT ![x] = root[x]] /\ Spanned(x, "ended", root[x])
    BY <1>1, <1>2, <1>5, <2>1 DEF Spanned
  <2>3. Mixed(x) /\ ~Keyed(x) /\ table[x] = Nothing
    BY <1>1, <2>1 DEF Mixed, Keyed, Tabled
  <2>4. models' \in Seq([at : Addresses, of : Steps])
    BY <1>5, RemovedFrom
  <2>5. /\ \A y \in Ops : run'[y] = "running" => run[y] = "running"
        /\ \A y \in Ops : span[y] # "none" => span'[y] # "none"
    BY <1>1, <1>2, <2>1, <2>2
  <2>6. ModelsSound' /\ RequestsFound'
    BY <1>1, <1>5, <2>5, RemovalSound
  <2> HIDE DEF x
  <2>7. run' \in [Ops -> Status] /\ Nested'
    BY <1>1, GoingNests DEF Goal
  <2>8. /\ span' \in [Ops -> {"none", "open", "ended"}] /\ root' \in [Ops -> Some(Ops)]
        /\ \A y \in Ops : span'[y] = "none" <=> root'[y] = Nothing
        /\ Rooted' /\ OneTrace'
    BY <1>1, <2>1, <2>2, SpannedKeeps
  <2>9. SpanTypeOK'
    BY <1>1, <2>4, <2>7, <2>8 DEF SpanTypeOK
  <2>10. /\ run'[o] = "over" /\ \A y \in Ops : y # o => run'[y] = run[y]
         /\ span'[x] = "ended" /\ \A y \in Ops : y # x => span'[y] = span[y]
    BY <1>1, <1>2, <2>1, <2>2
  <2>11. Fresh'
    BY <1>1, <2>1, <2>10 DEF Fresh
  <2>12. \A y \in Ops : (Mixed(y)' <=> Mixed(y)) /\ ~Late(y) /\ ~Late(y)' /\ (Keyed(y)' <=> Keyed(y))
    BY <1>1 DEF Mixed, Late, Keyed
  <2>13. EndsWithRun'
    BY <1>1, <1>3, <2>3, <2>10, <2>12 DEF EndsWithRun
  <2>14. Recording' /\ Cutting' /\ Pooled'
    BY <1>1, <2>12 DEF Recording, Cutting, Pooled
  <2>15. Covering'
    BY <1>1, <1>3, <2>3, <2>10, <2>12 DEF Covering
  <2>16. Tabled'
    BY <1>1, <2>3, <2>10, <2>12, SpanTablesAssumption DEF Tabled
  <2>17. TurnsTabled'
    BY <1>1 DEF TurnsTabled
  <2>18. QED
    BY <2>6, <2>7, <2>8, <2>9, <2>11, <2>13, <2>14, <2>15, <2>16, <2>17
<1>6. QED
  BY <1>4, <1>5 DEF PydanticAfterModel, AfterModel, Youngest

(* The turns of Claude's sessions.                                         *)
LEMMA ClaudeFollows ==
  ASSUME Following, NEW r \in Runs, ClaudeQuery(r) \/ ClaudeStop(r)
  PROVE  Following'
<1> USE SpanTablesAssumption DEF Following
<1>1. /\ framework = "claude_agent" /\ UNCHANGED <<framework, at, models, pool>> /\ r \in Ops /\ r \notin Steps
      /\ pool = {} /\ models = <<>> /\ pool' = {} /\ models' = <<>> /\ Session[r] \in Sessions /\ Session[r] \notin Ops
  BY DEF ClaudeQuery, ClaudeStop, Pooled, ModelsSound, Ops
<1>2. /\ run \in [Ops -> Status] /\ span \in [Ops -> {"none", "open", "ended"}] /\ root \in [Ops -> Some(Ops)]
      /\ table \in [Keys -> Some(Ops)] /\ \A x \in Ops : x \in Keys
      /\ \A k \in Sessions : k \in Keys /\ k \notin Ops
      /\ \A x \in Runs : x \in Ops /\ x \notin Steps
  BY DEF SpanTypeOK, Keys, Ops
<1>3. ModelsSound' /\ RequestsFound' /\ Pooled'
  BY <1>1 DEF ModelsSound, RequestsFound, Pooled
<1>4. /\ \A x \in Ops : ~Mixed(x) /\ ~Mixed(x)' /\ ~Keyed(x) /\ ~Keyed(x)' /\ (Late(x)' <=> Late(x)) /\ table[x] = Nothing
      /\ \A x \in Runs : ~Late(x)
  BY <1>1 DEF Mixed, Keyed, Late, Tabled, Ops
<1>5. CASE ClaudeStop(r)
  <2>1. run[r] = "running" /\ Finishes(r) /\ run' = [run EXCEPT ![r] = "over"] /\ cut' = cut
    BY <1>5 DEF ClaudeStop, Finishes, Goes
  <2>2. table[Session[r]] = r /\ r # Nothing
    BY <1>1, <2>1 DEF TurnsTabled
  <2>3. span[r] = "open"
    BY <1>1, <2>2 DEF TurnsTabled
  <2>4. /\ span' = [span EXCEPT ![r] = "ended"] /\ root' = [root EXCEPT ![r] = root[r]] /\ root' = root
        /\ table' = [table EXCEPT ![Session[r]] = Nothing]
    BY <1>2, <1>5, <2>2 DEF ClaudeStop, EndOf, End
  <2>5. Spanned(r, "ended", root[r])
    BY <2>3 DEF Spanned
  <2>6. /\ span' \in [Ops -> {"none", "open", "ended"}] /\ root' \in [Ops -> Some(Ops)]
        /\ \A x \in Ops : span'[x] = "none" <=> root'[x] = Nothing
        /\ Rooted' /\ OneTrace'
    BY <1>1, <2>1, <2>4, <2>5, SpannedKeeps
  <2>7. run' \in [Ops -> Status] /\ Nested'
    BY <1>1, <2>1, GoingNests DEF Goal
  <2>8. table' \in [Keys -> Some(Ops)]
    BY <1>1, <1>2, <2>4 DEF Some
  <2>9. SpanTypeOK'
    BY <1>1, <2>1, <2>6, <2>7, <2>8 DEF SpanTypeOK
  <2>10. /\ run'[r] = "over" /\ \A x \in Ops : x # r => run'[x] = run[x]
         /\ span'[r] = "ended" /\ \A x \in Ops : x # r => span'[x] = span[x]
         /\ \A x \in Ops : table'[x] = table[x]
         /\ table'[Session[r]] = Nothing /\ \A k \in Sessions : k # Session[r] => table'[k] = table[k]
    BY <1>1, <1>2, <2>1, <2>4
  <2>11. Fresh'
    BY <1>1, <2>10 DEF Fresh
  <2>12. EndsWithRun'
    BY <1>1, <2>1, <2>10 DEF EndsWithRun, Mixed
  <2>13. Recording' /\ Cutting'
    BY <1>1, <1>4, <2>1, <2>10 DEF Recording, Cutting
  <2>14. Covering'
    BY <1>1, <1>4, <2>1, <2>10 DEF Covering
  <2>15. Tabled'
    BY <1>1, <1>4, <2>10 DEF Tabled
  <2>16. ASSUME NEW k \in Sessions, table'[k] # Nothing
         PROVE  /\ framework' = "claude_agent" /\ table'[k] \in Runs /\ Session[table'[k]] = k
                /\ span'[table'[k]] = "open"
    BY <1>1, <1>2, <2>10, <2>16 DEF TurnsTabled
  <2>17. ASSUME NEW q \in Runs
         PROVE  /\ run'[q] = "running" => table'[Session[q]] = q
                /\ run'[q] = "over" => span'[q] # "open"
    <3>1. q \in Ops /\ Session[q] \in Sessions
      BY <1>2 DEF Ops
    <3>2. q # r /\ run[q] = "running" => Session[q] # Session[r]
      BY <1>1, <2>2 DEF TurnsTabled
    <3>3. QED
      BY <1>1, <2>10, <3>1, <3>2 DEF TurnsTabled
  <2>18. TurnsTabled'
    BY <2>16, <2>17 DEF TurnsTabled
  <2>19. QED
    BY <1>3, <2>6, <2>7, <2>9, <2>11, <2>12, <2>13, <2>14, <2>15, <2>18
<1>6. CASE ClaudeQuery(r)
  <2> DEFINE old == table[Session[r]]
  <2>1. /\ run[r] = "new" /\ Begins(r) /\ span[r] = "none"
    BY <1>1, <1>6, FreshHasNone DEF ClaudeQuery, Begins
  <2>2. /\ run' = [x \in Ops |-> IF x = r THEN "running" ELSE IF x \in SameTurns(r) THEN "lost" ELSE run[x]]
        /\ \A s \in Steps : RunOf[s] \in SameTurns(r) => run[s] # "running"
        /\ table' = [table EXCEPT ![Session[r]] = r]
        /\ span' = [x \in Ops |-> IF x = r THEN "open" ELSE IF x = old THEN "ended" ELSE span[x]]
        /\ cut' = (IF old = Nothing THEN cut ELSE cut \cup {old})
        /\ root' = [root EXCEPT ![r] = r]
    BY <1>6 DEF ClaudeQuery
  <2>3. old # Nothing => old \in Runs /\ old \in Ops /\ span[old] = "open" /\ old # r
    BY <1>1, <1>2, <2>1 DEF TurnsTabled
  <2>4. Nothing \notin Ops
    OBVIOUS
  <2> HIDE DEF old
  <2>5. /\ \A x \in Ops : run'[x] = IF x = r THEN "running" ELSE IF x \in SameTurns(r) THEN "lost" ELSE run[x]
        /\ \A x \in Ops : span'[x] = IF x = r THEN "open" ELSE IF x = old THEN "ended" ELSE span[x]
        /\ \A x \in Ops : root'[x] = IF x = r THEN r ELSE root[x]
        /\ \A x \in Ops : table'[x] = table[x]
        /\ table'[Session[r]] = r /\ \A k \in Sessions : k # Session[r] => table'[k] = table[k]
    BY <1>1, <1>2, <2>2
  <2>6. \A x \in SameTurns(r) : x \in Runs /\ Session[x] = Session[r] /\ run[x] = "running"
    BY DEF SameTurns
  <2>7. /\ run' \in [Ops -> Status] /\ span' \in [Ops -> {"none", "open", "ended"}] /\ root' \in [Ops -> Some(Ops)]
        /\ table' \in [Keys -> Some(Ops)]
    BY <1>1, <1>2, <2>2 DEF Status, Some
  <2>8. cut' \subseteq Ops
    BY <2>2, <2>3 DEF SpanTypeOK
  <2>9. \A x \in Ops : span'[x] = "none" <=> root'[x] = Nothing
    BY <2>3, <2>4, <2>5 DEF SpanTypeOK
  <2>10. SpanTypeOK'
    BY <1>1, <2>7, <2>8, <2>9 DEF SpanTypeOK
  <2>11. ASSUME NEW s \in Steps
         PROVE  /\ run'[s] = "running" => run'[Parent[s]] = "running"
                /\ run'[s] # "new" => run'[RunOf[s]] # "new"
    <3>1. s \in Ops /\ Parent[s] \in Ops /\ RunOf[s] \in Ops /\ RunOf[s] \in Runs /\ s # r /\ s \notin SameTurns(r)
      BY <1>1, <2>6 DEF Ops
    <3>2. run'[s] = run[s]
      BY <2>5, <3>1
    <3>3. run[s] = "running" => run[Parent[s]] = "running" /\ Parent[s] \notin SameTurns(r)
      BY <1>2, <2>2, <2>6 DEF Nested
    <3>4. run[s] # "new" => run[RunOf[s]] # "new"
      BY DEF Nested
    <3>5. QED
      BY <2>5, <3>1, <3>2, <3>3, <3>4
  <2>12. Nested'
    BY <2>11 DEF Nested
  <2>13. Fresh'
    BY <1>1, <2>1, <2>3, <2>4, <2>5 DEF Fresh, EndsWithRun, TurnsTabled
  <2>14. Rooted'
    BY <1>2, <2>3, <2>4, <2>5 DEF Rooted
  <2>15. OneTrace'
    <3>1. ASSUME NEW s \in Steps, span'[s] # "none"
          PROVE  \/ root'[s] = RunOf[s]
                 \/ /\ root'[s] \in Steps /\ RunOf[root'[s]] = RunOf[s]
                    /\ Parent[root'[s]] \in cut' \/ framework' = "crewai"
      <4>1. s \in Ops /\ s # r /\ s # old
        BY <1>1, <1>2, <2>3, <2>4 DEF Ops
      <4>2. span'[s] = span[s] /\ root'[s] = root[s]
        BY <2>5, <4>1
      <4>3. cut \subseteq cut'
        BY <2>2
      <4>4. QED
        BY <1>1, <3>1, <4>2, <4>3 DEF OneTrace
    <3>2. QED
      BY <3>1 DEF OneTrace
  <2>16. old # Nothing => old \in cut'
    BY <2>2
  <2>17. cut \subseteq cut'
    BY <2>2
  <2>18. EndsWithRun'
    <3>1. ASSUME NEW x \in Ops
          PROVE  /\ span'[x] = "ended" => run'[x] = "over" \/ x \in cut'
                 /\ run'[x] = "over" /\ span'[x] = "open" => framework' = "crewai"
      <4>1. CASE x = r
        BY <2>5, <4>1
      <4>2. CASE x # r /\ x = old
        BY <2>4, <2>5, <2>16, <4>2
      <4>3. CASE x # r /\ x # old
        <5>1. /\ span[x] = "ended" => run[x] = "over" \/ x \in cut
              /\ run[x] = "over" => span[x] # "open"
          BY <1>1, <1>4 DEF EndsWithRun
        <5>2. run[x] = "over" => x \notin SameTurns(r)
          BY <2>6
        <5>3. QED
          BY <2>5, <2>17, <4>3, <5>1, <5>2
      <4>4. QED
        BY <4>1, <4>2, <4>3
    <3>2. QED
      BY <3>1 DEF EndsWithRun
  <2>19. Recording' /\ Cutting'
    <3>1. Cutting'
      BY <1>1 DEF Cutting
    <3>2. ASSUME NEW x \in Ops, Late(x)', span'[x] # "none"
          PROVE  run'[x] = "over"
      BY <1>4, <2>3, <2>4, <2>5, <2>6, <3>2 DEF Recording
    <3>3. QED
      BY <3>1, <3>2 DEF Recording
  <2>20. Covering'
    <3>1. ASSUME NEW x \in Ops, ~Late(x), run'[x] = "running"
          PROVE  span'[x] = "open" \/ x \in cut'
      BY <1>1, <1>4, <2>3, <2>4, <2>5, <2>16, <2>17, <3>1 DEF Covering
    <3>2. QED
      BY <1>4, <3>1 DEF Covering
  <2>21. Tabled'
    BY <1>1, <1>4, <2>5 DEF Tabled
  <2>22. ASSUME NEW k \in Sessions, table'[k] # Nothing
         PROVE  /\ framework' = "claude_agent" /\ table'[k] \in Runs /\ Session[table'[k]] = k
                /\ span'[table'[k]] = "open"
    <3>1. CASE k = Session[r]
      BY <1>1, <2>5, <3>1
    <3>2. CASE k # Session[r]
      <4>1. table'[k] = table[k] /\ table[k] \in Runs /\ Session[table[k]] = k /\ span[table[k]] = "open"
        BY <2>5, <2>22, <3>2 DEF TurnsTabled
      <4>2. table[k] # r /\ table[k] # old /\ table[k] \in Ops
        <5>1. old # Nothing => Session[old] = Session[r]
          BY <1>1 DEF TurnsTabled, old
        <5>2. QED
          BY <1>2, <2>4, <3>2, <4>1, <5>1
      <4>3. QED
        BY <1>1, <2>5, <4>1, <4>2
    <3>3. QED
      BY <3>1, <3>2
  <2>23. ASSUME NEW q \in Runs
         PROVE  /\ run'[q] = "running" => table'[Session[q]] = q
                /\ run'[q] = "over" => span'[q] # "open"
    <3>1. q \in Ops /\ Session[q] \in Sessions
      BY <1>2 DEF Ops
    <3>2. run[q] = "running" /\ q \notin SameTurns(r) => Session[q] # Session[r]
      BY DEF SameTurns
    <3>3. QED
      BY <1>1, <2>5, <3>1, <3>2 DEF TurnsTabled
  <2>24. TurnsTabled'
    BY <2>22, <2>23 DEF TurnsTabled
  <2>25. QED
    BY <1>3, <2>10, <2>12, <2>13, <2>14, <2>15, <2>18, <2>19, <2>20, <2>21, <2>24
<1>7. QED
  BY <1>5, <1>6

LEMMA ClaudeToolFollows ==
  ASSUME Following, NEW o \in Steps, ClaudeTool(o)
  PROVE  Following'
<1> DEFINE p == table[Session[RunOf[o]]]
           first == IF p = Nothing THEN o ELSE root[p]
<1>1. /\ framework = "claude_agent" /\ o \in Tools /\ o \in Ops /\ UNCHANGED <<framework, table, at, models, pool, cut>>
      /\ span \in [Ops -> {"none", "open", "ended"}] /\ root \in [Ops -> Some(Ops)]
  BY DEF ClaudeTool, Ops, Following, SpanTypeOK
<1>2. ~Keyed(o) /\ ~Mixed(o) /\ Late(o)
  BY <1>1 DEF Mixed, Late, Keyed
<1>3. CASE Begins(o) /\ Goes(o, "running") /\ UNCHANGED <<span, root>>
  <2>1. span[o] = "none"
    BY <1>1, <1>3, FreshHasNone
  <2>2. span' = [span EXCEPT ![o] = "none"] /\ root' = [root EXCEPT ![o] = root[o]] /\ Spanned(o, "none", root[o])
    BY <1>1, <1>3, <2>1 DEF Spanned
  <2>3. Goal(o, "running") /\ run' = [run EXCEPT ![o] = "running"]
    BY <1>3 DEF Goal, Goes
  <2>4. QED
    BY <1>1, <1>2, <2>2, <2>3, LocalFollows
<1>4. CASE Finishes(o) /\ Goes(o, "over") /\ Record(o, p)
  <2>1. span' = [span EXCEPT ![o] = "ended"] /\ root' = [root EXCEPT ![o] = first]
    BY <1>4 DEF Record
  <2>2. run[o] = "running" /\ Goal(o, "over") /\ run' = [run EXCEPT ![o] = "over"]
    BY <1>4 DEF Finishes, Goal, Goes
  <2>3. span[o] = "none"
    BY <1>1, <1>2, <2>2 DEF Following, Recording
  <2>4. Traced(o, first)
    BY <1>1, <2>2, RunFound
  <2> HIDE DEF p, first
  <2>5. Spanned(o, "ended", first)
    BY <2>3, <2>4 DEF Spanned
  <2>6. QED
    BY <1>1, <1>2, <2>1, <2>2, <2>5, LocalFollows
<1>5. QED
  BY <1>3, <1>4 DEF ClaudeTool

(* AutoGen, whose run a tool's calls find by the current span, and clients.*)
LEMMA CallsFollow ==
  ASSUME Following, NEW o \in Ops,
         \/ AutogenCall(o) \/ AutogenReturns(o)
         \/ o \in Runs /\ (ProviderCall(o) \/ ProviderReturns(o) \/ AnthropicCall(o) \/ AnthropicStreamEnds(o))
  PROVE  Following'
<1> USE SpanTablesAssumption DEF Following
<1>1. /\ framework \in {"autogen", "openai", "anthropic"} /\ UNCHANGED <<framework, table, at, models, pool, cut>>
      /\ span \in [Ops -> {"none", "open", "ended"}] /\ root \in [Ops -> Some(Ops)]
      /\ \A x \in Ops : span[x] = "none" <=> root[x] = Nothing
  BY DEF AutogenCall, AutogenReturns, ProviderCall, ProviderReturns, AnthropicCall, AnthropicStreamEnds, SpanTypeOK
<1>2. \A x \in Ops : ~Keyed(x) /\ ~Mixed(x) /\ ~Late(x)
  BY <1>1 DEF Mixed, Late, Keyed
<1>3. cut = {}
  BY <1>1 DEF Cutting
<1>4. CASE Finishes(o) /\ Goes(o, "over") /\ End(o)
  <2>1. span[o] = "open"
    BY <1>1, <1>2, <1>3, <1>4 DEF Covering, Finishes
  <2>2. span' = [span EXCEPT ![o] = "ended"] /\ root' = [root EXCEPT ![o] = root[o]] /\ Spanned(o, "ended", root[o])
    BY <1>1, <1>4, <2>1 DEF End, Spanned
  <2>3. Goal(o, "over") /\ run' = [run EXCEPT ![o] = "over"]
    BY <1>4 DEF Goal, Goes
  <2> HIDE DEF Following
  <2>4. QED
    BY <1>1, <1>2, <2>2, <2>3, LocalFollows
<1>5. CASE /\ o \in Runs /\ Begins(o)
           /\ \/ Goes(o, "running") /\ Open(o, Nothing)
              \/ Goes(o, "over") /\ Record(o, Nothing)
  <2>1. span[o] = "none" /\ Traced(o, o)
    BY <1>5, FreshHasNone DEF Traced
  <2>2. PICK stage \in {"running", "over"}, kind \in {"open", "ended"} :
          /\ run' = [run EXCEPT ![o] = stage] /\ (stage = "over" <=> kind = "ended")
          /\ span' = [span EXCEPT ![o] = kind] /\ root' = [root EXCEPT ![o] = o]
    BY <1>5 DEF Goes, Open, Record
  <2>3. Goal(o, stage) /\ Spanned(o, kind, o)
    BY <1>5, <2>1, <2>2 DEF Goal, Spanned
  <2> HIDE DEF Following
  <2>4. QED
    BY <1>1, <1>2, <2>2, <2>3, LocalFollows
<1>6. CASE AutogenCall(o)
  <2> DEFINE p == IF o \in Runs THEN Nothing ELSE IF Parent[o] \in Tools THEN RunOf[o] ELSE Parent[o]
             first == IF p = Nothing THEN o ELSE root[p]
  <2>1. span' = [span EXCEPT ![o] = "open"] /\ root' = [root EXCEPT ![o] = first]
    BY <1>6 DEF AutogenCall, Open
  <2>2. span[o] = "none" /\ Goal(o, "running") /\ run' = [run EXCEPT ![o] = "running"] /\ Begins(o)
    BY <1>6, FreshHasNone DEF AutogenCall, Goal, Goes
  <2>3. Traced(o, first)
    <3>1. CASE o \in Runs
      BY <3>1 DEF Traced
    <3>2. CASE o \in Steps
      <4>1. o \notin Runs /\ run[Parent[o]] = "running" /\ Parent[o] \in Ops /\ RunOf[o] \in Runs /\ RunOf[o] \in Ops
        BY <2>2, <3>2 DEF Begins, Ops
      <4>2. span[Parent[o]] = "open"
        BY <1>1, <1>2, <1>3, <4>1 DEF Covering
      <4>3. CASE Parent[o] \in Runs
        BY <3>2, <4>1, <4>2, <4>3 DEF Rooted, Traced
      <4>4. CASE Parent[o] \in Steps
        <5>1. RunOf[o] = RunOf[Parent[o]] /\ run[RunOf[Parent[o]]] = "running"
          BY <3>2, <4>1, <4>4, RunGoesOn
        <5>2. span[RunOf[o]] = "open"
          BY <1>1, <1>2, <1>3, <4>1, <5>1 DEF Covering
        <5>3. root[RunOf[o]] = RunOf[o]
          BY <4>1, <5>2 DEF Rooted
        <5>4. root[Parent[o]] = RunOf[o]
              \/ (root[Parent[o]] \in Steps /\ RunOf[root[Parent[o]]] = RunOf[o] /\ Parent[root[Parent[o]]] \in cut)
          BY <1>1, <4>2, <4>4, <5>1 DEF OneTrace
        <5>5. root[Parent[o]] = RunOf[o]
          BY <1>3, <5>4
        <5>6. first = RunOf[o]
          BY <4>1, <5>3, <5>5
        <5> HIDE DEF p, first
        <5>7. QED
          BY <4>1, <5>6 DEF Traced
      <4>5. QED
        BY <4>1, <4>3, <4>4 DEF Ops
    <3>3. QED
      BY <3>1, <3>2 DEF Ops
  <2> HIDE DEF p, first, Following
  <2>4. Spanned(o, "open", first)
    BY <2>2, <2>3 DEF Spanned
  <2>5. QED
    BY <1>1, <1>2, <2>1, <2>2, <2>4, LocalFollows
<1>7. CASE AutogenReturns(o) \/ (o \in Runs /\ (ProviderReturns(o) \/ AnthropicStreamEnds(o)))
  BY <1>4, <1>7 DEF AutogenReturns, ProviderReturns, AnthropicStreamEnds
<1>8. CASE o \in Runs /\ (ProviderCall(o) \/ AnthropicCall(o))
  BY <1>5, <1>8 DEF ProviderCall, AnthropicCall
<1>9. QED
  BY <1>6, <1>7, <1>8

LEMMA CancelFollows ==
  ASSUME Following, NEW r \in Runs, Cancel(r)
  PROVE  Following'
<1> USE SpanTablesAssumption DEF Following
<1>1. /\ run' = [x \in Ops |-> IF run[x] = "running" /\ (x = r \/ (x \in Steps /\ RunOf[x] = r)) THEN "lost" ELSE run[x]]
      /\ UNCHANGED <<framework, span, root, table, at, models, pool, cut>>
  BY DEF Cancel
<1>2. run \in [Ops -> Status] /\ \A x \in Steps : x \in Ops /\ x \notin Runs /\ Parent[x] \in Ops /\ RunOf[x] \in Ops
  BY DEF SpanTypeOK, Ops
<1>3. run' \in [Ops -> Status]
  BY <1>1, <1>2 DEF Status
<1>4. \A x \in Ops : /\ run'[x] = "running" => run[x] = "running"
                     /\ run'[x] = "over" <=> run[x] = "over"
                     /\ run'[x] = "new" <=> run[x] = "new"
  BY <1>1, <1>2
<1>5. ASSUME NEW s \in Steps
      PROVE  /\ run'[s] = "running" => run'[Parent[s]] = "running"
             /\ run'[s] # "new" => run'[RunOf[s]] # "new"
  <2>1. ASSUME run'[s] = "running"
        PROVE  run'[Parent[s]] = "running"
    <3>1. run[s] = "running" /\ RunOf[s] # r
      BY <1>1, <1>2, <2>1
    <3>2. run[Parent[s]] = "running"
      BY <3>1 DEF Nested
    <3>3. Parent[s] # r /\ (Parent[s] \in Steps => RunOf[Parent[s]] # r)
      BY <1>2, <3>1
    <3>4. QED
      BY <1>1, <1>2, <3>2, <3>3
  <2>2. QED
    BY <1>2, <1>4, <2>1 DEF Nested
<1>6. SpanTypeOK' /\ Nested' /\ Rooted' /\ OneTrace' /\ Cutting'
  BY <1>1, <1>3, <1>5 DEF SpanTypeOK, Nested, Rooted, OneTrace, Cutting
<1>7. \A x \in Ops : (Mixed(x)' <=> Mixed(x)) /\ (Late(x)' <=> Late(x)) /\ (Keyed(x)' <=> Keyed(x))
  BY <1>1 DEF Mixed, Late, Keyed
<1>8. Fresh'
  BY <1>1, <1>4 DEF Fresh
<1>9. EndsWithRun'
  BY <1>1, <1>4, <1>7 DEF EndsWithRun
<1>10. Recording' /\ Covering'
  BY <1>1, <1>4, <1>7 DEF Recording, Covering
<1>11. Tabled'
  BY <1>1, <1>7 DEF Tabled
<1>12. TurnsTabled'
  BY <1>1, <1>4 DEF TurnsTabled, Ops
<1>13. ModelsSound'
  BY <1>1, <1>4 DEF ModelsSound
<1>14. RequestsFound'
  BY <1>1, <1>2, <1>4 DEF RequestsFound
<1>15. Pooled'
  BY <1>1, <1>4 DEF Pooled
<1>16. QED
  BY <1>6, <1>8, <1>9, <1>10, <1>11, <1>12, <1>13, <1>14, <1>15

LEMMA ShutdownFollows ==
  ASSUME Following, AgentsShutdown
  PROVE  Following'
<1> USE SpanTablesAssumption DEF Following
<1> DEFINE open == {o \in Ops : table[o] = o}
<1>1. /\ framework = "openai_agents" /\ UNCHANGED <<framework, run, root, at, models, pool>>
      /\ span' = [o \in Ops |-> IF o \in open THEN "ended" ELSE span[o]] /\ cut' = cut \cup open
      /\ table' = [k \in Keys |-> Nothing]
  BY DEF AgentsShutdown
<1>2. /\ span \in [Ops -> {"none", "open", "ended"}] /\ \A x \in Ops : x \in Keys /\ Keyed(x) /\ ~Mixed(x) /\ ~Late(x)
      /\ \A x \in Ops : Keyed(x)' /\ ~Mixed(x)' /\ ~Late(x)'
      /\ \A k \in Sessions : k \in Keys
  BY <1>1 DEF SpanTypeOK, Keys, Keyed, Mixed, Late
<1>3. \A x \in Ops : x \in open <=> span[x] = "open"
  BY <1>2 DEF Tabled
<1> HIDE DEF open
<1>4. /\ \A x \in Ops : span'[x] = IF span[x] = "open" THEN "ended" ELSE span[x]
      /\ \A x \in Ops : x \in cut' <=> x \in cut \/ span[x] = "open"
      /\ \A k \in Keys : table'[k] = Nothing
  BY <1>1, <1>3
<1>5. SpanTypeOK'
  <2>1. span' \in [Ops -> {"none", "open", "ended"}] /\ table' \in [Keys -> Some(Ops)] /\ cut' \subseteq Ops
    BY <1>1, <1>2 DEF Some, SpanTypeOK, open
  <2>2. \A x \in Ops : span'[x] = "none" <=> root'[x] = Nothing
    BY <1>1, <1>4 DEF SpanTypeOK
  <2>3. QED
    BY <1>1, <2>1, <2>2 DEF SpanTypeOK
<1>6. Nested' /\ Fresh' /\ Rooted'
  BY <1>1, <1>4 DEF Nested, Fresh, Rooted, Ops
<1>7. OneTrace'
  <2>1. ASSUME NEW s \in Steps, span'[s] # "none"
        PROVE  \/ root'[s] = RunOf[s]
               \/ /\ root'[s] \in Steps /\ RunOf[root'[s]] = RunOf[s]
                  /\ Parent[root'[s]] \in cut' \/ framework' = "crewai"
    <3>1. s \in Ops /\ span[s] # "none"
      BY <1>4, <2>1 DEF Ops
    <3>2. cut \subseteq cut'
      BY <1>1
    <3>3. QED
      BY <1>1, <3>1, <3>2 DEF OneTrace
  <2>2. QED
    BY <2>1 DEF OneTrace
<1>8. EndsWithRun'
  BY <1>1, <1>2, <1>4 DEF EndsWithRun
<1>9. Recording' /\ Covering' /\ Cutting'
  BY <1>1, <1>2, <1>4 DEF Recording, Covering, Cutting
<1>10. Tabled' /\ TurnsTabled'
  <2>1. \A x \in Ops : table'[x] = Nothing /\ span'[x] # "open" /\ x # Nothing
    BY <1>2, <1>4
  <2>2. Tabled'
    BY <2>1 DEF Tabled
  <2>3. framework' # "claude_agent" /\ \A k \in Sessions : table'[k] = Nothing
    BY <1>1, <1>2, <1>4
  <2>4. TurnsTabled'
    BY <2>3 DEF TurnsTabled
  <2>5. QED
    BY <2>2, <2>4
<1>11. ModelsSound' /\ RequestsFound' /\ Pooled'
  BY <1>1 DEF ModelsSound, RequestsFound, Pooled
<1>12. QED
  BY <1>5, <1>6, <1>7, <1>8, <1>9, <1>10, <1>11

LEMMA StutterFollows ==
  ASSUME Following, UNCHANGED spanVars
  PROVE  Following'
<1>1. UNCHANGED <<framework, run, span, root, table, at, models, pool, cut>>
  BY DEF spanVars
<1>2. SpanTypeOK' /\ Nested' /\ Fresh' /\ Rooted' /\ OneTrace' /\ Cutting'
  BY <1>1 DEF Following, SpanTypeOK, Nested, Fresh, Rooted, OneTrace, Cutting
<1>3. EndsWithRun' /\ Recording' /\ Covering'
  BY <1>1 DEF Following, EndsWithRun, Recording, Covering, Mixed, Late
<1>4. Tabled' /\ TurnsTabled'
  BY <1>1 DEF Following, Tabled, TurnsTabled, Keyed
<1>5. ModelsSound' /\ RequestsFound' /\ Pooled'
  BY <1>1 DEF Following, ModelsSound, RequestsFound, Pooled
<1>6. QED
  BY <1>2, <1>3, <1>4, <1>5 DEF Following

(* The invariant of the adapters' tables: every span that is open, and is  *)
(* to be ended by a callback, is where the callback looks for it.          *)
THEOREM SpansInvariant == SpanSpec => []Following
<1>1. SpanInit => Following
  BY SpanInitFollows
<1>2. Following /\ [SpanNext]_spanVars => Following'
  <2> SUFFICES ASSUME Following, [SpanNext]_spanVars PROVE Following'
    OBVIOUS
  <2>1. CASE UNCHANGED spanVars
    BY <2>1, StutterFollows
  <2>2. CASE AgentsShutdown
    BY <2>2, ShutdownFollows
  <2>3. ASSUME NEW r \in Runs, OfARun(r)
        PROVE  Following'
    <3>1. r \in Ops
      BY DEF Ops
    <3>2. CASE Cancel(r)
      BY <3>2, CancelFollows
    <3>3. CASE AgentsTraceStart(r)
      BY <3>1, <3>3, AgentsFollow
    <3>4. CASE AdkBeforeRun(r) \/ AdkAfterRun(r) \/ PydanticBeforeRun(r) \/ PydanticAfterRun(r)
      BY <3>1, <3>4, HooksFollow
    <3>5. CASE ClaudeQuery(r) \/ ClaudeStop(r)
      BY <3>5, ClaudeFollows
    <3>6. CASE ProviderCall(r) \/ ProviderReturns(r) \/ AnthropicCall(r) \/ AnthropicStreamEnds(r)
      BY <3>1, <3>6, CallsFollow
    <3>7. QED
      BY <2>3, <3>2, <3>3, <3>4, <3>5, <3>6 DEF OfARun
  <2>4. ASSUME NEW s \in Steps, OfAStep(s)
        PROVE  Following'
    <3>1. s \in Ops
      BY DEF Ops
    <3>2. CASE AgentsSpanStart(s)
      BY <3>1, <3>2, AgentsFollow
    <3>3. CASE AdkBeforeModel(s) \/ PydanticBeforeModel(s)
      BY <3>3, BeforeModelFollows DEF AdkBeforeModel, PydanticBeforeModel
    <3>4. CASE AdkAfterModel(s)
      BY <3>4, AdkAfterModelFollows
    <3>5. CASE PydanticAfterModel(s)
      BY <3>5, PydanticAfterModelFollows
    <3>6. CASE AdkBeforeTool(s) \/ AdkAfterTool(s) \/ PydanticToolStarts(s) \/ PydanticToolEnds(s)
      BY <3>1, <3>6, HooksFollow
    <3>7. CASE ClaudeTool(s)
      BY <3>7, ClaudeToolFollows
    <3>8. QED
      BY <2>4, <3>2, <3>3, <3>4, <3>5, <3>6, <3>7 DEF OfAStep
  <2>5. ASSUME NEW o \in Ops, OfEither(o)
        PROVE  Following'
    <3>1. CASE LangGraphStarts(o) \/ LangGraphToolStarts(o) \/ LangGraphEnds(o)
      BY <3>1, LangGraphFollows
    <3>2. CASE AgentsEnd(o)
      BY <3>2, AgentsFollow
    <3>3. CASE CrewEmits(o) \/ CrewStarts(o) \/ CrewEnds(o)
      BY <3>3, CrewFollows
    <3>4. CASE AutogenCall(o) \/ AutogenReturns(o)
      BY <3>4, CallsFollow
    <3>5. QED
      BY <2>5, <3>1, <3>2, <3>3, <3>4 DEF OfEither
  <2>6. QED
    BY <2>1, <2>2, <2>3, <2>4, <2>5 DEF SpanNext
<1>3. QED
  BY <1>1, <1>2, PTL DEF SpanSpec

(* In every adapter the state is of the types that are said.               *)
THEOREM SpanTypeCorrect == SpanSpec => []SpanTypeOK
<1>1. Following => SpanTypeOK
  BY DEF Following
<1>2. QED
  BY <1>1, SpansInvariant, PTL

(* Spans end with their operations, and stay in the trace of their run.    *)
THEOREM SpansFollowRunsHolds == SpanSpec => []SpansFollowRuns
<1>1. Following => SpansFollowRuns
  BY DEF Following, SpansFollowRuns
<1>2. QED
  BY <1>1, SpansInvariant, PTL
=============================================================================
