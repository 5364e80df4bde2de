----------------------------- MODULE Partitions -----------------------------
(***************************************************************************)
(* Where spans and audit events are kept, and for how long: the monthly    *)
(* partitions that each receiver's maintenance loops make and drop         *)
(* (receiver/spans_worker.py, audit/worker.py), the ingest that needs      *)
(* them, the sweep of old traces (repositories/retention.py) and the       *)
(* settings that it reads.                                                 *)
(*                                                                         *)
(* Time is counted in months.  A transaction's statements take effect when *)
(* it commits; any of them may fail, and then it leaves no trace.          *)
(***************************************************************************)
EXTENDS Integers, FiniteSets

CONSTANTS
  Receivers, Ingests, Traces,
  Premake,     \* PREMAKE_MONTHS, PARTITION_LOOKAHEAD_MONTHS
  Retention,   \* RETENTION_MONTHS: any integer of the environment
  Batch,       \* the traces that a sweep deletes at most
  Keeps,       \* the values of trace_retention_days that are looked at, in months; 0 is for ever
  First, Last, \* bounds: the months
  MaxUpdates,  \* bound: changes of the setting
  Nothing

PartitionsAssumption ==
  /\ {Premake, First, Last, MaxUpdates} \cup Keeps \subseteq Nat /\ Batch \in Nat \ {0}
  /\ Retention \in Int /\ First > 0 /\ First <= Last /\ Nothing \notin Nat

VARIABLES
  month,     \* the current month
  tables,    \* the months that spans, span_events and span_links have a partition for
  events,    \* those of audit.events
  workers,   \* [Receivers -> Worker]: the loop of spans_worker
  keep,      \* the project's trace_retention_days, Nothing without a row of settings
  traces,    \* [Traces -> month or Nothing]: the rows, with the month they start in
  stored,    \* the rows of spans: <<trace, month>>
  writes,    \* [Ingests -> Write or Nothing]: the requests that are under way
  made,      \* history: the months that ever had a partition
  ensured, ensuredEvents,  \* history: the month of the last ensure that was committed
  updates

clock == <<month, keep, updates>>
data == <<traces, stored, writes>>
partitions == <<tables, events, made, ensured, ensuredEvents>>
vars == <<clock, data, partitions, workers>>

Months == 0..Last + Premake
Worker == [at : {"idle", "locked", "ensured"}, now : 0..Last]
Write == [trace : Traces, month : Months, new : BOOLEAN]
None == [at |-> "idle", now |-> 0]

TypeOK ==
  /\ month \in First..Last /\ tables \subseteq Months /\ events \subseteq Months
  /\ workers \in [Receivers -> Worker] /\ keep \in Keeps \cup {Nothing} /\ traces \in [Traces -> Months \cup {Nothing}]
  /\ stored \subseteq Traces \X Months /\ made \subseteq Months
  /\ writes \in [Ingests -> Write \cup {Nothing}]
  /\ ensured \in First..Last /\ ensuredEvents \in First..Last /\ updates \in 0..MaxUpdates

\* Migrations 010 and 012: the last month, this one and those ahead.
InitialSpans == First - 1..First + Premake
InitialEvents == First..First + Premake

Init ==
  /\ month = First /\ tables = InitialSpans /\ events = InitialEvents
  /\ ensured = First /\ ensuredEvents = First
  /\ workers = [r \in Receivers |-> None] /\ keep \in (Keeps \ {0}) \cup {Nothing}
  /\ traces = [t \in Traces |-> Nothing] /\ stored = {} /\ made = InitialSpans /\ writes = [i \in Ingests |-> Nothing]
  /\ updates = 0

NextMonth == month < Last /\ month' = month + 1 /\ UNCHANGED <<keep, updates, data, partitions, workers>>
-----------------------------------------------------------------------------
(* maintenance_loop of spans_worker.                                       *)

Set(r, w) == workers' = [workers EXCEPT ![r] = w]
Later(old, new) == IF new > old THEN new ELSE old

\* pg_advisory_xact_lock: it lasts until ensure_partitions commits.
TakesLock(r) ==
  /\ workers[r].at = "idle" /\ \A q \in Receivers : workers[q].at # "locked"
  /\ Set(r, [at |-> "locked", now |-> month])
  /\ UNCHANGED <<clock, data, partitions>>

Ensured(now) == now - 1..now + Premake

EnsurePartitions(r) ==
  /\ workers[r].at = "locked" /\ Set(r, [at |-> "ensured", now |-> month])
  /\ tables' = tables \cup Ensured(workers[r].now) /\ made' = made \cup Ensured(workers[r].now)
  /\ ensured' = Later(ensured, workers[r].now)
  /\ UNCHANGED <<clock, data, events, ensuredEvents>>

\* Defect: the last month to be kept goes too.
OldTooSoon(now) == {m \in tables : m <= now - Retention}
Old(now) == {m \in tables : m < now - Retention}

\* Spans, events and links of a month go together.
DropOldPartitions(r) ==
  /\ workers[r].at = "ensured" /\ Set(r, None)
  /\ LET old == Old(workers[r].now) IN
     /\ tables' = tables \ old
     /\ stored' = {s \in stored : s[2] \notin old}
  /\ UNCHANGED <<clock, traces, writes, events, made, ensured, ensuredEvents>>

\* A statement fails, as one does that deadlocks with another receiver's.
MaintenanceFails(r) ==
  /\ workers[r].at # "idle" /\ Set(r, None)
  /\ UNCHANGED <<clock, data, partitions>>

\* ensure_future_partitions, without a lock.
EnsureFuturePartitions ==
  /\ events' = events \cup month..month + Premake
  /\ ensuredEvents' = month
  /\ UNCHANGED <<clock, data, tables, made, ensured, workers>>
-----------------------------------------------------------------------------
(* Ingest: the trace's row first, and its span with the batch.             *)

UpsertTrace(i, t, m) ==
  /\ writes[i] = Nothing /\ writes' = [writes EXCEPT ![i] = [trace |-> t, month |-> m, new |-> traces[t] = Nothing]]
  /\ UNCHANGED <<clock, traces, stored, partitions, workers>>

\* The row that was there may have been swept, and another may have made it: the
\* row of a trace is its first span's.
UpsertSpans(i) ==
  LET w == writes[i] IN
  /\ w # Nothing /\ w.month \in tables /\ (w.new \/ traces[w.trace] # Nothing)
  /\ writes' = [writes EXCEPT ![i] = Nothing]
  /\ traces' = IF traces[w.trace] = Nothing THEN [traces EXCEPT ![w.trace] = w.month] ELSE traces
  /\ stored' = stored \cup {<<w.trace, w.month>>}
  /\ UNCHANGED <<clock, partitions, workers>>

IngestFails(i) ==
  /\ writes[i] # Nothing /\ writes' = [writes EXCEPT ![i] = Nothing]
  /\ UNCHANGED <<clock, traces, stored, partitions, workers>>
-----------------------------------------------------------------------------
(* Retention.                                                              *)

Keep(k) ==
  /\ updates < MaxUpdates /\ updates' = updates + 1 /\ keep' = k /\ k # keep
  /\ UNCHANGED <<month, data, partitions, workers>>

\* PATCH /v1/project/settings makes the row if there is none, and takes one day or more.
UpdateRetention(k) == k > 0 /\ Keep(k)

\* PATCH /v1/settings takes any number, for a row that is there.
UpdateSettings(k) == keep # Nothing /\ Keep(k)

Sweeps == keep # Nothing /\ keep > 0
Expired == {t \in Traces : traces[t] # Nothing /\ Sweeps /\ traces[t] < month - keep}

\* cleanup_once: some of the expired, with their spans.
CleanupOnce ==
  /\ \E swept \in SUBSET Expired :
       /\ swept # {} /\ Cardinality(swept) = (IF Cardinality(Expired) < Batch THEN Cardinality(Expired) ELSE Batch)
       /\ traces' = [t \in Traces |-> IF t \in swept THEN Nothing ELSE traces[t]]
       /\ stored' = {s \in stored : s[1] \notin swept}
  /\ UNCHANGED <<clock, writes, partitions, workers>>

Maintains(r) == TakesLock(r) \/ EnsurePartitions(r) \/ DropOldPartitions(r) \/ MaintenanceFails(r)

Next ==
  \/ NextMonth \/ EnsureFuturePartitions \/ CleanupOnce
  \/ \E r \in Receivers : Maintains(r)
  \/ \E i \in Ingests : UpsertSpans(i) \/ IngestFails(i) \/ \E t \in Traces, m \in {month - 1, month} : UpsertTrace(i, t, m)
  \/ \E k \in Keeps : UpdateRetention(k) \/ UpdateSettings(k)

Spec == Init /\ [][Next]_vars
-----------------------------------------------------------------------------
\* As long as an ensure was committed in the Premake months before, a span of this month
\* or the last one finds its partition, if that is a month to be kept, and an audit event
\* of this month its own: "survives a worker outage", one of Premake months at most,
\* whichever receivers made and dropped partitions in between, by clocks they read before.
\* With a retention of 0 the last month's partition is dropped each time it was made, with
\* a negative one this month's too, and their spans find none.
SpansLand ==
  /\ month <= ensured + Premake => \A m \in {month - 1, month} : m >= month - Retention => m \in tables
  /\ month <= ensuredEvents + Premake => month \in events

\* No drop takes a month that is still to be kept, though the lock is given up before
\* the drop; and what a sweep takes it takes whole: no span is left, or comes later,
\* without its trace.
RecentIsKept ==
  /\ \A m \in made : m >= month - Retention => m \in tables
  /\ \A s \in stored : traces[s[1]] # Nothing /\ s[2] \in tables

SpansAreStored == SpansLand /\ RecentIsKept
=============================================================================
