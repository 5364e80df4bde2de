# Strathon in TLA+

Strathon puts policies, human approvals, halts and an audit log between AI
agents and the tools they call. This directory models the parts of it in which
several processes, requests, threads or callbacks share state: what they may do
to one another is checked with TLC on small instances and, where the tools allow,
proved with TLAPS for every size.

All definitions are translated from the Python source. `PROJECT.json` maps each
of them to the lines it models, lists the runs, the mutants that show that each
property can fail, the hazards of the code and the disagreements found between
the code and what is said about it.

    tlc -workers 2 -config MCApprovals.cfg MCApprovals     model-check
    tlapm ApprovalsProofs.tla                              check proofs

## 1. The system

**The receiver** (`receiver/`) is a FastAPI application on PostgreSQL, run by one
or several worker processes. It ingests spans, serves the API and the dashboard,
and runs periodic loops in every process (approval reaper, budget monitor,
webhook sweeper, audit sealer, key reaper, retention, partitions, detectors).
**Webhook workers** are Dramatiq processes fed through Redis. **The SDK**
(`sdk/`) lives in the agent's process, intercepts tool calls, records spans and
talks HTTP to the receiver. **Operators** act through the API (with API keys),
the dashboard (with sessions) and Slack buttons.

| component | state | operations | interacts with | hard behaviour | what makes it correct | module |
|---|---|---|---|---|---|---|
| Human approvals | rows of `approvals`; the SDK's wait | create (SDK post, ingest), approve, deny (API, Slack), expire, poll | SDK over HTTP, Slack, reaper | decisions racing expiry and one another, a stale read in the Slack handler, lost or late HTTP | a tool runs only on a backed approval; a deny stands; every wait and request ends | HeldCall, Approvals |
| Webhook delivery | rows of `webhook_deliveries`, Dramatiq messages | dispatch, attempt, retry, sweep, replay | ingest's transaction, Redis, the consumer | status read before the POST and written after it; duplicated, lost and redelivered messages | attempts agree with status; a success is real; nothing stays pending | WebhookDelivery |
| Receiver process | tables and their version, loop tasks, events, app state | boot, migrate or find migrated, serve, probe, shut down | every loop, PostgreSQL, a deploy step | two boots at once, a schema that is older than the code, a tick that never ends, a crash between two steps | loops run while the process serves and not after it; readiness follows the schema; a shutdown ends | Receiver |
| Signing keys | key rows; a dictionary per process | create, revoke, restore, sign | requests, webhook workers | the dictionary changes after the commit, in one process | memory holds only what was committed | Receiver |
| Audit chain, anchors | `audit.events`, `audit.anchors`, a sequence, advisory locks | emit inside another request's transaction, seal | every mutating request | chain order against commit order, rollback after a sequence number was drawn | one line per project, growing at its end; every event anchored once | AuditChain |
| Halts (receiver) | rows of `halt_state` | raise, clear, list, sync | budget monitor, SDK | two writers of one table | raised once, cleared once | HaltTable |
| Budgets, monitor | rows of `budgets`, an advisory lock per tick | create, patch, delete; tick: list, measure, look up, write | spans, halts | stale list, lock lost under a tick, windows that roll over | at most one halt per budget; breaches halted, recoveries cleared; operators' halts untouched | BudgetMonitor |
| SDK halt enforcer | cached halts, time of last refresh | refresh, match, close | receiver, dispatcher | late or failing refreshes, fail-closed staleness | a halt stops calls, and a clear frees them, within a known delay | HaltSync |
| SDK dispatch, policies, throttles | cached policies, token buckets | refresh, halt check, match, take a token, steer, ask | receiver, adapters | a refresh under a check, a bucket reshaped between two holds of its lock or pruned while threads take from it, a call checked by two hooks | the first match decides; one fresh version decides; a denial is due | Enforcement |
| Policies and ingest (receiver) | policy rows, a TTL cache per process, matches, spans, traces | CRUD, import, batch, load, invalidate, evaluate, store | SDK, approvals, webhooks | a load racing an invalidation, counters under concurrent batches, deadlocks, retries after a lost reply | counts agree with rows; nothing stale outlives its TTL | Ingest |
| Framework instrumentation | tables of running operations per adapter | callbacks: start and end of runs, tools, models | agent frameworks, OpenTelemetry | interleaved runs, cancellation without a callback, reused addresses, a pool of threads | spans end with their operations and stay in their run's trace | SpanTables |
| SDK client | the global tracer provider, threads, patches | construct, instrument, shut down | adapters | two clients, a patch re-pointed under a call | the global provider is alive; a call is checked once | Client |
| Projects' members | members, invitations, transfers, accounts | register, invite, change, remove, transfer | API, dashboard | check-then-write on roles and transfers | ownership moves and does not multiply | Members |
| API keys | keys with expiry and successor | authenticate, create, rotate, update, revoke, reap | every request | two rotations, a reaper that waits for a row | one successor; the reaper takes what is expired | ApiKeys |
| Accounts | users, sessions, reset tokens, second factor | log in, lock, reset, change, use a code | rate limiter | logins that overlap a password change, caps | sessions capped and ended; lockout follows failures | Accounts |
| Circuit breaker | state per agent and tool | allow, record, reset | ingest | half open under several agents | closes only when proven | Breaker |
| Drift detector | averages and sums per agent | observe, alert | alerts | rounding, calibration, restart | what can raise an alert | Drift |
| Heartbeats, alerts, channels | last heartbeats, who was told, channel rows | beat, scan, dispatch, create, update, delete | Slack and others | a scan that waits for channels while heartbeats come | told once; each channel tried | Alerts |
| Partitions, retention | monthly partitions, settings | create ahead, drop old, sweep | ingest, database | the lock ends at the first commit | rows find a partition while the loop is at most some months late; no live one is dropped | Partitions |
| Lists | cursors | list spans, traces, events, deliveries | every table | rows inserted, changed, deleted between pages | a walk skips and repeats nothing | Listings |
| Redaction | settings of a project | redact a batch | ingest | settings changed under a batch, the order of patterns | what the settings promise | Redaction |
| Rate limiter | token buckets | take, prune | every request | several limits in a row, pruning | no more than the rate, and a retry that is told to come passes | RateLimits |

`PROJECT.json` names the other components (MCP gateway and egress proxy, pricing
and reports, scanners, dashboard, CLI, migrations) with the reason they are not
modelled, and what is missing of those that are partly.

## 2. The models

    HeldCall <== Approvals           HaltTable <== BudgetMonitor
                                     HaltTable --- HaltSync (reads it)
    WebhookDelivery   AuditChain   Ingest   Enforcement   Members   ApiKeys
    SpanTables   Receiver
    Parts: Drift, Client, Breaker, Alerts, Accounts, Partitions, Listings,
           Redaction, RateLimits

`<==` is refinement: the abstract module states what the component promises, and
the detailed one is checked and proved to implement it. HaltTable is the
interface at which the two halt models meet: BudgetMonitor implements it with
every writer of the table, HaltSync has it in place of the receiver. Approvals,
HaltSync and Enforcement meet in the SDK's dispatcher: Enforcement takes how a
halt arrives and what a person answers as given, the other two model it. Parts
has an instance of each of nine smaller modules; a behaviour chooses one of them
and leaves the variables of the others alone, so that one run answers for all.

**HeldCall / Approvals.** HeldCall is the promise: a call is held, its question
decided at most once, and the tool runs only on an approval. Approvals has the
rows (`rows`), the call in the agent's process (`sdk`, `deadline`), its HTTP
exchange (`wire`) and Slack handlers under way (`slack`).

| actions | code |
|---|---|
| HoldCall, PostReturns, PostFails | `request_approval`, called from `dispatch_policy_decision` |
| PollSend, PollAgain, PollReturns, PollFails, LocalTimeout | the loop of `poll_approval` |
| ServePost, ServeGet, DropPost | the API handlers, at any later time or never |
| ApiResolve; SlackRead, SlackResolve, SlackFails | `resolve_approval` under `FOR UPDATE`, alone or after the Slack handler's own read of the row |
| ReaperTick | `expire_stale_approvals`: one UPDATE of every overdue row |
| IngestSpan | the approval row a matching span creates |
| Crash | the agent's process dies |

The Slack handler loads the row before `resolve_approval` locks it in the same
ORM session. `SELECT ... FOR UPDATE` then waits, but the session keeps the
attributes it already has, so the status test of the query is current and the
lists and the counter are those of the first read; `Resolvable` and `Resolved`
have both. The model is of a client that exposes `_endpoint` and `_api_key`,
which the two SDK functions read; the shipped `Client` does not (see findings).

**WebhookDelivery.** `rows` are the deliveries and `msgs` the Dramatiq messages,
each queued, sending (the status was read, the POST is out) or answered. Take,
Answer and Record are the three parts of `_send_one`; RecordUnacked is a worker
that dies between its commit and its acknowledgement; Raise, WorkerDies and Lose
are the middleware's retry, the redelivery and Redis losing its data. Enqueue is
the ingest path's row and message, whose send may fail; SweepSelect and SweepSend
the sweeper's SELECT and its enqueues, with anything in between; ReplayCheck and
ReplayCommit the two parts of an operator's replay.

**AuditChain.** A writer is a request's transaction, which emits several events:
Emit reads the clock, Acquire gets the project's advisory lock (held to the end
of the transaction, free at once for its holder), ReadPrev reads the last event
visible to it, AppendRow draws a sequence number and inserts, Commit publishes,
Rollback forgets the rows and not the sequence number. SealStart, SealSelect,
SealStamp, SealCommit and SealFails are `seal_anchor`. A row is named by its
sequence number, so a previous hash is the number of the row it hashes: two rows
have one hash only if they are one row, as with SHA-256.

**HaltTable / BudgetMonitor.** `halts` is `halt_state` in order of id, `mon` each
process's tick: StartTick (lock, list of active budgets, `now`), Measure (the
aggregation over the advanced window), LookUp (this budget's active halt), Write
(window, last value, and the halt raised or cleared), EndTick (unlock). Requests
are actions of their own that run between any two of these. EvaluationFails is
the `except` around one budget, Crash a process that dies and comes back,
LoseLock a dropped connection, after which the tick goes on without its lock.

**HaltSync.** Per client: the refresh under way (`sync`), the cache and its
stamp, and per call the path halt check, policy decision, approval, tool.
Ask, Serve and Deliver split a refresh into its request, the receiver's read and
the arrival that stamps it; RefreshFails leaves cache and stamp alone; Stop
closes the client. A call waits in `held` for as long as its approval takes.

**Ingest.** `policy`, `matches`, `spans`, `trace`, `owed` are committed rows; `cache`
is each process's list with its expiry; `req` an ingest request and its
transaction, `op` an operator's. Start authenticates and looks the cache up, and
the steps of a request (`RequestStep`) follow ingest in its order: load, store
the cache, evaluate in order of priority, insert the spans, roll the trace up,
record each match (insert, and bump the policy's counter, whose row it then
holds), enqueue the alerts, reply, commit. Create, Patch, Delete, Import and
Batch are the operators' requests, Touch their wait for rows, Changed and
ChangeFails the end of one. Fail is a statement that fails, of a deadlock too, and
Crash a process that dies with its cache. A transaction in which a statement failed is
rolled back by its COMMIT though the reply said 200.

**Enforcement.** `cache` is the client's list with the time it was received, `refresh`
the request under way, `bucket` and `store` the throttles, `call` a thread's check. A
call takes its path through one or two hooks (`PathsOf`): CheckHalt, CheckFresh,
Copy (of list and default), Walk (first match by priority, shadow and disabled
policies skipped), and for a throttle the steps of `consume`, between which other
threads come: Look (reads the clock, looks for the bucket without a lock), then Make
(under the creation lock; a bucket that another thread has made by now is left as it
is) or Shape (the capacity and rate of the caller's version, under one hold of the
bucket's lock), Take (`_consume_one`, under the next hold, with the shape the bucket has
by then), Prune (is one due?) and Drop; Await is a person's answer.
What a decision does differs per hook, since LangGraph's callback and OpenAI Agents'
hook cannot keep a steered tool from running. The run takes the hooks whose decisions
differ: `dispatch` and `dispatch_async` decide as CrewAI's hook, Claude's as Google ADK's.

**Members.** `account`, `role`, `invited`, `transfer`, `founders` are committed rows;
`req` a request from Authorize (the caller's role) and Read (what its refusals are
about) to its last statement and commit. AcceptLocks, AcceptReadsOwner and
SwapRoles are the accept of a transfer, Register, RegisterInserts, RegisterCommits
a registration with its bootstrap of the first owner.

**ApiKeys.** `key` are the rows; a request holds its own key's row from
authentication on, and rows it selects `FOR UPDATE`. The reaper's UPDATE and the
project's deletion scan keys one by one (`ScanLocks`), wait for those that are held
and look again whether they fit.

**SpanTables.** `run` is what the framework does (each step called within its
parent, and no call its own ancestor), `span`, `root` what OpenTelemetry has of it, `table` the adapter's
dictionary under whatever key that adapter uses (run id, `id()` of an object,
session, a stack, the parent's key). There is one action per callback; the
adapter of a behaviour is one of nine. CrewAI's events go through a pool of
threads in any order. `cut` are the operations whose span an adapter closed early.

**Receiver.** `pc` is the place of each process in `lifespan`, `loop` its tasks, each
asleep, in a tick or done; `mode` the configuration (STRATHON_AUTO_MIGRATE, cloud or
not), `schema` the revision the tables have and the one `alembic_version` has, which
differ where a database of before alembic is stamped, and `lock` the migrations';
`row`, `store`, `known` the signing keys in table and dictionaries. A process that
migrates inspects the database, then stamps it, in a transaction that reads the version
and writes it without the lock, or upgrades it under the lock. One that does not goes
on with what it finds, and MigratedOutside is the deploy step. The default project
needs the tables of revision 26 and not the version, and is skipped in the cloud; the
restore of the keystore needs the table of revision 5 if there are secrets to look up.
Then come loops and serving; Stops sets the events, cancels or awaits the tasks in
their order, disposes the engine. A request changes the dictionary in AfterCommit, the
listener of the session's commit.

**The parts.** *Drift* is `AgentBaseline.update` in integers, with calibration and
both sums. *Client* has the construction, instrument, shutdown and threads of two
clients, and calls through a patch that is taken over or removed on their way.
*Breaker* has the state machine of every agent and tool with its error window.
*Alerts* has the heartbeat monitor's and the drift loop's ticks with a wait for
each channel, between which heartbeats come and channel rows change. *Accounts* has
login with lockout and cap, second factor with codes, change and reset of a
password, each as reads, the update that takes the row, and the commit.
*Partitions* has the maintenance loop of two receivers (lock, make, commit, drop),
ingest, the sweep of old traces and the settings. *Listings* has a client's walk
over each of four lists by key or by offset. *Redaction* has a batch's load of the
settings, the order of allowlist, key actions, credentials, entities and custom
patterns per attribute, and the commit. *RateLimits* has a request that passes
its limits in their order, buckets that refill, are dropped and are made anew.

### What the models leave out

- Names, messages, payloads, filters' syntax, layout and logging.
- Time is a counter that only goes forward and is read alike by all processes; a
  wall clock that is set back is a hazard without a property. `StartTick` reads
  the lock, the list and `now` in one step: nothing is evaluated before the list,
  and later requests reach the tick only through it.
- A crash of a monitor whose statement is still executing in the database is the
  same as LoseLock followed by the rest of that tick.
- A refresh takes at most `Timeout`: `request_timeout_sec` is taken as a bound on
  the whole request.
- Limits on batches: 100 rows a sweep, 500 budgets a tick, 500 halts a sync. Two
  of them are hazards of their own, noted as not covered.
- Spend is a count of spans with their times. A budget scoped to an agent raises a
  halt with `agent_id='*'`, as the code does, so scope is not part of that model.
- Ingest has one trace and leaves out policy versions, the audit events it emits, the
  rows of approvals (Approvals has them), heartbeat spans, code hashes and prices.
- Enforcement and Ingest take a CEL expression as the set of calls or spans it is true
  of, with what it may raise.
- SpanTables: two Claude clients do not share a session, and an error in
  mid-stream is a cancellation.
- ApiKeys: scopes, allowed addresses and the later deletion of expired rows.
- Redaction: a value is text or not and matched by some patterns; regular
  expressions themselves are not modelled. RateLimits: what identifies a client is
  given, and a request's steps through one bucket are not interrupted, since the
  bucket's lock is free whenever the event loop gets to it.
- Accounts has one user, Members and ApiKeys one project, Redaction one attribute.

## 3. The runs

State counts are TLC's distinct states. Deadlock is checked in `members`, whose
requests never run out, and in `receiver`, whose processes start again; in the other
models the bounded clock and the finite set of requests let the system come to rest.
The type invariants of the modules with proofs (section 5) are proved, of the parts as
far as a property needs them; they hold in the same instances when the line is added to
a cfg, and are left out of the runs, whose properties break with the types.

| run | question | bounds | result |
|---|---|---|---|
| `approvals` | Whatever arrives late, twice or never: is a running tool backed (GrantBacked), does a deny stand (VetoStops), is a call decided once (ImplementsHeldCall), does every wait and every request end (WaitsEnd)? | one held call, one ingested span, one actor on the API and one on Slack, 1 or 2 approvers required (0 is raised to 1), deadline after 1 unit of 2 | holds, 121,680 states |
| `webhooks` | Do attempts and status agree (AttemptsAgree), is a success real (SuccessIsReal), is a pending row always reclaimed (PendingIsReclaimed)? | one row, two messages at once, 3 attempts, 2 broker retries, 2 faults, a replay | holds, 73,146 states |
| `audit_chain` | Is the chain one line (ChainLinear) that grows at its end (AppendsAtEnd), is no event anchored twice (AnchoredOnce), do waiting transactions end (TransactionsEnd)? | 3 writers of 2 projects, emits up to tick 3, seals up to tick 4, one sealer | holds, 13,617 states |
| `budgets` | One halt per budget (OneHaltPerBudget), operators' halts untouched (OperatorHaltsKept), the table's promise kept (ImplementsHaltTable), breaches halted and recoveries cleared (HaltsFollowSpend)? | one budget, two processes, limits 1 and 2, windows of one unit, clock to 2, one span, one request, one fault | holds, 216,765 states |
| `halt_sync` | Does a halt reach calls, and a clear free them, within staleness plus one timeout (HaltReachesCalls, ClearReachesCalls), do caches converge (CachesConverge)? | one client, halts of the project and of another agent, threshold 1, timeout 1, clock to 4, one failed refresh | holds, 693,673 states |
| `ingest` | Does each counter agree with its rows (MatchCountIsRows), and is no batch judged by a list older than a TTL (StaleAtMostTTL), whatever is sent twice, deadlocks or is invalidated meanwhile? | 2 policies, 4 spans in 2 batches that match in opposite orders, 2 processes, 2 requests, TTL 1, clock to 1, one change, one fault | holds, 1,140,504 states |
| `enforcement` | Does a tool run as the first match says at each hook (RunsAsDecided), by one fresh version (OneFreshVersion), and is a throttled call over its limit (DenialsAreDue)? | 2 calls: one through LangGraph's, Google ADK's, Pydantic AI's or AutoGen's hook or the pair of OpenAI Agents', one through CrewAI's; 3 versions, of which two list the throttle, with limit 1 in 2 units and limit 2 in 1, clock to 2, one change, one fault, fail closed | holds, 3,183,490 states |
| `members` | Are there no more owners than first registrations (OwnersAreFounded), and does one become owner only by those or by a transfer that is still his (OwnershipIsAccepted)? | 3 people and an API key, 2 requests at a time, 2 transfers | holds, 2,623,444 states |
| `api_keys` | Has a key one successor exactly if deprecated (OneSuccessor), and does the reaper spare what was put off (ReapsExpiredOnly)? | 3 keys, two requests (with the first key or a session) and the reaper, grace 1, clock to 1, one update | holds, 2,074,733 states |
| `span_tables` | Do spans end with their operations and stay in their run's trace, for each adapter, but for what the definition names (SpansFollowRuns)? | 2 runs with 5 steps between them (a tool with a request in it, model requests), 3 addresses, 3 of CrewAI's events waiting | holds, 1,508,205 states |
| `receiver` | Do the loops run just while a process serves, on the code's schema where it migrates and on a sufficient one where it does not (LoopsFollowService), do dictionaries hold what was committed (KeysInStep), does a shutdown end (ShutdownEnds)? | 2 processes, one loop with an event and one without, one key, 2 requests, one crash, 3 revisions (the first without organizations), ten deployments: empty, old and unversioned databases, with and without own migrations, in the cloud and not | holds, 741,696 states |
| `parts` | Nine parts, below | below | holds, 1,048,037 states |

The parts, with about as many states as named:

| part | property | bounds | states |
|---|---|---|---|
| Drift | RatesStaySilent: a share of the spans never raises an alert | one agent, one rate and one amount, scale 8 | 40,000 |
| Client | ClientsShareWell: the global provider lives, a call is checked once and served, threads are told to end | 2 clients, 9 adapters, 2 instruments, 1 uninstall, 1 call | 147,000 |
| Breaker | Hysteresis: a tripped breaker closes by an operator or by a run of successes after the cooldown | clock to 2, thresholds 2, cooldown 1 | 40,000 |
| Alerts | AlertsAreGiven: a silence is told once, a failing channel keeps no other from an alert | 2 agents, 2 channels, clock to 2, 1 change, 1 drift | 112,000 |
| Accounts | AccountsHold: logins are capped, end with the password, lockout follows failures | 2 requests, 1 code, 1 token, cap 1, lock after 1, 2 made sessions, 1 change | 332,000 |
| Partitions | SpansAreStored: rows of the months to be kept find a partition while the last ensure is at most as old as it made ahead, what is to be kept is kept | 2 receivers, 1 ingest, 1 trace, months 1 to 3, one made ahead, one kept | 84,000 |
| Listings | WalksAreWhole: a walk by key skips and repeats nothing, one by offset only while nothing changes | 4 lists, 3 rows, 2 times, 2 values, pages to 2, one change | 102,000 |
| Redaction | RawStaysOut: rows and alerts have what the settings promised when the batch began | 2 spans, 7 kinds of text, 10 settings, one change | 130,000 |
| RateLimits | LimitsKept: no interval lets more pass than a bucket and its refill; a retry at the time told passes | 2 clients, capacity 2 for the API and 1 else, clock to 4, 4 requests | 65,000 |

**Why the bounds are enough.** Rows do not interact, except in the statements
that update many at once (the reaper, the list of a tick, a batch's counters), so
one or two rows show every race over a row, and the second one shows that such a
statement treats rows alike. What races is actors over a row: the bounds have two
of each kind that can overlap (two channels of decision and the reaper; two
messages, the sweeper and a replay; two writers of one project and one of
another; two monitors; two batches that take counters in opposite orders and an
operator; two runs of a framework; two requests on an account; two receivers). Counters go
past the values at which the code compares them (the second of two approvals,
the last of three attempts, the failure that locks, the second success of a
half-open breaker), clocks past the deadline, the window, the grace period and threshold
plus timeout. Each passing run takes every action of its module and every
disjunct of the next-state relation. The proofs of section 5 hold for all
sizes, so the small instances matter most for liveness and for what is only
checked. No behaviour of the `budgets` run makes more than four halts, and
`HaltIds` has five.

**Fairness**, and why the code justifies it:

- Approvals: time passes; the reaper loop catches every error and ticks again;
  `urlopen` has a timeout, so a post or a poll returns or raises; the poll loop is
  sequential code. Operators, the network and the serving of requests owe
  nothing: every wait ends though the receiver never answers.
- WebhookDelivery: the sweeper loop selects and sends; a running worker takes what
  is queued, its POST ends (it has a timeout) and it records. Faults are counted
  by `faults`: a message may be lost, but not for ever.
- AuditChain: strong fairness of Acquire, since PostgreSQL grants a lock to its
  waiters in their order (a waiter is not overtaken for ever, although the lock
  is free only now and then); weak fairness of the statements that follow. No
  rollback is owed, and none by the sealer.
- BudgetMonitor: weak fairness of each process's own next statement. A monitor
  that finds the lock taken does nothing, and the one that has it goes on.
- HaltSync: weak fairness of one client's refresh. It is interrupted by at most
  `MaxFaults` failures, and a closed client owes nothing.
- Receiver: weak fairness of the shutdown's own next step. No tick owes its end:
  ShutdownEnds holds because an awaited loop is given ten seconds and then cancelled.
- The other modules state safety only and have no fairness.

**Mutants.** For every property of a run `PROJECT.json` names a change of the
code that breaks it: a duplicate-vote check dropped, an expiry compared the wrong
way round, a lock released after an insert instead of at the commit, a look-up
that forgets whose halt it is, a failed refresh that is stamped, a rotation
without its lock, a token that is taken twice. They are defined beside the
operators they change.

## 4. Where the code and what is said of it disagree

`PROJECT.json` lists every disagreement that was met, with the quotation. For
twelve of them the modules define the sentence that is said, marked `Violated`.
Each has a counterexample, which TLC gives when the definition takes the place of the
properties in the run's cfg, with the change named:

| definition | cfg | change | what happens |
|---|---|---|---|
| DistinctOperators | MCApprovals | `SlackActors = {alice_slack}`, `Spans = {}` | one person with a key and a Slack account gives both approvals |
| DecisionsRecorded | MCApprovals | | a Slack decision is added to the lists as they were before the lock, and overwrites another one; the status is tested under the lock, so GrantBacked and VetoStops hold |
| SucceededIsFinal (PROPERTY) | MCWebhookDelivery | | an outcome is written with no condition on the status, so a second message takes a row out of `succeeded` |
| RetryIsScheduled | MCWebhookDelivery | | with fewer retries in the broker than the row's `max_attempts`, the last retry leaves a row that nothing picks up |
| AnchorsCoverInterval | MCAuditChain | | an event is stamped before it waits for the lock, and an anchor is dated after its SELECT: what commits between is in no anchor |
| HaltClearsByItself (PROPERTY) | MCBudgetMonitor | | a budget deactivated while halted stays halted |
| HeldCallsHonourHalts (PROPERTY) | MCHaltSync | | a held call runs although its client's cache has had a halt since |
| AcceptedIsStored | MCIngest | | a failed statement in `record_match` is swallowed, and the COMMIT rolls a batch back that was answered with 200 |
| WithinRate | MCEnforcement | `Calls = {c1, c2, c3}`, each through CrewAI's hook, one version with the throttle (limit 1, window 1), `FailClosed = FALSE`, `MaxChanges = 0`, `MaxFaults = 0` | a thread that read the clock earlier sets a bucket's refill time back, and the same second refills it twice |
| OwnerRemains (PROPERTY) | MCMembers | | a removal that read a member writes after he became the owner |
| DeletedKeepsNoKey | MCApiKeys | | a key inserted by a request that began before the project's deletion outlives it |
| AsksAreRedacted | MCParts, where Parts has `AsksAreRedacted == part = "redaction" => Redaction!AsksAreRedacted` | | an approval's row is given the raw attributes |

Others that the models have, without a definition of their own:

- Approvals: an approval after `expires_at` and before the reaper's tick is
  accepted; the SDK's functions read attributes that its `Client` does not have;
  the Slack handler reports success without looking at the result.
- Webhooks, keys: two replays of one row can both send; the keystore is of one process,
  and a webhook worker has none; a second revocation moves `revoked_at`.
- Ingest: after a failed batched insert the single ones fail too; of two overlapping
  batches of a trace the later commit's count is without the other's spans; a load
  that overlaps an invalidation keeps the old list for a TTL.
- SDK: LangGraph records `steered` for a tool that ran; guardrails and run hooks
  both take a token for one call; a call may be throttled by the limit of a version it was
  not checked by; second clients are not taken over by some adapters and
  doubled by another; spans of overlapping model requests end each other in
  Pydantic AI; a LangGraph tool that is steered loses its children.
- Members, accounts: two first registrations make two owners; an invitation that
  arrives during a registration is lost; a reset token or a backup code can be used
  twice by requests that overlap; an old hash can be written back by a login.
- Receiver: `/ready` fails when the configuration turns a loop off; two replicas may
  both stamp an unversioned database, and a stamped one is never migrated; with
  STRATHON_AUTO_MIGRATE off the loops run and requests are served on an old schema.
- Detectors: with the default settings no rate can raise a drift alert, which is
  RatesStaySilent, proved; an agent of two projects is one agent to Vigil; a silence
  that no channel took is not told again.
- Partitions, lists, redaction, limits: partitions are dropped whatever a project's
  retention says, and a retention of 0 months drops last month's as soon as it is made;
  a sorted list repeats and skips rows; a key action leaves values that are no text; a
  bucket that starts full and refills lets nearly twice the configured attempts pass in
  a window.

## 5. What is proved

The theorems hold for every number of calls, operators, rows, messages,
writers, processes, halts and clients, and for every bound, since the bounds are
constants of which only what the `ASSUME`s of each module say is used: finite
and disjoint sets of actors, positive timeouts and windows, natural limits. The
passing runs evaluate these assumptions. None of the safety theorems uses
fairness.

**ApprovalsProofs.** *TypeCorrect* comes first, since it alone is inductive. That a
running tool is backed is not: nothing in it says what an HTTP reply in flight or
the copy in a Slack handler's hands is worth. `Inductive` adds that a call's
phase agrees with its row and its reply (PhasesAgree: a reply that carries a
decision carries the row's, since decisions are final), that the counter of a
pending row, or of a copy of one, is the number of approvals it lists, each of
them told to its actor (CountsSound), and that an accepted deny has decided its
row (DeniesDecide). Lemma RowsAdvance carries the phases over the operators' and the
reaper's steps: of a row that is there they change the status only while it is
pending. From them *GrantBackedHolds*, *VetoStopsHolds* and the
refinement *ApprovalsImplementHeldCall*: each action is Hold, Ask, Answer (a
set of calls for the reaper), Run, Stop or a stutter of HeldCall. CountsSound is
where the duplicate-vote check is used: `Cardinality` of the list grows by one only
if the actor is not on it.

**ReceiverProofs**, of WebhookDelivery and Receiver. AttemptsAgree needs that an
attempt in flight started below the limit (AttemptsBelow: a row is taken only while
pending or failed_retrying); SuccessIsReal that an unrecorded success has been answered
by the consumer (OutcomesReal). *AttemptsAgreeHolds*, *SuccessIsRealHolds*.

Of a process the invariant `InStep` says at each place of its lifespan which
migration it is in and on what it goes on (Migrating: who waits for the lock found a
version or no tables, so that nobody stamps what the holder of the lock saw; who stamps
read no version, or the last one; past the boot, the version is the last one if the
process migrates, and the tables of a default project are there outside of the cloud,
since no step takes a table or the last version away), which loops run by then and which of the
awaited ones have ended (Looping), and that it still has the secret of every active
key that it was given, and only of keys it was given (Keeping); of a request, that a key which is being
created is its alone until it commits and that a revocation which is to take a
secret away has revoked the row (Requesting). *LoopsFollowServiceHolds*,
*KeysInStepHolds*.

**RecordProofs**, of AuditChain and Ingest. A committed chain is linear because a
transaction's rows continue it whenever it should commit (Prepared), because they are newer than
anything their project has (RowsNewer), and because only one transaction of a
project is past the lock (LockHeld). *ChainLinearHolds*, and from RowsNewer
*AppendsAtEndHolds*.

AnchoredOnce is about one sealer (`OneSealer`), since the code accepts duplicates
between processes, and rests on dates: a sequence number is that of one row, whatever
rolled back (RowsDated), what an anchor covers had occurred by its time, and what
the sealer has selected occurred after every anchor (AnchorsDated).
*AnchoredOnceHolds*.

That a policy's counter is the number of its rows is inductive only with what open
transactions are about to add. Each has its own count of the policies it took, equal to
the committed count and its rows (Tallied); that this stays so when others commit is
because an update holds the counter's row to the end of the transaction: no two
transactions count one policy, nor does one that an operator's request holds (Apart,
Unheld). *MatchCountIsRowsHolds*. *StaleAtMostTTLHolds* needs that a cached list expires a
TTL after it was read, and of a request that its list was read after it came or is
younger than a TTL (Recent), also while it is still to be put into the cache.

**BudgetMonitorProofs.** OneHaltPerBudget needs that what the look-up did not find
has not appeared since (NoneAppeared), which needs that only the holder of the lock
is in a tick (HolderTicks) - until a lock is lost, so `Inductive` is TypeOK,
FoundIsOwn and (lost or those). *OneHaltPerBudgetHolds*; *OperatorHaltsKeptHolds*
from FoundIsOwn, which survives a lost lock; *ImplementsHaltTableHolds*.

**SdkProofs**, of HaltSync and SpanTables. A set of halts read at time t tells the
status of every halt but those that changed since (Agrees). Requests under way are no older than the
timeout (RequestsCurrent) and a cache was read at most a timeout before its stamp
(CachesWereTrue); with the staleness check that makes the delay of both
*HaltReachesCallsHolds* and *ClearReachesCallsHolds* at most threshold + timeout.

A callback that ends a span must find it where its adapter looks. `Following` says so for
each kind of table: by an operation's own id (Tabled), by a session (TurnsTabled), by an
address that a later object may have (ModelsSound, RequestsFound: Python gives an
address again only when the object is gone, so the entry under it is of the request
that runs) and from the pool of CrewAI's events (Pooled). That a span is
open while its operation runs, but for those few that an adapter cuts off (Covering,
Cutting), and is closed after it, follows callback by callback. A step finds its run's
span because a run goes on as long as one of its steps does (Nested, RunGoesOn), for which
the calls must not go round: an assumption on `Parent`. *SpansFollowRunsHolds*.

**AccessProofs**, of Members and ApiKeys. That one becomes the owner only by the accept
of one's own pending transfer needs that a transfer an accept has locked stays as it was read
(Accepting), because nobody else takes a locked row and one accept has it at a time
(OneAccept). For the number of owners the invariant counts them together with those
whom an accept is about to make an admin (Counted), since by the time it writes the
owner that it read may be none. *OwnersAreFoundedHolds*,
*OwnershipIsAcceptedHolds*.

A rotation that found its key neither revoked nor deprecated
under `FOR UPDATE` holds the row until its commit, so nobody deprecates it meanwhile, and
a key's id is drawn once: *OneSuccessorHolds*. What the reaper writes are rows that
were expired when it got hold of them and that it holds since: *ReaperSpares*.

**EnforcementProofs.** Of a call the invariant says what it has behind it (Progress: the
hooks it passed let it pass), what of the list it still has to go through (Walked: what
applies to it but the throttles that had a token for it, of a version that the
receiver had and that was fresh when the call looked) and that each entry of its log is
what the first match asks of that hook (Logged). *RunsAsDecidedHolds*, *OneFreshVersionHolds*.

A denial is due if the calls admitted within the longest window are as many as the least
limit of the versions that list the policy, and nothing in the bucket says who took what
is missing, or whose limit it has: between the two holds of its lock a thread of another
version may give it another shape. *Shaped* says that it is always the shape of a version
that lists the policy, so that it holds at least the least limit and refills at least at
the least rate. *Credit* says the rest: from whatever time one looks back, the tokens in
a bucket and those taken since then are the least full bucket, or else all that the least
rate refilled since. It survives a thread that sets the refill time back, because that
refills too much and never too little, a change of shape, which touches no token before
the next refill, and a pruned bucket, because its successor starts full. It needs that
the store and the calls refer to buckets of their own key (References), and that one call
takes one token of a policy at a hook (TakenOnce), so that tokens can be counted as
members of `admitted`
(*TokensAccounted*). *DenialsAreDueHolds*, for every limit, window and number of calls and
versions. The proof takes a rate that refills a limit in its window (RefillAssumption,
which defines the unit of the tokens).

**PartsProofs.** One part runs in a behaviour, so the invariant of each is proved of its
own actions. In Drift the two sums of a rate are bounded by the average (Covered): what
adds to the upper one the average takes in a fixed part of, and it has only so far
to rise, and the lower one mirrors that. So a sum stays below the default threshold,
whatever the rates are: *RatesStaySilentHolds*, for every scale and number of agents.
The others, in the order of the module:

- Breaker: a half-open breaker counts no more successes than there were in a row since
  its cooldown (BreakerSound). *HysteresisHolds*.
- Partitions: a receiver in its maintenance has a clock reading that is not ahead of the month
  (Maintaining), and the last ensure that was committed made what lies around its
  month, so that a later one continues it. *SpansAreStoredHolds*, for any integer as the
  retention; of a month to be kept, and while the last ensure is at most `Premake` months old.
- RateLimits: for every time one looks back to, what has passed since and what is in the
  bucket are at most a full bucket and what was gained (Paced); a bucket is dropped only
  when it is full again, so the new one gives nothing away; and the time told is rounded
  up, so that by then the bucket has one (Promising). *LimitsKeptHolds*.
- Redaction: each row and alert is what the config of the settings that were read at the start
  makes of its span. *RawStaysOutHolds*, with lemmas about what the
  stages leave of an attribute in their order.
- Client: while an adapter is patched it is patched once, over the method itself, and
  points at a client that has policies (Patched); a call on its way has been checked
  as often as its place says (Passing); a thread is of a client that is to tell it to end
  (Threaded). *ClientsShareWellHolds*.
- Alerts: of a silence that a scan has seen somebody was told, or the agent is still to be
  looked at with the heartbeat that the scan read (Awaited); what a dispatch wants to tell was
  tried or is left (Sends). *AlertsAreGivenHolds*.
- Accounts: while a login holds the user's row nobody else makes a session that counts, and
  those it has not chosen to end leave room for its own (Asks). That the oldest are as many as
  are to be ended is OldestAreMany, as their ranks are different numbers.
  *AccountsHoldAlways*.
- Listings: a walk by key has given nothing that is beyond its cursor, and all that stayed
  from the beginning and is not (AtKey); one by offset has given, as long as nothing
  changed, the rows up to its offset (AtOffset). A page extends either, since what is
  sorted has each row once and the rest of it lies beyond the page's last row
  (RowsCanBeOrdered, by the rows' ranks). `InOrder` says what an ORDER BY answers
  without sorting, because TLC's SortSeq has no definition that could be reasoned about.
  *WalksAreWholeHolds*.

**Only model-checked.** Of the properties of the runs only liveness: WaitsEnd,
PendingIsReclaimed, TransactionsEnd, HaltsFollowSpend, CachesConverge and ShutdownEnds,
which need fairness and ENABLED. Every invariant and every action property, and the two
refinements, are theorems.

## 6. What is not modelled, and the plan

Next, in the order of what can go wrong in each:

1. *MerkleRoot*: the anchor's root as a recursive function against a reference, over
   bounded inputs, and the verification of a chain.
2. *HaltTable* under both models: BudgetMonitor and HaltSync composed, so that a
   breach is followed to the call it stops; the batch limits of the sweeper and the
   monitor as orders with a cut.
3. *Incident detector*: it counts rows each minute and only logs, so that little can go
   wrong that is not in the list of disagreements.
4. *Exporter*: what OpenTelemetry's batch processor drops and retries at shutdown.

The map covers about 31% of the implementation's lines. What is left is mostly code that
keeps no shared state: the dashboard (`dashboard/`, React over the API), the CLI, the
MCP gateway and egress proxy (they evaluate and forward), pricing, analytics and
compliance reports (reads), scanners and their report formats, templates,
parsers (CEL, SCIM filters, OTLP), formatting of messages to Slack and others, the
schema scripts, benchmarks and examples. The services the code uses (PostgreSQL, Redis,
Dramatiq, Slack, OpenTelemetry, the agent frameworks, the consumer of a webhook)
are modelled only as far as the code depends on them.
