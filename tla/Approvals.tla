------------------------------ MODULE Approvals -----------------------------
(***************************************************************************)
(* The human-approval workflow: the rows of the receiver's approvals       *)
(* table (repositories/approvals.py, api/approvals.py), the Slack button   *)
(* handler (api/notification_channels.py), the reaper                      *)
(* (approval_reaper.py), the rows the ingest path creates (api/traces.py), *)
(* and the SDK that holds a tool call, asks, polls and then runs or        *)
(* refuses it (policy/approval.py, policy/steer.py).                       *)
(*                                                                         *)
(* A request handler whose row is locked by SELECT ... FOR UPDATE until    *)
(* its commit is one step.  The Slack handler reads the row once before    *)
(* it takes the lock, so it is two.  HTTP requests may be served late, or  *)
(* never, and their replies may be lost.                                   *)
(***************************************************************************)
EXTENDS Integers, FiniteSets

CONSTANTS
  Calls,          \* tool calls held by an SDK; the row a call creates has its name
  Spans,          \* ingested spans that match a require_approval policy
  ApiActors,      \* what resolved_by is set to by the API: str(ctx.key_id)
  SlackActors,    \* what resolved_by is set to by Slack: "slack:<user name>"
  Person,         \* [ApiActors \cup SlackActors -> people]: who is behind an actor
  ApproverCounts, \* the approvers_required that policies ask for
  Timeout,        \* timeout_seconds, in clock units
  MaxTime         \* bound on the clock

Ids    == Calls \cup Spans
Actors == ApiActors \cup SlackActors

ASSUME IdsAssumption    == Calls \cap Spans = {}
ASSUME ActorsAssumption == IsFiniteSet(Actors) /\ ApiActors \cap SlackActors = {}
ASSUME BoundsAssumption == /\ ApproverCounts \subseteq Int
                           /\ Timeout \in Nat \ {0}
                           /\ MaxTime \in Nat

VARIABLES
  rows,      \* [Ids -> Row]: the approvals table
  sdk,       \* [Calls -> phase of the held call in the agent's process]
  wire,      \* [Calls -> the HTTP request of that call, or its reply]
  deadline,  \* [Calls -> the SDK's local deadline]
  slack,     \* [SlackActors -> the row a Slack handler has read, or NoClick]
  now,       \* the clock, shared by every process
  accepted   \* history: <<id, actor, decision>> that resolve_approval returned a row for

vars == <<rows, sdk, wire, deadline, slack, now, accepted>>

Statuses  == {"absent", "pending", "approved", "denied", "expired"}
Decisions == {"approved", "denied"}
Phases    == {"idle", "posting", "polling", "ran", "refused", "crashed"}
(* none; a POST not served yet; its 201 reply; a GET not served yet; the   *)
(* status a GET was answered with.                                         *)
Wires     == {"none", "post", "created", "get"} \cup Statuses

(* approval_decisions is the pair of sets of actors that approved and that *)
(* denied; version, resolved_by and resolved_at, which no code reads back, *)
(* are left out.                                                           *)
Row == [status : Statuses, expires_at : Nat, required : Nat, current : Nat,
        approved_by : SUBSET Actors, denied_by : SUBSET Actors]

AbsentRow == [status |-> "absent", expires_at |-> 0, required |-> 0, current |-> 0,
              approved_by |-> {}, denied_by |-> {}]

NoClick == [open |-> FALSE]
Click(id, d, row) ==
  [open |-> TRUE, id |-> id, decision |-> d, current |-> row.current,
   approved_by |-> row.approved_by, denied_by |-> row.denied_by]
Clicks == {NoClick} \cup [open : {TRUE}, id : Ids, decision : Decisions, current : Nat,
                          approved_by : SUBSET Actors, denied_by : SUBSET Actors]

Init ==
  /\ rows = [id \in Ids |-> AbsentRow]
  /\ sdk = [c \in Calls |-> "idle"]
  /\ wire = [c \in Calls |-> "none"]
  /\ deadline = [c \in Calls |-> 0]
  /\ slack = [s \in SlackActors |-> NoClick]
  /\ now = 0
  /\ accepted = {}

-----------------------------------------------------------------------------
(* create_approval.                                                        *)

PendingRow(n) ==
  [status |-> "pending", expires_at |-> now + Timeout, required |-> IF n < 1 THEN 1 ELSE n,
   current |-> 0, approved_by |-> {}, denied_by |-> {}]

(* Bound: no row is created, and no poll loop started, whose timeout would *)
(* lie beyond MaxTime.                                                     *)
InHorizon == now + Timeout <= MaxTime

(* The ingest path creates a row for a span that matched a policy, and     *)
(* nobody polls it.                                                        *)
IngestSpan(s) ==
  /\ rows[s].status = "absent"
  /\ InHorizon
  /\ \E n \in ApproverCounts : rows' = [rows EXCEPT ![s] = PendingRow(n)]
  /\ UNCHANGED <<sdk, wire, deadline, slack, now, accepted>>

-----------------------------------------------------------------------------
(* The SDK: dispatch_policy_decision, request_approval, poll_approval and  *)
(* wait_for_approval with on_timeout = "deny", the only value a dispatcher *)
(* passes.                                                                 *)

(* The decision was require_approval: request_approval sends the POST.     *)
HoldCall(c) ==
  /\ sdk[c] = "idle"
  /\ sdk' = [sdk EXCEPT ![c] = "posting"]
  /\ wire' = [wire EXCEPT ![c] = "post"]
  /\ UNCHANGED <<rows, deadline, slack, now, accepted>>

(* The receiver serves POST /v1/approvals, perhaps after the SDK gave up.  *)
ServePost(c) ==
  /\ wire[c] = "post"
  /\ InHorizon
  /\ \E n \in ApproverCounts \cap (Nat \ {0}) :
       rows' = [rows EXCEPT ![c] = PendingRow(n)]
  /\ wire' = [wire EXCEPT ![c] = IF sdk[c] = "posting" THEN "created" ELSE "none"]
  /\ UNCHANGED <<sdk, deadline, slack, now, accepted>>

(* A POST nobody waits for any more is never served.                       *)
DropPost(c) ==
  /\ wire[c] = "post"
  /\ sdk[c] \in {"refused", "crashed"}
  /\ wire' = [wire EXCEPT ![c] = "none"]
  /\ UNCHANGED <<rows, sdk, deadline, slack, now, accepted>>

(* request_approval returned an id: the poll loop starts its own clock.    *)
PostReturns(c) ==
  /\ sdk[c] = "posting"
  /\ wire[c] = "created"
  /\ InHorizon
  /\ sdk' = [sdk EXCEPT ![c] = "polling"]
  /\ wire' = [wire EXCEPT ![c] = "none"]
  /\ deadline' = [deadline EXCEPT ![c] = now + Timeout]
  /\ UNCHANGED <<rows, slack, now, accepted>>

(* The POST timed out, was refused or its reply was lost: request_approval *)
(* returns None and the call is denied.  The request may still be on its   *)
(* way.                                                                    *)
PostFails(c) ==
  /\ sdk[c] = "posting"
  /\ sdk' = [sdk EXCEPT ![c] = "refused"]
  /\ wire' = [wire EXCEPT ![c] = IF @ = "post" THEN "post" ELSE "none"]
  /\ UNCHANGED <<rows, deadline, slack, now, accepted>>

(* Mutant: the loop forgets to look at its deadline.                       *)
PollSendForever(c) ==
  /\ sdk[c] = "polling"
  /\ wire[c] = "none"
  /\ wire' = [wire EXCEPT ![c] = "get"]
  /\ UNCHANGED <<rows, sdk, deadline, slack, now, accepted>>

PollSend(c) ==
  /\ sdk[c] = "polling"
  /\ wire[c] = "none"
  /\ now < deadline[c]
  /\ wire' = [wire EXCEPT ![c] = "get"]
  /\ UNCHANGED <<rows, sdk, deadline, slack, now, accepted>>

(* GET /v1/approvals/{id} reads the committed row.                         *)
ServeGet(c) ==
  /\ wire[c] = "get"
  /\ wire' = [wire EXCEPT ![c] = rows[c].status]
  /\ UNCHANGED <<rows, sdk, deadline, slack, now, accepted>>

(* The reply arrives, perhaps after the deadline.  "pending" goes round    *)
(* the loop; "approved" runs the tool and anything else refuses it (and    *)
(* the loop's deadline is gone with the loop).                             *)
PollAgain(c) ==
  /\ sdk[c] = "polling"
  /\ wire[c] = "pending"
  /\ wire' = [wire EXCEPT ![c] = "none"]
  /\ UNCHANGED <<rows, sdk, deadline, slack, now, accepted>>

PollReturns(c) ==
  /\ sdk[c] = "polling"
  /\ wire[c] \in {"approved", "denied", "expired"}
  /\ wire' = [wire EXCEPT ![c] = "none"]
  /\ sdk' = [sdk EXCEPT ![c] = IF wire[c] = "approved" THEN "ran" ELSE "refused"]
  /\ deadline' = [deadline EXCEPT ![c] = 0]
  /\ UNCHANGED <<rows, slack, now, accepted>>

(* URLError, a timeout or a lost reply: logged, and the loop goes on.      *)
PollFails(c) ==
  /\ sdk[c] = "polling"
  /\ wire[c] # "none"
  /\ wire' = [wire EXCEPT ![c] = "none"]
  /\ UNCHANGED <<rows, sdk, deadline, slack, now, accepted>>

(* Mutant: on_timeout = "allow".                                           *)
LocalTimeoutAllows(c) ==
  /\ sdk[c] = "polling"
  /\ wire[c] = "none"
  /\ now >= deadline[c]
  /\ sdk' = [sdk EXCEPT ![c] = "ran"]
  /\ deadline' = [deadline EXCEPT ![c] = 0]
  /\ UNCHANGED <<rows, wire, slack, now, accepted>>

(* The loop ends at its own deadline with "timeout", which denies.         *)
LocalTimeout(c) ==
  /\ sdk[c] = "polling"
  /\ wire[c] = "none"
  /\ now >= deadline[c]
  /\ sdk' = [sdk EXCEPT ![c] = "refused"]
  /\ deadline' = [deadline EXCEPT ![c] = 0]
  /\ UNCHANGED <<rows, wire, slack, now, accepted>>

(* The agent's process dies while it holds the call.                       *)
Crash(c) ==
  /\ sdk[c] \in {"posting", "polling"}
  /\ sdk' = [sdk EXCEPT ![c] = "crashed"]
  /\ wire' = [wire EXCEPT ![c] = IF @ = "post" THEN "post" ELSE "none"]
  /\ deadline' = [deadline EXCEPT ![c] = 0]
  /\ UNCHANGED <<rows, slack, now, accepted>>

-----------------------------------------------------------------------------
(* resolve_approval.                                                       *)

(* The row it writes, from the counts and decisions it has in memory       *)
(* (seen) and the row under the lock.  A deny leaves current_approvals as  *)
(* it is in the table: the ORM writes the attributes that changed.         *)
Resolved(row, seen, a, d) ==
  LET n == seen.current + 1 IN
  IF d = "denied"
  THEN [row EXCEPT !.status = "denied",
                   !.approved_by = seen.approved_by,
                   !.denied_by = seen.denied_by \cup {a}]
  ELSE [row EXCEPT !.status = IF n >= row.required THEN "approved" ELSE "pending",
                   !.approved_by = seen.approved_by \cup {a},
                   !.denied_by = seen.denied_by,
                   !.current = n]

(* Mutants: the duplicate-vote check, and the test of the status under the *)
(* lock, forgotten.                                                        *)
ResolvableTwice(row, seen, a, d) == row.status = "pending"
ResolvableAnyTime(row, seen, a, d) ==
  /\ row.status # "absent"
  /\ ~(d = "approved" /\ a \in seen.approved_by)

(* The WHERE clause of the locking SELECT, and the duplicate-vote check.   *)
Resolvable(row, seen, a, d) ==
  /\ row.status = "pending"
  /\ ~(d = "approved" /\ a \in seen.approved_by)

(* POST /v1/approvals/{id}/approve and /deny: the locking SELECT is the    *)
(* first read, so what is in memory is the row itself.                     *)
ApiResolve(id, a, d) ==
  /\ Resolvable(rows[id], rows[id], a, d)
  /\ rows' = [rows EXCEPT ![id] = Resolved(rows[id], rows[id], a, d)]
  /\ accepted' = accepted \cup {<<id, a, d>>}
  /\ UNCHANGED <<sdk, wire, deadline, slack, now>>

(* A Slack click: get_approval_by_id loads the row into the session ...    *)
(* (a click on a row that is already decided finds nothing to resolve)     *)
SlackRead(id, s, d) ==
  /\ ~slack[s].open
  /\ rows[id].status = "pending"
  /\ slack' = [slack EXCEPT ![s] = Click(id, d, rows[id])]
  /\ UNCHANGED <<rows, sdk, wire, deadline, now, accepted>>

(* ... and the locking SELECT of resolve_approval, in the same session,    *)
(* finds the object there: the WHERE clause sees the table, the object     *)
(* keeps the values it was first read with.                                *)
SlackResolve(s) ==
  LET k == slack[s] IN
  /\ k.open
  /\ IF Resolvable(rows[k.id], k, s, k.decision)
     THEN /\ rows' = [rows EXCEPT ![k.id] = Resolved(rows[k.id], k, s, k.decision)]
          /\ accepted' = accepted \cup {<<k.id, s, k.decision>>}
     ELSE UNCHANGED <<rows, accepted>>
  /\ slack' = [slack EXCEPT ![s] = NoClick]
  /\ UNCHANGED <<sdk, wire, deadline, now>>

(* The handler fails, or its process dies, before it commits.              *)
SlackFails(s) ==
  /\ slack[s].open
  /\ slack' = [slack EXCEPT ![s] = NoClick]
  /\ UNCHANGED <<rows, sdk, wire, deadline, now, accepted>>

-----------------------------------------------------------------------------
(* The reaper, and time.                                                   *)

Overdue(row) == row.status = "pending" /\ row.expires_at <= now

(* expire_pending_approvals: one UPDATE over every overdue pending row.    *)
ReaperTick ==
  /\ \E id \in Ids : Overdue(rows[id])
  /\ rows' = [id \in Ids |-> IF Overdue(rows[id])
                             THEN [rows[id] EXCEPT !.status = "expired"]
                             ELSE rows[id]]
  /\ UNCHANGED <<sdk, wire, deadline, slack, now, accepted>>

Tick ==
  /\ now < MaxTime
  /\ now' = now + 1
  /\ UNCHANGED <<rows, sdk, wire, deadline, slack, accepted>>

-----------------------------------------------------------------------------

SdkStep(c) ==
  \/ HoldCall(c) \/ PostReturns(c) \/ PostFails(c) \/ PollSend(c)
  \/ PollAgain(c) \/ PollReturns(c) \/ PollFails(c) \/ LocalTimeout(c) \/ Crash(c)

ReceiverStep(c) == ServePost(c) \/ ServeGet(c) \/ DropPost(c)

OperatorStep ==
  \/ \E id \in Ids, a \in ApiActors, d \in Decisions : ApiResolve(id, a, d)
  \/ \E id \in Ids, s \in SlackActors, d \in Decisions : SlackRead(id, s, d)
  \/ \E s \in SlackActors : SlackResolve(s) \/ SlackFails(s)

Next ==
  \/ \E c \in Calls : SdkStep(c) \/ ReceiverStep(c)
  \/ \E s \in Spans : IngestSpan(s)
  \/ OperatorStep
  \/ ReaperTick
  \/ Tick

(* Time passes; urlopen returns or raises; the poll loop is sequential     *)
(* code that goes on; the reaper loop catches every error and ticks again. *)
(* Operators, the network and the serving of requests owe nothing.         *)
Fairness ==
  /\ WF_vars(Tick)
  /\ WF_vars(ReaperTick)
  /\ \A c \in Calls : /\ WF_vars(PostReturns(c) \/ PostFails(c))
                      /\ WF_vars(PollSend(c))
                      /\ WF_vars(PollAgain(c) \/ PollReturns(c) \/ PollFails(c))
                      /\ WF_vars(LocalTimeout(c))

Spec == Init /\ [][Next]_vars /\ Fairness

-----------------------------------------------------------------------------
(* Properties.                                                             *)

TypeOK ==
  /\ rows \in [Ids -> Row]
  /\ sdk \in [Calls -> Phases]
  /\ wire \in [Calls -> Wires]
  /\ deadline \in [Calls -> Nat]
  /\ slack \in [SlackActors -> Clicks]
  /\ now \in Nat
  /\ accepted \subseteq (Ids \X Actors \X Decisions)

Approvers(id) == {a \in Actors : <<id, a, "approved">> \in accepted}

(* An approved row was approved by at least approvers_required different   *)
(* actors, each of whom was told so, and nobody's deny stands on it -      *)
(* whatever stale copy of the row a Slack handler counted from             *)
(* (resolve_approval: the threshold and the duplicate-vote check).         *)
GrantBacked ==
  \A id \in Ids : rows[id].status = "approved" =>
    /\ rows[id].approved_by \subseteq Approvers(id)
    /\ Cardinality(rows[id].approved_by) >= rows[id].required
    /\ rows[id].denied_by = {}

(* An operator whose deny was accepted stopped the call: the request stays *)
(* denied and the tool does not run, whatever else was clicked, polled or  *)
(* expired meanwhile (resolve_approval: immediate veto).                   *)
VetoStops ==
  \A id \in Ids, a \in Actors : <<id, a, "denied">> \in accepted =>
    /\ rows[id].status = "denied"
    /\ id \in Calls => sdk[id] # "ran"

(* Why the two hold: the phases of a call agree with its row and with the  *)
(* reply in flight ...                                                     *)
PhasesAgree ==
  \A c \in Calls :
    /\ sdk[c] = "idle" => wire[c] = "none" /\ rows[c].status = "absent"
    /\ wire[c] = "post" => /\ rows[c].status = "absent"
                           /\ sdk[c] \in {"posting", "refused", "crashed"}
    /\ wire[c] = "created" => sdk[c] = "posting"
    /\ wire[c] \in {"get"} \cup Statuses => sdk[c] = "polling"
    /\ wire[c] = "created" \/ sdk[c] = "polling" => rows[c].status # "absent"
    /\ wire[c] \in {"approved", "denied", "expired"} => rows[c].status = wire[c]
    /\ sdk[c] = "ran" => rows[c].status = "approved"

(* ... the counter of a row still pending, or of a copy of one, counts the *)
(* approvals it lists, and these are of actors that were told so ...       *)
Sound(id, r) ==
  /\ r.current = Cardinality(r.approved_by)
  /\ r.approved_by \subseteq Approvers(id)
  /\ r.denied_by = {}

CountsSound ==
  /\ \A id \in Ids : rows[id].status = "pending" => Sound(id, rows[id])
  /\ \A s \in SlackActors : slack[s].open => Sound(slack[s].id, slack[s])

(* ... and a deny that was accepted has decided its row.                   *)
DeniesDecide ==
  \A id \in Ids, a \in Actors : <<id, a, "denied">> \in accepted => rows[id].status = "denied"

Inductive == TypeOK /\ PhasesAgree /\ CountsSound /\ DeniesDecide /\ GrantBacked

(* The refinement: what the operators decided, and whether the tool ran.   *)
heldCall ==
  [c \in Calls |-> CASE sdk[c] = "idle" -> "idle"
                     [] sdk[c] \in {"posting", "polling"} -> "held"
                     [] sdk[c] = "ran" -> "ran"
                     [] OTHER -> "stopped"]
heldVerdict ==
  [c \in Calls |-> IF rows[c].status = "absent" THEN "none" ELSE rows[c].status]

Held == INSTANCE HeldCall WITH call <- heldCall, verdict <- heldVerdict

(* A held call is decided once, for good, and runs only on an approval.    *)
ImplementsHeldCall == Held!Spec

(* No call hangs: whatever the receiver, the network and the operators do  *)
(* or omit, poll_approval's deadline ends the wait.                        *)
EveryHeldCallEnds ==
  \A c \in Calls : sdk[c] \in {"posting", "polling"} ~> sdk[c] \in {"ran", "refused", "crashed"}

(* No request stays pending: the reaper settles the ones nobody answered,  *)
(* those of dead agents and of ingested spans included.                    *)
EveryRequestSettles ==
  \A id \in Ids : rows[id].status = "pending" ~> rows[id].status \notin {"absent", "pending"}

(* Both: neither a call nor a request waits for ever.                      *)
WaitsEnd == EveryHeldCallEnds /\ EveryRequestSettles

(* docs/approvals.md: the call is admitted only after approvers_required   *)
(* distinct operators approve it; one operator cannot approve twice.       *)
(* Violated when an operator has a key and a Slack account (README, 4).    *)
DistinctOperators ==
  \A id \in Ids : rows[id].status = "approved" =>
    Cardinality({Person[a] : a \in rows[id].approved_by}) >= rows[id].required

(* docs/approvals.md: every decision is recorded on the request.           *)
(* Violated (README, 4).                                                   *)
DecisionsRecorded ==
  \A id \in Ids, a \in Actors :
    /\ <<id, a, "approved">> \in accepted => a \in rows[id].approved_by
    /\ <<id, a, "denied">> \in accepted => a \in rows[id].denied_by
=============================================================================
