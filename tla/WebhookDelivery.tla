--------------------------- MODULE WebhookDelivery --------------------------
(***************************************************************************)
(* Delivery of alert webhooks: the rows of webhook_deliveries              *)
(* (webhooks/dispatch.py, repositories/webhook_deliveries.py), the         *)
(* Dramatiq messages that drive them and the actor that handles one        *)
(* (webhooks/actor.py), the sweeper (webhooks/sweeper.py) and an           *)
(* operator's replay (api/webhook_deliveries.py).                          *)
(*                                                                         *)
(* The actor reads the row, posts to the consumer and only then writes     *)
(* the row, by id and without a lock; several messages for one row may be  *)
(* handled at once.  The queue is Dramatiq's: a message is retried when    *)
(* the actor raises, at most MaxRetries times, redelivered when its worker *)
(* dies, and lost when Redis is.                                           *)
(***************************************************************************)
EXTENDS Integers, FiniteSets

CONSTANTS
  Deliveries,   \* rows of webhook_deliveries
  Messages,     \* slots for Dramatiq messages: bounds how many exist at once
  Operators,    \* replay requests being served
  MaxAttempts,  \* max_attempts of a row (server default 8)
  MaxRetries,   \* max_retries of the actor: STRATHON_WEBHOOK_MAX_ATTEMPTS - 1
  MaxFaults,    \* bound on lost messages, dead workers and unexpected errors
  MaxReplays    \* bound on replays

ASSUME LimitsAssumption == /\ MaxAttempts \in Nat \ {0}
                           /\ MaxRetries \in Nat
                           /\ MaxFaults \in Nat
                           /\ MaxReplays \in Nat

VARIABLES
  rows,      \* [Deliveries -> Row]
  msgs,      \* [Messages -> Msg]: queued, or in the hands of a worker
  swept,     \* ids the sweeper has selected and not yet dispatched
  replay,    \* [Operators -> the row whose replay passed its check, or none]
  consumed,  \* history: deliveries some POST of which was answered with 2xx
  faults, replays

vars == <<rows, msgs, swept, replay, consumed, faults, replays>>

Terminal   == {"succeeded", "dlq", "abandoned"}
Statuses   == {"absent", "pending", "failed_retrying"} \cup Terminal
Outcomes   == {"succeeded", "retriable", "abandoned"}
Replayable == {"dlq", "abandoned"}

Row == [status : Statuses, attempts : Nat]

Free         == [at |-> "free"]
Queued(d, n) == [at |-> "queued", id |-> d, retries |-> n]
Msg ==
  {Free}
  \cup [at : {"queued"}, id : Deliveries, retries : Nat]
  \cup [at : {"sending"}, id : Deliveries, retries : Nat, seen : Nat]
  \cup [at : {"answered"}, id : Deliveries, retries : Nat, seen : Nat, outcome : Outcomes]

Idle == [open |-> FALSE]
Replaying(d) == [open |-> TRUE, id |-> d]
Replay == {Idle} \cup [open : {TRUE}, id : Deliveries]

Init ==
  /\ rows = [d \in Deliveries |-> [status |-> "absent", attempts |-> 0]]
  /\ msgs = [m \in Messages |-> Free]
  /\ swept = {}
  /\ replay = [o \in Operators |-> Idle]
  /\ consumed = {}
  /\ faults = 0
  /\ replays = 0

-----------------------------------------------------------------------------

(* The send of a new message; it may fail, and the failure is swallowed.   *)
Dispatched(d) ==
  \/ /\ \E m \in Messages : /\ msgs[m] = Free
                            /\ msgs' = [msgs EXCEPT ![m] = Queued(d, 0)]
     /\ UNCHANGED faults
  \/ /\ faults < MaxFaults
     /\ faults' = faults + 1
     /\ UNCHANGED msgs

(* The ingest transaction commits, and its after_commit hook sends.        *)
Enqueue(d) ==
  /\ rows[d].status = "absent"
  /\ rows' = [rows EXCEPT ![d] = [status |-> "pending", attempts |-> 0]]
  /\ Dispatched(d)
  /\ UNCHANGED <<swept, replay, consumed, replays>>

(* Mutant: the sweeper takes the rows it should leave alone.               *)
SweepRetriesOnly ==
  /\ swept = {}
  /\ swept' = {d \in Deliveries : rows[d].status = "failed_retrying"}
  /\ swept' # {}
  /\ UNCHANGED <<rows, msgs, replay, consumed, faults, replays>>

(* The sweeper selects the ids of pending rows (those older than its       *)
(* threshold: here, any) ...                                               *)
SweepSelect ==
  /\ swept = {}
  /\ swept' = {d \in Deliveries : rows[d].status = "pending"}
  /\ swept' # {}
  /\ UNCHANGED <<rows, msgs, replay, consumed, faults, replays>>

(* ... and dispatches them one by one, whatever their rows are by then.    *)
SweepSend(d) ==
  /\ d \in swept
  /\ swept' = swept \ {d}
  /\ Dispatched(d)
  /\ UNCHANGED <<rows, replay, consumed, replays>>

-----------------------------------------------------------------------------
(* The actor.                                                              *)

(* A worker takes a message and reads the row: a terminal one is left      *)
(* alone and the message acknowledged.                                     *)
Take(m) ==
  /\ msgs[m].at = "queued"
  /\ LET q == msgs[m] IN
     msgs' = [msgs EXCEPT ![m] =
                IF rows[q.id].status \in Terminal THEN Free
                ELSE [at |-> "sending", id |-> q.id, retries |-> q.retries,
                      seen |-> rows[q.id].attempts]]
  /\ UNCHANGED <<rows, swept, replay, consumed, faults, replays>>

(* Mutant: a response that is not an exception counts as success.          *)
AnyAnswerSucceeds(m, o) ==
  /\ msgs[m].at = "sending"
  /\ LET q == msgs[m] IN
     msgs' = [msgs EXCEPT ![m] =
                [at |-> "answered", id |-> q.id, retries |-> q.retries, seen |-> q.seen,
                 outcome |-> IF o = "abandoned" THEN "succeeded" ELSE o]]
  /\ consumed' = IF o = "succeeded" THEN consumed \cup {msgs[m].id} ELSE consumed
  /\ UNCHANGED <<rows, swept, replay, faults, replays>>

(* The consumer's answer: 2xx; 429, 5xx, a timeout or a failed connection; *)
(* anything else, or an address the SSRF guard refuses before the POST.    *)
Answer(m, o) ==
  /\ msgs[m].at = "sending"
  /\ LET q == msgs[m] IN
     msgs' = [msgs EXCEPT ![m] =
                [at |-> "answered", id |-> q.id, retries |-> q.retries, seen |-> q.seen,
                 outcome |-> o]]
  /\ consumed' = IF o = "succeeded" THEN consumed \cup {msgs[m].id} ELSE consumed
  /\ UNCHANGED <<rows, swept, replay, faults, replays>>

NextStatus(outcome, attempts) ==
  IF outcome # "retriable" THEN outcome
  ELSE IF attempts >= MaxAttempts THEN "dlq" ELSE "failed_retrying"

(* Dramatiq's Retries middleware, when the actor raises.                   *)
Retried(q) == IF q.retries < MaxRetries THEN Queued(q.id, q.retries + 1) ELSE Free

(* UPDATE ... WHERE id = ..., from the attempts read before the POST.      *)
Updated(q) ==
  LET n == q.seen + 1 IN [status |-> NextStatus(q.outcome, n), attempts |-> n]

Record(m) ==
  /\ msgs[m].at = "answered"
  /\ LET q == msgs[m]
         r == Updated(q)
     IN /\ rows' = [rows EXCEPT ![q.id] = r]
        /\ msgs' = [msgs EXCEPT ![m] =
                      IF r.status = "failed_retrying" THEN Retried(q) ELSE Free]
  /\ UNCHANGED <<swept, replay, consumed, faults, replays>>

(* The worker dies between the commit of the update and the acknowledgement. *)
RecordUnacked(m) ==
  /\ faults < MaxFaults
  /\ msgs[m].at = "answered"
  /\ LET q == msgs[m] IN
     /\ rows' = [rows EXCEPT ![q.id] = Updated(q)]
     /\ msgs' = [msgs EXCEPT ![m] = Queued(q.id, q.retries)]
  /\ faults' = faults + 1
  /\ UNCHANGED <<swept, replay, consumed, replays>>

(* An error the actor does not classify (the database, a URL httpx cannot  *)
(* parse): the row is as it was.                                           *)
Raise(m) ==
  /\ faults < MaxFaults
  /\ msgs[m].at \in {"sending", "answered"}
  /\ msgs' = [msgs EXCEPT ![m] = Retried(msgs[m])]
  /\ faults' = faults + 1
  /\ UNCHANGED <<rows, swept, replay, consumed, replays>>

(* The worker dies with the message in its hands: the broker delivers it   *)
(* again.                                                                  *)
WorkerDies(m) ==
  /\ faults < MaxFaults
  /\ msgs[m].at \in {"sending", "answered"}
  /\ msgs' = [msgs EXCEPT ![m] = Queued(msgs[m].id, msgs[m].retries)]
  /\ faults' = faults + 1
  /\ UNCHANGED <<rows, swept, replay, consumed, replays>>

(* The queue loses a message.                                              *)
Lose(m) ==
  /\ faults < MaxFaults
  /\ msgs[m].at = "queued"
  /\ msgs' = [msgs EXCEPT ![m] = Free]
  /\ faults' = faults + 1
  /\ UNCHANGED <<rows, swept, replay, consumed, replays>>

-----------------------------------------------------------------------------
(* Replay: the status is checked, and the row then reset, without a lock.  *)

ReplayCheck(o, d) ==
  /\ replays < MaxReplays
  /\ ~replay[o].open
  /\ rows[d].status \in Replayable
  /\ replay' = [replay EXCEPT ![o] = Replaying(d)]
  /\ replays' = replays + 1
  /\ UNCHANGED <<rows, msgs, swept, consumed, faults>>

(* Mutant: the counter of attempts is not reset.                           *)
ReplayKeepsAttempts(o) ==
  /\ replay[o].open
  /\ LET d == replay[o].id IN
     /\ rows' = [rows EXCEPT ![d].status = "pending"]
     /\ Dispatched(d)
  /\ replay' = [replay EXCEPT ![o] = Idle]
  /\ UNCHANGED <<swept, consumed, replays>>

ReplayCommit(o) ==
  /\ replay[o].open
  /\ LET d == replay[o].id IN
     /\ rows' = [rows EXCEPT ![d] = [status |-> "pending", attempts |-> 0]]
     /\ Dispatched(d)
  /\ replay' = [replay EXCEPT ![o] = Idle]
  /\ UNCHANGED <<swept, consumed, replays>>

-----------------------------------------------------------------------------

WorkerStep(m) ==
  \/ Take(m) \/ Record(m) \/ RecordUnacked(m) \/ Raise(m) \/ WorkerDies(m) \/ Lose(m)
  \/ \E o \in Outcomes : Answer(m, o)

Next ==
  \/ \E d \in Deliveries : Enqueue(d) \/ SweepSend(d)
  \/ SweepSelect
  \/ \E m \in Messages : WorkerStep(m)
  \/ \E o \in Operators : ReplayCommit(o) \/ \E d \in Deliveries : ReplayCheck(o, d)

(* Workers take what is queued, the POST ends (request_timeout_sec) and    *)
(* the actor goes on; the sweeper loop catches every error and ticks       *)
(* again.  Enqueues and replays owe nothing.                               *)
Fairness ==
  /\ WF_vars(SweepSelect)
  /\ \A d \in Deliveries : WF_vars(SweepSend(d))
  /\ \A m \in Messages : /\ WF_vars(Take(m))
                         /\ WF_vars(\E o \in Outcomes : Answer(m, o))
                         /\ WF_vars(Record(m))

Spec == Init /\ [][Next]_vars /\ Fairness

-----------------------------------------------------------------------------
(* Properties.                                                             *)

TypeOK ==
  /\ rows \in [Deliveries -> Row]
  /\ msgs \in [Messages -> Msg]
  /\ swept \subseteq Deliveries
  /\ replay \in [Operators -> Replay]
  /\ consumed \subseteq Deliveries
  /\ faults \in Nat
  /\ replays \in Nat

(* The CHECK constraint on attempts never rejects an actor's UPDATE, and a *)
(* row is dead-lettered after exactly max_attempts, although attempts is   *)
(* read before the POST and written after it, by several workers and       *)
(* across replays (_send_one: new_attempts >= max_attempts).               *)
AttemptsAgree ==
  \A d \in Deliveries :
    LET r == rows[d] IN
    /\ r.attempts <= MaxAttempts
    /\ r.status \in {"absent", "pending"} => r.attempts = 0
    /\ r.status = "failed_retrying" => r.attempts \in 1 .. MaxAttempts - 1
    /\ r.status = "dlq" => r.attempts = MaxAttempts

(* A row says succeeded only if the consumer did accept one of its POSTs,  *)
(* whatever other message for the row was in flight (_send_one).           *)
SuccessIsReal ==
  \A d \in Deliveries : rows[d].status = "succeeded" => d \in consumed

(* No work is lost: a pending row whose message never landed, was lost or  *)
(* died with its worker is reclaimed by the sweeper (sweeper.py), as long  *)
(* as faults are not endless.                                              *)
PendingIsReclaimed ==
  \A d \in Deliveries : rows[d].status = "pending" ~> rows[d].status # "pending"

(* models/webhooks.py: no transition leaves succeeded; actor.py: a         *)
(* duplicate enqueue does not re-fire a terminal delivery.                 *)
(* Violated (README, 4).                                                   *)
SucceededIsFinal ==
  [][\A d \in Deliveries : rows[d].status = "succeeded" => rows'[d].status = "succeeded"]_vars

(* docs/intervention.md: failed sends retry, and exhausted retries move to *)
(* dlq: as long as nothing was lost, a row that waits for a retry has a    *)
(* message that will make it.  Violated (README, 4).                       *)
RetryIsScheduled ==
  \A d \in Deliveries : rows[d].status = "failed_retrying" /\ faults = 0 =>
    \E m \in Messages : msgs[m].at # "free" /\ msgs[m].id = d

(* Why AttemptsAgree holds: an attempt in flight began below the limit.    *)
AttemptsBelow ==
  \A m \in Messages : msgs[m].at \in {"sending", "answered"} => msgs[m].seen < MaxAttempts

(* Why SuccessIsReal holds: so did the outcome of a POST still unrecorded. *)
OutcomesReal ==
  \A m \in Messages : msgs[m].at = "answered" /\ msgs[m].outcome = "succeeded"
                        => msgs[m].id \in consumed

Inductive == TypeOK /\ AttemptsAgree /\ AttemptsBelow /\ SuccessIsReal /\ OutcomesReal
=============================================================================
