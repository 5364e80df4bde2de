------------------------------- MODULE Ingest --------------------------------
(***************************************************************************)
(* Trace ingest (receiver/api/traces.py) against the changes operators     *)
(* make to policies (receiver/api/policies.py): the policy cache of each   *)
(* worker process, evaluation, the rows a batch of spans writes in one     *)
(* transaction, and the row locks on which transactions wait.              *)
(*                                                                         *)
(* A request runs in one transaction that get_db_session commits, after    *)
(* the reply: FastAPI from 0.118 on, and the project requires 0.139, runs  *)
(* what follows the yield of a dependency when the response has been sent. *)
(* PostgreSQL turns the COMMIT of a transaction with a failed statement    *)
(* into a ROLLBACK and reports no error.  A statement that waits for a     *)
(* lock in a circle fails.                                                 *)
(*                                                                         *)
(* All spans belong to one trace.  Approvals and deliveries have modules   *)
(* of their own; here is only which alerts a batch owes.  Requests have    *)
(* API keys of their own: with one key they would wait for its row.        *)
(***************************************************************************)
EXTENDS Integers, Sequences, FiniteSets

CONSTANTS
  Policies,
  Rank,        \* [Policies -> Nat]: priority, higher first
  Alerting,    \* policies with the action alert and a webhook_url
  Spans,
  Place,       \* [Spans -> Nat]: where a span is in its batch
  Batches,
  Content,     \* [Batches -> SUBSET Spans]
  Cel,         \* [Policies -> [Spans -> what the match expression comes to]]
  AppliesTo,   \* [Policies -> SUBSET Spans]: the spans that applies_to names
  Routine,     \* spans that neither their trace's hash nor an error keeps
  Orders,      \* sequences of policies that an import or a batch may name
  Workers,     \* receiver processes
  Serving,     \* the ones that batches are sent to
  Requests,    \* ingest requests that run at a time
  Operator,    \* the request that changes policies
  TTL,         \* POLICY_CACHE_TTL_SECONDS
  MaxTime, MaxTries, MaxChanges, MaxFaults  \* bounds

ASSUME IngestAssumption ==
  /\ Rank \in [Policies -> Nat] /\ Place \in [Spans -> Nat]
  /\ Content \in [Batches -> SUBSET Spans]
  /\ Cel \in [Policies -> [Spans -> {"true", "false", "other", "raises"}]]
  /\ AppliesTo \in [Policies -> SUBSET Spans]
  /\ Orders \subseteq Seq(Policies) \ {<<>>}
  /\ Serving \subseteq Workers
  /\ Alerting \subseteq Policies /\ Routine \subseteq Spans
  /\ TTL \in Nat /\ MaxTime \in Nat /\ MaxTries \in [Batches -> Nat] /\ MaxChanges \in Nat /\ MaxFaults \in Nat
  /\ Operator \notin Requests
  /\ IsFiniteSet(Policies) /\ IsFiniteSet(Spans)

VARIABLES
  now,
  policy,   \* [Policies -> [state, count]]: policies, with match_count
  matches,  \* policy_matches, as <<policy, span>>
  owed,     \* webhook_deliveries, as <<policy, span>>
  spans,    \* spans
  trace,    \* the row of traces: "none", or its span_count
  cache,    \* [Workers -> entry of _cache], with the time its list was read
  req,      \* [Requests -> Request]
  op,       \* the operator's request that changes policies
  batch,    \* [Batches -> [acked, tries]]: the exporter
  changes, faults

tables == <<policy, matches, owed, spans, trace>>
ingestVars == <<now, policy, matches, owed, spans, trace, cache, req, op, batch, changes, faults>>

PolicyRow == [state : {"none", "on", "off", "gone"}, count : Nat]
TraceRow == [made : BOOLEAN, count : Nat]
MatchRows == Policies \X Spans
Times == 0..MaxTime
NoTrace == [made |-> FALSE, count |-> 0]
NoEntry == [until |-> 0, list |-> {}, read |-> 0]

(* What a transaction has not committed: match rows, the new match_count   *)
(* of the policies it has updated (0: none), spans, the trace row.         *)
Clean == [rows |-> {}, bumped |-> [p \in Policies |-> 0], wrote |-> {},
          made |-> FALSE, rolled |-> FALSE, total |-> 0, owes |-> {}]
Idle == [pc |-> "idle"]
NoOp == [pc |-> "idle", own |-> {}]

IngestInit ==
  /\ now = 0
  /\ \E s \in {"none", "on"} : policy = [p \in Policies |-> [state |-> s, count |-> 0]]
  /\ matches = {} /\ owed = {} /\ spans = {}
  /\ trace = NoTrace
  /\ cache = [w \in Workers |-> NoEntry]
  /\ req = [r \in Requests |-> Idle]
  /\ op = NoOp
  /\ batch = [b \in Batches |-> [acked |-> FALSE, tries |-> 0]]
  /\ changes = 0 /\ faults = 0

Active == {r \in Requests : req[r] # Idle}

-----------------------------------------------------------------------------
(* Evaluation.                                                             *)

(* list_policies, only_enabled.                                            *)
Enabled == {p \in Policies : policy[p].state = "on"}

(* evaluate_tristate: what is not a boolean is an error, as is an          *)
(* expression that does not compile or an attribute that is not there.     *)
Verdict(p, s) == CASE Cel[p][s] = "true"  -> "match"
                   [] Cel[p][s] = "false" -> "no_match"
                   [] OTHER               -> "error"

(* evaluate_for_span, as the recording path uses it: the policies that     *)
(* matched are kept when another could not be evaluated.                   *)
Matched(list, s) == {p \in list : s \in AppliesTo[p] /\ Verdict(p, s) = "match"}

(* should_keep_span: a span that a policy matched is always kept.          *)
Kept(list, b) == {s \in Content[b] : s \notin Routine \/ Matched(list, s) # {}}

(* The matches of the spans that are kept, and the alerts among them.      *)
Found(list, b) == {m \in MatchRows : m[2] \in Content[b] /\ m[1] \in Matched(list, m[2])}
Alerts(rows) == {m \in rows : m[1] \in Alerting}

(* matches_to_record: by span, then by priority.                           *)
Foremost(rows) ==
  {m \in rows : \A n \in rows : \/ Place[m[2]] < Place[n[2]]
                                \/ m[2] = n[2] /\ Rank[m[1]] >= Rank[n[1]]}

-----------------------------------------------------------------------------
(* Locks, read off what transactions have not committed.  A match row      *)
(* keeps its policy from being deleted; an updated policy row keeps others *)
(* from updating it.                                                       *)

Deleting(p) == op.pc # "idle" /\ op.kind = "delete" /\ p \in op.own

Updating(p) == {r \in Active : req[r].tx.bumped[p] # 0}
                 \cup (IF p \in op.own THEN {Operator} ELSE {})

Referring(p) == {r \in Active : \E m \in req[r].tx.rows \cup req[r].tx.owes : m[1] = p}

(* Those that hold what the next statement of transaction t needs.         *)
Holders(t) ==
  LET others == Active \ {t}
      doomed(rows) == IF \E m \in rows : Deleting(m[1]) THEN {Operator} ELSE {} IN
  CASE t = Operator ->
         IF op.pc = "touch"
         THEN (Updating(Head(op.todo)) \ {t})
                \cup (IF op.kind = "delete" THEN Referring(Head(op.todo)) ELSE {})
         ELSE {}
    [] t \in Active /\ req[t].pc = "evaluate" -> {q \in others : req[q].tx.made}
    [] t \in Active /\ req[t].pc = "insert" ->
         {q \in others : req[q].tx.wrote \cap Kept(req[t].list, req[t].b) # {}}
    [] t \in Active /\ req[t].pc = "roll" -> {q \in others : req[q].tx.made \/ req[q].tx.rolled}
    [] t \in Active /\ req[t].pc = "match" ->
         {q \in others : Foremost(req[t].todo) \cap req[q].tx.rows # {}}
           \cup doomed(Foremost(req[t].todo))
    [] t \in Active /\ req[t].pc = "bump" -> Updating(req[t].row[1]) \ {t}
    [] t \in Active /\ req[t].pc = "enqueue" -> doomed(Alerts(req[t].due))
    [] OTHER -> {}

Free(t) == Holders(t) = {}

(* A transaction that waits for itself, over the others.                   *)
InCircle(t) ==
  LET reach[n \in Nat] == IF n = 0 THEN Holders(t)
                          ELSE reach[n - 1] \cup UNION {Holders(u) : u \in reach[n - 1]}
  IN t \in reach[Cardinality(Requests)]

-----------------------------------------------------------------------------
(* The cache.                                                              *)

(* One loader at a time in a process.                                      *)
LockFree(w) == \A q \in Active : req[q].at = w => req[q].pc # "store"

(* The request looks at the cache before it waits for the cache's lock.    *)
Start(r, b, w) ==
  /\ req[r] = Idle
  /\ ~batch[b].acked /\ batch[b].tries < MaxTries[b]
  /\ batch' = [batch EXCEPT ![b].tries = @ + 1]
  /\ LET hit == cache[w].until > now IN
     req' = [req EXCEPT ![r] = [
       pc |-> IF hit THEN "evaluate" ELSE "lookup", at |-> w, b |-> b, start |-> now,
       list |-> IF hit THEN cache[w].list ELSE {}, read |-> IF hit THEN cache[w].read ELSE now,
       todo |-> {}, row |-> <<>>, due |-> {}, bad |-> FALSE, tx |-> Clean]]
  /\ UNCHANGED <<now, tables, cache, op, changes, faults>>

(* It looks again once it has the lock, with the time it came.             *)
Hit(r) ==
  LET entry == cache[req[r].at] IN
  /\ req[r].pc = "lookup" /\ LockFree(req[r].at)
  /\ entry.until > req[r].start
  /\ req' = [req EXCEPT ![r].pc = "evaluate", ![r].list = entry.list, ![r].read = entry.read]
  /\ UNCHANGED <<now, tables, cache, op, batch, changes, faults>>

(* The load reads what is committed.                                       *)
Load(r) ==
  /\ req[r].pc = "lookup"
  /\ cache[req[r].at].until <= req[r].start
  /\ LockFree(req[r].at)
  /\ req' = [req EXCEPT ![r].pc = "store", ![r].list = Enabled, ![r].read = now]
  /\ UNCHANGED <<now, tables, cache, op, batch, changes, faults>>

(* Mutant: the entry ends a TTL after it is stored.                        *)
StoreLate(r) ==
  /\ req[r].pc = "store"
  /\ cache' = [cache EXCEPT ![req[r].at] =
                 [until |-> now + TTL, list |-> req[r].list, read |-> req[r].read]]
  /\ req' = [req EXCEPT ![r].pc = "evaluate"]
  /\ UNCHANGED <<now, tables, op, batch, changes, faults>>

Store(r) ==
  /\ req[r].pc = "store"
  /\ cache' = [cache EXCEPT ![req[r].at] =
                 [until |-> req[r].start + TTL, list |-> req[r].list, read |-> req[r].read]]
  /\ req' = [req EXCEPT ![r].pc = "evaluate"]
  /\ UNCHANGED <<now, tables, op, batch, changes, faults>>

-----------------------------------------------------------------------------
(* The rows of a batch.                                                    *)

(* Policies are evaluated and spans sampled without the database; then the *)
(* trace row is inserted unless it exists.                                 *)
Evaluate(r) ==
  /\ req[r].pc = "evaluate" /\ Free(r)
  /\ LET list == req[r].list
         found == Found(list, req[r].b) IN
     req' = [req EXCEPT
       ![r].todo = found, ![r].due = Alerts(found),
       ![r].pc = IF Kept(list, req[r].b) = {} THEN "reply" ELSE "insert",
       ![r].tx.made = ~trace.made /\ Kept(list, req[r].b) # {}]
  /\ UNCHANGED <<now, tables, cache, op, batch, changes, faults>>

(* bulk_upsert_spans, and what the snapshot of the next statement shows:   *)
(* recompute_trace_rollup counts that and then waits for the trace row.    *)
Insert(r) ==
  /\ req[r].pc = "insert" /\ Free(r)
  /\ LET wrote == Kept(req[r].list, req[r].b) IN
     req' = [req EXCEPT ![r].pc = "roll", ![r].tx.wrote = wrote,
                        ![r].tx.total = Cardinality(spans \cup wrote)]
  /\ UNCHANGED <<now, tables, cache, op, batch, changes, faults>>

Then(todo) == IF todo = {} THEN "enqueue" ELSE "match"

Roll(r) ==
  /\ req[r].pc = "roll" /\ Free(r)
  /\ req' = [req EXCEPT ![r].pc = Then(req[r].todo), ![r].tx.rolled = TRUE]
  /\ UNCHANGED <<now, tables, cache, op, batch, changes, faults>>

(* Mutant: a count for each time the row is sent.                          *)
MatchRecounted(r) ==
  /\ req[r].pc = "match" /\ Free(r)
  /\ \E m \in Foremost(req[r].todo) :
       /\ policy[m[1]].state \in {"on", "off"}
       /\ req' = [req EXCEPT ![r].pc = "bump", ![r].row = m, ![r].tx.rows = @ \cup {m}]
  /\ UNCHANGED <<now, tables, cache, op, batch, changes, faults>>

(* record_match: a row that exists is not inserted again, nor counted.     *)
Match(r) ==
  /\ req[r].pc = "match" /\ Free(r)
  /\ \E m \in Foremost(req[r].todo) :
       /\ policy[m[1]].state \in {"on", "off"}
       /\ req' = IF m \in matches
                 THEN [req EXCEPT ![r].todo = @ \ {m}, ![r].pc = Then(req[r].todo \ {m})]
                 ELSE [req EXCEPT ![r].pc = "bump", ![r].row = m, ![r].tx.rows = @ \cup {m}]
  /\ UNCHANGED <<now, tables, cache, op, batch, changes, faults>>

(* match_count = match_count + 1, on the row as it is once the lock is got.*)
Bump(r) ==
  /\ req[r].pc = "bump" /\ Free(r)
  /\ LET m == req[r].row IN
     req' = [req EXCEPT
       ![r].pc = Then(req[r].todo \ {m}), ![r].todo = @ \ {m}, ![r].row = <<>>,
       ![r].tx.bumped[m[1]] = 1 + (IF @ = 0 THEN policy[m[1]].count ELSE @)]
  /\ UNCHANGED <<now, tables, cache, op, batch, changes, faults>>

(* A statement fails: the match's policy is gone, or transactions wait in  *)
(* a circle.  record_match swallows it, and with it every statement after. *)
MatchFails(r) ==
  /\ \/ /\ req[r].pc = "match" /\ Free(r)
        /\ \E m \in Foremost(req[r].todo) : policy[m[1]].state = "gone"
     \/ req[r].pc \in {"match", "bump"} /\ InCircle(r)
  /\ req' = [req EXCEPT ![r].pc = "enqueue", ![r].todo = {}, ![r].row = <<>>,
                        ![r].bad = TRUE, ![r].tx = Clean]
  /\ UNCHANGED <<now, tables, cache, op, batch, changes, faults>>

(* The rows of webhook_deliveries, one for each alert.  An insert that     *)
(* fails is swallowed too.                                                 *)
Enqueue(r) ==
  /\ req[r].pc = "enqueue" /\ Free(r)
  /\ req' = IF req[r].bad \/ \E m \in req[r].due : policy[m[1]].state = "gone"
            THEN [req EXCEPT ![r].pc = "reply", ![r].bad = TRUE, ![r].tx = Clean]
            ELSE [req EXCEPT ![r].pc = "reply", ![r].tx.owes = req[r].due]
  /\ UNCHANGED <<now, tables, cache, op, batch, changes, faults>>

-----------------------------------------------------------------------------
(* The end of a request.                                                   *)

(* 200, which the exporter may miss.                                       *)
Reply(r) ==
  /\ req[r].pc = "reply"
  /\ req' = [req EXCEPT ![r].pc = "commit"]
  /\ \/ /\ batch' = [batch EXCEPT ![req[r].b].acked = TRUE]
        /\ UNCHANGED faults
     \/ /\ faults < MaxFaults
        /\ faults' = faults + 1
        /\ UNCHANGED batch
  /\ UNCHANGED <<now, tables, cache, op, changes>>

CommitBatch(r) ==
  /\ req[r].pc = "commit"
  /\ LET tx == req[r].tx IN
     /\ policy' = [p \in Policies |-> IF tx.bumped[p] = 0 THEN policy[p]
                                      ELSE [policy[p] EXCEPT !.count = tx.bumped[p]]]
     /\ matches' = matches \cup tx.rows
     /\ owed' = owed \cup tx.owes
     /\ spans' = spans \cup tx.wrote
     /\ trace' = [made |-> trace.made \/ tx.made,
                  count |-> IF tx.rolled THEN tx.total ELSE trace.count]
  /\ req' = [req EXCEPT ![r] = Idle]
  /\ UNCHANGED <<now, cache, op, batch, changes, faults>>

(* An error that nothing swallows: a circle before the matches, or an      *)
(* insert that failed.  bulk_upsert_spans then tries the spans one by one  *)
(* in the failed transaction, and the roll-up raises.                      *)
Fail(r) ==
  /\ r \in Active
  /\ \/ req[r].pc \in {"evaluate", "insert", "roll"} /\ InCircle(r) /\ UNCHANGED faults
     \/ req[r].pc = "insert" /\ faults < MaxFaults /\ faults' = faults + 1
  /\ req' = [req EXCEPT ![r] = Idle]
  /\ UNCHANGED <<now, tables, cache, op, batch, changes>>

(* A process dies: its requests and its cache with it.                     *)
Crash(w) ==
  /\ faults < MaxFaults /\ faults' = faults + 1
  /\ req' = [r \in Requests |-> IF req[r] # Idle /\ req[r].at = w THEN Idle ELSE req[r]]
  /\ cache' = [cache EXCEPT ![w] = NoEntry]
  /\ op' = IF op # NoOp /\ op.at = w THEN NoOp ELSE op
  /\ UNCHANGED <<now, tables, batch, changes>>

-----------------------------------------------------------------------------
(* Policies.                                                               *)

(* An operator's request writes the rows it names one after the other, in  *)
(* one transaction.  A request for rows that are not there changes         *)
(* nothing and is left out.                                                *)
Change(kind, todo, w) ==
  /\ op = NoOp
  /\ \A i \in DOMAIN todo :
       policy[todo[i]].state \in (IF kind = "create" THEN {"none"} ELSE {"on", "off"})
  /\ changes < MaxChanges /\ changes' = changes + 1
  /\ op' = [pc |-> "touch", at |-> w, kind |-> kind, todo |-> todo, own |-> {}]
  /\ UNCHANGED <<now, tables, cache, req, batch, faults>>

Create(p, w) == Change("create", <<p>>, w)
Import(todo, w) == Len(todo) > 1 /\ Change("create", todo, w)
Patch(p, w) == \E kind \in {"enable", "disable"} : Change(kind, <<p>>, w)
Delete(p, w) == Change("delete", <<p>>, w)
Batch(todo, w) ==
  \E kind \in {"enable", "disable", "delete"} : Len(todo) > 1 /\ Change(kind, todo, w)

(* The statement on one row takes its lock.                                *)
Touch ==
  /\ op.pc = "touch" /\ Free(Operator)
  /\ op' = [op EXCEPT !.todo = Tail(@), !.own = @ \cup {Head(op.todo)},
                      !.pc = IF Len(op.todo) = 1 THEN "commit" ELSE "touch"]
  /\ UNCHANGED <<now, tables, cache, req, batch, changes, faults>>

After(kind, row) ==
  CASE kind = "create"  -> [row EXCEPT !.state = "on"]
    [] kind = "enable"  -> [row EXCEPT !.state = "on"]
    [] kind = "disable" -> [row EXCEPT !.state = "off"]
    [] kind = "delete"  -> [state |-> "gone", count |-> 0]

(* The hook drops the project's entry in this process once the commit is   *)
(* done; matches and deliveries of a deleted policy go with it.            *)
Changed ==
  /\ op.pc = "commit"
  /\ policy' = [p \in Policies |-> IF p \in op.own THEN After(op.kind, policy[p]) ELSE policy[p]]
  /\ LET dropped == {m \in MatchRows : op.kind = "delete" /\ m[1] \in op.own} IN
     /\ matches' = matches \ dropped
     /\ owed' = owed \ dropped
  /\ cache' = [cache EXCEPT ![op.at] = NoEntry]
  /\ op' = NoOp
  /\ UNCHANGED <<now, spans, trace, req, batch, changes, faults>>

(* Only a statement in a circle fails it; nothing of it is kept.           *)
ChangeFails ==
  /\ op.pc = "touch" /\ InCircle(Operator)
  /\ op' = NoOp
  /\ UNCHANGED <<now, tables, cache, req, batch, changes, faults>>

Tick ==
  /\ now < MaxTime
  /\ now' = now + 1
  /\ UNCHANGED <<tables, cache, req, op, batch, changes, faults>>

-----------------------------------------------------------------------------

RequestStep(r) ==
  \/ Hit(r) \/ Load(r) \/ Store(r) \/ Evaluate(r) \/ Insert(r) \/ Roll(r)
  \/ Match(r) \/ Bump(r) \/ MatchFails(r) \/ Enqueue(r) \/ Reply(r) \/ CommitBatch(r)

IngestNext ==
  \/ \E r \in Requests, b \in Batches, w \in Serving : Start(r, b, w)
  \/ \E r \in Requests : RequestStep(r) \/ Fail(r)
  \/ \E p \in Policies, w \in Workers : Create(p, w) \/ Patch(p, w) \/ Delete(p, w)
  \/ \E todo \in Orders, w \in Workers : Import(todo, w) \/ Batch(todo, w)
  \/ Touch \/ Changed \/ ChangeFails
  \/ \E w \in Workers : Crash(w)
  \/ Tick

IngestSpec == IngestInit /\ [][IngestNext]_ingestVars

-----------------------------------------------------------------------------
(* Properties.                                                             *)

RowTypes ==
  /\ policy \in [Policies -> PolicyRow]
  /\ matches \subseteq MatchRows /\ owed \subseteq MatchRows /\ spans \subseteq Spans
  /\ trace \in TraceRow

Transaction ==
  [rows : SUBSET MatchRows, bumped : [Policies -> Nat], wrote : SUBSET Spans,
   made : BOOLEAN, rolled : BOOLEAN, total : Nat, owes : SUBSET MatchRows]

Request ==
  [pc : {"lookup", "store", "evaluate", "insert", "roll", "match", "bump",
         "enqueue", "reply", "commit"},
   at : Workers, b : Batches, start : Times, list : SUBSET Policies, read : Times,
   todo : SUBSET MatchRows, row : MatchRows \cup {<<>>}, due : SUBSET MatchRows, bad : BOOLEAN, tx : Transaction]

(* Every variable has its type; a request that records a match has one to  *)
(* record.                                                                 *)
IngestTypeOK ==
  /\ now \in Times
  /\ RowTypes
  /\ cache \in [Workers -> [until : 0..(MaxTime + TTL), list : SUBSET Policies, read : Times]]
  /\ req \in [Requests -> {Idle} \cup Request]
  /\ \A r \in Active : /\ (req[r].pc = "bump") = (req[r].row # <<>>)
                       /\ req[r].pc = "match" => req[r].todo # {}
  /\ op \in {NoOp} \cup [pc : {"touch", "commit"}, at : Workers, todo : Seq(Policies),
                         kind : {"create", "enable", "disable", "delete"}, own : SUBSET Policies]
  /\ batch \in [Batches -> [acked : BOOLEAN, tries : Nat]]
  /\ changes \in 0..MaxChanges /\ faults \in 0..MaxFaults

(* A policy's match_count is the number of its rows in policy_matches,     *)
(* whatever batches are sent twice, at a time or after a lost reply        *)
(* (record_match).                                                         *)
MatchCountIsRows ==
  \A p \in Policies : policy[p].count = Cardinality({m \in matches : m[1] = p})

(* The policies a batch is evaluated with were in force less than a TTL    *)
(* before the request came, or later (policy_cache.get_policies).          *)
StaleAtMostTTL ==
  \A r \in Active : req[r].pc \notin {"lookup"} =>
    req[r].start < req[r].read + TTL \/ req[r].start <= req[r].read

(* A batch that was answered with 200 has its spans stored, unless they    *)
(* were sampled out (record_match: never raises, must not break ingest).   *)
(* Violated (README, 4).                                                   *)
AcceptedIsStored ==
  \A b \in Batches :
    batch[b].acked /\ (\A r \in Active : req[r].b # b) => Content[b] \ Routine \subseteq spans
=============================================================================
