---------------------------- MODULE ReceiverProofs ----------------------------
(***************************************************************************)
(* Proofs about the deliveries of a receiver and about its process.        *)
(*                                                                         *)
(* WebhookDelivery: attempts and statuses agree and a success is real, for *)
(* any number of rows, messages, replays, faults and attempts.             *)
(*                                                                         *)
(* Receiver: the loops run while a process serves and the keystore keeps   *)
(* step with the table of signing keys, for any number of processes, keys, *)
(* loops, requests at a time and crashes.                                  *)
(***************************************************************************)
EXTENDS WebhookDelivery, Receiver, TLAPS

(* What the stages of a message carry.                                     *)
LEMMA MsgStages ==
  ASSUME NEW q \in Msg
  PROVE  /\ q.at \in {"free", "queued", "sending", "answered"}
         /\ q.at # "free" => q.id \in Deliveries /\ q.retries \in Nat
         /\ q.at \in {"sending", "answered"} => q.seen \in Nat
         /\ q.at = "answered" => q.outcome \in Outcomes
BY DEF Msg, Free

(* An open replay names a row.                                             *)
LEMMA OpenReplay ==
  ASSUME NEW r \in Replay, r.open
  PROVE  r.id \in Deliveries
<1>1. Idle.open = FALSE
  BY DEF Idle
<1>2. r \in [open : {TRUE}, id : Deliveries]
  BY <1>1 DEF Replay
<1>3. QED
  BY <1>2

(* A message the middleware retries is queued or gone.                     *)
LEMMA RetriedType ==
  ASSUME NEW q \in Msg, q.at # "free"
  PROVE  /\ Retried(q) \in Msg
         /\ Retried(q).at \in {"free", "queued"}
<1>1. q.id \in Deliveries /\ q.retries \in Nat
  BY MsgStages
<1>2. Queued(q.id, q.retries + 1) \in Msg
  BY <1>1 DEF Queued, Msg
<1>3. QED
  BY <1>2, LimitsAssumption DEF Retried, Queued, Free, Msg

(* A dispatch adds at most one fresh message.                              *)
LEMMA DispatchAdds ==
  ASSUME TypeOK, NEW d \in Deliveries, Dispatched(d)
  PROVE  /\ msgs' \in [Messages -> Msg]
         /\ faults' \in Nat
         /\ \A m \in Messages : msgs'[m] = msgs[m] \/ msgs'[m].at = "queued"
<1>1. Queued(d, 0) \in Msg /\ Queued(d, 0).at = "queued"
  BY DEF Queued, Msg
<1>2. CASE \E m \in Messages : msgs[m] = Free /\ msgs' = [msgs EXCEPT ![m] = Queued(d, 0)]
  BY <1>1, <1>2 DEF Dispatched, TypeOK
<1>3. CASE UNCHANGED msgs
  BY <1>3 DEF Dispatched, TypeOK
<1>4. faults' \in Nat
  BY DEF Dispatched, TypeOK
<1>5. QED
  BY <1>2, <1>3, <1>4 DEF Dispatched

(* The parts of the invariant that only the rows and the messages in the   *)
(* hands of a worker can disturb.                                          *)
Agreement == AttemptsAgree /\ AttemptsBelow /\ SuccessIsReal /\ OutcomesReal

(* Messages may come and go, as long as none is put in a worker's hands.   *)
LEMMA QueueMoves ==
  ASSUME Agreement, UNCHANGED <<rows, consumed>>,
         \A m \in Messages : msgs'[m] = msgs[m] \/ msgs'[m].at \in {"free", "queued"}
  PROVE  Agreement'
BY DEF Agreement, AttemptsAgree, AttemptsBelow, SuccessIsReal, OutcomesReal

(* A row that becomes pending starts at attempt zero.                      *)
LEMMA RowStarts ==
  ASSUME TypeOK, Agreement, NEW d \in Deliveries,
         rows' = [rows EXCEPT ![d] = [status |-> "pending", attempts |-> 0]],
         UNCHANGED consumed,
         \A m \in Messages : msgs'[m] = msgs[m] \/ msgs'[m].at \in {"free", "queued"}
  PROVE  Agreement'
<1>1. \A e \in Deliveries : rows'[e] = IF e = d THEN [status |-> "pending", attempts |-> 0]
                                                ELSE rows[e]
  BY DEF TypeOK
<1>2. AttemptsAgree'
  BY <1>1, LimitsAssumption DEF Agreement, AttemptsAgree
<1>3. SuccessIsReal'
  BY <1>1 DEF Agreement, SuccessIsReal
<1>4. QED
  BY <1>2, <1>3 DEF Agreement, AttemptsBelow, OutcomesReal

(* The attempts counter, the statuses, the successes and the attempts in   *)
(* flight stay in agreement (webhooks/actor.py, _send_one).                *)
THEOREM DeliveriesInvariant == Spec => []Inductive
<1>1. Init => Inductive
  BY LimitsAssumption DEF Init, Inductive, TypeOK, AttemptsAgree, AttemptsBelow, SuccessIsReal,
     OutcomesReal, Row, Statuses, Terminal, Msg, Free, Replay
<1>2. Inductive /\ [Next]_vars => Inductive'
  <2> SUFFICES ASSUME Inductive, [Next]_vars PROVE Inductive'
    OBVIOUS
  <2> USE DEF Inductive
  <2>a. Agreement
    BY DEF Agreement
  <2>b. ASSUME TypeOK', Agreement' PROVE Inductive'
    BY <2>b DEF Agreement
  <2>1. ASSUME NEW d \in Deliveries, Enqueue(d) PROVE Inductive'
    <3>1. TypeOK'
      BY <2>1, DispatchAdds DEF Enqueue, TypeOK, Row, Statuses
    <3>2. Agreement'
      BY <2>1, <2>a, DispatchAdds, RowStarts DEF Enqueue
    <3>3. QED
      BY <3>1, <3>2, <2>b
  <2>2. ASSUME NEW d \in Deliveries, SweepSend(d) PROVE Inductive'
    <3>1. TypeOK'
      BY <2>2, DispatchAdds DEF SweepSend, TypeOK
    <3>2. Agreement'
      BY <2>2, <2>a, DispatchAdds, QueueMoves DEF SweepSend
    <3>3. QED
      BY <3>1, <3>2, <2>b
  <2>3. CASE SweepSelect
    <3>1. TypeOK'
      BY <2>3 DEF SweepSelect, TypeOK
    <3>2. Agreement'
      BY <2>3, <2>a, QueueMoves DEF SweepSelect
    <3>3. QED
      BY <3>1, <3>2, <2>b
  <2>4. ASSUME NEW m \in Messages, Take(m) PROVE Inductive'
    <3> DEFINE q == msgs[m]
    <3>1. q \in Msg /\ q.at = "queued" /\ q.id \in Deliveries /\ q.retries \in Nat
      BY <2>4, MsgStages DEF Take, TypeOK
    <3>2. CASE rows[q.id].status \in Terminal
      <4>1. msgs' = [msgs EXCEPT ![m] = Free]
        BY <2>4, <3>2 DEF Take
      <4>2. Free \in Msg /\ Free.at = "free"
        BY DEF Msg, Free
      <4>3. TypeOK'
        BY <2>4, <4>1, <4>2 DEF Take, TypeOK
      <4>4. Agreement'
        BY <2>4, <2>a, <4>1, <4>2, QueueMoves DEF Take, TypeOK
      <4>5. QED
        BY <4>3, <4>4, <2>b
    <3>3. CASE rows[q.id].status \notin Terminal
      <4> DEFINE s == [at |-> "sending", id |-> q.id, retries |-> q.retries,
                       seen |-> rows[q.id].attempts]
      <4>1. msgs' = [msgs EXCEPT ![m] = s]
        BY <2>4, <3>3 DEF Take
      <4>2. rows[q.id] \in Row /\ rows[q.id].attempts \in Nat
        BY <3>1 DEF TypeOK, Row
      <4>3. s \in Msg
        BY <3>1, <4>2 DEF Msg
      <4>4. s.seen < MaxAttempts
        BY <3>1, <3>3, <4>2, LimitsAssumption DEF AttemptsAgree, Row, Statuses, Terminal
      <4>5. TypeOK'
        BY <2>4, <4>1, <4>3 DEF Take, TypeOK
      <4>6. AttemptsBelow'
        BY <4>1, <4>4 DEF AttemptsBelow, TypeOK
      <4>7. OutcomesReal'
        BY <2>4, <4>1 DEF OutcomesReal, Take, TypeOK
      <4>8. AttemptsAgree' /\ SuccessIsReal'
        BY <2>4 DEF Take, AttemptsAgree, SuccessIsReal
      <4>9. QED
        BY <4>5, <4>6, <4>7, <4>8
    <3>4. QED
      BY <3>2, <3>3
  <2>5. ASSUME NEW m \in Messages, NEW o \in Outcomes, Answer(m, o) PROVE Inductive'
    <3> DEFINE q == msgs[m]
               a == [at |-> "answered", id |-> q.id, retries |-> q.retries, seen |-> q.seen,
                     outcome |-> o]
    <3>1. q \in Msg /\ q.at = "sending" /\ q.id \in Deliveries /\ q.retries \in Nat /\ q.seen \in Nat
      BY <2>5, MsgStages DEF Answer, TypeOK
    <3>2. a \in Msg
      BY <3>1 DEF Msg
    <3>3. msgs' = [msgs EXCEPT ![m] = a]
      BY <2>5 DEF Answer
    <3>4. TypeOK'
      BY <2>5, <3>1, <3>2, <3>3 DEF Answer, TypeOK
    <3>5. AttemptsBelow'
      BY <3>1, <3>3 DEF AttemptsBelow, TypeOK
    <3>6. OutcomesReal'
      BY <2>5, <3>1, <3>3 DEF OutcomesReal, Answer, TypeOK
    <3>7. AttemptsAgree' /\ SuccessIsReal'
      BY <2>5 DEF Answer, AttemptsAgree, SuccessIsReal
    <3>8. QED
      BY <3>4, <3>5, <3>6, <3>7
  <2>6. ASSUME NEW m \in Messages, Record(m) \/ RecordUnacked(m) PROVE Inductive'
    <3> DEFINE q == msgs[m]
               r == Updated(q)
    <3>1. /\ q \in Msg /\ q.at = "answered" /\ q.id \in Deliveries
          /\ q.seen \in Nat /\ q.seen < MaxAttempts /\ q.outcome \in Outcomes
      BY <2>6, MsgStages DEF Record, RecordUnacked, TypeOK, AttemptsBelow
    <3>2. /\ r.attempts \in 1 .. MaxAttempts
          /\ r.status \in {"succeeded", "abandoned", "dlq", "failed_retrying"}
          /\ r.status = "failed_retrying" => r.attempts < MaxAttempts
          /\ r.status = "dlq" => r.attempts = MaxAttempts
          /\ r.status = "succeeded" => q.outcome = "succeeded"
      BY <3>1, LimitsAssumption DEF Updated, NextStatus, Outcomes
    <3>3. r \in Row
      BY <3>1, <3>2 DEF Updated, Row, Statuses, Terminal
    <3>4. /\ rows' = [rows EXCEPT ![q.id] = r]
          /\ UNCHANGED <<swept, replay, consumed, replays>>
          /\ faults' = faults \/ faults' = faults + 1
      BY <2>6 DEF Record, RecordUnacked
    <3>5. PICK x \in Msg : x.at \in {"free", "queued"} /\ msgs' = [msgs EXCEPT ![m] = x]
      <4>1. CASE Record(m)
        BY <4>1, <3>1, RetriedType DEF Record, Msg, Free
      <4>2. CASE RecordUnacked(m)
        BY <4>2, <3>1, MsgStages DEF RecordUnacked, Queued, Msg
      <4>3. QED
        BY <2>6, <4>1, <4>2
    <3> HIDE DEF q, r
    <3>6. TypeOK'
      BY <3>1, <3>3, <3>4, <3>5 DEF TypeOK
    <3>7. \A e \in Deliveries : rows'[e] = IF e = q.id THEN r ELSE rows[e]
      BY <3>4 DEF TypeOK
    <3>8. AttemptsAgree'
      BY <3>1, <3>2, <3>7, LimitsAssumption DEF AttemptsAgree
    <3>9. q.outcome = "succeeded" => q.id \in consumed
      BY <3>1 DEF OutcomesReal, q
    <3>10. SuccessIsReal'
      BY <3>2, <3>4, <3>7, <3>9 DEF SuccessIsReal
    <3>11. AttemptsBelow' /\ OutcomesReal'
      BY <3>4, <3>5 DEF AttemptsBelow, OutcomesReal, TypeOK
    <3>12. QED
      BY <3>6, <3>8, <3>10, <3>11
  <2>7. ASSUME NEW m \in Messages, Raise(m) \/ WorkerDies(m) \/ Lose(m) PROVE Inductive'
    <3>1. msgs[m] \in Msg /\ msgs[m].at # "free"
      BY <2>7 DEF Raise, WorkerDies, Lose, TypeOK
    <3>2. PICK x \in Msg : x.at \in {"free", "queued"} /\ msgs' = [msgs EXCEPT ![m] = x]
      <4>1. CASE Raise(m)
        BY <4>1, <3>1, RetriedType DEF Raise
      <4>2. CASE WorkerDies(m)
        BY <4>2, <3>1, MsgStages DEF WorkerDies, Queued, Msg
      <4>3. CASE Lose(m)
        BY <4>3 DEF Lose, Free, Msg
      <4>4. QED
        BY <2>7, <4>1, <4>2, <4>3
    <3>3. UNCHANGED <<rows, swept, replay, consumed, replays>> /\ faults' = faults + 1
      BY <2>7 DEF Raise, WorkerDies, Lose
    <3>4. TypeOK'
      BY <3>2, <3>3 DEF TypeOK
    <3>5. Agreement'
      BY <2>a, <3>2, <3>3, QueueMoves DEF TypeOK
    <3>6. QED
      BY <3>4, <3>5, <2>b
  <2>8. ASSUME NEW o \in Operators, NEW d \in Deliveries, ReplayCheck(o, d) PROVE Inductive'
    <3>a. Replaying(d) \in Replay
      BY DEF Replaying, Replay
    <3>1. TypeOK'
      BY <2>8, <3>a DEF ReplayCheck, TypeOK
    <3>2. Agreement'
      BY <2>8, <2>a, QueueMoves DEF ReplayCheck
    <3>3. QED
      BY <3>1, <3>2, <2>b
  <2>9. ASSUME NEW o \in Operators, ReplayCommit(o) PROVE Inductive'
    <3>1. PICK d \in Deliveries :
            /\ Dispatched(d)
            /\ rows' = [rows EXCEPT ![d] = [status |-> "pending", attempts |-> 0]]
      <4>1. replay[o].open /\ replay[o] \in Replay
        BY <2>9 DEF ReplayCommit, TypeOK
      <4>2. replay[o].id \in Deliveries
        BY <4>1, OpenReplay
      <4>3. QED
        BY <2>9, <4>2, Zenon DEF ReplayCommit
    <3>2. /\ [status |-> "pending", attempts |-> 0] \in Row
          /\ Idle \in Replay
      BY DEF Row, Statuses, Replay
    <3>3. msgs' \in [Messages -> Msg] /\ faults' \in Nat
      BY <3>1, DispatchAdds
    <3>4. /\ UNCHANGED <<swept, consumed, replays>>
          /\ replay' = [replay EXCEPT ![o] = Idle]
      BY <2>9 DEF ReplayCommit
    <3>5. TypeOK'
      BY <3>1, <3>2, <3>3, <3>4 DEF TypeOK
    <3>6. \A m \in Messages : msgs'[m] = msgs[m] \/ msgs'[m].at = "queued"
      BY <3>1, DispatchAdds
    <3>7. Agreement'
      BY <2>a, <3>1, <3>4, <3>6, RowStarts
    <3>8. QED
      BY <3>5, <3>7, <2>b
  <2>10. CASE UNCHANGED vars
    BY <2>10 DEF vars, TypeOK, AttemptsAgree, AttemptsBelow, SuccessIsReal, OutcomesReal
  <2>11. QED
    BY <2>1, <2>2, <2>3, <2>4, <2>5, <2>6, <2>7, <2>8, <2>9, <2>10 DEF Next, WorkerStep
<1>3. QED
  BY <1>1, <1>2, PTL DEF Spec

(* Every variable keeps its type.                                          *)
THEOREM DeliveryTypeCorrect == Spec => []TypeOK
<1>1. Inductive => TypeOK
  BY DEF Inductive
<1>2. QED
  BY <1>1, DeliveriesInvariant, PTL

(* The CHECK constraint on attempts is never violated, and dead-lettering  *)
(* happens at max_attempts, for every limit and any number of duplicate    *)
(* messages.                                                               *)
THEOREM AttemptsAgreeHolds == Spec => []AttemptsAgree
<1>1. Inductive => AttemptsAgree
  BY DEF Inductive
<1>2. QED
  BY <1>1, DeliveriesInvariant, PTL

(* A row that says succeeded was accepted by its consumer.                 *)
THEOREM SuccessIsRealHolds == Spec => []SuccessIsReal
<1>1. Inductive => SuccessIsReal
  BY DEF Inductive
<1>2. QED
  BY <1>1, DeliveriesInvariant, PTL
-----------------------------------------------------------------------------
(* The migrations: the version is stamped where tables had none, the       *)
(* upgrade holds the lock, and goes from a version that nobody changed:    *)
(* who waits for the lock found a version or no tables.  What a boot       *)
(* passed stays so: no action takes a table or the last version away.      *)
Migrating(p) ==
  /\ pc[p] \in {"inspect", "stamp", "stamping", "lock", "upgrade", "unlock"} => mode.auto
  /\ pc[p] \in {"stamp", "stamping"} => schema.tables > 0
  /\ pc[p] = "stamping" =>
       /\ seen[p].tables > 0
       /\ seen[p].version = 0 \/ (seen[p].version = schema.version /\ schema.version = Latest)
       /\ schema.version \in {0, Latest}
  /\ pc[p] = "stamp" => schema.version \in {0, Latest}
  /\ pc[p] \in {"lock", "upgrade"} => ~Unversioned(schema)
  /\ pc[p] \in {"upgrade", "unlock"} => lock = p
  /\ pc[p] = "upgrade" => seen[p] = schema
  /\ pc[p] = "clash" => mode.auto /\ Unversioned(seen[p])
  /\ pc[p] \in {"unlock", "project", "restore", "banner", "serving", "stopping", "dispose"} =>
       (mode.auto => schema.version = Latest)
  /\ pc[p] \in {"restore", "banner", "serving", "stopping", "dispose"} =>
       mode.cloud \/ schema.tables >= OrgsAt

(* The loops that the lifespan has created.                                *)
Created(p) ==
  IF pc[p] = "restore" THEN Early ELSE IF pc[p] = "banner" THEN Early \cup Middle ELSE Loops

Looping(p) ==
  /\ pc[p] \in {"down", "inspect", "stamp", "stamping", "lock", "upgrade", "unlock", "project", "clash"} =>
       \A l \in Loops : loop[p][l] = "none"
  /\ pc[p] \in {"restore", "banner", "serving"} =>
       /\ \A l \in Created(p) \ Disabled : TaskRuns(p, l)
       /\ \A l \in Loops \ Created(p) : loop[p][l] = "none"
  /\ pc[p] \notin {"stopping", "dispose"} => stop[p] = {}
  /\ pc[p] = "stopping" => \A i \in 1..turn[p] - 1 : loop[p][Order[i]] = "done"
  /\ pc[p] = "dispose" => \A l \in Loops : loop[p][l] = "done"

(* A secret in memory was given, and what was given was committed and is   *)
(* kept while the key is active.                                           *)
Keeping(p) ==
  /\ store[p] \subseteq known[p]
  /\ \A k \in known[p] : row[k] # "none" /\ (row[k] = "active" => k \in store[p])

(* The requests in flight: of a process that serves; a create is alone     *)
(* with its key until it commits, and a revocation leaves the row revoked. *)
Requesting(s) ==
  req[s].pc # "idle" =>
    /\ req[s].by \in Procs /\ pc[req[s].by] = "serving" /\ req[s].key \in Keys
    /\ req[s].op = "create" =>
         IF req[s].pc = "committed" THEN row[req[s].key] # "none"
         ELSE /\ req[s].change /\ row[req[s].key] = "none"
              /\ \A r \in Slots \ {s} : req[r].pc # "idle" => req[r].key # req[s].key
    /\ req[s].op # "create" =>
         /\ row[req[s].key] # "none"
         /\ req[s].pc = "committed" \/ ~req[s].change => row[req[s].key] = "revoked"

InStep ==
  /\ ReceiverTypeOK
  /\ \A p \in Procs : Migrating(p) /\ Looping(p) /\ Keeping(p)
  /\ \A s \in Slots : Requesting(s)
-----------------------------------------------------------------------------
(* The actions, sorted by what they change.                                *)
Booting(p) == Boot(p) \/ Inspect(p) \/ ReadVersion(p) \/ Stamp(p) \/ TakeLock(p) \/ Upgrade(p) \/ Unlock(p)
Looked(p, l) == Tick(p, l) \/ EventEnds(p, l) \/ \E failed \in BOOLEAN : TickEnds(p, l, failed)
Asking == \E s \in Slots, p \in Procs, k \in Keys : CreateKey(s, p, k) \/ RevokeKey(s, p, k)
Answering == \E s \in Slots : Commit(s) \/ Rollback(s) \/ AfterCommit(s)
Ending(p) == Exit(p) \/ Crash(p)

LEMMA StepsOfReceiver ==
  ASSUME [ReceiverNext]_receiverVars
  PROVE  \/ \E p \in Procs : Booting(p) \/ DefaultProject(p) \/ Restore(p) \/ Restored(p) \/ Serve(p)
         \/ \E p \in Procs : BootFails(p) \/ Terminate(p) \/ SetEvent(p) \/ Ended(p) \/ Cancel(p) \/ DisposeEngine(p)
         \/ \E p \in Procs : Ending(p)
         \/ \E p \in Procs, l \in Loops : Looked(p, l)
         \/ Asking
         \/ Answering
         \/ MigratedOutside
         \/ UNCHANGED receiverVars
BY DEF ReceiverNext, Boots, Stops, Booting, Ending, Looked, Asking, Answering

LEMMA RequestTypes ==
  ASSUME ReceiverTypeOK, NEW s \in Slots
  PROVE  /\ req[s].pc \in {"idle", "changed", "committed"} /\ req[s].op \in {"none", "create", "revoke"}
         /\ req[s].by \in Procs \cup {Nobody} /\ req[s].key \in Keys \cup {Nobody} /\ req[s].change \in BOOLEAN
         /\ req[s] = [pc |-> req[s].pc, op |-> req[s].op, by |-> req[s].by, key |-> req[s].key, change |-> req[s].change]
BY DEF ReceiverTypeOK, Requests

LEMMA LoopsInOrder ==
  /\ Len(Order) \in Nat
  /\ \A i \in 1..Len(Order) : Order[i] \in Loops
  /\ \A l \in Loops : \E i \in 1..Len(Order) : Order[i] = l
<1>1. Order \in Seq(Loops) /\ Loops = {Order[i] : i \in DOMAIN Order}
  BY ReceiverAssumption
<1>2. Len(Order) \in Nat /\ DOMAIN Order = 1..Len(Order)
  BY <1>1
<1>3. QED
  BY <1>1, <1>2

LEMMA IdleSlotType ==
  IdleSlot \in Requests
  /\ IdleSlot.pc = "idle"
BY DEF IdleSlot, Requests

(* The schemas, as a record of two revisions.                              *)
LEMMA SchemaTypes ==
  /\ Latest \in Nat /\ Latest > 0 /\ OrgsAt <= Latest /\ KeysAt <= OrgsAt
  /\ Empty \in Schemas /\ Upgraded \in Schemas
  /\ Upgraded.tables = Latest /\ Upgraded.version = Latest /\ Empty.version = 0
  /\ \A s \in Schemas :
       /\ s.tables \in 0..Latest /\ s.version \in 0..Latest
       /\ [s EXCEPT !.version = Latest] \in Schemas
       /\ [s EXCEPT !.version = Latest].tables = s.tables
       /\ [s EXCEPT !.version = Latest].version = Latest
<1>1. Latest \in Nat /\ KeysAt \in 1..Latest /\ OrgsAt \in KeysAt..Latest
  BY ReceiverAssumption
<1>2. Latest > 0 /\ OrgsAt <= Latest /\ KeysAt <= OrgsAt
  BY <1>1
<1>3. 0 \in 0..Latest /\ Latest \in 0..Latest
  BY <1>1
<1>4. QED
  BY <1>1, <1>2, <1>3 DEF Schemas, Empty, Upgraded

(* What the end of a process leaves behind has its types.                  *)
LEMMA GoneTypes ==
  ASSUME ReceiverTypeOK, NEW p \in Procs, Gone(p), crashes' \in 0..MaxCrashes
  PROVE  ReceiverTypeOK'
<1>1. req' \in [Slots -> Requests]
  BY IdleSlotType DEF Gone, ReceiverTypeOK
<1>2. turn' \in [Procs -> 1..Len(Order) + 1]
  BY LoopsInOrder DEF Gone, ReceiverTypeOK
<1>3. loop' \in [Procs -> [Loops -> TaskStates]]
  BY DEF Gone, ReceiverTypeOK, TaskStates
<1>4. /\ mode' \in Modes /\ schema' \in Schemas /\ lock' \in Procs \cup {Nobody}
      /\ row' \in [Keys -> {"none", "active", "revoked"}]
      /\ pc' \in [Procs -> Stages]
      /\ seen' \in [Procs -> Schemas]
      /\ stop' \in [Procs -> SUBSET Evented]
      /\ todo' \in [Procs -> SUBSET Supplied] /\ store' \in [Procs -> SUBSET Keys] /\ known' \in [Procs -> SUBSET Keys]
  BY SchemaTypes DEF Gone, Go, ReceiverTypeOK, Stages
<1>5. QED
  BY <1>1, <1>2, <1>3, <1>4 DEF ReceiverTypeOK

(* What is remembered is a set of keys.                                    *)
LEMMA RememberedTypes ==
  ASSUME ReceiverTypeOK, NEW p \in Procs, NEW ks \in SUBSET Keys, Remembered(p, ks)
  PROVE  store' \in [Procs -> SUBSET Keys] /\ known' \in [Procs -> SUBSET Keys]
BY DEF Remembered, ReceiverTypeOK

LEMMA ReceiverTypes ==
  ASSUME InStep, [ReceiverNext]_receiverVars
  PROVE  ReceiverTypeOK'
<1>0. ReceiverTypeOK /\ \A s \in Slots : Requesting(s)
  BY DEF InStep
<1> USE <1>0 DEF database, life, keys, Stages, TaskStates
<1>1. ASSUME NEW p \in Procs, Booting(p) PROVE ReceiverTypeOK'
  <2> USE DEF Go, ReceiverTypeOK
  <2>1. CASE Boot(p) \/ Inspect(p) \/ ReadVersion(p)
    BY <2>1 DEF Boot, Inspect, ReadVersion
  <2>2. CASE Stamp(p) \/ Upgrade(p)
    <3>1. schema' \in Schemas
      BY <2>2, SchemaTypes DEF Stamp, Upgrade
    <3>2. QED
      BY <2>2, <3>1 DEF Stamp, Upgrade
  <2>3. CASE TakeLock(p)
    BY <2>3 DEF TakeLock
  <2>4. CASE Unlock(p)
    BY <2>4 DEF Unlock
  <2>5. QED
    BY <1>1, <2>1, <2>2, <2>3, <2>4 DEF Booting
<1>2. ASSUME NEW p \in Procs, DefaultProject(p) \/ Restored(p) \/ Serve(p) PROVE ReceiverTypeOK'
  <2>1. ASSUME NEW ls PROVE Create(p, ls) \in [Procs -> [Loops -> TaskStates]]
    BY DEF Create, ReceiverTypeOK
  <2>2. loop' \in [Procs -> [Loops -> TaskStates]]
    BY <1>2, <2>1 DEF DefaultProject, Restored, Serve, ReceiverTypeOK
  <2>3. pc' \in [Procs -> Stages]
    BY <1>2 DEF DefaultProject, Restored, Serve, Go, ReceiverTypeOK
  <2>4. seen' \in [Procs -> Schemas]
    BY <1>2, SchemaTypes DEF DefaultProject, Restored, Serve, ReceiverTypeOK
  <2>5. todo' \in [Procs -> SUBSET Supplied]
    <3>1. todo' = todo \/ todo' = [todo EXCEPT ![p] = Supplied]
      BY <1>2 DEF DefaultProject, Restored, Serve
    <3>2. QED
      BY <3>1 DEF ReceiverTypeOK
  <2>6. QED
    BY <1>2, <2>2, <2>3, <2>4, <2>5 DEF DefaultProject, Restored, Serve, ReceiverTypeOK
<1>3. ASSUME NEW p \in Procs, Restore(p) PROVE ReceiverTypeOK'
  <2>1. CASE schema.tables >= KeysAt
    <3>1. PICK k \in todo[p] :
            todo' = [todo EXCEPT ![p] = @ \ {k}] /\ Remembered(p, IF row[k] = "active" THEN {k} ELSE {})
      BY <1>3, <2>1 DEF Restore
    <3>2. k \in Keys /\ (IF row[k] = "active" THEN {k} ELSE {}) \subseteq Keys
      BY ReceiverAssumption DEF ReceiverTypeOK
    <3>3. store' \in [Procs -> SUBSET Keys] /\ known' \in [Procs -> SUBSET Keys]
      BY <3>1, <3>2, RememberedTypes
    <3>4. todo' \in [Procs -> SUBSET Supplied]
      BY <3>1 DEF ReceiverTypeOK
    <3>5. pc' = pc
      BY <1>3, <2>1 DEF Restore
    <3>6. QED
      BY <1>3, <3>3, <3>4, <3>5 DEF Restore, ReceiverTypeOK
  <2>2. CASE ~(schema.tables >= KeysAt)
    <3>1. UNCHANGED <<todo, store, known>> /\ pc' \in [Procs -> Stages]
      BY <1>3, <2>2 DEF Restore, Go, ReceiverTypeOK
    <3>2. QED
      BY <1>3, <3>1 DEF Restore, ReceiverTypeOK
  <2>3. QED
    BY <2>1, <2>2
<1>4. ASSUME NEW p \in Procs, BootFails(p) \/ Terminate(p) \/ DisposeEngine(p) PROVE ReceiverTypeOK'
  <2>1. pc' \in [Procs -> Stages]
    BY <1>4 DEF BootFails, Terminate, DisposeEngine, Go, ReceiverTypeOK
  <2>2. turn' \in [Procs -> 1..Len(Order) + 1]
    <3>1. 1 \in 1..Len(Order) + 1
      BY LoopsInOrder
    <3>2. turn' = turn \/ turn' = [turn EXCEPT ![p] = 1]
      BY <1>4 DEF BootFails, Terminate, DisposeEngine
    <3>3. QED
      BY <3>1, <3>2 DEF ReceiverTypeOK
  <2>3. crashes' \in 0..MaxCrashes
    BY <1>4, ReceiverAssumption DEF BootFails, Terminate, DisposeEngine, ReceiverTypeOK
  <2>4. QED
    BY <1>4, <2>1, <2>2, <2>3 DEF BootFails, Terminate, DisposeEngine, ReceiverTypeOK
<1>5. ASSUME NEW p \in Procs, SetEvent(p) \/ Ended(p) \/ Cancel(p) PROVE ReceiverTypeOK'
  <2>1. turn[p] \in 1..Len(Order)
    BY <1>5, LoopsInOrder DEF SetEvent, Ended, Cancel, Stopping, ReceiverTypeOK
  <2>2. CASE SetEvent(p)
    BY <2>1, <2>2, ReceiverAssumption DEF SetEvent, ReceiverTypeOK
  <2>3. CASE Ended(p)
    BY <2>1, <2>3, LoopsInOrder DEF Ended, ReceiverTypeOK
  <2>4. CASE Cancel(p)
    <3>1. turn' \in [Procs -> 1..Len(Order) + 1]
      BY <2>1, <2>4, LoopsInOrder DEF Cancel, ReceiverTypeOK
    <3>2. loop' \in [Procs -> [Loops -> TaskStates]]
      BY <2>4 DEF Cancel, ReceiverTypeOK
    <3>3. QED
      BY <2>4, <3>1, <3>2 DEF Cancel, ReceiverTypeOK
  <2>5. QED
    BY <1>5, <2>2, <2>3, <2>4
<1>6. ASSUME NEW p \in Procs, Ending(p) PROVE ReceiverTypeOK'
  <2>1. crashes' \in 0..MaxCrashes
    BY <1>6, ReceiverAssumption DEF Ending, Exit, Crash, ReceiverTypeOK
  <2>2. QED
    BY <1>6, <2>1, GoneTypes DEF Ending, Exit, Crash
<1>7. ASSUME NEW p \in Procs, NEW l \in Loops, Looked(p, l) PROVE ReceiverTypeOK'
  <2>1. loop' \in [Procs -> [Loops -> TaskStates]]
    <3>1. PICK st \in TaskStates : loop' = [loop EXCEPT ![p][l] = st]
      BY <1>7 DEF Looked, Tick, EventEnds, TickEnds
    <3>2. QED
      BY <3>1 DEF ReceiverTypeOK
  <2>2. QED
    BY <1>7, <2>1 DEF Looked, Tick, EventEnds, TickEnds, ReceiverTypeOK
<1>8. CASE Asking
  <2>1. req' \in [Slots -> Requests]
    <3>1. PICK s \in Slots, p \in Procs, k \in Keys : CreateKey(s, p, k) \/ RevokeKey(s, p, k)
      BY <1>8 DEF Asking
    <3>2. PICK op \in {"create", "revoke"}, change \in BOOLEAN : Request(s, op, p, k, change)
      BY <3>1 DEF CreateKey, RevokeKey
    <3>3. [pc |-> "changed", op |-> op, by |-> p, key |-> k, change |-> change] \in Requests
      BY DEF Requests
    <3>4. QED
      BY <3>2, <3>3 DEF Request, ReceiverTypeOK
  <2>2. QED
    BY <1>8, <2>1 DEF Asking, CreateKey, RevokeKey, ReceiverTypeOK
<1>9. ASSUME NEW s \in Slots, Commit(s) \/ Rollback(s) \/ AfterCommit(s) PROVE ReceiverTypeOK'
  <2>1. req' \in [Slots -> Requests]
    <3>1. CASE Commit(s)
      <4>1. [req[s] EXCEPT !.pc = "committed"] \in Requests
        BY DEF ReceiverTypeOK, Requests
      <4>2. QED
        BY <3>1, <4>1 DEF Commit, ReceiverTypeOK
    <3>2. CASE Rollback(s) \/ AfterCommit(s)
      BY <3>2, IdleSlotType DEF Rollback, AfterCommit, ReceiverTypeOK
    <3>3. QED
      BY <1>9, <3>1, <3>2
  <2>2. row' \in [Keys -> {"none", "active", "revoked"}]
    BY <1>9 DEF Commit, Rollback, AfterCommit, ReceiverTypeOK
  <2>3. store' \in [Procs -> SUBSET Keys] /\ known' \in [Procs -> SUBSET Keys]
    <3>1. CASE Commit(s) \/ Rollback(s)
      BY <3>1 DEF Commit, Rollback, ReceiverTypeOK
    <3>2. CASE AfterCommit(s) /\ req[s].op = "create"
      <4>1. req[s].by \in Procs /\ req[s].key \in Keys
        BY <3>2 DEF AfterCommit, Requesting
      <4>2. QED
        BY <3>2, <4>1, RememberedTypes DEF AfterCommit
    <3>3. CASE AfterCommit(s) /\ req[s].op # "create"
      <4>1. store' = [store EXCEPT ![req[s].by] = @ \ {req[s].key}] /\ known' = known
        BY <3>3 DEF AfterCommit, Forgotten
      <4>2. QED
        BY <4>1 DEF ReceiverTypeOK
    <3>4. QED
      BY <1>9, <3>1, <3>2, <3>3
  <2>4. QED
    BY <1>9, <2>1, <2>2, <2>3 DEF Commit, Rollback, AfterCommit, ReceiverTypeOK
<1>10. CASE UNCHANGED receiverVars
  BY <1>10 DEF receiverVars, ReceiverTypeOK
<1>11. CASE MigratedOutside
  BY <1>11, SchemaTypes DEF MigratedOutside, ReceiverTypeOK
<1>12. QED
  BY <1>1, <1>2, <1>3, <1>4, <1>5, <1>6, <1>7, <1>8, <1>9, <1>10, <1>11, StepsOfReceiver DEF Answering
-----------------------------------------------------------------------------
(* The migrations, of one process and in view of another one.              *)
LEMMA MigrationsStep ==
  ASSUME InStep, [ReceiverNext]_receiverVars, NEW q \in Procs
  PROVE  Migrating(q)'
<1>0. ReceiverTypeOK /\ (\A p \in Procs : Migrating(p)) /\ Nobody \notin Procs
  BY ReceiverAssumption DEF InStep
<1>a. pc \in [Procs -> Stages] /\ seen \in [Procs -> Schemas] /\ schema \in Schemas
  BY <1>0 DEF ReceiverTypeOK
<1> USE DEF database, life, keys, At, Go
<1>b. ASSUME mode' = mode, schema' = schema, pc'[q] = pc[q], seen'[q] = seen[q], pc[q] \in {"upgrade", "unlock"} => lock' = q
      PROVE  Migrating(q)'
  BY <1>0, <1>b DEF Migrating, Unversioned
<1>1. ASSUME NEW p \in Procs, Booting(p) PROVE Migrating(q)'
  <2>0. Migrating(p) /\ Migrating(q)
    BY <1>0
  <2>1. CASE Boot(p) \/ Inspect(p) \/ ReadVersion(p)
    BY <2>0, <1>a, <2>1, SchemaTypes DEF Boot, Inspect, ReadVersion, Migrating, Unversioned
  <2>2. CASE Stamp(p)
    BY <2>0, <1>a, <2>2, SchemaTypes DEF Stamp, Migrating, Unversioned
  <2>3. CASE TakeLock(p)
    BY <2>0, <1>0, <1>a, <2>3 DEF TakeLock, Migrating, Unversioned
  <2>4. CASE Upgrade(p)
    BY <2>0, <1>a, <2>4, SchemaTypes DEF Upgrade, Migrating, Unversioned
  <2>5. CASE Unlock(p)
    BY <2>0, <1>a, <2>5 DEF Unlock, Migrating, Unversioned
  <2>6. QED
    BY <1>1, <2>1, <2>2, <2>3, <2>4, <2>5 DEF Booting
<1>2. ASSUME NEW p \in Procs, DefaultProject(p) \/ Restore(p) \/ Restored(p) \/ Serve(p) PROVE Migrating(q)'
  BY <1>0, <1>a, <1>2 DEF DefaultProject, EnsureDefaultProject, Restore, Restored, Serve, Migrating, Unversioned
<1>3. ASSUME NEW p \in Procs, BootFails(p) \/ Terminate(p) \/ SetEvent(p) \/ Ended(p) \/ Cancel(p) \/ DisposeEngine(p)
      PROVE  Migrating(q)'
  BY <1>0, <1>a, <1>3 DEF BootFails, Terminate, SetEvent, Ended, Cancel, DisposeEngine, Migrating, Unversioned
<1>4. ASSUME NEW p \in Procs, Ending(p) PROVE Migrating(q)'
  BY <1>0, <1>a, <1>4 DEF Ending, Exit, Crash, Gone, Migrating, Unversioned
<1>5. ASSUME NEW p \in Procs, NEW l \in Loops, Looked(p, l) PROVE Migrating(q)'
  BY <1>b, <1>0, <1>5 DEF Looked, Tick, EventEnds, TickEnds, Migrating
<1>6. CASE Asking \/ Answering
  BY <1>b, <1>0, <1>6 DEF Asking, Answering, CreateKey, RevokeKey, Commit, Rollback, AfterCommit, Migrating
<1>7. CASE UNCHANGED receiverVars
  BY <1>b, <1>0, <1>7 DEF receiverVars, Migrating
<1>8. CASE MigratedOutside
  BY <1>0, <1>a, <1>8, SchemaTypes DEF MigratedOutside, Migrating, Unversioned
<1>9. QED
  BY <1>1, <1>2, <1>3, <1>4, <1>5, <1>6, <1>7, <1>8, StepsOfReceiver
-----------------------------------------------------------------------------
(* The loops of a process whose life goes on elsewhere.                    *)
LEMMA LoopsKept ==
  ASSUME NEW q \in Procs, Looping(q), pc'[q] = pc[q], loop'[q] = loop[q], stop'[q] = stop[q], turn'[q] = turn[q]
  PROVE  Looping(q)'
BY DEF Looping, Created, TaskRuns

(* The loops of the process that takes a step of its boot.                 *)
LEMMA LoopsCreated ==
  ASSUME ReceiverTypeOK, NEW p \in Procs, Looping(p),
         DefaultProject(p) \/ Restore(p) \/ Restored(p) \/ Serve(p)
  PROVE  Looping(p)'
<1>0. /\ pc \in [Procs -> Stages] /\ loop \in [Procs -> [Loops -> TaskStates]]
      /\ stop \in [Procs -> SUBSET Evented] /\ turn \in [Procs -> 1..Len(Order) + 1]
  BY DEF ReceiverTypeOK
<1> USE DEF Looping, Created, TaskRuns, At, Go
<1>1. ASSUME NEW ls \in SUBSET Loops, loop' = Create(p, ls), NEW l \in Loops
      PROVE  loop'[p][l] = IF l \in ls THEN IF l \in Disabled THEN "done" ELSE "sleep" ELSE loop[p][l]
  BY <1>0, <1>1 DEF Create
<1>2. Early \subseteq Loops /\ Middle \subseteq Loops /\ Late \subseteq Loops /\ Loops = Early \cup Middle \cup Late
  BY DEF Loops
<1>3. CASE DefaultProject(p)
  <2>1. CASE mode.cloud \/ EnsureDefaultProject
    <3>1. loop' = Create(p, Early) /\ pc'[p] = "restore" /\ stop'[p] = stop[p] /\ pc[p] = "project"
      BY <1>0, <1>3, <2>1 DEF DefaultProject
    <3>2. \A l \in Loops : loop'[p][l] = IF l \in Early THEN IF l \in Disabled THEN "done" ELSE "sleep" ELSE loop[p][l]
      BY <1>1, <1>2, <3>1
    <3>3. QED
      BY <3>1, <3>2, <1>2
  <2>2. CASE ~(mode.cloud \/ EnsureDefaultProject)
    BY <1>0, <1>3, <2>2 DEF DefaultProject
  <2>3. QED
    BY <2>1, <2>2
<1>4. CASE Restore(p)
  BY <1>0, <1>4 DEF Restore
<1>5. CASE Restored(p)
  <2>1. loop' = Create(p, Middle) /\ pc'[p] = "banner" /\ stop'[p] = stop[p] /\ pc[p] = "restore"
    BY <1>0, <1>5 DEF Restored
  <2>2. \A l \in Loops : loop'[p][l] = IF l \in Middle THEN IF l \in Disabled THEN "done" ELSE "sleep" ELSE loop[p][l]
    BY <1>1, <1>2, <2>1
  <2>3. QED
    BY <2>1, <2>2, <1>2
<1>6. CASE Serve(p)
  <2>1. loop' = Create(p, Late) /\ pc'[p] = "serving" /\ stop'[p] = stop[p] /\ pc[p] = "banner"
    BY <1>0, <1>6 DEF Serve
  <2>2. \A l \in Loops : loop'[p][l] = IF l \in Late THEN IF l \in Disabled THEN "done" ELSE "sleep" ELSE loop[p][l]
    BY <1>1, <1>2, <2>1
  <2>3. QED
    BY <2>1, <2>2, <1>2
<1>7. QED
  BY <1>3, <1>4, <1>5, <1>6

(* The loops of the process that shuts down: those before its turn have    *)
(* ended, and the order names them all.                                    *)
LEMMA LoopsStopped ==
  ASSUME ReceiverTypeOK, NEW p \in Procs, Looping(p),
         BootFails(p) \/ Terminate(p) \/ SetEvent(p) \/ Ended(p) \/ Cancel(p) \/ DisposeEngine(p)
  PROVE  Looping(p)'
<1>0. /\ pc \in [Procs -> Stages] /\ loop \in [Procs -> [Loops -> TaskStates]]
      /\ stop \in [Procs -> SUBSET Evented] /\ turn \in [Procs -> 1..Len(Order) + 1] /\ turn[p] \in 1..Len(Order) + 1
      /\ Len(Order) \in Nat
  BY LoopsInOrder DEF ReceiverTypeOK
<1> USE DEF Looping, At, Go
<1>1. CASE BootFails(p)
  BY <1>0, <1>1 DEF BootFails
<1>2. CASE Terminate(p)
  <2>1. pc'[p] = "stopping" /\ turn'[p] = 1
    BY <1>0, <1>2 DEF Terminate
  <2>2. QED
    BY <2>1
<1>3. CASE SetEvent(p)
  BY <1>0, <1>3 DEF SetEvent, Stopping
<1>4. CASE Ended(p)
  <2>1. pc'[p] = "stopping" /\ turn'[p] = turn[p] + 1 /\ loop' = loop /\ loop[p][Order[turn[p]]] = "done" /\ pc[p] = "stopping"
    BY <1>0, <1>4 DEF Ended, Stopping, Turn
  <2>2. \A i \in 1..turn'[p] - 1 : i \in 1..turn[p] - 1 \/ i = turn[p]
    BY <1>0, <2>1
  <2>3. QED
    BY <2>1, <2>2
<1>5. CASE Cancel(p)
  <2>1. /\ pc'[p] = "stopping" /\ turn'[p] = turn[p] + 1 /\ pc[p] = "stopping" /\ turn[p] \in 1..Len(Order)
        /\ loop' = [loop EXCEPT ![p][Order[turn[p]]] = "done"]
    BY <1>0, <1>5 DEF Cancel, Stopping, Turn
  <2>2. \A i \in 1..turn'[p] - 1 : i \in 1..Len(Order) /\ (i \in 1..turn[p] - 1 \/ i = turn[p])
    BY <1>0, <2>1
  <2>3. \A l \in Loops : loop'[p][l] = IF l = Order[turn[p]] THEN "done" ELSE loop[p][l]
    BY <1>0, <2>1
  <2>4. \A i \in 1..turn'[p] - 1 : loop'[p][Order[i]] = "done"
    BY <2>1, <2>2, <2>3, LoopsInOrder
  <2>5. QED
    BY <2>1, <2>4
<1>6. CASE DisposeEngine(p)
  <2>1. pc'[p] = "dispose" /\ pc[p] = "stopping" /\ loop' = loop /\ stop' = stop /\ turn[p] > Len(Order)
    BY <1>0, <1>6 DEF DisposeEngine
  <2>2. \A i \in 1..Len(Order) : i \in 1..turn[p] - 1
    BY <1>0, <2>1
  <2>3. \A l \in Loops : loop[p][l] = "done"
    BY <2>1, <2>2, LoopsInOrder
  <2>4. QED
    BY <2>1, <2>3
<1>7. QED
  BY <1>1, <1>2, <1>3, <1>4, <1>5, <1>6

(* A loop runs, waits and ends: its steps create no loop, and end one only *)
(* in a shutdown.                                                          *)
LEMMA LoopsRun ==
  ASSUME ReceiverTypeOK, NEW p \in Procs, Looping(p), NEW l \in Loops, Looked(p, l)
  PROVE  Looping(p)'
<1>0. loop \in [Procs -> [Loops -> TaskStates]] /\ Len(Order) \in Nat /\ turn[p] \in 1..Len(Order) + 1
  BY LoopsInOrder DEF ReceiverTypeOK
<1>1. pc' = pc /\ stop' = stop /\ turn' = turn
  BY DEF Looked, Tick, EventEnds, TickEnds
<1>2. PICK st \in {"sleep", "tick", "done"} :
        /\ loop' = [loop EXCEPT ![p][l] = st] /\ loop[p][l] \in {"sleep", "tick"}
        /\ st = "done" => l \in stop[p]
  BY DEF Looked, Tick, EventEnds, TickEnds
<1>3. \A o \in Loops : loop'[p][o] = IF o = l THEN st ELSE loop[p][o]
  BY <1>0, <1>2
<1>4. Runs(p) /\ pc[p] \in Stages
  BY DEF Looked, Tick, EventEnds, TickEnds, ReceiverTypeOK
<1>5. CASE pc[p] \in {"inspect", "stamp", "stamping", "lock", "upgrade", "unlock", "project", "dispose"}
  BY <1>2, <1>5 DEF Looping
<1>6. CASE pc[p] \in {"restore", "banner", "serving"}
  BY <1>1, <1>2, <1>3, <1>6 DEF Looping, Created, TaskRuns
<1>7. CASE pc[p] = "stopping"
  <2>1. \A i \in 1..turn[p] - 1 : Order[i] \in Loops
    BY <1>0, LoopsInOrder
  <2>2. QED
    BY <1>1, <1>2, <1>3, <1>7, <2>1 DEF Looping
<1>8. QED
  BY <1>4, <1>5, <1>6, <1>7 DEF Runs, Stages

LEMMA LoopsStep ==
  ASSUME InStep, [ReceiverNext]_receiverVars, NEW q \in Procs
  PROVE  Looping(q)'
<1>0. ReceiverTypeOK /\ Looping(q) /\ \A p \in Procs : Looping(p)
  BY DEF InStep
<1>a. /\ pc \in [Procs -> Stages] /\ loop \in [Procs -> [Loops -> TaskStates]]
      /\ stop \in [Procs -> SUBSET Evented] /\ turn \in [Procs -> 1..Len(Order) + 1]
  BY <1>0 DEF ReceiverTypeOK
<1> USE DEF database, life, keys, At, Go
<1>1. ASSUME NEW p \in Procs, Booting(p) PROVE Looping(q)'
  <2>1. /\ loop' = loop /\ stop' = stop /\ turn' = turn
        /\ \E st \in {"inspect", "stamp", "stamping", "lock", "upgrade", "unlock", "project", "clash"} : pc' = [pc EXCEPT ![p] = st]
        /\ pc[p] \in {"down", "inspect", "stamp", "stamping", "lock", "upgrade", "unlock"}
    BY <1>1 DEF Booting, Boot, Inspect, ReadVersion, Stamp, TakeLock, Upgrade, Unlock
  <2>2. CASE q = p
    BY <1>0, <1>a, <2>1, <2>2 DEF Looping
  <2>3. CASE q # p
    BY <1>0, <1>a, <2>1, <2>3, LoopsKept
  <2>4. QED
    BY <2>2, <2>3
<1>2. ASSUME NEW p \in Procs, DefaultProject(p) \/ Restore(p) \/ Restored(p) \/ Serve(p) PROVE Looping(q)'
  <2>1. CASE q = p
    BY <1>0, <1>2, <2>1, LoopsCreated
  <2>2. CASE q # p
    <3>1. pc'[q] = pc[q] /\ loop'[q] = loop[q] /\ stop'[q] = stop[q] /\ turn'[q] = turn[q]
      BY <1>a, <1>2, <2>2 DEF DefaultProject, Restore, Restored, Serve, Create
    <3>2. QED
      BY <1>0, <3>1, LoopsKept
  <2>3. QED
    BY <2>1, <2>2
<1>3. ASSUME NEW p \in Procs, BootFails(p) \/ Terminate(p) \/ SetEvent(p) \/ Ended(p) \/ Cancel(p) \/ DisposeEngine(p)
      PROVE  Looping(q)'
  <2>1. CASE q = p
    BY <1>0, <1>3, <2>1, LoopsStopped
  <2>2. CASE q # p
    <3>1. pc'[q] = pc[q] /\ loop'[q] = loop[q] /\ stop'[q] = stop[q] /\ turn'[q] = turn[q]
      BY <1>a, <1>3, <2>2 DEF BootFails, Terminate, SetEvent, Ended, Cancel, DisposeEngine
    <3>2. QED
      BY <1>0, <3>1, LoopsKept
  <2>3. QED
    BY <2>1, <2>2
<1>4. ASSUME NEW p \in Procs, Ending(p) PROVE Looping(q)'
  <2>1. Gone(p)
    BY <1>4 DEF Ending, Exit, Crash
  <2>2. CASE q = p
    BY <1>a, <2>1, <2>2 DEF Gone, Looping
  <2>3. CASE q # p
    <3>1. pc'[q] = pc[q] /\ loop'[q] = loop[q] /\ stop'[q] = stop[q] /\ turn'[q] = turn[q]
      BY <1>a, <2>1, <2>3 DEF Gone
    <3>2. QED
      BY <1>0, <3>1, LoopsKept
  <2>4. QED
    BY <2>2, <2>3
<1>5. ASSUME NEW p \in Procs, NEW l \in Loops, Looked(p, l) PROVE Looping(q)'
  <2>1. CASE q = p
    BY <1>0, <1>5, <2>1, LoopsRun
  <2>2. CASE q # p
    <3>1. pc'[q] = pc[q] /\ loop'[q] = loop[q] /\ stop'[q] = stop[q] /\ turn'[q] = turn[q]
      BY <1>a, <1>5, <2>2 DEF Looked, Tick, EventEnds, TickEnds
    <3>2. QED
      BY <1>0, <3>1, LoopsKept
  <2>3. QED
    BY <2>1, <2>2
<1>6. CASE Asking \/ Answering \/ MigratedOutside \/ UNCHANGED receiverVars
  <2>1. pc' = pc /\ loop' = loop /\ stop' = stop /\ turn' = turn
    BY <1>6 DEF MigratedOutside, Asking, Answering, CreateKey, RevokeKey, Commit, Rollback, AfterCommit, receiverVars
  <2>2. QED
    BY <1>0, <2>1, LoopsKept
<1>7. QED
  BY <1>1, <1>2, <1>3, <1>4, <1>5, <1>6, StepsOfReceiver
-----------------------------------------------------------------------------
(* Keys and requests stay in step when neither changes, and nobody stops   *)
(* serving who has a request.                                              *)
LEMMA KeysKept ==
  ASSUME InStep, row' = row, req' = req,
         \A p \in Procs : pc[p] = "serving" /\ pc'[p] # "serving" => \A s \in Slots : req[s].by # p
  PROVE  \A s \in Slots : Requesting(s)'
BY DEF InStep, Requesting

(* An active key that a process is given is put in its keystore.           *)
LEMMA GivenKeys ==
  ASSUME ReceiverTypeOK, NEW p \in Procs, NEW q \in Procs, Keeping(q), NEW ks \in SUBSET Keys,
         Remembered(p, ks), \A k \in ks : row[k] # "none", row' = row
  PROVE  Keeping(q)'
BY DEF ReceiverTypeOK, Remembered, Keeping

(* Requests change nobody else's.                                          *)
LEMMA OneRequest ==
  ASSUME ReceiverTypeOK, NEW s \in Slots, NEW r \in Requests, req' = [req EXCEPT ![s] = r], NEW o \in Slots
  PROVE  req'[o] = IF o = s THEN r ELSE req[o]
BY DEF ReceiverTypeOK

LEMMA AskingStep ==
  ASSUME InStep, NEW s \in Slots, NEW p \in Procs, NEW k \in Keys, CreateKey(s, p, k) \/ RevokeKey(s, p, k)
  PROVE  /\ \A o \in Slots : Requesting(o)'
         /\ \A q \in Procs : Keeping(q)'
<1>0. ReceiverTypeOK /\ (\A o \in Slots : Requesting(o)) /\ (\A q \in Procs : Keeping(q)) /\ row[k] \in {"none", "active", "revoked"}
  BY DEF InStep, ReceiverTypeOK
<1>1. row' = row /\ pc' = pc /\ store' = store /\ known' = known /\ pc[p] = "serving" /\ req[s].pc = "idle"
  BY IdleSlotType DEF CreateKey, RevokeKey, life, At
<1>2. \A q \in Procs : Keeping(q)'
  BY <1>0, <1>1 DEF Keeping
<1>3. ASSUME NEW op \in {"create", "revoke"}, NEW change \in BOOLEAN, Request(s, op, p, k, change), NEW o \in Slots
      PROVE  req'[o] = IF o = s THEN [pc |-> "changed", op |-> op, by |-> p, key |-> k, change |-> change] ELSE req[o]
  BY <1>0, <1>3 DEF Request, ReceiverTypeOK
<1>4. CASE CreateKey(s, p, k)
  <2>1. /\ \A o \in Slots : req'[o] = IF o = s THEN [pc |-> "changed", op |-> "create", by |-> p, key |-> k, change |-> TRUE] ELSE req[o]
        /\ row[k] = "none" /\ \A o \in Slots : req[o].key # k
    BY <1>3, <1>4 DEF CreateKey
  <2>2. QED
    BY <1>0, <1>1, <1>2, <2>1 DEF Requesting
<1>5. CASE RevokeKey(s, p, k)
  <2>1. /\ \A o \in Slots : req'[o] = IF o = s THEN [pc |-> "changed", op |-> "revoke", by |-> p, key |-> k, change |-> row[k] = "active"] ELSE req[o]
        /\ row[k] # "none"
    BY <1>3, <1>5 DEF RevokeKey
  <2>2. row[k] # "active" => row[k] = "revoked"
    BY <1>0, <2>1
  <2>3. Requesting(s)'
    <3>1. /\ req'[s].pc = "changed" /\ req'[s].op = "revoke" /\ req'[s].by = p /\ req'[s].key = k
          /\ ~req'[s].change => row[k] # "active"
      <4> DEFINE r == [pc |-> "changed", op |-> "revoke", by |-> p, key |-> k, change |-> row[k] = "active"]
      <4>1. req'[s] = r
        BY <2>1
      <4>2. r.pc = "changed" /\ r.op = "revoke" /\ r.by = p /\ r.key = k /\ (~r.change => row[k] # "active")
        OBVIOUS
      <4>3. QED
        BY <4>1, <4>2
    <3>2. QED
      BY <1>1, <2>1, <2>2, <3>1 DEF Requesting
  <2>4. ASSUME NEW o \in Slots, o # s PROVE Requesting(o)'
    <3>1. Requesting(o) /\ req'[o] = req[o] /\ req'[s].key = k
      BY <1>0, <2>1, <2>4
    <3>2. \A r \in Slots \ {s} : req'[r] = req[r]
      BY <2>1
    <3>3. QED
      BY <1>1, <2>1, <2>4, <3>1, <3>2 DEF Requesting
  <2>5. QED
    BY <1>2, <2>3, <2>4
<1>6. QED
  BY <1>4, <1>5

LEMMA CommitStep ==
  ASSUME InStep, NEW s \in Slots, Commit(s)
  PROVE  /\ \A o \in Slots : Requesting(o)'
         /\ \A q \in Procs : Keeping(q)'
<1>0. ReceiverTypeOK /\ (\A o \in Slots : Requesting(o)) /\ (\A q \in Procs : Keeping(q))
  BY DEF InStep
<1> DEFINE k == req[s].key
<1>1. /\ pc' = pc /\ store' = store /\ known' = known /\ req[s].pc = "changed" /\ k \in Keys
      /\ row' = [row EXCEPT ![k] = IF ~req[s].change THEN @ ELSE IF req[s].op = "create" THEN "active" ELSE "revoked"]
  BY <1>0 DEF Commit, life, Requesting
<1>2. \A o \in Slots : /\ req'[o].by = req[o].by /\ req'[o].key = req[o].key /\ req'[o].op = req[o].op
                        /\ req'[o].change = req[o].change /\ req'[o].pc = IF o = s THEN "committed" ELSE req[o].pc
  BY <1>0 DEF Commit, ReceiverTypeOK, Requests
<1>3. \A j \in Keys : row'[j] = IF j # k \/ ~req[s].change THEN row[j] ELSE IF req[s].op = "create" THEN "active" ELSE "revoked"
  BY <1>0, <1>1 DEF ReceiverTypeOK
<1>4. Requesting(s)
  BY <1>0
<1>5. ASSUME NEW o \in Slots PROVE Requesting(o)'
  <2>1. Requesting(o)
    BY <1>0
  <2>2. CASE o = s
    BY <1>1, <1>2, <1>3, <1>4, <2>2 DEF Requesting
  <2>3. CASE o # s
    BY <1>1, <1>2, <1>3, <1>4, <2>1, <2>3 DEF Requesting
  <2>4. QED
    BY <2>2, <2>3
<1>6. ASSUME NEW q \in Procs PROVE Keeping(q)'
  <2>1. Keeping(q) /\ known[q] \subseteq Keys
    BY <1>0 DEF ReceiverTypeOK
  <2>2. req[s].op = "create" => row[k] = "none" /\ k \notin known[q]
    BY <1>1, <1>4, <2>1 DEF Requesting, Keeping
  <2>3. QED
    BY <1>1, <1>3, <2>1, <2>2 DEF Keeping
<1>7. QED
  BY <1>5, <1>6

LEMMA AnswerStep ==
  ASSUME InStep, NEW s \in Slots, Rollback(s) \/ AfterCommit(s)
  PROVE  /\ \A o \in Slots : Requesting(o)'
         /\ \A q \in Procs : Keeping(q)'
<1>0. ReceiverTypeOK /\ (\A o \in Slots : Requesting(o)) /\ (\A q \in Procs : Keeping(q))
  BY DEF InStep
<1>1. row' = row /\ pc' = pc /\ req' = [req EXCEPT ![s] = IdleSlot]
  BY DEF Rollback, AfterCommit, life
<1>2. \A o \in Slots : req'[o] = IF o = s THEN IdleSlot ELSE req[o]
  BY <1>0, <1>1, OneRequest, IdleSlotType
<1>3. ASSUME NEW o \in Slots PROVE Requesting(o)'
  <2>1. Requesting(o)
    BY <1>0
  <2>2. QED
    BY <1>1, <1>2, <2>1, IdleSlotType DEF Requesting
<1>4. ASSUME NEW q \in Procs PROVE Keeping(q)'
  <2>1. Requesting(s) /\ Keeping(q)
    BY <1>0
  <2>2. CASE Rollback(s)
    BY <1>1, <2>1, <2>2 DEF Rollback, Keeping
  <2>3. CASE AfterCommit(s) /\ req[s].op = "create"
    <3>1. req[s].by \in Procs /\ {req[s].key} \in SUBSET Keys /\ row[req[s].key] # "none"
      BY <2>1, <2>3 DEF AfterCommit, Requesting
    <3>2. Remembered(req[s].by, {req[s].key})
      BY <2>3 DEF AfterCommit
    <3>3. QED
      BY <1>0, <1>1, <2>1, <3>1, <3>2, GivenKeys
  <2>4. CASE AfterCommit(s) /\ req[s].op # "create"
    <3>1. req[s].by \in Procs /\ row[req[s].key] = "revoked"
      BY <2>1, <2>4 DEF AfterCommit, Requesting
    <3>2. store' = [store EXCEPT ![req[s].by] = @ \ {req[s].key}] /\ known' = known
      BY <2>4 DEF AfterCommit, Forgotten
    <3>3. store'[q] \subseteq store[q] /\ \A k \in store[q] : row[k] = "active" => k \in store'[q]
      BY <1>0, <3>1, <3>2 DEF ReceiverTypeOK
    <3>4. QED
      BY <1>1, <2>1, <3>2, <3>3 DEF Keeping
  <2>5. QED
    BY <2>2, <2>3, <2>4
<1>5. QED
  BY <1>3, <1>4

(* A process that ends takes its requests and its keystore with it.        *)
LEMMA EndingStep ==
  ASSUME InStep, NEW p \in Procs, Ending(p)
  PROVE  /\ \A o \in Slots : Requesting(o)'
         /\ \A q \in Procs : Keeping(q)'
<1>0. ReceiverTypeOK /\ (\A o \in Slots : Requesting(o)) /\ (\A q \in Procs : Keeping(q))
  BY DEF InStep
<1>1. Gone(p)
  BY DEF Ending, Exit, Crash
<1>2. /\ row' = row /\ \A o \in Slots : req'[o] = IF req[o].by = p THEN IdleSlot ELSE req[o]
      /\ \A q \in Procs : q # p => pc'[q] = pc[q] /\ store'[q] = store[q] /\ known'[q] = known[q]
      /\ store'[p] = {} /\ known'[p] = {}
  BY <1>0, <1>1 DEF Gone, Go, ReceiverTypeOK
<1>3. ASSUME NEW o \in Slots PROVE Requesting(o)'
  <2>1. Requesting(o)
    BY <1>0
  <2>2. QED
    BY <1>2, <2>1, IdleSlotType DEF Requesting
<1>4. ASSUME NEW q \in Procs PROVE Keeping(q)'
  BY <1>0, <1>2 DEF Keeping
<1>5. QED
  BY <1>3, <1>4

(* The restore takes the secrets of active keys only.                      *)
LEMMA RestoreStep ==
  ASSUME InStep, NEW p \in Procs, Restore(p), NEW q \in Procs
  PROVE  Keeping(q)'
<1>0. ReceiverTypeOK /\ Keeping(q)
  BY DEF InStep
<1>1. CASE schema.tables >= KeysAt
  <2>1. PICK k \in todo[p] : Remembered(p, IF row[k] = "active" THEN {k} ELSE {})
    BY <1>1 DEF Restore
  <2> DEFINE ks == IF row[k] = "active" THEN {k} ELSE {}
  <2>2. ks \in SUBSET Keys /\ \A j \in ks : row[j] # "none"
    BY <1>0, ReceiverAssumption DEF ReceiverTypeOK
  <2>3. row' = row /\ Remembered(p, ks)
    BY <2>1 DEF Restore
  <2>4. QED
    BY <1>0, <2>2, <2>3, GivenKeys
<1>2. CASE ~(schema.tables >= KeysAt)
  BY <1>0, <1>2 DEF Restore, Keeping
<1>3. QED
  BY <1>1, <1>2

LEMMA KeysStep ==
  ASSUME InStep, [ReceiverNext]_receiverVars
  PROVE  /\ \A s \in Slots : Requesting(s)'
         /\ \A q \in Procs : Keeping(q)'
<1>0. ReceiverTypeOK /\ \A q \in Procs : Keeping(q)
  BY DEF InStep
<1>a. pc \in [Procs -> Stages]
  BY <1>0 DEF ReceiverTypeOK
<1>1. ASSUME row' = row, store' = store, known' = known PROVE \A q \in Procs : Keeping(q)'
  BY <1>0, <1>1 DEF Keeping
<1> USE DEF database, life, keys, At, Go
<1>2. ASSUME NEW p \in Procs, Booting(p) \/ DefaultProject(p) \/ Restored(p) \/ Serve(p)
      PROVE  /\ \A s \in Slots : Requesting(s)'
             /\ \A q \in Procs : Keeping(q)'
  <2>1. row' = row /\ req' = req /\ store' = store /\ known' = known
    BY <1>2 DEF Booting, Boot, Inspect, ReadVersion, Stamp, TakeLock, Upgrade, Unlock, DefaultProject, Restored, Serve
  <2>2. \A q \in Procs : pc[q] = "serving" => pc'[q] = "serving"
    BY <1>a, <1>2 DEF Booting, Boot, Inspect, ReadVersion, Stamp, TakeLock, Upgrade, Unlock, DefaultProject, Restored, Serve
  <2>3. QED
    BY <1>1, <2>1, <2>2, KeysKept
<1>3. ASSUME NEW p \in Procs, Restore(p)
      PROVE  /\ \A s \in Slots : Requesting(s)'
             /\ \A q \in Procs : Keeping(q)'
  <2>1. row' = row /\ req' = req /\ \A q \in Procs : pc[q] = "serving" => pc'[q] = "serving"
    BY <1>a, <1>3 DEF Restore
  <2>2. QED
    BY <1>3, <2>1, RestoreStep, KeysKept
<1>4. ASSUME NEW p \in Procs, BootFails(p) \/ Terminate(p) \/ SetEvent(p) \/ Ended(p) \/ Cancel(p) \/ DisposeEngine(p)
      PROVE  /\ \A s \in Slots : Requesting(s)'
             /\ \A q \in Procs : Keeping(q)'
  <2>1. row' = row /\ req' = req /\ store' = store /\ known' = known
    BY <1>4 DEF BootFails, Terminate, SetEvent, Ended, Cancel, DisposeEngine
  <2>2. \A q \in Procs : pc[q] = "serving" /\ pc'[q] # "serving" => \A s \in Slots : req[s].by # q
    BY <1>a, <1>4 DEF BootFails, Terminate, SetEvent, Ended, Cancel, DisposeEngine
  <2>3. QED
    BY <1>1, <2>1, <2>2, KeysKept
<1>5. ASSUME NEW p \in Procs, NEW l \in Loops, Looked(p, l)
      PROVE  /\ \A s \in Slots : Requesting(s)'
             /\ \A q \in Procs : Keeping(q)'
  <2>1. row' = row /\ req' = req /\ store' = store /\ known' = known /\ pc' = pc
    BY <1>5 DEF Looked, Tick, EventEnds, TickEnds
  <2>2. QED
    BY <1>1, <2>1, KeysKept
<1>6. CASE UNCHANGED receiverVars \/ MigratedOutside
  BY <1>1, <1>6, KeysKept DEF receiverVars, MigratedOutside
<1>7. QED
  BY <1>2, <1>3, <1>4, <1>5, <1>6, EndingStep, AskingStep, CommitStep, AnswerStep, StepsOfReceiver DEF Asking, Answering
-----------------------------------------------------------------------------
LEMMA InStepInitially ==
  ASSUME ReceiverInit
  PROVE  InStep
<1> USE DEF ReceiverInit
<1>1. ReceiverTypeOK
  <2>1. 1 \in 1..Len(Order) + 1 /\ 0 \in 0..MaxCrashes
    BY LoopsInOrder, ReceiverAssumption
  <2>2. mode \in Modes /\ schema \in Schemas
    BY ReceiverAssumption
  <2>3. QED
    BY <2>1, <2>2, IdleSlotType, SchemaTypes DEF ReceiverTypeOK, Stages, TaskStates
<1>2. \A p \in Procs : Migrating(p) /\ Looping(p) /\ Keeping(p)
  BY DEF Migrating, Looping, Keeping
<1>3. \A s \in Slots : Requesting(s)
  BY IdleSlotType DEF Requesting
<1>4. QED
  BY <1>1, <1>2, <1>3 DEF InStep

(* The inductive invariant of the receiver process: who holds the lock of  *)
(* the migrations and from which version they go (main.py, alembic/env.py),*)
(* which loops run at each point of the lifespan, and that what a process  *)
(* keeps in memory of the signing keys was committed.                      *)
THEOREM ReceiverInStep == ReceiverSpec => []InStep
<1>1. ReceiverInit => InStep
  BY InStepInitially
<1>2. InStep /\ [ReceiverNext]_receiverVars => InStep'
  BY ReceiverTypes, MigrationsStep, LoopsStep, KeysStep DEF InStep
<1>3. QED
  BY <1>1, <1>2, PTL DEF ReceiverSpec

(* The receiver's state has its types, for any number of processes, keys,  *)
(* loops and requests at a time.                                           *)
THEOREM ReceiverTypeCorrect == ReceiverSpec => []ReceiverTypeOK
<1>1. InStep => ReceiverTypeOK
  BY DEF InStep
<1>2. QED
  BY <1>1, ReceiverInStep, PTL

(* main.py, api/health.py: the loops run while the process serves, and     *)
(* only then, and none outlives the engine; what serves is ready where the *)
(* receiver migrates by itself, and otherwise when the deploy step has;    *)
(* until then it serves and its loops run on the schema they found, if a   *)
(* default project is possible or none is wanted; a boot meets another one *)
(* in the version table only where a database without versions is stamped. *)
THEOREM LoopsFollowServiceHolds == ReceiverSpec => []LoopsFollowService
<1>1. InStep => LoopsFollowService
  <2> SUFFICES ASSUME InStep, NEW p \in Procs
               PROVE  /\ At(p, "serving") /\ Disabled = {} => (mode.auto \/ SchemaIsCurrent => Ready(p))
                      /\ Runs(p) /\ (\E l \in Loops : loop[p][l] # "none") =>
                           /\ mode.auto => SchemaIsCurrent
                           /\ ~mode.cloud => EnsureDefaultProject
                      /\ At(p, "dispose") => \A l \in Loops : loop[p][l] = "done"
                      /\ At(p, "clash") => mode.auto /\ Unversioned(seen[p])
    BY DEF LoopsFollowService
  <2>1. Migrating(p) /\ Looping(p) /\ pc[p] \in Stages /\ Checked \subseteq Loops
    BY ReceiverAssumption DEF InStep, ReceiverTypeOK
  <2>2. At(p, "serving") /\ Disabled = {} => (mode.auto \/ SchemaIsCurrent => Ready(p))
    BY <2>1 DEF At, Ready, SchemaIsCurrent, Migrating, Looping, Created
  <2>3. Runs(p) /\ (\E l \in Loops : loop[p][l] # "none") =>
          /\ mode.auto => SchemaIsCurrent
          /\ ~mode.cloud => EnsureDefaultProject
    BY <2>1 DEF Runs, SchemaIsCurrent, EnsureDefaultProject, Migrating, Looping, Stages
  <2>4. QED
    BY <2>1, <2>2, <2>3 DEF At, Migrating, Looping
<1>2. QED
  BY <1>1, ReceiverInStep, PTL

(* webhooks/keystore.py: memory and database stay in step, whatever        *)
(* requests fail or processes crash between the commit and the listener.   *)
THEOREM KeysInStepHolds == ReceiverSpec => []KeysInStep
<1>1. InStep => KeysInStep
  BY DEF InStep, Keeping, KeysInStep, Signatures
<1>2. QED
  BY <1>1, ReceiverInStep, PTL
=============================================================================
