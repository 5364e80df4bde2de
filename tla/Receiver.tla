------------------------------ MODULE Receiver ------------------------------
(***************************************************************************)
(* A receiver process from its boot to its end (receiver/main.py), several *)
(* of them on one database: the migrations, the background loops, the      *)
(* readiness probe, the shutdown, and the secrets of the webhook signing   *)
(* keys, of which the database has a hash and each process the plaintexts  *)
(* it was given (webhooks/keystore.py).                                    *)
(*                                                                         *)
(* What a tick of a loop does is the subject of the loop's own module;     *)
(* here a tick runs or does not.  The advisory lock of the migrations      *)
(* belongs to a connection, so it is free when its process has ended.      *)
(* The code that runs is of the revision Latest.  Where                    *)
(* STRATHON_AUTO_MIGRATE is off, a deploy step outside of the receiver     *)
(* migrates, at any time or never.                                         *)
(* One project.                                                            *)
(***************************************************************************)
EXTENDS Naturals, Sequences, FiniteSets

CONSTANTS
  Procs,
  Nobody,
  Keys,         \* webhook signing keys
  Supplied,     \* those with a secret in STRATHON_WEBHOOK_SIGNING_SECRETS
  Early,        \* the loops created before the keystore is restored
  Middle,       \* those created after it and before the banner
  Late,         \* those created after the banner
  Evented,      \* the loops that have a shutdown event
  Together,     \* those of them whose events are set at once
  Order,        \* the loops in the order the shutdown takes them
  Checked,      \* the loops /ready looks at
  Disabled,     \* the loops the configuration turns off
  Latest,       \* the last revision of alembic/versions
  KeysAt,       \* the one that makes webhook_signing_keys (5)
  OrgsAt,       \* the one that makes organizations (26)
  Found,        \* deployments: a configuration and the database it starts on
  Slots,        \* requests to /v1/webhook_signing_keys that are served at a time
  MaxCrashes

Loops == Early \cup Middle \cup Late

\* STRATHON_AUTO_MIGRATE, and whether STRATHON_MODE is cloud.
Modes == [auto : BOOLEAN, cloud : BOOLEAN]
\* The revision of the tables, and the one alembic_version has; 0 for none.
Schemas == [tables : 0..Latest, version : 0..Latest]

ASSUME ReceiverAssumption ==
  /\ Nobody \notin Procs /\ Supplied \subseteq Keys
  /\ Together \subseteq Evented /\ Evented \cup Checked \cup Disabled \subseteq Loops
  /\ Order \in Seq(Loops) /\ Loops = {Order[i] : i \in DOMAIN Order}
  /\ Latest \in Nat /\ KeysAt \in 1..Latest /\ OrgsAt \in KeysAt..Latest
  /\ Found \subseteq [mode : Modes, schema : {s \in Schemas : s.version \in {0, s.tables}}]
  /\ MaxCrashes \in Nat

VARIABLES
  mode,     \* the configuration of the processes
  schema,   \* what the database has
  lock,     \* who holds pg_advisory_lock(42)
  row,      \* [Keys -> status in webhook_signing_keys]
  pc,       \* [Procs -> where the lifespan is]
  seen,     \* [Procs -> the schema as the migration read it]
  loop,     \* [Procs -> [Loops -> state]]
  stop,     \* [Procs -> the loops whose shutdown event is set]
  turn,     \* [Procs -> position in Order]
  todo,     \* [Procs -> supplied secrets that are not looked up yet]
  store,    \* [Procs -> keys with a plaintext in the keystore]
  req,      \* [Slots -> request]
  known,    \* history: [Procs -> keys that were put in the keystore since boot]
  crashes

database == <<mode, schema, lock>>
life == <<pc, seen, loop, stop, turn, todo>>
keys == <<row, store, req, known>>
receiverVars == <<mode, schema, lock, row, pc, seen, loop, stop, turn, todo, store, req, known, crashes>>

IdleSlot == [pc |-> "idle", op |-> "none", by |-> Nobody, key |-> Nobody, change |-> FALSE]

Stages == {"down", "inspect", "stamp", "stamping", "lock", "upgrade", "unlock", "project", "restore", "banner",
           "serving", "stopping", "dispose", "clash", "failed"}
TaskStates == {"none", "sleep", "tick", "done"}
Requests == [pc : {"idle", "changed", "committed"}, op : {"none", "create", "revoke"},
             by : Procs \cup {Nobody}, key : Keys \cup {Nobody}, change : BOOLEAN]

ReceiverTypeOK ==
  /\ mode \in Modes /\ schema \in Schemas /\ lock \in Procs \cup {Nobody} /\ row \in [Keys -> {"none", "active", "revoked"}]
  /\ pc \in [Procs -> Stages] /\ seen \in [Procs -> Schemas] /\ loop \in [Procs -> [Loops -> TaskStates]]
  /\ stop \in [Procs -> SUBSET Evented] /\ turn \in [Procs -> 1..Len(Order) + 1]
  /\ todo \in [Procs -> SUBSET Supplied] /\ store \in [Procs -> SUBSET Keys] /\ known \in [Procs -> SUBSET Keys]
  /\ req \in [Slots -> Requests] /\ crashes \in 0..MaxCrashes

Empty == [tables |-> 0, version |-> 0]
Upgraded == [tables |-> Latest, version |-> Latest]
\* The tables of the raw SQL migrations that came before alembic.
Unversioned(s) == s.tables > 0 /\ s.version = 0

ReceiverInit ==
  /\ \E d \in Found : mode = d.mode /\ schema = d.schema
  /\ lock = Nobody
  /\ row = [k \in Keys |-> "none"]
  /\ pc = [p \in Procs |-> "down"] /\ seen = [p \in Procs |-> Empty]
  /\ loop = [p \in Procs |-> [l \in Loops |-> "none"]]
  /\ stop = [p \in Procs |-> {}] /\ turn = [p \in Procs |-> 1] /\ todo = [p \in Procs |-> {}]
  /\ store = [p \in Procs |-> {}] /\ known = [p \in Procs |-> {}]
  /\ req = [s \in Slots |-> IdleSlot] /\ crashes = 0

At(p, where) == pc[p] = where
Go(p, where) == pc' = [pc EXCEPT ![p] = where]
-----------------------------------------------------------------------------
(* The migrations: alembic runs each command in a transaction of its own.  *)

Boot(p) ==
  /\ At(p, "down") /\ Go(p, IF mode.auto THEN "inspect" ELSE "project")
  /\ UNCHANGED <<database, seen, loop, stop, turn, todo, keys, crashes>>

\* Tables without a version are stamped; anything else is upgraded under the lock.
Inspect(p) ==
  /\ At(p, "inspect") /\ Go(p, IF Unversioned(schema) THEN "stamp" ELSE "lock")
  /\ UNCHANGED <<database, seen, loop, stop, turn, todo, keys, crashes>>

\* Stamping holds no lock.  It reads the version, and later writes it unless it was Latest.
ReadVersion(p) ==
  /\ At(p, "stamp") /\ seen' = [seen EXCEPT ![p] = schema] /\ Go(p, "stamping")
  /\ UNCHANGED <<database, loop, stop, turn, todo, keys, crashes>>

\* No table is changed.  Who read no version and comes second hits the primary key of
\* alembic_version.
Stamp(p) ==
  /\ At(p, "stamping")
  /\ \/ seen[p].version = Latest /\ Go(p, "project") /\ UNCHANGED schema
     \/ /\ seen[p].version # Latest /\ schema.version = seen[p].version
        /\ schema' = [schema EXCEPT !.version = Latest] /\ Go(p, "project")
     \/ /\ seen[p].version # Latest /\ schema.version # seen[p].version
        /\ Go(p, "clash") /\ UNCHANGED schema
  /\ UNCHANGED <<mode, lock, seen, loop, stop, turn, todo, keys, crashes>>

\* Defect: the upgrade does not wait for the lock.
TakeLockHeld(p) ==
  /\ At(p, "lock") /\ lock' = p /\ seen' = [seen EXCEPT ![p] = schema] /\ Go(p, "upgrade")
  /\ UNCHANGED <<mode, schema, loop, stop, turn, todo, keys, crashes>>

TakeLock(p) ==
  /\ At(p, "lock") /\ lock = Nobody
  /\ lock' = p /\ seen' = [seen EXCEPT ![p] = schema] /\ Go(p, "upgrade")
  /\ UNCHANGED <<mode, schema, loop, stop, turn, todo, keys, crashes>>

\* The upgrade goes from the version it read, which must still be the version.
Upgrade(p) ==
  /\ At(p, "upgrade")
  /\ IF seen[p].version = schema.version
     THEN schema' = (IF schema.version = Latest THEN schema ELSE Upgraded) /\ Go(p, "unlock")
     ELSE schema' = schema /\ Go(p, "clash")
  /\ UNCHANGED <<mode, lock, seen, loop, stop, turn, todo, keys, crashes>>

Unlock(p) ==
  /\ At(p, "unlock") /\ lock' = (IF lock = p THEN Nobody ELSE lock) /\ Go(p, "project")
  /\ UNCHANGED <<mode, schema, seen, loop, stop, turn, todo, keys, crashes>>

Create(p, ls) == [loop EXCEPT ![p] = [l \in Loops |-> IF l \in ls THEN IF l \in Disabled THEN "done" ELSE "sleep" ELSE @[l]]]

\* With STRATHON_AUTO_MIGRATE off, the deploy step runs alembic by itself.
MigratedOutside ==
  /\ ~mode.auto /\ ~Unversioned(schema) /\ schema.version # Latest /\ schema' = Upgraded
  /\ UNCHANGED <<mode, lock, life, keys, crashes>>

\* The default project is found or inserted if the tables it needs are there, whatever
\* version the database has.
EnsureDefaultProject == schema.tables >= OrgsAt

\* Without one in cloud mode.  Then the early loops are created.
DefaultProject(p) ==
  /\ At(p, "project")
  /\ IF mode.cloud \/ EnsureDefaultProject
     THEN /\ Go(p, "restore") /\ loop' = Create(p, Early) /\ todo' = [todo EXCEPT ![p] = Supplied]
     ELSE /\ Go(p, "failed") /\ UNCHANGED <<loop, todo>>
  /\ seen' = [seen EXCEPT ![p] = Empty]
  /\ UNCHANGED <<database, stop, turn, keys, crashes>>
-----------------------------------------------------------------------------
(* The keystore is restored from the environment: a secret is kept if its  *)
(* hash is that of an active key.  The lookup of the first one raises if   *)
(* there is no table.                                                      *)

Remembered(p, ks) == store' = [store EXCEPT ![p] = @ \cup ks] /\ known' = [known EXCEPT ![p] = @ \cup ks]

\* Defect: the row is looked up whether or not it was revoked, or is there.
RestoreAny(p) ==
  /\ At(p, "restore")
  /\ \E k \in todo[p] : todo' = [todo EXCEPT ![p] = @ \ {k}] /\ Remembered(p, {k})
  /\ UNCHANGED <<database, pc, seen, loop, stop, turn, row, req, crashes>>

Restore(p) ==
  /\ At(p, "restore")
  /\ \E k \in todo[p] :
       IF schema.tables >= KeysAt
       THEN /\ todo' = [todo EXCEPT ![p] = @ \ {k}] /\ pc' = pc
            /\ Remembered(p, IF row[k] = "active" THEN {k} ELSE {})
       ELSE Go(p, "failed") /\ UNCHANGED <<todo, store, known>>
  /\ UNCHANGED <<database, seen, loop, stop, turn, row, req, crashes>>

Restored(p) ==
  /\ At(p, "restore") /\ todo[p] = {}
  /\ loop' = Create(p, Middle) /\ Go(p, "banner")
  /\ UNCHANGED <<database, seen, stop, turn, todo, keys, crashes>>

\* The banner reads the dev key and ignores errors; with the last loops the process serves.
Serve(p) ==
  /\ At(p, "banner") /\ loop' = Create(p, Late) /\ Go(p, "serving")
  /\ UNCHANGED <<database, seen, stop, turn, todo, keys, crashes>>

\* The migrations, the default project and the lookups fail without the database.  The
\* exception leaves the lifespan before its yield, so that nothing is stopped, and the
\* server exits.
BootFails(p) ==
  /\ pc[p] \in {"inspect", "stamp", "stamping", "upgrade", "project", "restore"} /\ crashes < MaxCrashes
  /\ crashes' = crashes + 1 /\ Go(p, "failed")
  /\ UNCHANGED <<database, seen, loop, stop, turn, todo, keys>>
-----------------------------------------------------------------------------
(* The loops.  A tick that fails is logged, and the loop goes on.          *)

Runs(p) == pc[p] \notin {"down", "clash", "failed"}

Tick(p, l) ==
  /\ Runs(p) /\ loop[p][l] = "sleep" /\ l \notin stop[p]
  /\ loop' = [loop EXCEPT ![p][l] = "tick"]
  /\ UNCHANGED <<database, pc, seen, stop, turn, todo, keys, crashes>>

TickEnds(p, l, failed) ==
  /\ Runs(p) /\ loop[p][l] = "tick" /\ loop' = [loop EXCEPT ![p][l] = "sleep"]
  /\ UNCHANGED <<database, pc, seen, stop, turn, todo, keys, crashes>>

\* A loop waits between its ticks for its event and returns when it is set.
EventEnds(p, l) ==
  /\ Runs(p) /\ loop[p][l] = "sleep" /\ l \in stop[p]
  /\ loop' = [loop EXCEPT ![p][l] = "done"]
  /\ UNCHANGED <<database, pc, seen, stop, turn, todo, keys, crashes>>
-----------------------------------------------------------------------------
(* The probe: the version is the code's and every checked loop is running. *)
(* The database, the partitions and the regex engine are taken as in order.*)

SchemaIsCurrent == schema.version = Latest

TaskRuns(p, l) == loop[p][l] \notin {"none", "done"}

Ready(p) == SchemaIsCurrent /\ \A l \in Checked : TaskRuns(p, l)
-----------------------------------------------------------------------------
(* The shutdown, once the requests that were being served have ended.      *)

Terminate(p) ==
  /\ At(p, "serving") /\ \A s \in Slots : req[s].by # p
  /\ Go(p, "stopping") /\ turn' = [turn EXCEPT ![p] = 1]
  /\ UNCHANGED <<database, seen, loop, stop, todo, keys, crashes>>

Turn(p) == Order[turn[p]]
Stopping(p) == At(p, "stopping") /\ turn[p] <= Len(Order)

SetEvent(p) ==
  /\ Stopping(p) /\ Turn(p) \in Evented \ stop[p]
  /\ stop' = [stop EXCEPT ![p] = @ \cup {Turn(p)} \cup (IF Turn(p) \in Together THEN Together ELSE {})]
  /\ UNCHANGED <<database, pc, seen, loop, turn, todo, keys, crashes>>

\* wait_for returns at once for a task that is done.
Ended(p) ==
  /\ Stopping(p) /\ Turn(p) \in stop[p] /\ loop[p][Turn(p)] = "done"
  /\ turn' = [turn EXCEPT ![p] = @ + 1]
  /\ UNCHANGED <<database, pc, seen, loop, stop, todo, keys, crashes>>

\* Defect: a loop that is late is left running.
CancelLeft(p) ==
  /\ Stopping(p) /\ Turn(p) \notin Evented \ stop[p] /\ turn' = [turn EXCEPT ![p] = @ + 1]
  /\ loop' = (IF Turn(p) \in Evented THEN loop ELSE [loop EXCEPT ![p][Turn(p)] = "done"])
  /\ UNCHANGED <<database, pc, seen, stop, todo, keys, crashes>>

\* Defect: no timeout, so that the shutdown waits for the tick of a loop with an event.
CancelNever(p) ==
  /\ Stopping(p) /\ Turn(p) \notin Evented
  /\ loop' = [loop EXCEPT ![p][Turn(p)] = "done"] /\ turn' = [turn EXCEPT ![p] = @ + 1]
  /\ UNCHANGED <<database, pc, seen, stop, todo, keys, crashes>>

\* After ten seconds, or at once without an event, the task is cancelled: its tick is cut
\* at an await and what it did not commit is rolled back.
Cancel(p) ==
  /\ Stopping(p) /\ Turn(p) \notin Evented \ stop[p]
  /\ loop' = [loop EXCEPT ![p][Turn(p)] = "done"] /\ turn' = [turn EXCEPT ![p] = @ + 1]
  /\ UNCHANGED <<database, pc, seen, stop, todo, keys, crashes>>

DisposeEngine(p) ==
  /\ At(p, "stopping") /\ turn[p] > Len(Order) /\ Go(p, "dispose")
  /\ UNCHANGED <<database, seen, loop, stop, turn, todo, keys, crashes>>

\* What a process loses with its memory; its transactions and its lock end with it.
Gone(p) ==
  /\ Go(p, "down") /\ seen' = [seen EXCEPT ![p] = Empty]
  /\ loop' = [loop EXCEPT ![p] = [l \in Loops |-> "none"]]
  /\ stop' = [stop EXCEPT ![p] = {}] /\ turn' = [turn EXCEPT ![p] = 1] /\ todo' = [todo EXCEPT ![p] = {}]
  /\ store' = [store EXCEPT ![p] = {}] /\ known' = [known EXCEPT ![p] = {}]
  /\ req' = [s \in Slots |-> IF req[s].by = p THEN IdleSlot ELSE req[s]]
  /\ lock' = (IF lock = p THEN Nobody ELSE lock)
  /\ UNCHANGED <<mode, schema, row>>

Exit(p) == pc[p] \in {"dispose", "clash", "failed"} /\ Gone(p) /\ UNCHANGED crashes

Crash(p) == Runs(p) /\ crashes < MaxCrashes /\ crashes' = crashes + 1 /\ Gone(p)
-----------------------------------------------------------------------------
(* Signing keys.  A request changes its row, binds the change of the       *)
(* keystore to the commit, writes the audit event and commits.             *)

Request(s, op, p, k, change) ==
  req' = [req EXCEPT ![s] = [pc |-> "changed", op |-> op, by |-> p, key |-> k, change |-> change]]

Forgotten(p, k) == store' = [store EXCEPT ![p] = @ \ {k}] /\ known' = known

\* The row is free of an update that is not committed.
Unlocked(k) == ~\E r \in Slots : req[r].key = k /\ req[r].change /\ req[r].pc = "changed"

CreateKey(s, p, k) ==
  /\ At(p, "serving") /\ req[s] = IdleSlot /\ schema.tables >= KeysAt
  /\ row[k] = "none" /\ \A r \in Slots : req[r].key # k
  /\ Request(s, "create", p, k, TRUE)
  /\ UNCHANGED <<database, row, life, store, known, crashes>>

\* A key that is revoked already is left as it is, and forgotten here all the same.
\* The update waits for another one of the row.
RevokeKey(s, p, k) ==
  /\ At(p, "serving") /\ req[s] = IdleSlot
  /\ row[k] # "none"
  /\ row[k] = "active" => Unlocked(k)
  /\ Request(s, "revoke", p, k, row[k] = "active")
  /\ UNCHANGED <<database, row, life, store, known, crashes>>

Commit(s) ==
  /\ req[s].pc = "changed" /\ req' = [req EXCEPT ![s].pc = "committed"]
  /\ row' = [row EXCEPT ![req[s].key] =
               IF ~req[s].change THEN @ ELSE IF req[s].op = "create" THEN "active" ELSE "revoked"]
  /\ UNCHANGED <<database, life, store, known, crashes>>

\* Defect: the keystore is changed when the commit fails, too.
RollbackInline(s) ==
  /\ req[s].pc = "changed" /\ req' = [req EXCEPT ![s] = IdleSlot]
  /\ store' = [store EXCEPT ![req[s].by] =
                 IF req[s].op = "create" THEN @ \cup {req[s].key} ELSE @ \ {req[s].key}]
  /\ UNCHANGED <<database, row, life, known, crashes>>

\* The audit event or the commit fails.
Rollback(s) ==
  /\ req[s].pc = "changed" /\ req' = [req EXCEPT ![s] = IdleSlot]
  /\ UNCHANGED <<database, row, life, store, known, crashes>>

\* The listener of after_commit, then the response.
AfterCommit(s) ==
  /\ req[s].pc = "committed" /\ req' = [req EXCEPT ![s] = IdleSlot]
  /\ IF req[s].op = "create"
     THEN Remembered(req[s].by, {req[s].key})
     ELSE Forgotten(req[s].by, req[s].key)
  /\ UNCHANGED <<database, row, life, crashes>>

\* A delivery that process p makes carries a signature with each secret it has.
Signatures(p) == store[p]
-----------------------------------------------------------------------------
Boots(p) == \/ Boot(p) \/ Inspect(p) \/ ReadVersion(p) \/ Stamp(p) \/ TakeLock(p) \/ Upgrade(p) \/ Unlock(p)
            \/ DefaultProject(p) \/ Restore(p) \/ Restored(p) \/ Serve(p)
Stops(p) == SetEvent(p) \/ Ended(p) \/ Cancel(p) \/ DisposeEngine(p) \/ Exit(p)

ReceiverNext ==
  \/ \E p \in Procs : Boots(p) \/ BootFails(p) \/ Terminate(p) \/ Stops(p) \/ Crash(p)
  \/ \E p \in Procs, l \in Loops : Tick(p, l) \/ EventEnds(p, l) \/ \E failed \in BOOLEAN : TickEnds(p, l, failed)
  \/ \E s \in Slots, p \in Procs, k \in Keys : CreateKey(s, p, k) \/ RevokeKey(s, p, k)
  \/ \E s \in Slots : Commit(s) \/ Rollback(s) \/ AfterCommit(s)
  \/ MigratedOutside

\* The shutdown runs on; no tick has to end by itself.
ShutdownRunsOn == \A p \in Procs : WF_receiverVars(Stops(p))

ReceiverSpec == ReceiverInit /\ [][ReceiverNext]_receiverVars /\ ShutdownRunsOn
-----------------------------------------------------------------------------
\* main.py, api/health.py: the loops run while the process serves, and only then.  In a process
\* that serves, with no loop turned off, every loop the probe looks at runs, so that it is ready
\* if it migrates by itself, and as soon as the schema is the code's otherwise.  Before a loop
\* runs, the version is the code's where the receiver migrates, and a default project is possible
\* outside of the cloud; no loop runs when the engine is disposed.  A boot meets another one in
\* the version table only where a database without versions is stamped.
LoopsFollowService ==
  \A p \in Procs :
    /\ At(p, "serving") /\ Disabled = {} => (mode.auto \/ SchemaIsCurrent => Ready(p))
    /\ Runs(p) /\ (\E l \in Loops : loop[p][l] # "none") =>
         /\ mode.auto => SchemaIsCurrent
         /\ ~mode.cloud => EnsureDefaultProject
    /\ At(p, "dispose") => \A l \in Loops : loop[p][l] = "done"
    /\ At(p, "clash") => mode.auto /\ Unversioned(seen[p])

\* webhooks/keystore.py: memory and database stay in step.  A process has the secret of a key
\* only if the key was committed, and what it was given it keeps while the key is active.
KeysInStep ==
  \A p \in Procs : \A k \in Keys :
    /\ k \in Signatures(p) => row[k] # "none"
    /\ k \in known[p] /\ row[k] = "active" => k \in Signatures(p)

\* main.py: a shutdown comes to its end though a tick never does.
ShutdownEnds == \A p \in Procs : At(p, "stopping") ~> At(p, "down")
=============================================================================
