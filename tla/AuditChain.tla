------------------------------ MODULE AuditChain ----------------------------
(***************************************************************************)
(* The audit log: emit (repositories/audit.py), which chains an event to   *)
(* the last one of its project inside the transaction it audits, and the   *)
(* sealer (audit/worker.py), which anchors the events since the last       *)
(* anchor.                                                                 *)
(*                                                                         *)
(* A request's transaction may emit several events, all for its project.   *)
(* The project's advisory lock is held to the end of the transaction; an   *)
(* error or a lost connection at any point rolls it back.  A row hash      *)
(* stands for its row: the model keeps the sequence number instead, and    *)
(* zero for GENESIS_PREV_HASH.  Every reading of the clock is a tick of    *)
(* its own.                                                                *)
(***************************************************************************)
EXTENDS Integers

CONSTANTS
  Writers,    \* requests that audit; one is reused when its transaction is over
  Projects,
  ProjectOf,  \* [Writers -> Projects]
  Sealers,    \* one per receiver process
  NoWriter,
  LastEmit,   \* bound: no emit begins after this tick
  LastSeal    \* bound: no seal begins after this tick

ASSUME WritersAssumption == /\ ProjectOf \in [Writers -> Projects]
                            /\ NoWriter \notin Writers
ASSUME ClockAssumption == LastEmit \in Nat /\ LastSeal \in Nat

VARIABLES
  clock,
  seq,       \* the last value of audit.events_sequence_no_seq
  events,    \* committed rows of audit.events
  lock,      \* [Projects -> the writer that holds its advisory lock]
  tx,        \* [Writers -> Tx]
  anchors,   \* rows of audit.anchors
  seal       \* [Sealers -> Seal]

vars == <<clock, seq, events, lock, tx, anchors, seal>>

Event == [seq : Nat, project : Projects, occurred : Nat, prev : Nat]

NoTx == [at |-> "idle", occurred |-> 0, prev |-> 0, rows |-> {}]
Tx == [at : {"idle", "stamped", "locked", "read", "emitted"},
       occurred : Nat, prev : Nat, rows : SUBSET Event]

NoSeal == [at |-> "idle"]
Covers == (SUBSET Nat) \ {{}}
Anchor == [at : Nat, covers : Covers]
Seal ==
  {NoSeal}
  \cup [at : {"started"}, last : Nat]
  \cup [at : {"selected"}, covers : Covers]
  \cup [at : {"stamped"}, covers : Covers, now : Nat]

(* What the transaction of w sees: what is committed, and its own rows.    *)
Visible(w) == {e \in events \cup tx[w].rows : e.project = ProjectOf[w]}

Init ==
  /\ clock = 0
  /\ seq = 0
  /\ events = {}
  /\ lock = [p \in Projects |-> NoWriter]
  /\ tx = [w \in Writers |-> NoTx]
  /\ anchors = {}
  /\ seal = [s \in Sealers |-> NoSeal]

-----------------------------------------------------------------------------
(* emit.                                                                   *)

(* occurred_at is taken on entry, before the lock, by a new transaction or *)
(* by one that emits again.                                                *)
Emit(w) ==
  /\ clock < LastEmit
  /\ tx[w].at \in {"idle", "emitted"}
  /\ clock' = clock + 1
  /\ tx' = [tx EXCEPT ![w].at = "stamped", ![w].occurred = clock']
  /\ UNCHANGED <<seq, events, lock, anchors, seal>>

(* Mutant: the lock excludes nobody.                                       *)
AcquireShared(w) ==
  /\ tx[w].at = "stamped"
  /\ lock' = [lock EXCEPT ![ProjectOf[w]] = w]
  /\ tx' = [tx EXCEPT ![w].at = "locked"]
  /\ UNCHANGED <<clock, seq, events, anchors, seal>>

(* pg_advisory_xact_lock, which its holder may take again.                 *)
Acquire(w) ==
  /\ tx[w].at = "stamped"
  /\ lock[ProjectOf[w]] \in {NoWriter, w}
  /\ lock' = [lock EXCEPT ![ProjectOf[w]] = w]
  /\ tx' = [tx EXCEPT ![w].at = "locked"]
  /\ UNCHANGED <<clock, seq, events, anchors, seal>>

(* n is the sequence number of the last of the events S, or zero.          *)
IsLast(n, S) ==
  /\ n = 0 \/ \E e \in S : e.seq = n
  /\ \A e \in S : e.seq <= n

ReadPrev(w) ==
  /\ tx[w].at = "locked"
  /\ \E n \in {0} \cup {e.seq : e \in Visible(w)} :
       /\ IsLast(n, Visible(w))
       /\ tx' = [tx EXCEPT ![w].at = "read", ![w].prev = n]
  /\ UNCHANGED <<clock, seq, events, lock, anchors, seal>>

(* Mutant: the lock is released after the INSERT.                          *)
AppendUnlocks(w) ==
  /\ tx[w].at = "read"
  /\ seq' = seq + 1
  /\ tx' = [tx EXCEPT ![w].at = "emitted",
                      ![w].rows = @ \cup {[seq |-> seq', project |-> ProjectOf[w],
                                           occurred |-> tx[w].occurred, prev |-> tx[w].prev]}]
  /\ lock' = [lock EXCEPT ![ProjectOf[w]] = NoWriter]
  /\ UNCHANGED <<clock, events, anchors, seal>>

(* nextval, which no rollback gives back, and the INSERT.                  *)
AppendRow(w) ==
  /\ tx[w].at = "read"
  /\ seq' = seq + 1
  /\ tx' = [tx EXCEPT ![w].at = "emitted",
                      ![w].rows = @ \cup {[seq |-> seq', project |-> ProjectOf[w],
                                           occurred |-> tx[w].occurred, prev |-> tx[w].prev]}]
  /\ UNCHANGED <<clock, events, lock, anchors, seal>>

(* The end of the request: get_db_session commits or rolls back, and       *)
(* PostgreSQL releases the lock either way.                                *)
Released(w) == [p \in Projects |-> IF lock[p] = w THEN NoWriter ELSE lock[p]]

Commit(w) ==
  /\ tx[w].at = "emitted"
  /\ events' = events \cup tx[w].rows
  /\ tx' = [tx EXCEPT ![w] = NoTx]
  /\ lock' = Released(w)
  /\ UNCHANGED <<clock, seq, anchors, seal>>

(* Mutant: a session lock, which survives the transaction.                 *)
RollbackKeepsLock(w) ==
  /\ tx[w].at # "idle"
  /\ tx' = [tx EXCEPT ![w] = NoTx]
  /\ UNCHANGED <<clock, seq, events, lock, anchors, seal>>

Rollback(w) ==
  /\ tx[w].at # "idle"
  /\ tx' = [tx EXCEPT ![w] = NoTx]
  /\ lock' = Released(w)
  /\ UNCHANGED <<clock, seq, events, anchors, seal>>

-----------------------------------------------------------------------------
(* seal_anchor.                                                            *)

(* The time of the last anchor, or the epoch.                              *)
SealStart(s) ==
  /\ clock < LastSeal
  /\ seal[s].at = "idle"
  /\ \E t \in {0} \cup {a.at : a \in anchors} :
       /\ \A a \in anchors : a.at <= t
       /\ seal' = [seal EXCEPT ![s] = [at |-> "started", last |-> t]]
  /\ UNCHANGED <<clock, seq, events, lock, tx, anchors>>

(* Mutant: the events of earlier intervals are not left out.               *)
SealSelectAll(s) ==
  /\ seal[s].at = "started"
  /\ seal' = [seal EXCEPT ![s] = IF events = {} THEN NoSeal
                ELSE [at |-> "selected", covers |-> {e.seq : e \in events}]]
  /\ UNCHANGED <<clock, seq, events, lock, tx, anchors>>

(* The events, of every project, that occurred since; none, no anchor.     *)
SealSelect(s) ==
  /\ seal[s].at = "started"
  /\ LET new == {e \in events : e.occurred > seal[s].last} IN
     seal' = [seal EXCEPT ![s] =
                IF new = {} THEN NoSeal
                ELSE [at |-> "selected", covers |-> {e.seq : e \in new}]]
  /\ UNCHANGED <<clock, seq, events, lock, tx, anchors>>

(* anchor_at is read after the events.                                     *)
SealStamp(s) ==
  /\ seal[s].at = "selected"
  /\ clock' = clock + 1
  /\ seal' = [seal EXCEPT ![s] = [at |-> "stamped", covers |-> seal[s].covers, now |-> clock']]
  /\ UNCHANGED <<seq, events, lock, tx, anchors>>

SealCommit(s) ==
  /\ seal[s].at = "stamped"
  /\ anchors' = anchors \cup {[at |-> seal[s].now, covers |-> seal[s].covers]}
  /\ seal' = [seal EXCEPT ![s] = NoSeal]
  /\ UNCHANGED <<clock, seq, events, lock, tx>>

(* An error, logged by the loop, or the end of the process.                *)
SealFails(s) ==
  /\ seal[s].at # "idle"
  /\ seal' = [seal EXCEPT ![s] = NoSeal]
  /\ UNCHANGED <<clock, seq, events, lock, tx, anchors>>

-----------------------------------------------------------------------------

Next ==
  \/ \E w \in Writers :
       Emit(w) \/ Acquire(w) \/ ReadPrev(w) \/ AppendRow(w) \/ Commit(w) \/ Rollback(w)
  \/ \E s \in Sealers :
       SealStart(s) \/ SealSelect(s) \/ SealStamp(s) \/ SealCommit(s) \/ SealFails(s)

(* A request that runs goes on to its commit, and PostgreSQL serves the    *)
(* waiters of a lock in their order.  No transaction owes a rollback, and  *)
(* a seal owes nothing.                                                    *)
Fairness ==
  \A w \in Writers : /\ SF_vars(Acquire(w))
                     /\ WF_vars(ReadPrev(w))
                     /\ WF_vars(AppendRow(w))
                     /\ WF_vars(Commit(w))

Spec == Init /\ [][Next]_vars /\ Fairness

-----------------------------------------------------------------------------
(* Properties.                                                             *)

TypeOK ==
  /\ clock \in Nat
  /\ seq \in Nat
  /\ events \subseteq Event
  /\ lock \in [Projects -> Writers \cup {NoWriter}]
  /\ tx \in [Writers -> Tx]
  /\ anchors \subseteq Anchor
  /\ seal \in [Sealers -> Seal]

(* e names its predecessor in S: the last event of its project before it.  *)
Follows(e, S) ==
  IsLast(e.prev, {f \in S : f.project = e.project /\ f.seq < e.seq})

(* The chain of a project is a single line from the genesis value to its   *)
(* last event: no two writers fork it, and neither a rolled back event nor *)
(* the sequence number it used up leaves a gap (emit).                     *)
ChainLinear == \A e \in events : Follows(e, events)

(* A project's events become visible in the order of their sequence        *)
(* numbers: who has read the chain up to one of them will never find an    *)
(* earlier one added (the lock is held until the commit).                  *)
AppendsAtEnd ==
  [][\A e \in events' \ events : \A f \in events : f.project = e.project => f.seq < e.seq]_vars

(* With one sealer, no event is counted by two anchors (seal_anchor).      *)
AnchoredOnce ==
  \A a, b \in anchors : a # b => a.covers \cap b.covers = {}

(* A transaction that has emitted ends, however many wait for the lock.    *)
TransactionsEnd == \A w \in Writers : tx[w].at # "idle" ~> tx[w].at = "idle"

(* docs/audit.md: an anchor's root is computed over the prior interval's   *)
(* row hashes: a committed event that occurred before an anchor is covered *)
(* by that anchor or by an earlier one.  Violated (README, 4).             *)
AnchorsCoverInterval ==
  \A e \in events : \A a \in anchors : e.occurred <= a.at =>
    \E b \in anchors : b.at <= a.at /\ e.seq \in b.covers

(* Why ChainLinear holds.  Who has rows, or is past the lock, holds it ... *)
LockHeld ==
  \A w \in Writers :
    tx[w].at \in {"locked", "read", "emitted"} \/ tx[w].rows # {} => lock[ProjectOf[w]] = w

(* ... a transaction's rows are of its project and newer than what the     *)
(* project has committed, and nothing is newer than the sequence ...       *)
RowsNewer ==
  /\ \A e \in events : e.seq <= seq
  /\ \A w \in Writers : \A e \in tx[w].rows :
       /\ e.project = ProjectOf[w]
       /\ e.seq <= seq
       /\ \A f \in events : f.project = e.project => f.seq < e.seq

(* ... its rows would continue the chain if committed now, and the         *)
(* predecessor it has read is still the last event.                        *)
Prepared ==
  \A w \in Writers :
    /\ \A e \in tx[w].rows : Follows(e, events \cup tx[w].rows)
    /\ tx[w].at = "read" => IsLast(tx[w].prev, Visible(w))

Inductive == TypeOK /\ LockHeld /\ RowsNewer /\ ChainLinear /\ Prepared

(* Why AnchoredOnce holds.  A sequence number is that of one row, committed *)
(* or not, and no row occurs later than now ...                            *)
Rows == events \cup UNION {tx[w].rows : w \in Writers}

RowsDated ==
  /\ \A e, f \in Rows : e.seq = f.seq => e = f
  /\ \A e \in Rows : e.seq <= seq /\ e.occurred <= clock
  /\ \A w \in Writers : tx[w].occurred <= clock

(* ... what an anchor covers had occurred by its time, and what a sealer   *)
(* has selected occurred after every anchor.                               *)
Fresh(n, t) ==
  \E e \in events : e.seq = n /\ e.occurred <= t /\ \A a \in anchors : a.at < e.occurred

AnchorsDated ==
  /\ \A a \in anchors : /\ a.at <= clock
                        /\ \A n \in a.covers : \E e \in events : e.seq = n /\ e.occurred <= a.at
  /\ \A s \in Sealers :
       /\ seal[s].at = "started" => \A a \in anchors : a.at <= seal[s].last
       /\ seal[s].at = "selected" => \A n \in seal[s].covers : Fresh(n, clock)
       /\ seal[s].at = "stamped" => /\ seal[s].now <= clock
                                    /\ \A n \in seal[s].covers : Fresh(n, seal[s].now)

OneSealer == \A s, t \in Sealers : s = t
=============================================================================
