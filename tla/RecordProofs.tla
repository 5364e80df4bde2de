----------------------------- MODULE RecordProofs -----------------------------
(***************************************************************************)
(* Proofs about what the receiver records.                                 *)
(*                                                                         *)
(* AuditChain: whatever the number of writers, projects, sealers and       *)
(* events, the chain of a project is linear and grows at its end; and with *)
(* one sealer no event is in two anchors.                                  *)
(*                                                                         *)
(* Ingest: match_count is the number of match rows and no cached list of   *)
(* policies outlives its TTL, for any number of policies, spans, batches,  *)
(* processes and requests at a time, whatever fails or crashes.            *)
(***************************************************************************)
EXTENDS AuditChain, Ingest, FiniteSetTheorems, TLAPS

WriterStep(w) == Emit(w) \/ Acquire(w) \/ ReadPrev(w) \/ AppendRow(w) \/ Commit(w) \/ Rollback(w)
SealerStep(s) == SealStart(s) \/ SealSelect(s) \/ SealStamp(s) \/ SealCommit(s) \/ SealFails(s)

(* What a sealer in progress carries.                                      *)
LEMMA SealStages ==
  ASSUME NEW x \in Seal
  PROVE  /\ x.at = "selected" => x.covers \in Covers
         /\ x.at = "stamped" => x.covers \in Covers /\ x.now \in Nat
BY DEF Seal, NoSeal

(* A sealer's step keeps the types and leaves the log alone.               *)
LEMMA SealerType ==
  ASSUME TypeOK, NEW s \in Sealers, SealerStep(s)
  PROVE  TypeOK' /\ UNCHANGED <<seq, events, lock, tx>>
<1>1. NoSeal \in Seal
  BY DEF Seal
<1>2. CASE SealStart(s)
  <2>1. PICK t \in {0} \cup {a.at : a \in anchors} :
               seal' = [seal EXCEPT ![s] = [at |-> "started", last |-> t]]
    BY <1>2 DEF SealStart
  <2>2. t \in Nat
    BY <2>1 DEF TypeOK, Anchor
  <2>3. [at |-> "started", last |-> t] \in Seal
    BY <2>2 DEF Seal
  <2>4. QED
    BY <1>2, <2>1, <2>3 DEF SealStart, TypeOK
<1>3. CASE SealSelect(s)
  <2> DEFINE new == {e \in events : e.occurred > seal[s].last}
             c   == {e.seq : e \in new}
  <2>1. new # {} => c \in Covers
    BY DEF TypeOK, Event, Covers
  <2>2. new # {} => [at |-> "selected", covers |-> c] \in Seal
    BY <2>1 DEF Seal
  <2>3. PICK x \in Seal : seal' = [seal EXCEPT ![s] = x]
    BY <1>3, <1>1, <2>2 DEF SealSelect
  <2>4. QED
    BY <1>3, <2>3 DEF SealSelect, TypeOK
<1>4. CASE SealStamp(s)
  <2>1. seal[s].covers \in Covers
    BY <1>4, SealStages DEF SealStamp, TypeOK
  <2>2. clock' \in Nat
    BY <1>4 DEF SealStamp, TypeOK
  <2>3. [at |-> "stamped", covers |-> seal[s].covers, now |-> clock'] \in Seal
    BY <2>1, <2>2 DEF Seal
  <2>4. QED
    BY <1>4, <2>2, <2>3 DEF SealStamp, TypeOK
<1>5. CASE SealCommit(s)
  <2>1. [at |-> seal[s].now, covers |-> seal[s].covers] \in Anchor
    BY <1>5, SealStages DEF SealCommit, TypeOK, Anchor
  <2>2. QED
    BY <1>5, <1>1, <2>1 DEF SealCommit, TypeOK
<1>6. CASE SealFails(s)
  BY <1>6, <1>1 DEF SealFails, TypeOK
<1>7. QED
  BY <1>2, <1>3, <1>4, <1>5, <1>6 DEF SealerStep, SealStart, SealSelect, SealStamp, SealCommit,
     SealFails

(* The row that AppendRow inserts.                                         *)
NewRow(w) == [seq |-> seq + 1, project |-> ProjectOf[w],
              occurred |-> tx[w].occurred, prev |-> tx[w].prev]

(* AppendRow, as it changes the transaction.                               *)
LEMMA Appended ==
  ASSUME TypeOK, NEW w \in Writers, AppendRow(w)
  PROVE  /\ seq' = seq + 1
         /\ tx'[w].at = "emitted"
         /\ tx'[w].rows = tx[w].rows \cup {NewRow(w)}
         /\ tx' \in [Writers -> Tx]
<1>1. seq' = seq + 1
  BY DEF AppendRow
<1>2. tx[w] \in Tx /\ NewRow(w) \in Event
  BY WritersAssumption DEF TypeOK, Tx, Event, NewRow
<1>3. tx' = [tx EXCEPT ![w].at = "emitted", ![w].rows = tx[w].rows \cup {NewRow(w)}]
  BY <1>1 DEF AppendRow, NewRow
<1>4. QED
  BY <1>1, <1>2, <1>3 DEF TypeOK, Tx

(* A writer's step keeps the types.                                        *)
LEMMA WriterType ==
  ASSUME TypeOK, NEW w \in Writers, WriterStep(w)
  PROVE  TypeOK'
<1>1. NoTx \in Tx
  BY DEF NoTx, Tx
<1>2. ProjectOf[w] \in Projects
  BY WritersAssumption
<1>3. Released(w) \in [Projects -> Writers \cup {NoWriter}]
  BY DEF Released, TypeOK
<1>4. CASE Emit(w)
  <2>1. clock' = clock + 1 /\ clock' \in Nat
    BY <1>4 DEF Emit, TypeOK
  <2>2. [tx[w] EXCEPT !.at = "stamped", !.occurred = clock'] \in Tx
    BY <2>1 DEF TypeOK, Tx
  <2>3. tx' \in [Writers -> Tx]
    BY <1>4, <2>2 DEF Emit, TypeOK
  <2>4. QED
    BY <1>4, <2>1, <2>3 DEF Emit, TypeOK
<1>5. CASE Acquire(w)
  BY <1>5, <1>2 DEF Acquire, TypeOK, Tx
<1>6. CASE ReadPrev(w)
  <2>1. PICK n \in {0} \cup {e.seq : e \in Visible(w)} :
               tx' = [tx EXCEPT ![w].at = "read", ![w].prev = n]
    BY <1>6 DEF ReadPrev
  <2>2. n \in Nat
    BY <2>1 DEF Visible, TypeOK, Tx, Event
  <2>3. [tx[w] EXCEPT !.at = "read", !.prev = n] \in Tx
    BY <2>2 DEF TypeOK, Tx
  <2>4. tx' \in [Writers -> Tx]
    BY <2>1, <2>3 DEF TypeOK
  <2>5. QED
    BY <1>6, <2>4 DEF ReadPrev, TypeOK
<1>7. CASE AppendRow(w)
  <2>1. tx' \in [Writers -> Tx] /\ seq' \in Nat
    BY <1>7, Appended DEF TypeOK
  <2>2. UNCHANGED <<clock, events, lock, anchors, seal>>
    BY <1>7 DEF AppendRow
  <2>3. QED
    BY <2>1, <2>2 DEF TypeOK
<1>8. CASE Commit(w)
  <2>1. tx[w].rows \subseteq Event
    BY DEF TypeOK, Tx
  <2>2. QED
    BY <1>8, <1>1, <1>3, <2>1 DEF Commit, TypeOK
<1>9. CASE Rollback(w)
  BY <1>9, <1>1, <1>3 DEF Rollback, TypeOK
<1>10. QED
  BY <1>4, <1>5, <1>6, <1>7, <1>8, <1>9 DEF WriterStep

(* Whether e follows its predecessor depends on the older events of its    *)
(* project only.                                                           *)
LEMMA FollowsOlder ==
  ASSUME NEW e, NEW S, NEW T, Follows(e, S),
         \A f : f.project = e.project /\ f.seq < e.seq => (f \in S <=> f \in T)
  PROVE  Follows(e, T)
<1>1. {f \in S : f.project = e.project /\ f.seq < e.seq}
      = {f \in T : f.project = e.project /\ f.seq < e.seq}
  OBVIOUS
<1>2. QED
  BY <1>1 DEF Follows

(* Two writers of one project cannot both be past the lock.                *)
LEMMA Excluded ==
  ASSUME LockHeld, NEW w \in Writers, NEW v \in Writers, v # w,
         lock[ProjectOf[w]] # v, ProjectOf[v] = ProjectOf[w]
  PROVE  tx[v].rows = {} /\ tx[v].at \notin {"locked", "read", "emitted"}
BY DEF LockHeld

(* What the invariant says of the log is kept by a step of a writer: its   *)
(* own rows change, and those of no other.                                 *)
LEMMA EmitStep ==
  ASSUME Inductive, NEW w \in Writers, Emit(w)
  PROVE  LockHeld' /\ RowsNewer' /\ ChainLinear' /\ Prepared'
<1>1. /\ UNCHANGED <<seq, events, lock>>
      /\ \A v \in Writers : /\ tx'[v].rows = tx[v].rows
                            /\ tx'[v].prev = tx[v].prev
                            /\ tx'[v].at = tx[v].at \/ tx'[v].at = "stamped"
  BY DEF Emit, Inductive, TypeOK, Tx
<1>2. \A v \in Writers : Visible(v)' = Visible(v)
  BY <1>1 DEF Visible
<1>3. LockHeld' /\ RowsNewer'
  BY <1>1 DEF Inductive, LockHeld, RowsNewer
<1>4. ChainLinear' /\ Prepared'
  BY <1>1, <1>2 DEF Inductive, ChainLinear, Prepared, Follows
<1>5. QED
  BY <1>3, <1>4

LEMMA AcquireStep ==
  ASSUME Inductive, NEW w \in Writers, Acquire(w)
  PROVE  LockHeld' /\ RowsNewer' /\ ChainLinear' /\ Prepared'
<1>1. /\ UNCHANGED <<seq, events>>
      /\ \A v \in Writers : tx'[v].rows = tx[v].rows /\ tx'[v].prev = tx[v].prev
      /\ tx'[w].at = "locked"
      /\ \A v \in Writers \ {w} : tx'[v] = tx[v]
  BY DEF Acquire, Inductive, TypeOK, Tx
<1>2. \A v \in Writers : Visible(v)' = Visible(v)
  BY <1>1 DEF Visible
<1>3. LockHeld'
  <2> SUFFICES ASSUME NEW v \in Writers,
                      tx'[v].at \in {"locked", "read", "emitted"} \/ tx'[v].rows # {}
               PROVE  lock'[ProjectOf[v]] = v
    BY DEF LockHeld
  <2>1. lock' = [lock EXCEPT ![ProjectOf[w]] = w] /\ lock \in [Projects -> Writers \cup {NoWriter}]
    BY DEF Acquire, Inductive, TypeOK
  <2>2. ProjectOf[v] \in Projects /\ ProjectOf[w] \in Projects
    BY WritersAssumption
  <2>3. CASE v = w
    BY <2>1, <2>2, <2>3
  <2>4. CASE v # w
    <3>1. lock[ProjectOf[v]] = v
      BY <1>1, <2>4 DEF Inductive, LockHeld
    <3>2. ProjectOf[v] # ProjectOf[w]
      BY <3>1, <2>4, WritersAssumption DEF Acquire
    <3>3. QED
      BY <2>1, <2>2, <3>1, <3>2
  <2>5. QED
    BY <2>3, <2>4
<1>4. RowsNewer'
  BY <1>1 DEF Inductive, RowsNewer
<1>5. ChainLinear'
  BY <1>1 DEF Inductive, ChainLinear, Follows
<1>6. Prepared'
  BY <1>1, <1>2 DEF Inductive, Prepared, Follows
<1>7. QED
  BY <1>3, <1>4, <1>5, <1>6

LEMMA ReadStep ==
  ASSUME Inductive, NEW w \in Writers, ReadPrev(w)
  PROVE  LockHeld' /\ RowsNewer' /\ ChainLinear' /\ Prepared'
<1>1. PICK n : IsLast(n, Visible(w)) /\ tx' = [tx EXCEPT ![w].at = "read", ![w].prev = n]
  BY DEF ReadPrev
<1>2. /\ UNCHANGED <<seq, events, lock>>
      /\ tx[w].at = "locked"
      /\ \A v \in Writers : tx'[v].rows = tx[v].rows
      /\ tx'[w].prev = n
      /\ \A v \in Writers \ {w} : tx'[v] = tx[v]
  BY <1>1 DEF ReadPrev, Inductive, TypeOK, Tx
<1>3. \A v \in Writers : Visible(v)' = Visible(v)
  BY <1>2 DEF Visible
<1>4. LockHeld' /\ RowsNewer'
  BY <1>2 DEF Inductive, LockHeld, RowsNewer
<1>5. ChainLinear'
  BY <1>2 DEF Inductive, ChainLinear, Follows
<1>6. Prepared'
  BY <1>1, <1>2, <1>3 DEF Inductive, Prepared, Follows
<1>7. QED
  BY <1>4, <1>5, <1>6

(* The appended row is newer than all, and names the last one as its       *)
(* predecessor.                                                            *)
LEMMA AppendStep ==
  ASSUME Inductive, NEW w \in Writers, AppendRow(w)
  PROVE  LockHeld' /\ RowsNewer' /\ ChainLinear' /\ Prepared'
<1> DEFINE n == NewRow(w)
<1>1. /\ UNCHANGED <<events, lock>>
      /\ seq' = seq + 1
      /\ tx[w].at = "read" /\ tx'[w].at = "emitted"
      /\ tx'[w].rows = tx[w].rows \cup {n}
      /\ \A v \in Writers \ {w} : tx'[v] = tx[v]
  BY Appended DEF AppendRow, Inductive, TypeOK
<1>2. seq \in Nat /\ events \subseteq Event /\ \A v \in Writers : tx[v].rows \subseteq Event
  BY DEF Inductive, TypeOK, Tx
<1>3. n.seq = seq + 1 /\ n.project = ProjectOf[w] /\ n.prev = tx[w].prev
  BY DEF NewRow
<1>4. \A e \in events \cup tx[w].rows : e.seq \in Nat /\ e.seq <= seq
  BY <1>2 DEF Inductive, RowsNewer, Event
<1>5. LockHeld'
  BY <1>1 DEF Inductive, LockHeld
<1>6. RowsNewer'
  <2>1. \A e \in events : e.seq <= seq'
    BY <1>1, <1>2, <1>4
  <2>2. ASSUME NEW v \in Writers, NEW e \in tx'[v].rows
        PROVE  /\ e.project = ProjectOf[v]
               /\ e.seq <= seq'
               /\ \A f \in events : f.project = e.project => f.seq < e.seq
    <3>1. CASE v = w /\ e = n
      BY <3>1, <1>1, <1>2, <1>3, <1>4
    <3>2. CASE e \in tx[v].rows
      BY <3>2, <1>1, <1>2 DEF Inductive, RowsNewer, Event
    <3>3. QED
      BY <2>2, <3>1, <3>2, <1>1
  <2>3. QED
    BY <1>1, <2>1, <2>2 DEF RowsNewer
<1>7. ChainLinear'
  BY <1>1 DEF Inductive, ChainLinear, Follows
<1>8. \A e \in tx[w].rows : Follows(e, events \cup tx'[w].rows)
  <2> SUFFICES ASSUME NEW e \in tx[w].rows PROVE Follows(e, events \cup tx'[w].rows)
    OBVIOUS
  <2>1. Follows(e, events \cup tx[w].rows)
    BY DEF Inductive, Prepared
  <2>2. e.seq \in Nat /\ ~(n.seq < e.seq)
    BY <1>2, <1>3, <1>4
  <2>3. \A f : f.project = e.project /\ f.seq < e.seq =>
          (f \in events \cup tx[w].rows <=> f \in events \cup tx'[w].rows)
    BY <1>1, <2>2
  <2>4. QED
    BY <2>1, <2>3, FollowsOlder
<1>9. Follows(n, events \cup tx'[w].rows)
  <2>1. {f \in events \cup tx'[w].rows : f.project = n.project /\ f.seq < n.seq} = Visible(w)
    <3>1. \A f \in events \cup tx[w].rows : f.seq < n.seq
      BY <1>2, <1>3, <1>4
    <3>2. ~(n.seq < n.seq)
      BY <1>2, <1>3
    <3> HIDE DEF n
    <3>3. QED
      BY <3>1, <3>2, <1>1, <1>3 DEF Visible
  <2>2. IsLast(n.prev, Visible(w))
    BY <1>1, <1>3 DEF Inductive, Prepared
  <2>3. QED
    BY <2>1, <2>2 DEF Follows
<1>10. Prepared'
  <2> SUFFICES ASSUME NEW v \in Writers
               PROVE  /\ \A e \in tx'[v].rows : Follows(e, events \cup tx'[v].rows)
                      /\ tx'[v].at = "read" => IsLast(tx'[v].prev, Visible(v)')
    BY <1>1 DEF Prepared, Follows
  <2>1. CASE v = w
    BY <2>1, <1>1, <1>8, <1>9
  <2>2. CASE v # w
    <3>1. tx'[v] = tx[v] /\ Visible(v)' = Visible(v)
      BY <2>2, <1>1 DEF Visible
    <3>2. QED
      BY <3>1 DEF Inductive, Prepared
  <2>3. QED
    BY <2>1, <2>2
<1>11. QED
  BY <1>5, <1>6, <1>7, <1>10

(* The end of a transaction: its rows are gone, or they are the newest of  *)
(* their project, of which no other transaction has any.                   *)
LEMMA EndStep ==
  ASSUME Inductive, NEW w \in Writers, Commit(w) \/ Rollback(w)
  PROVE  LockHeld' /\ RowsNewer' /\ ChainLinear' /\ Prepared'
<1> DEFINE new == IF Commit(w) THEN tx[w].rows ELSE {}
<1>1. /\ seq' = seq
      /\ events' = events \cup new
      /\ tx'[w] = NoTx
      /\ \A v \in Writers \ {w} : tx'[v] = tx[v]
      /\ \A p \in Projects : lock[p] # w => lock'[p] = lock[p]
  BY DEF Commit, Rollback, Released, Inductive, TypeOK
<1>2. NoTx.at = "idle" /\ NoTx.rows = {}
  BY DEF NoTx
<1>3. new \subseteq tx[w].rows
  OBVIOUS
<1>4. \A e \in events \cup tx[w].rows : e.seq \in Nat
  BY DEF Inductive, TypeOK, Tx, Event
<1>5. \A e \in new : Follows(e, events')
  <2>1. CASE Commit(w)
    BY <2>1, <1>1 DEF Inductive, Prepared
  <2>2. CASE ~Commit(w)
    BY <2>2
  <2>3. QED
    BY <2>1, <2>2
<1>6. ASSUME NEW e \in new, NEW v \in Writers, v # w, ProjectOf[v] = e.project
      PROVE  tx[v].rows = {} /\ tx[v].at \notin {"locked", "read", "emitted"}
  <2>1. e.project = ProjectOf[w] /\ lock[ProjectOf[w]] = w
    BY <1>3 DEF Inductive, RowsNewer, LockHeld
  <2>2. QED
    BY <1>6, <2>1, Excluded DEF Inductive
<1> HIDE DEF new
<1>7. LockHeld'
  <2> SUFFICES ASSUME NEW v \in Writers,
                      tx'[v].at \in {"locked", "read", "emitted"} \/ tx'[v].rows # {}
               PROVE  lock'[ProjectOf[v]] = v
    BY DEF LockHeld
  <2>1. v # w
    BY <1>1, <1>2
  <2>2. lock[ProjectOf[v]] = v
    BY <2>1, <1>1 DEF Inductive, LockHeld
  <2>3. QED
    BY <2>1, <2>2, <1>1, WritersAssumption
<1>8. RowsNewer'
  <2>1. \A e \in events' : e.seq <= seq'
    BY <1>1, <1>3 DEF Inductive, RowsNewer
  <2>2. ASSUME NEW v \in Writers, NEW e \in tx'[v].rows
        PROVE  /\ e.project = ProjectOf[v]
               /\ e.seq <= seq'
               /\ \A f \in events' : f.project = e.project => f.seq < e.seq
    <3>1. v # w /\ e \in tx[v].rows
      BY <2>2, <1>1, <1>2
    <3>2. /\ e.project = ProjectOf[v]
          /\ e.seq <= seq
          /\ \A f \in events : f.project = e.project => f.seq < e.seq
      BY <3>1 DEF Inductive, RowsNewer
    <3>3. \A f \in new : f.project # e.project
      BY <3>1, <3>2, <1>6
    <3>4. QED
      BY <3>2, <3>3, <1>1
  <2>3. QED
    BY <2>1, <2>2 DEF RowsNewer
<1>9. ChainLinear'
  <2> SUFFICES ASSUME NEW e \in events' PROVE Follows(e, events')
    BY DEF ChainLinear, Follows
  <2>1. CASE e \in new
    BY <2>1, <1>5
  <2>2. CASE e \in events
    <3>1. Follows(e, events)
      BY <2>2 DEF Inductive, ChainLinear
    <3>2. \A f \in new : f.project = e.project => ~(f.seq < e.seq)
      <4> SUFFICES ASSUME NEW f \in new, f.project = e.project PROVE ~(f.seq < e.seq)
        OBVIOUS
      <4>1. e.seq < f.seq
        BY <2>2, <1>3 DEF Inductive, RowsNewer
      <4>2. QED
        BY <4>1, <2>2, <1>3, <1>4
    <3>3. QED
      BY <3>1, <3>2, <1>1, FollowsOlder
  <2>3. QED
    BY <2>1, <2>2, <1>1
<1>10. Prepared'
  <2> SUFFICES ASSUME NEW v \in Writers
               PROVE  /\ \A e \in tx'[v].rows : Follows(e, events' \cup tx'[v].rows)
                      /\ tx'[v].at = "read" => IsLast(tx'[v].prev, Visible(v)')
    BY DEF Prepared, Follows
  <2>1. CASE v = w
    BY <2>1, <1>1, <1>2
  <2>2. CASE v # w
    <3>1. tx'[v] = tx[v]
      BY <2>2, <1>1
    <3>2. ASSUME NEW e \in tx[v].rows PROVE Follows(e, events' \cup tx[v].rows)
      <4>1. Follows(e, events \cup tx[v].rows) /\ e.project = ProjectOf[v]
        BY DEF Inductive, Prepared, RowsNewer
      <4>2. \A f \in new : f.project # e.project
        BY <2>2, <3>2, <4>1, <1>6
      <4>3. QED
        BY <4>1, <4>2, <1>1, FollowsOlder
    <3>3. ASSUME tx[v].at = "read" PROVE Visible(v)' = Visible(v)
      <4>1. \A f \in new : f.project # ProjectOf[v]
        BY <2>2, <3>3, <1>6
      <4>2. QED
        BY <4>1, <3>1, <1>1 DEF Visible
    <3>4. QED
      BY <3>1, <3>2, <3>3 DEF Inductive, Prepared
  <2>3. QED
    BY <2>1, <2>2
<1>11. QED
  BY <1>7, <1>8, <1>9, <1>10

(* The log as a whole: the lock is held where it must be, a transaction's  *)
(* rows are its project's newest, and the chain is linear (emit).          *)
THEOREM ChainInvariant == Spec => []Inductive
<1>1. Init => Inductive
  BY WritersAssumption DEF Init, Inductive, TypeOK, LockHeld, RowsNewer, ChainLinear, Prepared,
     NoTx, Tx, Seal
<1>2. Inductive /\ [Next]_vars => Inductive'
  <2> SUFFICES ASSUME Inductive, [Next]_vars PROVE Inductive'
    OBVIOUS
  <2>1. ASSUME NEW w \in Writers, WriterStep(w) PROVE Inductive'
    <3>1. TypeOK'
      BY <2>1, WriterType DEF Inductive
    <3>2. LockHeld' /\ RowsNewer' /\ ChainLinear' /\ Prepared'
      BY <2>1, EmitStep, AcquireStep, ReadStep, AppendStep, EndStep DEF WriterStep
    <3>3. QED
      BY <3>1, <3>2 DEF Inductive
  <2>2. ASSUME NEW s \in Sealers, SealerStep(s) PROVE Inductive'
    <3>1. TypeOK' /\ UNCHANGED <<seq, events, lock, tx>>
      BY <2>2, SealerType DEF Inductive
    <3>2. QED
      BY <3>1 DEF Inductive, LockHeld, RowsNewer, ChainLinear, Prepared, Follows, Visible
  <2>3. CASE UNCHANGED vars
    BY <2>3 DEF vars, Inductive, TypeOK, LockHeld, RowsNewer, ChainLinear, Prepared, Follows,
       Visible
  <2>4. QED
    BY <2>1, <2>2, <2>3 DEF Next, WriterStep, SealerStep
<1>3. QED
  BY <1>1, <1>2, PTL DEF Spec

(* Every variable keeps its type.                                          *)
THEOREM ChainTypeCorrect == Spec => []TypeOK
<1>1. Inductive => TypeOK
  BY DEF Inductive
<1>2. QED
  BY <1>1, ChainInvariant, PTL

(* No two writers fork a project's chain, and a rollback leaves no gap in  *)
(* it, for any number of concurrent transactions (emit).                   *)
THEOREM ChainLinearHolds == Spec => []ChainLinear
<1>1. Inductive => ChainLinear
  BY DEF Inductive
<1>2. QED
  BY <1>1, ChainInvariant, PTL

(* A project's committed events only ever gain newer ones.                 *)
THEOREM AppendsAtEndHolds == Spec => AppendsAtEnd
<1>1. ASSUME Inductive, [Next]_vars,
             NEW e \in events' \ events, NEW f \in events, f.project = e.project
      PROVE  f.seq < e.seq
  <2>1. PICK w \in Writers : Commit(w)
    BY <1>1 DEF Next, vars, Emit, Acquire, ReadPrev, AppendRow, Rollback, SealStart, SealSelect,
       SealStamp, SealCommit, SealFails
  <2>2. e \in tx[w].rows
    BY <1>1, <2>1 DEF Commit
  <2>3. QED
    BY <1>1, <2>2 DEF Inductive, RowsNewer
<1>2. Inductive /\ [Next]_vars =>
        [\A e \in events' \ events : \A f \in events : f.project = e.project => f.seq < e.seq]_vars
  BY <1>1
<1>3. QED
  BY <1>2, ChainInvariant, PTL DEF Spec, AppendsAtEnd

-----------------------------------------------------------------------------
(* The anchors.                                                            *)

(* The clock goes forward, committed events stay, and a writer leaves the  *)
(* anchors alone.                                                          *)
LEMMA WriterFrame ==
  ASSUME TypeOK, NEW w \in Writers, WriterStep(w)
  PROVE  clock' \in Nat /\ clock <= clock' /\ events \subseteq events' /\ UNCHANGED <<anchors, seal>>
BY DEF WriterStep, Emit, Acquire, ReadPrev, AppendRow, Commit, Rollback, TypeOK

LEMMA SealerClock ==
  ASSUME TypeOK, NEW s \in Sealers, SealerStep(s)
  PROVE  clock' \in Nat /\ clock <= clock'
BY DEF SealerStep, SealStart, SealSelect, SealStamp, SealCommit, SealFails, TypeOK

(* What a writer's step adds to the rows is the row of its AppendRow.         *)
LEMMA RowsGrow ==
  ASSUME TypeOK, NEW w \in Writers, WriterStep(w)
  PROVE  /\ Rows' \subseteq Rows \cup (IF AppendRow(w) THEN {NewRow(w)} ELSE {})
         /\ seq' = IF AppendRow(w) THEN seq + 1 ELSE seq
         /\ \A v \in Writers : tx'[v].occurred \in {tx[v].occurred, clock', 0}
<1>1. CASE Emit(w) \/ Acquire(w) \/ ReadPrev(w)
  <2>1. /\ events' = events /\ seq' = seq /\ ~AppendRow(w)
        /\ \A v \in Writers : tx'[v].rows = tx[v].rows
    BY <1>1 DEF Emit, Acquire, ReadPrev, AppendRow, TypeOK, Tx
  <2>2. \A v \in Writers : tx'[v].occurred \in {tx[v].occurred, clock', 0}
    BY <1>1 DEF Emit, Acquire, ReadPrev, TypeOK, Tx
  <2>3. QED
    BY <2>1, <2>2 DEF Rows
<1>2. CASE AppendRow(w)
  <2>1. /\ events' = events /\ seq' = seq + 1
        /\ tx'[w].rows = tx[w].rows \cup {NewRow(w)}
        /\ \A v \in Writers \ {w} : tx'[v] = tx[v]
    BY <1>2, Appended DEF AppendRow, TypeOK
  <2>2. tx'[w].occurred = tx[w].occurred
    BY <1>2 DEF AppendRow, TypeOK, Tx
  <2>3. QED
    BY <1>2, <2>1, <2>2 DEF Rows
<1>3. CASE Commit(w) \/ Rollback(w)
  <2>1. /\ events' \subseteq events \cup tx[w].rows /\ seq' = seq /\ ~AppendRow(w)
        /\ tx'[w] = NoTx
        /\ \A v \in Writers \ {w} : tx'[v] = tx[v]
    BY <1>3 DEF Commit, Rollback, AppendRow, TypeOK
  <2>2. NoTx.rows = {} /\ NoTx.occurred = 0
    BY DEF NoTx
  <2>3. QED
    BY <2>1, <2>2 DEF Rows
<1>4. QED
  BY <1>1, <1>2, <1>3 DEF WriterStep

(* A row has a sequence number of its own and a time that has been.        *)
LEMMA WriterDates ==
  ASSUME TypeOK, RowsDated, NEW w \in Writers, WriterStep(w)
  PROVE  RowsDated'
<1>1. clock \in Nat /\ clock' \in Nat /\ clock <= clock' /\ seq \in Nat
  BY WriterFrame DEF TypeOK
<1>2. \A e \in Rows : e.seq \in Nat /\ e.occurred \in Nat
  BY DEF Rows, TypeOK, Tx, Event
<1>3. \A v \in Writers : tx[v].occurred \in Nat
  BY DEF TypeOK, Tx
<1>4. NewRow(w).seq = seq + 1 /\ NewRow(w).occurred = tx[w].occurred
  BY DEF NewRow
<1>5. \A e \in Rows : e.seq <= seq /\ e.occurred <= clock
  BY DEF RowsDated
<1>6. \A v \in Writers : tx[v].occurred <= clock
  BY DEF RowsDated
<1>7. \A e \in Rows' : e \in Rows \/ (e = NewRow(w) /\ seq' = seq + 1)
  BY RowsGrow
<1>8. seq' \in {seq, seq + 1}
  BY RowsGrow
<1>9. \A e \in Rows' : e.seq <= seq' /\ e.occurred <= clock'
  BY <1>1, <1>2, <1>3, <1>4, <1>5, <1>6, <1>7, <1>8
<1>10. \A v \in Writers : tx'[v].occurred <= clock'
  BY <1>1, <1>3, <1>6, RowsGrow
<1>11. ASSUME NEW e \in Rows', NEW f \in Rows', e.seq = f.seq PROVE e = f
  <2>1. CASE e \in Rows /\ f \in Rows
    BY <1>11, <2>1 DEF RowsDated
  <2>2. CASE ~(e \in Rows /\ f \in Rows)
    BY <1>1, <1>2, <1>4, <1>5, <1>7, <1>11, <2>2
  <2>3. QED
    BY <2>1, <2>2
<1>12. QED
  BY <1>9, <1>10, <1>11 DEF RowsDated

(* A writer's step takes nothing from an anchor or a sealer.               *)
LEMMA WriterAnchors ==
  ASSUME TypeOK, AnchorsDated, NEW w \in Writers, WriterStep(w)
  PROVE  AnchorsDated'
<1>1. /\ clock \in Nat /\ clock' \in Nat /\ clock <= clock'
      /\ events \subseteq events' /\ anchors' = anchors /\ seal' = seal
  BY WriterFrame DEF TypeOK
<1>2. \A e \in events : e.occurred \in Nat
  BY DEF TypeOK, Event
<1>3. \A n : /\ Fresh(n, clock) => Fresh(n, clock)'
             /\ \A s \in Sealers : Fresh(n, seal[s].now) => Fresh(n, seal[s].now)'
  BY <1>1, <1>2 DEF Fresh
<1>4. \A a \in anchors : a.at \in Nat
  BY DEF TypeOK, Anchor
<1>5. \A a \in anchors' : /\ a.at <= clock'
                          /\ \A n \in a.covers : \E e \in events' : e.seq = n /\ e.occurred <= a.at
  BY <1>1, <1>4 DEF AnchorsDated
<1>6. \A s \in Sealers : seal[s].at = "stamped" => seal[s].now \in Nat
  BY SealStages DEF TypeOK
<1>7. QED
  BY <1>1, <1>3, <1>5, <1>6 DEF AnchorsDated

(* The step of the only sealer: what it carries is newer than the anchors. *)
LEMMA SealerAnchors ==
  ASSUME TypeOK, RowsDated, AnchorsDated, OneSealer, NEW s \in Sealers, SealerStep(s)
  PROVE  AnchorsDated'
<1>1. \A r \in Sealers : r = s
  BY DEF OneSealer
<1>2. clock \in Nat /\ clock' \in Nat /\ clock <= clock' /\ events' = events /\ TypeOK'
  BY SealerClock, SealerType DEF TypeOK
<1>3. \A a \in anchors : a.at \in Nat
  BY DEF TypeOK, Anchor
<1>4. \A e \in events : e.occurred \in Nat /\ e.occurred <= clock
  BY DEF TypeOK, Event, RowsDated, Rows
<1>5. ASSUME anchors' = anchors
      PROVE  \A a \in anchors' : /\ a.at <= clock'
                                 /\ \A n \in a.covers : \E e \in events' : e.seq = n /\ e.occurred <= a.at
  BY <1>2, <1>3, <1>5 DEF AnchorsDated
<1>6. CASE SealStart(s)
  <2>1. PICK t : /\ \A a \in anchors : a.at <= t
                 /\ seal' = [seal EXCEPT ![s] = [at |-> "started", last |-> t]]
    BY <1>6 DEF SealStart
  <2>2. seal'[s] = [at |-> "started", last |-> t] /\ anchors' = anchors
    BY <1>6, <2>1 DEF SealStart, TypeOK
  <2>3. seal'[s].at = "started" /\ seal'[s].last = t
    BY <2>2
  <2>4. QED
    BY <1>1, <1>5, <2>1, <2>2, <2>3 DEF AnchorsDated
<1>7. CASE SealSelect(s)
  <2> DEFINE new == {e \in events : e.occurred > seal[s].last}
             c   == {e.seq : e \in new}
  <2>1. /\ anchors' = anchors /\ clock' = clock /\ seal[s].at = "started"
        /\ seal'[s] = IF new = {} THEN NoSeal ELSE [at |-> "selected", covers |-> c]
    BY <1>7 DEF SealSelect, TypeOK
  <2>2. seal[s].last \in Nat /\ \A a \in anchors : a.at <= seal[s].last
    BY <2>1 DEF AnchorsDated, TypeOK, Seal, NoSeal
  <2>3. \A e \in new : \A a \in anchors : a.at < e.occurred
    BY <1>3, <1>4, <2>2
  <2>4. \A n \in c : Fresh(n, clock)'
    BY <1>2, <1>4, <2>1, <2>3 DEF Fresh
  <2>5. seal'[s].at \in {"idle", "selected"} /\ (seal'[s].at = "selected" => seal'[s].covers = c)
    BY <2>1 DEF NoSeal
  <2> HIDE DEF c
  <2>6. QED
    BY <1>1, <1>5, <2>1, <2>4, <2>5 DEF AnchorsDated
<1>8. CASE SealStamp(s)
  <2>1. /\ anchors' = anchors /\ seal[s].at = "selected"
        /\ seal'[s] = [at |-> "stamped", covers |-> seal[s].covers, now |-> clock']
    BY <1>8 DEF SealStamp, TypeOK
  <2>2. \A n \in seal[s].covers : Fresh(n, clock)
    BY <2>1 DEF AnchorsDated
  <2>3. \A n \in seal[s].covers : Fresh(n, clock)'
    BY <1>2, <1>4, <2>1, <2>2 DEF Fresh
  <2>4. seal'[s].at = "stamped" /\ seal'[s].covers = seal[s].covers /\ seal'[s].now = clock'
    BY <2>1
  <2>5. QED
    BY <1>1, <1>2, <1>5, <2>1, <2>3, <2>4 DEF AnchorsDated, Fresh
<1>9. CASE SealCommit(s)
  <2> DEFINE b == [at |-> seal[s].now, covers |-> seal[s].covers]
  <2>1. /\ anchors' = anchors \cup {b} /\ clock' = clock /\ seal[s].at = "stamped"
        /\ seal'[s].at = "idle"
    BY <1>9 DEF SealCommit, TypeOK, NoSeal
  <2>2. seal[s].now <= clock /\ \A n \in seal[s].covers : Fresh(n, seal[s].now)
    BY <2>1 DEF AnchorsDated
  <2>3. b.at <= clock /\ \A n \in b.covers : \E e \in events : e.seq = n /\ e.occurred <= b.at
    BY <2>2 DEF Fresh
  <2> HIDE DEF b
  <2>4. \A a \in anchors' : /\ a.at <= clock'
                            /\ \A n \in a.covers : \E e \in events' : e.seq = n /\ e.occurred <= a.at
    BY <1>2, <2>1, <2>3 DEF AnchorsDated
  <2>5. QED
    BY <1>1, <2>1, <2>4 DEF AnchorsDated
<1>10. CASE SealFails(s)
  <2>1. anchors' = anchors /\ clock' = clock /\ seal'[s].at = "idle"
    BY <1>10 DEF SealFails, TypeOK, NoSeal
  <2>2. QED
    BY <1>1, <1>5, <2>1 DEF AnchorsDated
<1>11. QED
  BY <1>6, <1>7, <1>8, <1>9, <1>10 DEF SealerStep

(* The event an anchor gains is dated after every anchor there is: no      *)
(* earlier one covers it.                                                  *)
LEMMA SealerDisjoint ==
  ASSUME TypeOK, RowsDated, AnchorsDated, AnchoredOnce, NEW s \in Sealers, SealerStep(s)
  PROVE  AnchoredOnce'
<1>1. CASE SealCommit(s)
  <2> DEFINE b == [at |-> seal[s].now, covers |-> seal[s].covers]
  <2>1. anchors' = anchors \cup {b} /\ \A n \in b.covers : Fresh(n, seal[s].now)
    BY <1>1 DEF SealCommit, AnchorsDated
  <2>2. ASSUME NEW a \in anchors, NEW n \in a.covers \cap b.covers PROVE FALSE
    <3>1. PICK e \in events : e.seq = n /\ a.at < e.occurred
      BY <2>1, <2>2 DEF Fresh
    <3>2. PICK f \in events : f.seq = n /\ f.occurred <= a.at
      BY <2>2 DEF AnchorsDated
    <3>3. e = f
      BY <3>1, <3>2 DEF RowsDated, Rows
    <3>4. a.at \in Nat /\ e.occurred \in Nat
      BY DEF TypeOK, Anchor, Event
    <3>5. QED
      BY <3>1, <3>2, <3>3, <3>4
  <2> HIDE DEF b
  <2>3. QED
    BY <2>1, <2>2 DEF AnchoredOnce
<1>2. CASE ~SealCommit(s)
  BY <1>2 DEF SealerStep, SealStart, SealSelect, SealStamp, SealFails, AnchoredOnce
<1>3. QED
  BY <1>1, <1>2

(* With one sealer no event is counted by two anchors, for any number of   *)
(* writers, events, rollbacks and failed seals (seal_anchor).              *)
THEOREM AnchoredOnceHolds == OneSealer => (Spec => []AnchoredOnce)
<1> SUFFICES ASSUME OneSealer PROVE Spec => []AnchoredOnce
  OBVIOUS
<1> DEFINE Anchoring == RowsDated /\ AnchorsDated /\ AnchoredOnce
<1>1. Init => Anchoring
  BY DEF Init, RowsDated, Rows, AnchorsDated, AnchoredOnce, NoTx, NoSeal
<1>2. TypeOK /\ Anchoring /\ [Next]_vars => Anchoring'
  <2> SUFFICES ASSUME TypeOK, Anchoring, [Next]_vars PROVE Anchoring'
    OBVIOUS
  <2>1. ASSUME NEW w \in Writers, WriterStep(w) PROVE Anchoring'
    BY <2>1, WriterDates, WriterAnchors, WriterFrame DEF AnchoredOnce
  <2>2. ASSUME NEW s \in Sealers, SealerStep(s) PROVE Anchoring'
    <3>1. RowsDated'
      <4>1. /\ seq' = seq /\ events' = events /\ tx' = tx
            /\ clock \in Nat /\ clock' \in Nat /\ clock <= clock'
        BY <2>2, SealerType, SealerClock DEF TypeOK
      <4>2. /\ \A e \in Rows : e.occurred \in Nat
            /\ \A w \in Writers : tx[w].occurred \in Nat
        BY DEF Rows, TypeOK, Tx, Event
      <4>3. QED
        BY <4>1, <4>2 DEF RowsDated, Rows
    <3>2. QED
      BY <2>2, <3>1, SealerAnchors, SealerDisjoint
  <2>3. CASE UNCHANGED vars
    BY <2>3 DEF vars, RowsDated, Rows, AnchorsDated, Fresh, AnchoredOnce
  <2>4. QED
    BY <2>1, <2>2, <2>3 DEF Next, WriterStep, SealerStep
<1>3. QED
  BY <1>1, <1>2, ChainTypeCorrect, PTL DEF Spec
-----------------------------------------------------------------------------
(* The rows of one policy, and those that a transaction has counted: all   *)
(* that it inserted but the one whose count it is about to take.           *)
RowsOf(p, S) == {m \in S : m[1] = p}
Counted(u) == u.tx.rows \ (IF u.pc = "bump" THEN {u.row} ELSE {})

BeforeMatches == {"lookup", "store", "evaluate", "insert", "roll"}

(* A transaction has a count of its own for the policies of its rows, which*)
(* is what the table has and those rows; nothing else in it is counted.    *)
Tallied(u) ==
  /\ u.pc \in BeforeMatches => u.tx.rows = {} /\ \A p \in Policies : u.tx.bumped[p] = 0
  /\ u.tx.rows \cap matches = {}
  /\ u.pc = "bump" => u.row \in u.tx.rows /\ u.row \in u.todo
  /\ u.todo \cap Counted(u) = {}
  /\ \A p \in Policies :
       IF RowsOf(p, Counted(u)) = {} THEN u.tx.bumped[p] = 0
       ELSE u.tx.bumped[p] = policy[p].count + Cardinality(RowsOf(p, Counted(u)))

(* The list was read after the request came, or is younger than a TTL.     *)
Recent(u) ==
  /\ u.start <= now
  /\ u.pc = "store" => u.start <= u.read
  /\ u.pc # "lookup" => u.start < u.read + TTL \/ u.start <= u.read

(* Two transactions that are open have no row in common and count no       *)
(* policy both; none counts a policy that an operator's request holds.     *)
Apart(u, v) == u.tx.rows \cap v.tx.rows = {} /\ \A p \in Policies : u.tx.bumped[p] = 0 \/ v.tx.bumped[p] = 0
Unheld(u) == \A p \in op.own : u.tx.bumped[p] = 0

(* The invariant, in parts: of the requests, of the tables, of the caches, *)
(* of the operator's request and of the exporter.                          *)
RequestsSound ==
  /\ req \in [Requests -> {Idle} \cup Request]
  /\ \A r \in Active : /\ (req[r].pc = "bump") = (req[r].row # <<>>)
                       /\ req[r].pc = "match" => req[r].todo # {}
                       /\ Tallied(req[r]) /\ Recent(req[r]) /\ Unheld(req[r])
  /\ \A r, q \in Active : r # q => Apart(req[r], req[q])

TablesSound == now \in Times /\ RowTypes /\ MatchCountIsRows

Entries == [until : 0..(MaxTime + TTL), list : SUBSET Policies, read : Times]
CacheSound == cache \in [Workers -> Entries] /\ \A w \in Workers : cache[w].until <= cache[w].read + TTL

OpTypes ==
  {NoOp} \cup [pc : {"touch", "commit"}, at : Workers, todo : Seq(Policies),
              kind : {"create", "enable", "disable", "delete"}, own : SUBSET Policies]
OpSound == op \in OpTypes /\ (op.pc = "touch" => op.todo # <<>>)

ClientSound ==
  /\ batch \in [Batches -> [acked : BOOLEAN, tries : Nat]]
  /\ changes \in 0..MaxChanges /\ faults \in 0..MaxFaults

IngestSound == RequestsSound /\ TablesSound /\ CacheSound /\ OpSound /\ ClientSound
-----------------------------------------------------------------------------
(* The rows of a policy are finitely many.                                 *)
LEMMA RowsCounted ==
  ASSUME NEW S \in SUBSET MatchRows, NEW p
  PROVE  /\ IsFiniteSet(RowsOf(p, S)) /\ Cardinality(RowsOf(p, S)) \in Nat
         /\ Cardinality(RowsOf(p, S)) = 0 <=> RowsOf(p, S) = {}
<1>1. IsFiniteSet(MatchRows)
  BY IngestAssumption, FS_Product DEF MatchRows
<1>2. RowsOf(p, S) \in SUBSET MatchRows
  BY DEF RowsOf
<1>3. IsFiniteSet(RowsOf(p, S))
  BY <1>1, <1>2, FS_Subset
<1>4. QED
  BY <1>3, FS_CardinalityType, FS_EmptySet

(* Two sets of rows that are apart add up.                                 *)
LEMMA RowsAddUp ==
  ASSUME NEW S \in SUBSET MatchRows, NEW T \in SUBSET MatchRows, S \cap T = {}, NEW p
  PROVE  Cardinality(RowsOf(p, S \cup T)) = Cardinality(RowsOf(p, S)) + Cardinality(RowsOf(p, T))
<1>1. RowsOf(p, S \cup T) = RowsOf(p, S) \cup RowsOf(p, T) /\ RowsOf(p, S) \cap RowsOf(p, T) = {}
  BY DEF RowsOf
<1>2. /\ IsFiniteSet(RowsOf(p, S)) /\ IsFiniteSet(RowsOf(p, T))
      /\ Cardinality(RowsOf(p, S)) \in Nat /\ Cardinality(RowsOf(p, T)) \in Nat
  BY RowsCounted
<1>3. Cardinality(RowsOf(p, S) \cup RowsOf(p, T)) =
        Cardinality(RowsOf(p, S)) + Cardinality(RowsOf(p, T)) - Cardinality(RowsOf(p, S) \cap RowsOf(p, T))
  BY <1>2, FS_Union
<1>4. Cardinality(RowsOf(p, S) \cap RowsOf(p, T)) = 0
  BY <1>1, FS_EmptySet
<1>5. Cardinality(RowsOf(p, S \cup T)) = Cardinality(RowsOf(p, S) \cup RowsOf(p, T))
  BY <1>1
<1>6. QED
  BY <1>2, <1>3, <1>4, <1>5

(* One row more of its policy.                                             *)
LEMMA RowAdded ==
  ASSUME NEW S \in SUBSET MatchRows, NEW m \in MatchRows, m \notin S
  PROVE  /\ Cardinality(RowsOf(m[1], S \cup {m})) = Cardinality(RowsOf(m[1], S)) + 1
         /\ RowsOf(m[1], S \cup {m}) # {}
         /\ \A p : p # m[1] => RowsOf(p, S \cup {m}) = RowsOf(p, S)
<1>1. RowsOf(m[1], S \cup {m}) = RowsOf(m[1], S) \cup {m} /\ m \notin RowsOf(m[1], S)
  BY DEF RowsOf
<1>2. IsFiniteSet(RowsOf(m[1], S))
  BY RowsCounted
<1>3. Cardinality(RowsOf(m[1], S) \cup {m}) = Cardinality(RowsOf(m[1], S)) + 1
  BY <1>1, <1>2, FS_AddElement
<1>4. \A p : p # m[1] => RowsOf(p, S \cup {m}) = RowsOf(p, S)
  BY DEF RowsOf
<1>5. QED
  BY <1>1, <1>3, <1>4

(* What a request and its transaction carry.                               *)
LEMMA RequestFields ==
  ASSUME NEW u \in Request
  PROVE  /\ u.pc \in {"lookup", "store", "evaluate", "insert", "roll", "match", "bump", "enqueue", "reply", "commit"}
         /\ u.at \in Workers /\ u.b \in Batches /\ u.start \in Times /\ u.list \in SUBSET Policies /\ u.read \in Times
         /\ u.todo \in SUBSET MatchRows /\ u.row \in MatchRows \cup {<<>>} /\ u.due \in SUBSET MatchRows
         /\ u.bad \in BOOLEAN /\ u.tx \in Transaction /\ u # Idle
BY DEF Request, Idle

LEMMA TransactionFields ==
  ASSUME NEW t \in Transaction
  PROVE  /\ t.rows \in SUBSET MatchRows /\ t.bumped \in [Policies -> Nat] /\ t.wrote \in SUBSET Spans
         /\ t.made \in BOOLEAN /\ t.rolled \in BOOLEAN /\ t.total \in Nat /\ t.owes \in SUBSET MatchRows
BY DEF Transaction

LEMMA CleanTransaction ==
  Clean \in Transaction /\ Clean.rows = {} /\ \A p \in Policies : Clean.bumped[p] = 0
BY DEF Clean, Transaction

(* A count is taken where there are rows.                                  *)
LEMMA CountedPolicies ==
  ASSUME IngestTypeOK, NEW u \in Request, Tallied(u), NEW p \in Policies
  PROVE  (u.tx.bumped[p] = 0) <=> RowsOf(p, Counted(u)) = {}
<1>1. u.tx.rows \in SUBSET MatchRows /\ u.tx.bumped[p] \in Nat /\ policy[p].count \in Nat
  BY RequestFields, TransactionFields DEF IngestTypeOK, RowTypes, PolicyRow
<1>2. Counted(u) \in SUBSET MatchRows
  BY <1>1 DEF Counted
<1>3. /\ Cardinality(RowsOf(p, Counted(u))) \in Nat
      /\ Cardinality(RowsOf(p, Counted(u))) = 0 <=> RowsOf(p, Counted(u)) = {}
  BY <1>2, RowsCounted
<1>4. QED
  BY <1>1, <1>3 DEF Tallied

(* The tally stays when the transaction's matches do.                      *)
LEMMA TallyKept ==
  ASSUME NEW v, NEW u, Tallied(v), u.tx.rows = v.tx.rows, u.tx.bumped = v.tx.bumped,
         v.pc # "bump", u.pc # "bump", u.todo \subseteq v.todo \/ v.pc \in BeforeMatches,
         u.pc \in BeforeMatches => v.pc \in BeforeMatches
  PROVE  Tallied(u)
BY DEF Tallied, Counted

LEMMA TallyClean ==
  ASSUME IngestTypeOK, NEW u, u.tx = Clean, u.pc # "bump"
  PROVE  Tallied(u) /\ Unheld(u) /\ (\A v : Apart(u, v))
<1>1. u.tx.rows = {} /\ \A p \in Policies : u.tx.bumped[p] = 0
  BY CleanTransaction
<1>2. Counted(u) = {} /\ \A p \in Policies : RowsOf(p, {}) = {}
  BY <1>1 DEF Counted, RowsOf
<1>3. op.own \subseteq Policies
  BY DEF IngestTypeOK, NoOp
<1>4. QED
  BY <1>1, <1>2, <1>3 DEF Tallied, Unheld, Apart

-----------------------------------------------------------------------------
LEMMA SoundTypes ==
  IngestSound => IngestTypeOK
BY DEF IngestSound, IngestTypeOK, RequestsSound, TablesSound, CacheSound, OpSound, ClientSound, OpTypes, Entries

(* One request goes on: the others are as they were.                       *)
LEMMA RequestMoves ==
  ASSUME RequestsSound, NEW r \in Requests, NEW u \in Request, req' = [req EXCEPT ![r] = u],
         (u.pc = "bump") = (u.row # <<>>), u.pc = "match" => u.todo # {},
         Tallied(u), Recent(u), Unheld(u), \A q \in Active : q # r => Apart(u, req[q]),
         policy' = policy, matches' = matches, op' = op, now' = now
  PROVE  RequestsSound'
<1>1. req' \in [Requests -> {Idle} \cup Request] /\ \A q \in Requests : req'[q] = IF q = r THEN u ELSE req[q]
  BY DEF RequestsSound
<1>2. u # Idle
  BY RequestFields
<1>3. \A q \in Requests : (q \in Active)' <=> q = r \/ q \in Active
  BY <1>1, <1>2 DEF Active
<1>4. \A v : Tallied(v) => Tallied(v)'
  BY DEF Tallied, Counted
<1>5. \A v : (Recent(v) => Recent(v)') /\ (Unheld(v) => Unheld(v)')
  BY DEF Recent, Unheld
<1>6. ASSUME NEW q \in Active'
      PROVE  /\ (req'[q].pc = "bump") = (req'[q].row # <<>>)
             /\ req'[q].pc = "match" => req'[q].todo # {}
             /\ Tallied(req[q])' /\ Recent(req[q])' /\ Unheld(req[q])'
  <2>1. q \in Requests
    BY <1>6 DEF Active
  <2>2. CASE q = r
    BY <1>1, <1>4, <1>5, <2>1, <2>2
  <2>3. CASE q # r
    BY <1>1, <1>3, <1>4, <1>5, <2>1, <2>3 DEF RequestsSound
  <2>4. QED
    BY <2>2, <2>3
<1>7. ASSUME NEW q \in Active', NEW o \in Active', q # o PROVE Apart(req[q], req[o])'
  <2>1. q \in Requests /\ o \in Requests
    BY <1>7 DEF Active
  <2>2. Apart(req'[q], req'[o])
    BY <1>1, <1>3, <1>7, <2>1 DEF RequestsSound, Apart
  <2>3. QED
    BY <2>2 DEF Apart
<1>8. QED
  BY <1>1, <1>6, <1>7 DEF RequestsSound

(* What is known of a request that is open.                                *)
LEMMA OpenRequest ==
  ASSUME RequestsSound, NEW r \in Requests, req[r].pc # "idle"
  PROVE  /\ r \in Active /\ req[r] \in Request
         /\ Tallied(req[r]) /\ Recent(req[r]) /\ Unheld(req[r])
         /\ \A q \in Active : q # r => Apart(req[r], req[q])
         /\ (req[r].pc = "bump") = (req[r].row # <<>>)
         /\ req[r].pc = "match" => req[r].todo # {}
BY DEF RequestsSound, Active, Idle

(* A step that neither inserts a match nor counts one.                     *)
LEMMA OtherSteps ==
  ASSUME RequestsSound, NEW r \in Requests, req[r].pc \notin {"idle", "bump"},
         NEW u \in Request, req' = [req EXCEPT ![r] = u],
         u.pc # "bump", u.row = req[r].row, u.pc = "match" => u.todo # {},
         u.tx.rows = req[r].tx.rows, u.tx.bumped = req[r].tx.bumped,
         u.todo \subseteq req[r].todo \/ req[r].pc \in BeforeMatches,
         u.pc \in BeforeMatches => req[r].pc \in BeforeMatches,
         Recent(u),
         policy' = policy, matches' = matches, op' = op, now' = now
  PROVE  RequestsSound'
<1>1. Tallied(req[r]) /\ Unheld(req[r]) /\ (\A q \in Active : q # r => Apart(req[r], req[q])) /\ req[r].row = <<>>
  BY OpenRequest
<1>2. Tallied(u)
  BY <1>1, TallyKept
<1>3. Unheld(u) /\ (\A q \in Active : q # r => Apart(u, req[q]))
  BY <1>1 DEF Unheld, Apart
<1>4. QED
  BY <1>1, <1>2, <1>3, RequestMoves

LEMMA CacheSteps ==
  ASSUME IngestSound, NEW r \in Requests, Hit(r) \/ Load(r) \/ Store(r)
  PROVE  IngestSound'
<1>0. RequestsSound /\ TablesSound /\ CacheSound /\ OpSound /\ ClientSound /\ now \in Times /\ TTL \in Nat
  BY IngestAssumption DEF IngestSound, TablesSound
<1>a. cache \in [Workers -> Entries] /\ \A w \in Workers : cache[w].until <= cache[w].read + TTL
  BY <1>0 DEF CacheSound
<1> DEFINE v == req[r]
<1>1. v.pc \in {"lookup", "store"} /\ v \in Request /\ Recent(v)
  BY <1>0, OpenRequest DEF Hit, Load, Store
<1>2. v.at \in Workers /\ v.start \in Times /\ v.read \in Times /\ v.list \in SUBSET Policies
  BY <1>1, RequestFields
<1>3. Times \subseteq Nat /\ MaxTime \in Nat
  BY IngestAssumption DEF Times
<1>4. CASE Hit(r)
  <2> DEFINE u == [v EXCEPT !.pc = "evaluate", !.list = cache[v.at].list, !.read = cache[v.at].read]
  <2>1. cache[v.at].list \in SUBSET Policies /\ cache[v.at].read \in Times /\ cache[v.at].until \in Nat
        /\ v.start < cache[v.at].until /\ cache[v.at].until <= cache[v.at].read + TTL
    BY <1>a, <1>2, <1>3, <1>4 DEF Hit, Entries
  <2>2. req' = [req EXCEPT ![r] = u]
    BY <1>0, <1>4 DEF Hit, RequestsSound
  <2>3. /\ u \in Request /\ u.pc = "evaluate" /\ u.row = v.row /\ u.tx = v.tx /\ u.todo = v.todo /\ u.start = v.start
        /\ u.read = cache[v.at].read
    BY <1>1, <2>1 DEF Request
  <2>4. Recent(u)
    BY <1>1, <1>2, <1>3, <2>1, <2>3, <1>0 DEF Recent
  <2>5. policy' = policy /\ matches' = matches /\ op' = op /\ now' = now
    BY <1>4 DEF Hit, tables
  <2> HIDE DEF u
  <2>6. RequestsSound'
    BY <1>0, <1>1, <2>2, <2>3, <2>4, <2>5, OtherSteps DEF BeforeMatches
  <2>7. QED
    BY <1>0, <1>4, <2>6 DEF Hit, tables, IngestSound, TablesSound, RowTypes, MatchCountIsRows, CacheSound, OpSound, ClientSound
<1>5. CASE Load(r)
  <2> DEFINE u == [v EXCEPT !.pc = "store", !.list = Enabled, !.read = now]
  <2>1. Enabled \in SUBSET Policies
    BY DEF Enabled
  <2>2. req' = [req EXCEPT ![r] = u]
    BY <1>0, <1>5 DEF Load, RequestsSound
  <2>3. /\ u \in Request /\ u.pc = "store" /\ u.row = v.row /\ u.tx = v.tx /\ u.todo = v.todo /\ u.start = v.start
        /\ u.read = now
    BY <1>0, <1>1, <2>1 DEF Request
  <2>4. Recent(u)
    BY <1>1, <2>3 DEF Recent
  <2>5. policy' = policy /\ matches' = matches /\ op' = op /\ now' = now
    BY <1>5 DEF Load, tables
  <2> HIDE DEF u
  <2>6. RequestsSound'
    BY <1>0, <1>1, <2>2, <2>3, <2>4, <2>5, OtherSteps DEF BeforeMatches
  <2>7. QED
    BY <1>0, <1>5, <2>6 DEF Load, tables, IngestSound, TablesSound, RowTypes, MatchCountIsRows, CacheSound, OpSound, ClientSound
<1>6. CASE Store(r)
  <2> DEFINE u == [v EXCEPT !.pc = "evaluate"]
             e == [until |-> v.start + TTL, list |-> v.list, read |-> v.read]
  <2>1. v.start + TTL \in 0..(MaxTime + TTL) /\ v.start + TTL <= v.read + TTL
    BY <1>0, <1>1, <1>2, <1>3, <1>6 DEF Store, Recent, Times
  <2>2. req' = [req EXCEPT ![r] = u] /\ cache' = [cache EXCEPT ![v.at] = e]
    BY <1>0, <1>6 DEF Store, RequestsSound
  <2>3. /\ u \in Request /\ u.pc = "evaluate" /\ u.row = v.row /\ u.tx = v.tx /\ u.todo = v.todo /\ u.start = v.start
        /\ u.read = v.read
    BY <1>0, <1>1 DEF Request
  <2>4. Recent(u)
    BY <1>1, <1>6, <2>3 DEF Recent, Store
  <2>5. policy' = policy /\ matches' = matches /\ op' = op /\ now' = now
    BY <1>6 DEF Store, tables
  <2>6. e \in Entries /\ e.until <= e.read + TTL
    BY <1>2, <2>1 DEF Entries
  <2> HIDE DEF u, e
  <2>7. RequestsSound'
    BY <1>0, <1>1, <2>2, <2>3, <2>4, <2>5, OtherSteps DEF BeforeMatches
  <2>8. CacheSound'
    BY <1>a, <1>2, <2>2, <2>6 DEF CacheSound
  <2>9. QED
    BY <1>0, <1>6, <2>7, <2>8 DEF Store, tables, IngestSound, TablesSound, RowTypes, MatchCountIsRows, OpSound, ClientSound
<1>7. QED
  BY <1>4, <1>5, <1>6

(* A request's steps leave the tables alone until it commits.              *)
LEMMA AroundRequests ==
  ASSUME IngestSound, RequestsSound', UNCHANGED <<now, tables, cache, op>>, ClientSound'
  PROVE  IngestSound'
BY DEF IngestSound, TablesSound, RowTypes, MatchCountIsRows, CacheSound, OpSound, tables

(* A transaction that begins, or that failed, has nothing.                 *)
LEMMA CleanSteps ==
  ASSUME IngestSound, NEW r \in Requests, NEW u \in Request, req' = [req EXCEPT ![r] = u],
         u.tx = Clean, u.pc \notin {"bump", "match"}, u.row = <<>>, Recent(u),
         policy' = policy, matches' = matches, op' = op, now' = now
  PROVE  RequestsSound'
<1>1. RequestsSound /\ IngestTypeOK
  BY SoundTypes DEF IngestSound
<1>2. Tallied(u) /\ Unheld(u) /\ \A q \in Active : q # r => Apart(u, req[q])
  BY <1>1, TallyClean
<1>3. QED
  BY <1>1, <1>2, RequestMoves

LEMMA StartStep ==
  ASSUME IngestSound, NEW r \in Requests, NEW b \in Batches, NEW w \in Serving, Start(r, b, w)
  PROVE  IngestSound'
<1>0. /\ RequestsSound /\ CacheSound /\ ClientSound /\ now \in Times /\ TTL \in Nat /\ Times \subseteq Nat /\ w \in Workers
  BY IngestAssumption DEF IngestSound, TablesSound, Times
<1>1. /\ cache[w].list \in SUBSET Policies /\ cache[w].read \in Times /\ cache[w].until \in Nat
      /\ cache[w].until <= cache[w].read + TTL
  BY <1>0, IngestAssumption DEF CacheSound, Entries
<1> DEFINE hit == cache[w].until > now
           u == [pc |-> IF hit THEN "evaluate" ELSE "lookup", at |-> w, b |-> b, start |-> now,
                 list |-> IF hit THEN cache[w].list ELSE {}, read |-> IF hit THEN cache[w].read ELSE now,
                 todo |-> {}, row |-> <<>>, due |-> {}, bad |-> FALSE, tx |-> Clean]
<1>2. req' = [req EXCEPT ![r] = u] /\ UNCHANGED <<now, tables, cache, op, changes, faults>>
  BY DEF Start
<1>3. u \in Request
  BY <1>0, <1>1, CleanTransaction DEF Request
<1>4. /\ u.tx = Clean /\ u.pc \notin {"bump", "match", "store"} /\ u.row = <<>> /\ u.start = now
      /\ u.pc # "lookup" => hit /\ u.read = cache[w].read
  OBVIOUS
<1> HIDE DEF u
<1>5. Recent(u)
  <2>1. now <= now /\ (cache[w].until > now => now < cache[w].read + TTL)
    <3>1. now \in Nat /\ cache[w].read \in Nat
      BY <1>0, <1>1
    <3>2. QED
      BY <1>0, <1>1, <3>1
  <2>2. QED
    BY <1>4, <2>1 DEF Recent
<1>6. RequestsSound'
  BY <1>2, <1>3, <1>4, <1>5, CleanSteps DEF tables
<1>7. ClientSound'
  BY <1>0, <1>2 DEF Start, ClientSound
<1>8. QED
  BY <1>2, <1>6, <1>7, AroundRequests

LEMMA BatchSteps ==
  ASSUME IngestSound, NEW r \in Requests, Evaluate(r) \/ Insert(r) \/ Roll(r) \/ Reply(r)
  PROVE  IngestSound'
<1>0. RequestsSound /\ ClientSound
  BY DEF IngestSound
<1> DEFINE v == req[r]
<1>1. /\ v.pc \in {"evaluate", "insert", "roll", "reply"} /\ v \in Request /\ Recent(v) /\ Tallied(v) /\ v.row = <<>>
  BY <1>0, OpenRequest DEF Evaluate, Insert, Roll, Reply
<1>2. /\ v.todo \in SUBSET MatchRows /\ v.list \in SUBSET Policies /\ v.b \in Batches /\ v.tx \in Transaction
  BY <1>1, RequestFields
<1>3. policy' = policy /\ matches' = matches /\ op' = op /\ now' = now /\ UNCHANGED <<now, tables, cache, op>>
  BY DEF Evaluate, Insert, Roll, Reply, tables
<1>4. ASSUME NEW u \in Request, u.start = v.start, u.read = v.read, u.pc \notin {"store"}, v.pc # "lookup" PROVE Recent(u)
  BY <1>1, <1>4 DEF Recent
<1>5. CASE Evaluate(r)
  <2> DEFINE found == Found(v.list, v.b)
             t == [v.tx EXCEPT !.made = ~trace.made /\ Kept(v.list, v.b) # {}]
             u == [v EXCEPT !.todo = found, !.due = Alerts(found),
                            !.pc = IF Kept(v.list, v.b) = {} THEN "reply" ELSE "insert", !.tx = t]
  <2>1. found \in SUBSET MatchRows /\ Alerts(found) \in SUBSET MatchRows
    BY DEF Found, Alerts
  <2>2. t \in Transaction /\ t.rows = v.tx.rows /\ t.bumped = v.tx.bumped
    BY <1>2 DEF Transaction
  <2>3. req' = [req EXCEPT ![r] = u]
    <3>1. DOMAIN req = Requests
      BY <1>0 DEF RequestsSound
    <3>2. req' = [req EXCEPT ![r].todo = found, ![r].due = Alerts(found),
                             ![r].pc = IF Kept(v.list, v.b) = {} THEN "reply" ELSE "insert",
                             ![r].tx.made = ~trace.made /\ Kept(v.list, v.b) # {}]
      BY <1>5 DEF Evaluate
    <3>3. QED
      BY <3>1, <3>2
  <2> HIDE DEF t
  <2>4. /\ u \in Request /\ u.pc \in {"reply", "insert"} /\ u.row = v.row /\ u.tx = t
        /\ u.start = v.start /\ u.read = v.read
    BY <1>1, <2>1, <2>2 DEF Request
  <2> HIDE DEF u
  <2>5. RequestsSound'
    BY <1>0, <1>1, <1>3, <1>4, <1>5, <2>2, <2>3, <2>4, OtherSteps DEF BeforeMatches, Evaluate
  <2>6. ClientSound'
    BY <1>0, <1>5 DEF Evaluate, ClientSound
  <2>7. QED
    BY <1>3, <2>5, <2>6, AroundRequests
<1>6. CASE Insert(r)
  <2> DEFINE wrote == Kept(v.list, v.b)
             t == [v.tx EXCEPT !.wrote = wrote, !.total = Cardinality(spans \cup wrote)]
             u == [v EXCEPT !.pc = "roll", !.tx = t]
  <2>1. wrote \in SUBSET Spans /\ spans \in SUBSET Spans
    BY <1>2, IngestAssumption DEF Kept, IngestSound, TablesSound, RowTypes
  <2>2. Cardinality(spans \cup wrote) \in Nat
    BY <2>1, IngestAssumption, FS_Subset, FS_CardinalityType
  <2>3. t \in Transaction /\ t.rows = v.tx.rows /\ t.bumped = v.tx.bumped
    BY <1>2, <2>1, <2>2 DEF Transaction
  <2>4. req' = [req EXCEPT ![r] = u]
    BY <1>0, <1>6 DEF Insert, RequestsSound
  <2> HIDE DEF t
  <2>5. /\ u \in Request /\ u.pc = "roll" /\ u.row = v.row /\ u.tx = t /\ u.todo = v.todo
        /\ u.start = v.start /\ u.read = v.read
    BY <1>1, <2>3 DEF Request
  <2> HIDE DEF u
  <2>6. RequestsSound'
    BY <1>0, <1>1, <1>3, <1>4, <1>6, <2>3, <2>4, <2>5, OtherSteps DEF BeforeMatches, Insert
  <2>7. ClientSound'
    BY <1>0, <1>6 DEF Insert, ClientSound
  <2>8. QED
    BY <1>3, <2>6, <2>7, AroundRequests
<1>7. CASE Roll(r)
  <2> DEFINE t == [v.tx EXCEPT !.rolled = TRUE]
             u == [v EXCEPT !.pc = Then(v.todo), !.tx = t]
  <2>1. t \in Transaction /\ t.rows = v.tx.rows /\ t.bumped = v.tx.bumped
    BY <1>2 DEF Transaction
  <2>2. req' = [req EXCEPT ![r] = u]
    BY <1>0, <1>7 DEF Roll, RequestsSound
  <2> HIDE DEF t
  <2>3. /\ u \in Request /\ u.pc = Then(v.todo) /\ u.row = v.row /\ u.tx = t /\ u.todo = v.todo
        /\ u.start = v.start /\ u.read = v.read
    BY <1>1, <2>1 DEF Request, Then
  <2> HIDE DEF u
  <2>4. RequestsSound'
    BY <1>0, <1>1, <1>3, <1>4, <1>7, <2>1, <2>2, <2>3, OtherSteps DEF BeforeMatches, Roll, Then
  <2>5. ClientSound'
    BY <1>0, <1>7 DEF Roll, ClientSound
  <2>6. QED
    BY <1>3, <2>4, <2>5, AroundRequests
<1>8. CASE Reply(r)
  <2> DEFINE u == [v EXCEPT !.pc = "commit"]
  <2>1. req' = [req EXCEPT ![r] = u]
    BY <1>0, <1>8 DEF Reply, RequestsSound
  <2>2. /\ u \in Request /\ u.pc = "commit" /\ u.row = v.row /\ u.tx = v.tx /\ u.todo = v.todo
        /\ u.start = v.start /\ u.read = v.read
    BY <1>1 DEF Request
  <2> HIDE DEF u
  <2>3. RequestsSound'
    BY <1>0, <1>1, <1>3, <1>4, <1>8, <2>1, <2>2, OtherSteps DEF BeforeMatches, Reply
  <2>4. ClientSound'
    <3>1. batch' \in [Batches -> [acked : BOOLEAN, tries : Nat]]
      <4>1. CASE batch' = [batch EXCEPT ![v.b].acked = TRUE]
        BY <1>0, <1>2, <4>1 DEF ClientSound
      <4>2. QED
        BY <1>0, <1>8, <4>1 DEF Reply, ClientSound
    <3>2. faults' \in 0..MaxFaults
      BY <1>0, <1>8, IngestAssumption DEF Reply, ClientSound
    <3>3. QED
      BY <1>0, <1>8, <3>1, <3>2 DEF Reply, ClientSound
  <2>5. QED
    BY <1>3, <2>3, <2>4, AroundRequests
<1>9. QED
  BY <1>5, <1>6, <1>7, <1>8

(* Nobody else holds what a match or a count needs, when it goes on.       *)
LEMMA MatchIsFree ==
  ASSUME NEW r \in Active, r # Operator, req[r].pc = "match", Free(r), NEW m \in Foremost(req[r].todo)
  PROVE  \A q \in Active : q # r => m \notin req[q].tx.rows
BY DEF Free, Holders

LEMMA CountIsFree ==
  ASSUME NEW r \in Active, r # Operator, Operator \notin Active, req[r].pc = "bump", Free(r)
  PROVE  /\ req[r].row[1] \notin op.own
         /\ \A q \in Active : q # r => req[q].tx.bumped[req[r].row[1]] = 0
<1>1. Updating(req[r].row[1]) \ {r} = {}
  BY DEF Free, Holders
<1>2. QED
  BY <1>1 DEF Updating

LEMMA MatchStep ==
  ASSUME IngestSound, NEW r \in Requests, Match(r)
  PROVE  IngestSound'
<1>0. RequestsSound /\ ClientSound /\ r # Operator
  BY IngestAssumption DEF IngestSound
<1> DEFINE v == req[r]
<1>1. /\ v.pc = "match" /\ v \in Request /\ Recent(v) /\ Tallied(v) /\ Unheld(v) /\ v.row = <<>> /\ r \in Active
      /\ \A q \in Active : q # r => Apart(v, req[q])
  BY <1>0, OpenRequest DEF Match
<1>2. v.todo \in SUBSET MatchRows /\ v.tx \in Transaction /\ v.tx.rows \in SUBSET MatchRows
  BY <1>1, RequestFields, TransactionFields
<1>3. policy' = policy /\ matches' = matches /\ op' = op /\ now' = now /\ UNCHANGED <<now, tables, cache, op>> /\ ClientSound'
  BY <1>0 DEF Match, tables, ClientSound
<1>4. PICK m \in Foremost(v.todo) :
        req' = IF m \in matches
               THEN [req EXCEPT ![r].todo = @ \ {m}, ![r].pc = Then(v.todo \ {m})]
               ELSE [req EXCEPT ![r].pc = "bump", ![r].row = m, ![r].tx.rows = @ \cup {m}]
  BY DEF Match
<1>5. m \in v.todo /\ m \in MatchRows
  BY <1>2 DEF Foremost
<1>6. CASE m \in matches
  <2> DEFINE u == [v EXCEPT !.todo = @ \ {m}, !.pc = Then(v.todo \ {m})]
  <2>1. req' = [req EXCEPT ![r] = u]
    BY <1>0, <1>4, <1>6 DEF RequestsSound
  <2>2. /\ u \in Request /\ u.pc = Then(v.todo \ {m}) /\ u.todo = v.todo \ {m} /\ u.row = v.row /\ u.tx = v.tx
        /\ u.start = v.start /\ u.read = v.read
    BY <1>1, <1>2 DEF Request, Then
  <2> HIDE DEF u
  <2>3. u.pc \in {"enqueue", "match"} /\ (u.pc = "match" => u.todo # {})
    BY <2>2 DEF Then
  <2>4. Recent(u)
    BY <1>1, <2>2, <2>3 DEF Recent
  <2>5. RequestsSound'
    BY <1>0, <1>1, <1>3, <2>1, <2>2, <2>3, <2>4, OtherSteps DEF BeforeMatches
  <2>6. QED
    BY <1>3, <2>5, AroundRequests
<1>7. CASE m \notin matches
  <2> DEFINE t == [v.tx EXCEPT !.rows = @ \cup {m}]
             u == [v EXCEPT !.pc = "bump", !.row = m, !.tx = t]
  <2>1. t \in Transaction /\ t.rows = v.tx.rows \cup {m} /\ t.bumped = v.tx.bumped
    BY <1>2, <1>5 DEF Transaction
  <2>2. req' = [req EXCEPT ![r] = u]
    BY <1>0, <1>4, <1>7 DEF RequestsSound
  <2> HIDE DEF t
  <2>3. /\ u \in Request /\ u.pc = "bump" /\ u.todo = v.todo /\ u.row = m /\ u.tx = t
        /\ u.start = v.start /\ u.read = v.read
    BY <1>1, <1>5, <2>1 DEF Request
  <2> HIDE DEF u
  <2>4. Counted(v) = v.tx.rows /\ m \notin v.tx.rows
    BY <1>1, <1>5 DEF Tallied, Counted
  <2>5. Counted(u) = Counted(v)
    BY <2>1, <2>3, <2>4 DEF Counted
  <2>6. Tallied(u)
    BY <1>1, <1>5, <1>7, <2>1, <2>3, <2>5 DEF Tallied, BeforeMatches
  <2>7. Recent(u) /\ Unheld(u)
    BY <1>1, <2>1, <2>3 DEF Recent, Unheld
  <2>8. \A q \in Active : q # r => m \notin req[q].tx.rows
    BY <1>0, <1>1, MatchIsFree DEF Match
  <2>9. \A q \in Active : q # r => Apart(u, req[q])
    BY <1>1, <2>1, <2>3, <2>8 DEF Apart
  <2>10. m # <<>>
    BY <1>5 DEF MatchRows
  <2>11. RequestsSound'
    BY <1>0, <1>3, <2>2, <2>3, <2>6, <2>7, <2>9, <2>10, RequestMoves
  <2>12. QED
    BY <1>3, <2>11, AroundRequests
<1>8. QED
  BY <1>6, <1>7

LEMMA BumpStep ==
  ASSUME IngestSound, NEW r \in Requests, Bump(r)
  PROVE  IngestSound'
<1>0. RequestsSound /\ ClientSound /\ r # Operator /\ Operator \notin Active /\ IngestTypeOK
  BY IngestAssumption, SoundTypes DEF IngestSound, Active
<1> DEFINE v == req[r]
           m == v.row
           p == m[1]
<1>1. /\ v.pc = "bump" /\ v \in Request /\ Recent(v) /\ Tallied(v) /\ Unheld(v) /\ v.row # <<>> /\ r \in Active
      /\ \A q \in Active : q # r => Apart(v, req[q])
  BY <1>0, OpenRequest DEF Bump
<1>2. /\ v.todo \in SUBSET MatchRows /\ v.tx \in Transaction /\ v.tx.rows \in SUBSET MatchRows /\ m \in MatchRows
      /\ v.tx.bumped \in [Policies -> Nat] /\ m \in v.tx.rows
  BY <1>1, RequestFields, TransactionFields DEF Tallied
<1>3. policy' = policy /\ matches' = matches /\ op' = op /\ now' = now /\ UNCHANGED <<now, tables, cache, op>> /\ ClientSound'
  BY <1>0 DEF Bump, tables, ClientSound
<1>4. p \in Policies /\ policy[p].count \in Nat
  BY <1>0, <1>2 DEF MatchRows, IngestTypeOK, RowTypes, PolicyRow
<1> DEFINE n == 1 + (IF v.tx.bumped[p] = 0 THEN policy[p].count ELSE v.tx.bumped[p])
           t == [v.tx EXCEPT !.bumped = [@ EXCEPT ![p] = n]]
           u == [v EXCEPT !.pc = Then(v.todo \ {m}), !.todo = @ \ {m}, !.row = <<>>, !.tx = t]
<1>5. n \in Nat /\ n # 0
  BY <1>2, <1>4
<1>6. req' = [req EXCEPT ![r] = u]
  <2>1. DOMAIN req = Requests
    BY <1>0 DEF RequestsSound
  <2>2. req' = [req EXCEPT ![r].pc = Then(v.todo \ {m}), ![r].todo = @ \ {m}, ![r].row = <<>>,
                           ![r].tx.bumped[p] = 1 + (IF @ = 0 THEN policy[p].count ELSE @)]
    BY DEF Bump
  <2>3. QED
    BY <2>1, <2>2
<1> HIDE DEF n
<1>7. t \in Transaction /\ t.rows = v.tx.rows /\ t.bumped = [v.tx.bumped EXCEPT ![p] = n]
  BY <1>2, <1>5 DEF Transaction
<1> HIDE DEF t
<1>8. /\ u \in Request /\ u.pc = Then(v.todo \ {m}) /\ u.todo = v.todo \ {m} /\ u.row = <<>> /\ u.tx = t
      /\ u.start = v.start /\ u.read = v.read
  BY <1>1, <1>2, <1>7 DEF Request, Then
<1> HIDE DEF u
<1>9. u.pc \in {"enqueue", "match"} /\ (u.pc = "match" => u.todo # {})
  BY <1>8 DEF Then
<1>10. Counted(u) = v.tx.rows /\ Counted(v) = v.tx.rows \ {m} /\ v.tx.rows = Counted(v) \cup {m} /\ Counted(v) \in SUBSET MatchRows
  BY <1>1, <1>2, <1>7, <1>8, <1>9 DEF Counted
<1>11. /\ Cardinality(RowsOf(p, Counted(u))) = Cardinality(RowsOf(p, Counted(v))) + 1
       /\ RowsOf(p, Counted(u)) # {}
       /\ \A x : x # p => RowsOf(x, Counted(u)) = RowsOf(x, Counted(v))
  <2>1. m \notin Counted(v)
    BY <1>10
  <2>2. /\ Cardinality(RowsOf(m[1], Counted(v) \cup {m})) = Cardinality(RowsOf(m[1], Counted(v))) + 1
        /\ RowsOf(m[1], Counted(v) \cup {m}) # {}
        /\ \A x : x # m[1] => RowsOf(x, Counted(v) \cup {m}) = RowsOf(x, Counted(v))
    BY <1>2, <1>10, <2>1, RowAdded
  <2>3. QED
    BY <1>10, <2>2
<1>12. u.tx.bumped[p] = policy[p].count + Cardinality(RowsOf(p, Counted(u)))
  <2>1. u.tx.bumped[p] = n
    BY <1>2, <1>4, <1>7, <1>8
  <2>2. /\ Cardinality(RowsOf(p, Counted(v))) \in Nat
        /\ Cardinality(RowsOf(p, Counted(v))) = 0 <=> RowsOf(p, Counted(v)) = {}
    BY <1>10, RowsCounted
  <2>3. v.tx.bumped[p] \in Nat
    BY <1>2, <1>4
  <2>4. IF RowsOf(p, Counted(v)) = {} THEN v.tx.bumped[p] = 0
        ELSE v.tx.bumped[p] = policy[p].count + Cardinality(RowsOf(p, Counted(v)))
    BY <1>1, <1>4 DEF Tallied
  <2>5. CASE RowsOf(p, Counted(v)) = {}
    BY <1>4, <1>11, <2>1, <2>2, <2>4, <2>5 DEF n
  <2>6. CASE RowsOf(p, Counted(v)) # {}
    BY <1>4, <1>11, <2>1, <2>2, <2>3, <2>4, <2>6 DEF n
  <2>7. QED
    BY <2>5, <2>6
<1>13. ASSUME NEW x \in Policies
       PROVE  IF RowsOf(x, Counted(u)) = {} THEN u.tx.bumped[x] = 0
              ELSE u.tx.bumped[x] = policy[x].count + Cardinality(RowsOf(x, Counted(u)))
  <2>1. CASE x = p
    BY <1>11, <1>12, <2>1
  <2>2. CASE x # p
    <3>1. RowsOf(x, Counted(u)) = RowsOf(x, Counted(v)) /\ u.tx.bumped[x] = v.tx.bumped[x]
      BY <1>2, <1>7, <1>8, <1>11, <2>2
    <3>2. QED
      BY <1>1, <3>1 DEF Tallied
  <2>3. QED
    BY <2>1, <2>2
<1>14. Tallied(u)
  <2>1. u.tx.rows \cap matches = {} /\ v.todo \cap Counted(v) = {}
    BY <1>1, <1>7, <1>8 DEF Tallied
  <2>2. u.todo \cap Counted(u) = {}
    BY <1>8, <1>10, <2>1
  <2>3. QED
    BY <1>9, <1>13, <2>1, <2>2 DEF Tallied, BeforeMatches
<1>15. Recent(u)
  BY <1>1, <1>8, <1>9 DEF Recent
<1>16. p \notin op.own /\ \A q \in Active : q # r => req[q].tx.bumped[p] = 0
  BY <1>0, <1>1, CountIsFree DEF Bump
<1>17. Unheld(u)
  <2>1. \A x \in op.own : u.tx.bumped[x] = v.tx.bumped[x]
    <3>1. op.own \subseteq Policies
      BY <1>0 DEF IngestTypeOK, NoOp
    <3>2. QED
      BY <1>2, <1>7, <1>8, <1>16, <3>1
  <2>2. QED
    BY <1>1, <2>1 DEF Unheld
<1>18. ASSUME NEW q \in Active, q # r PROVE Apart(u, req[q])
  <2>1. \A x \in Policies : x # p => u.tx.bumped[x] = v.tx.bumped[x]
    BY <1>2, <1>7, <1>8
  <2>2. QED
    BY <1>1, <1>7, <1>8, <1>16, <1>18, <2>1 DEF Apart
<1>19. RequestsSound'
  BY <1>0, <1>3, <1>6, <1>8, <1>9, <1>14, <1>15, <1>17, <1>18, RequestMoves
<1>20. QED
  BY <1>3, <1>19, AroundRequests

LEMMA FailedMatches ==
  ASSUME IngestSound, NEW r \in Requests, MatchFails(r) \/ Enqueue(r)
  PROVE  IngestSound'
<1>0. RequestsSound /\ ClientSound
  BY DEF IngestSound
<1> DEFINE v == req[r]
<1>1. v.pc \in {"match", "bump", "enqueue"} /\ v \in Request /\ Recent(v) /\ Tallied(v)
      /\ (v.pc = "bump") = (v.row # <<>>)
  BY <1>0, OpenRequest DEF MatchFails, Enqueue
<1>2. v.due \in SUBSET MatchRows /\ v.tx \in Transaction
  BY <1>1, RequestFields
<1>3. policy' = policy /\ matches' = matches /\ op' = op /\ now' = now /\ UNCHANGED <<now, tables, cache, op>> /\ ClientSound'
  BY <1>0 DEF MatchFails, Enqueue, tables, ClientSound
<1>4. CASE MatchFails(r)
  <2> DEFINE u == [v EXCEPT !.pc = "enqueue", !.todo = {}, !.row = <<>>, !.bad = TRUE, !.tx = Clean]
  <2>1. req' = [req EXCEPT ![r] = u]
    BY <1>0, <1>4 DEF MatchFails, RequestsSound
  <2>2. u \in Request /\ u.pc = "enqueue" /\ u.row = <<>> /\ u.tx = Clean /\ u.start = v.start /\ u.read = v.read
    BY <1>1, CleanTransaction DEF Request
  <2> HIDE DEF u
  <2>3. Recent(u)
    BY <1>1, <2>2 DEF Recent
  <2>4. RequestsSound'
    BY <1>3, <2>1, <2>2, <2>3, CleanSteps
  <2>5. QED
    BY <1>3, <2>4, AroundRequests
<1>5. CASE Enqueue(r) /\ (req[r].bad \/ \E m \in req[r].due : policy[m[1]].state = "gone")
  <2> DEFINE u == [v EXCEPT !.pc = "reply", !.bad = TRUE, !.tx = Clean]
  <2>1. req' = [req EXCEPT ![r] = u] /\ v.pc = "enqueue"
    BY <1>0, <1>5 DEF Enqueue, RequestsSound
  <2>2. u \in Request /\ u.pc = "reply" /\ u.row = <<>> /\ u.tx = Clean /\ u.start = v.start /\ u.read = v.read
    BY <1>1, <2>1, CleanTransaction DEF Request
  <2> HIDE DEF u
  <2>3. Recent(u)
    BY <1>1, <2>2 DEF Recent
  <2>4. RequestsSound'
    BY <1>3, <2>1, <2>2, <2>3, CleanSteps
  <2>5. QED
    BY <1>3, <2>4, AroundRequests
<1>6. CASE Enqueue(r) /\ ~(req[r].bad \/ \E m \in req[r].due : policy[m[1]].state = "gone")
  <2> DEFINE t == [v.tx EXCEPT !.owes = v.due]
             u == [v EXCEPT !.pc = "reply", !.tx = t]
  <2>1. t \in Transaction /\ t.rows = v.tx.rows /\ t.bumped = v.tx.bumped
    BY <1>2 DEF Transaction
  <2>2. req' = [req EXCEPT ![r] = u] /\ v.pc = "enqueue"
    BY <1>0, <1>6 DEF Enqueue, RequestsSound
  <2> HIDE DEF t
  <2>3. /\ u \in Request /\ u.pc = "reply" /\ u.row = v.row /\ u.tx = t /\ u.todo = v.todo
        /\ u.start = v.start /\ u.read = v.read
    BY <1>1, <2>1 DEF Request
  <2> HIDE DEF u
  <2>4. Recent(u)
    BY <1>1, <2>3 DEF Recent
  <2>5. RequestsSound'
    BY <1>0, <1>1, <1>3, <2>1, <2>2, <2>3, <2>4, OtherSteps DEF BeforeMatches
  <2>6. QED
    BY <1>3, <2>5, AroundRequests
<1>7. QED
  BY <1>4, <1>5, <1>6

-----------------------------------------------------------------------------
(* Requests end: the others are as they were, and what they counted is     *)
(* still what the table has for the policies they hold.                    *)
LEMMA RequestsEnd ==
  ASSUME RequestsSound, NEW D \in SUBSET Requests,
         req' \in [Requests -> {Idle} \cup Request], \A r \in Requests : req'[r] = IF r \in D THEN Idle ELSE req[r],
         \A r \in Active \ D : req[r].tx.rows \cap matches' = {},
         \A r \in Active \ D : \A p \in Policies :
           RowsOf(p, Counted(req[r])) # {} => policy'[p].count = policy[p].count,
         op'.own \subseteq op.own, now' = now
  PROVE  RequestsSound'
<1>1. \A r \in Requests : (r \in Active)' <=> r \in Active \ D
  BY DEF Active
<1>2. ASSUME NEW r \in Active'
      PROVE  /\ (req'[r].pc = "bump") = (req'[r].row # <<>>)
             /\ req'[r].pc = "match" => req'[r].todo # {}
             /\ Tallied(req[r])' /\ Recent(req[r])' /\ Unheld(req[r])'
  <2>1. r \in Requests /\ r \in Active \ D /\ req'[r] = req[r]
    BY <1>1, <1>2 DEF Active
  <2>2. Tallied(req[r]) /\ Recent(req[r]) /\ Unheld(req[r])
    BY <2>1 DEF RequestsSound
  <2>3. Tallied(req[r])'
    BY <2>1, <2>2 DEF Tallied, Counted
  <2>4. QED
    BY <2>1, <2>2, <2>3 DEF RequestsSound, Recent, Unheld
<1>3. ASSUME NEW r \in Active', NEW q \in Active', r # q PROVE Apart(req[r], req[q])'
  <2>1. r \in Active \ D /\ q \in Active \ D /\ req'[r] = req[r] /\ req'[q] = req[q]
    BY <1>1, <1>3 DEF Active
  <2>2. Apart(req[r], req[q])
    BY <1>3, <2>1 DEF RequestsSound
  <2>3. QED
    BY <2>1, <2>2 DEF Apart
<1>4. QED
  BY <1>2, <1>3 DEF RequestsSound

LEMMA FailStep ==
  ASSUME IngestSound, NEW r \in Requests, Fail(r)
  PROVE  IngestSound'
<1>0. RequestsSound /\ ClientSound
  BY DEF IngestSound
<1>1. req' \in [Requests -> {Idle} \cup Request] /\ \A q \in Requests : req'[q] = IF q \in {r} THEN Idle ELSE req[q]
  BY <1>0 DEF Fail, RequestsSound
<1>2. UNCHANGED <<now, tables, cache, op>> /\ policy' = policy /\ matches' = matches /\ op' = op /\ now' = now
  BY DEF Fail, tables
<1>3. ClientSound'
  BY <1>0, IngestAssumption DEF Fail, ClientSound
<1>4. \A q \in Active : req[q].tx.rows \cap matches = {}
  BY <1>0 DEF RequestsSound, Tallied
<1>5. RequestsSound'
  BY <1>0, <1>1, <1>2, <1>4, RequestsEnd
<1>6. QED
  BY <1>2, <1>3, <1>5, AroundRequests

LEMMA CrashStep ==
  ASSUME IngestSound, NEW w \in Workers, Crash(w)
  PROVE  IngestSound'
<1>0. RequestsSound /\ ClientSound /\ CacheSound /\ OpSound /\ TablesSound
  BY DEF IngestSound
<1> DEFINE D == {r \in Requests : req[r] # Idle /\ req[r].at = w}
<1>1. req' \in [Requests -> {Idle} \cup Request] /\ \A q \in Requests : req'[q] = IF q \in D THEN Idle ELSE req[q]
  BY <1>0 DEF Crash, RequestsSound
<1>2. policy' = policy /\ matches' = matches /\ now' = now
  BY DEF Crash, tables
<1>3. op' \in {op, NoOp} /\ NoOp.own = {} /\ NoOp.pc = "idle"
  BY DEF Crash, NoOp
<1>4. \A q \in Active : req[q].tx.rows \cap matches = {}
  BY <1>0 DEF RequestsSound, Tallied
<1>5. op'.own \subseteq op.own
  BY <1>3
<1> HIDE DEF D
<1>6. D \in SUBSET Requests
  BY DEF D
<1>7. RequestsSound'
  BY <1>0, <1>1, <1>2, <1>4, <1>5, <1>6, RequestsEnd
<1>8. ClientSound'
  BY <1>0, IngestAssumption DEF Crash, ClientSound
<1>9. CacheSound'
  <2>1. NoEntry \in Entries /\ NoEntry.until <= NoEntry.read + TTL
    BY IngestAssumption DEF NoEntry, Entries, Times
  <2>2. QED
    BY <1>0, <2>1 DEF Crash, CacheSound
<1>10. OpSound'
  BY <1>0, <1>3 DEF OpSound, OpTypes
<1>11. TablesSound'
  BY <1>0 DEF Crash, tables, TablesSound, RowTypes, MatchCountIsRows
<1>12. QED
  BY <1>7, <1>8, <1>9, <1>10, <1>11 DEF IngestSound

(* The commit adds the transaction's rows and writes its counts.           *)
LEMMA CommitStep ==
  ASSUME IngestSound, NEW r \in Requests, CommitBatch(r)
  PROVE  IngestSound'
<1>0. RequestsSound /\ ClientSound /\ CacheSound /\ OpSound /\ TablesSound /\ IngestTypeOK
  BY SoundTypes DEF IngestSound
<1> DEFINE v == req[r]
<1>1. /\ v.pc = "commit" /\ v \in Request /\ Tallied(v) /\ r \in Active
      /\ \A q \in Active : q # r => Apart(v, req[q])
  BY <1>0, OpenRequest DEF CommitBatch
<1>2. v.tx \in Transaction /\ v.tx.rows \in SUBSET MatchRows /\ v.tx.bumped \in [Policies -> Nat] /\ Counted(v) = v.tx.rows
  BY <1>1, RequestFields, TransactionFields DEF Counted
<1>3. /\ policy' = [p \in Policies |-> IF v.tx.bumped[p] = 0 THEN policy[p] ELSE [policy[p] EXCEPT !.count = v.tx.bumped[p]]]
      /\ matches' = matches \cup v.tx.rows /\ req' = [req EXCEPT ![r] = Idle]
      /\ op' = op /\ now' = now /\ UNCHANGED <<now, cache, op, batch, changes, faults>>
  BY DEF CommitBatch
<1>4. matches \in SUBSET MatchRows /\ v.tx.rows \cap matches = {} /\ policy \in [Policies -> PolicyRow]
  BY <1>0, <1>1 DEF IngestTypeOK, RowTypes, Tallied
<1>5. \A p \in Policies : policy'[p].count = IF v.tx.bumped[p] = 0 THEN policy[p].count ELSE v.tx.bumped[p]
  BY <1>3, <1>4 DEF PolicyRow
<1>6. MatchCountIsRows'
  <2> SUFFICES ASSUME NEW p \in Policies PROVE policy'[p].count = Cardinality(RowsOf(p, matches'))
    BY DEF MatchCountIsRows, RowsOf
  <2>1. policy[p].count = Cardinality(RowsOf(p, matches))
    BY <1>0 DEF TablesSound, MatchCountIsRows, RowsOf
  <2>2. Cardinality(RowsOf(p, matches \cup v.tx.rows)) = Cardinality(RowsOf(p, matches)) + Cardinality(RowsOf(p, v.tx.rows))
    BY <1>2, <1>4, RowsAddUp
  <2>3. /\ Cardinality(RowsOf(p, v.tx.rows)) \in Nat /\ Cardinality(RowsOf(p, matches)) \in Nat
        /\ Cardinality(RowsOf(p, v.tx.rows)) = 0 <=> RowsOf(p, v.tx.rows) = {}
    BY <1>2, <1>4, RowsCounted
  <2>4. (v.tx.bumped[p] = 0) <=> RowsOf(p, v.tx.rows) = {}
    BY <1>0, <1>1, <1>2, CountedPolicies
  <2>5. RowsOf(p, v.tx.rows) # {} => v.tx.bumped[p] = policy[p].count + Cardinality(RowsOf(p, v.tx.rows))
    BY <1>1, <1>2 DEF Tallied
  <2>6. policy'[p].count = policy[p].count + Cardinality(RowsOf(p, v.tx.rows))
    BY <1>5, <2>1, <2>3, <2>4, <2>5
  <2>7. QED
    BY <1>3, <2>1, <2>2, <2>6
<1>7. RowTypes'
  <2>1. policy' \in [Policies -> PolicyRow]
    BY <1>2, <1>3, <1>4 DEF PolicyRow
  <2>2. matches' \subseteq MatchRows
    BY <1>2, <1>3, <1>4
  <2>3. owed' \subseteq MatchRows /\ spans' \subseteq Spans /\ trace' \in TraceRow
    BY <1>0, <1>2, TransactionFields DEF CommitBatch, IngestTypeOK, RowTypes, TraceRow
  <2>4. QED
    BY <2>1, <2>2, <2>3 DEF RowTypes
<1>8. \A q \in Active \ {r} : req[q].tx.rows \cap matches' = {}
  BY <1>0, <1>1, <1>3 DEF RequestsSound, Tallied, Apart
<1>9. ASSUME NEW q \in Active \ {r}, NEW p \in Policies, RowsOf(p, Counted(req[q])) # {}
      PROVE  policy'[p].count = policy[p].count
  <2>1. req[q] \in Request /\ Tallied(req[q]) /\ Apart(v, req[q])
    BY <1>0, <1>1 DEF RequestsSound, Active
  <2>2. req[q].tx.bumped[p] # 0
    BY <1>0, <1>9, <2>1, CountedPolicies
  <2>3. v.tx.bumped[p] = 0
    BY <2>1, <2>2 DEF Apart
  <2>4. QED
    BY <1>5, <2>3
<1>10. req' \in [Requests -> {Idle} \cup Request] /\ \A q \in Requests : req'[q] = IF q \in {r} THEN Idle ELSE req[q]
  BY <1>0, <1>3 DEF RequestsSound
<1>11. RequestsSound'
  BY <1>0, <1>3, <1>8, <1>9, <1>10, RequestsEnd
<1>12. QED
  BY <1>0, <1>3, <1>6, <1>7, <1>11 DEF IngestSound, ClientSound, CacheSound, OpSound, TablesSound

-----------------------------------------------------------------------------
(* The operator's request.                                                 *)
LEMMA ChangeStep ==
  ASSUME IngestSound, NEW kind \in {"create", "enable", "disable", "delete"},
         NEW todo \in Seq(Policies) \ {<<>>}, NEW w \in Workers, Change(kind, todo, w)
  PROVE  IngestSound'
<1>0. RequestsSound /\ ClientSound /\ CacheSound /\ OpSound /\ TablesSound
  BY DEF IngestSound
<1> DEFINE o == [pc |-> "touch", at |-> w, kind |-> kind, todo |-> todo, own |-> {}]
<1>1. /\ op' = o /\ policy' = policy /\ matches' = matches /\ now' = now /\ req' = req /\ cache' = cache
      /\ UNCHANGED <<now, tables, cache, req, batch, faults>>
  BY DEF Change, tables
<1>2. o \in OpTypes /\ o.todo # <<>> /\ o.own = {}
  BY DEF OpTypes
<1> HIDE DEF o
<1>3. op'.own \subseteq op.own
  BY <1>1, <1>2
<1>4. \A q \in Active : req[q].tx.rows \cap matches = {}
  BY <1>0 DEF RequestsSound, Tallied
<1>5. req' \in [Requests -> {Idle} \cup Request] /\ \A q \in Requests : req'[q] = IF q \in {} THEN Idle ELSE req[q]
  BY <1>0, <1>1 DEF RequestsSound
<1>6. RequestsSound'
  BY <1>0, <1>1, <1>3, <1>4, <1>5, RequestsEnd
<1>7. ClientSound'
  BY <1>0, IngestAssumption DEF Change, ClientSound
<1>8. OpSound'
  BY <1>1, <1>2 DEF OpSound
<1>9. QED
  BY <1>0, <1>1, <1>6, <1>7, <1>8 DEF IngestSound, TablesSound, RowTypes, MatchCountIsRows, CacheSound, tables

(* A policy's row is taken when no transaction has counted it.             *)
LEMMA TouchStep ==
  ASSUME IngestSound, Touch
  PROVE  IngestSound'
<1>0. RequestsSound /\ ClientSound /\ CacheSound /\ OpSound /\ TablesSound /\ Operator \notin Requests
  BY IngestAssumption DEF IngestSound
<1>1. /\ op.pc = "touch" /\ policy' = policy /\ matches' = matches /\ now' = now /\ req' = req
      /\ UNCHANGED <<now, tables, cache, req, batch, changes, faults>>
  BY DEF Touch, tables
<1>2. /\ op.todo \in Seq(Policies) /\ op.todo # <<>> /\ op.own \in SUBSET Policies
      /\ op \in [pc : {"touch", "commit"}, at : Workers, todo : Seq(Policies),
                 kind : {"create", "enable", "disable", "delete"}, own : SUBSET Policies]
  BY <1>0, <1>1 DEF OpSound, OpTypes, NoOp
<1> DEFINE p == Head(op.todo)
           o == [op EXCEPT !.todo = Tail(@), !.own = @ \cup {p}, !.pc = IF Len(op.todo) = 1 THEN "commit" ELSE "touch"]
<1>3. p \in Policies /\ Tail(op.todo) \in Seq(Policies) /\ Len(Tail(op.todo)) = Len(op.todo) - 1 /\ Len(op.todo) \in Nat
  BY <1>2
<1>4. op' = o
  BY DEF Touch
<1> HIDE DEF p
<1>5. o \in OpTypes /\ o.own = op.own \cup {p} /\ o.todo = Tail(op.todo) /\ (o.pc = "touch" => Len(op.todo) # 1)
  BY <1>2, <1>3 DEF OpTypes
<1> HIDE DEF o
<1>6. o.pc = "touch" => o.todo # <<>>
  <2>1. o.pc = "touch" => Len(o.todo) # 0
    BY <1>3, <1>5
  <2>2. Len(<<>>) = 0
    OBVIOUS
  <2>3. QED
    BY <2>1, <2>2
<1>7. \A q \in Active : req[q].tx.bumped[p] = 0
  <2>1. Updating(p) \ {Operator} = {}
    <3>1. Operator \notin Active
      BY <1>0 DEF Active
    <3>2. Free(Operator)
      BY DEF Touch
    <3>3. QED
      BY <1>1, <3>1, <3>2 DEF Free, Holders, p
  <2>2. QED
    BY <1>0, <2>1 DEF Updating, Active
<1>8. \A q \in Active : Unheld(req[q]) => Unheld(req[q])'
  BY <1>1, <1>4, <1>5, <1>7 DEF Unheld
<1>9. \A q \in Active : Tallied(req[q]) => Tallied(req[q])'
  BY <1>1 DEF Tallied, Counted
<1>10. Active' = Active
  BY <1>1 DEF Active
<1>11. RequestsSound'
  BY <1>0, <1>1, <1>8, <1>9, <1>10 DEF RequestsSound, Recent, Apart
<1>12. OpSound'
  BY <1>4, <1>5, <1>6 DEF OpSound
<1>13. QED
  BY <1>0, <1>1, <1>11, <1>12 DEF IngestSound, TablesSound, RowTypes, MatchCountIsRows, CacheSound, ClientSound, tables

(* A deleted policy takes its matches and its count with it; no other      *)
(* count changes.                                                          *)
LEMMA ChangedStep ==
  ASSUME IngestSound, Changed
  PROVE  IngestSound'
<1>0. RequestsSound /\ ClientSound /\ CacheSound /\ OpSound /\ TablesSound /\ IngestTypeOK
  BY SoundTypes DEF IngestSound
<1>1. op.pc = "commit" /\ op' = NoOp /\ now' = now /\ req' = req /\ UNCHANGED <<now, spans, trace, req, batch, changes, faults>>
  BY DEF Changed
<1>2. /\ op.own \in SUBSET Policies /\ op.at \in Workers /\ op.kind \in {"create", "enable", "disable", "delete"}
      /\ policy \in [Policies -> PolicyRow] /\ matches \in SUBSET MatchRows
  BY <1>0, <1>1 DEF OpSound, OpTypes, NoOp, IngestTypeOK, RowTypes
<1> DEFINE dropped == {m \in MatchRows : op.kind = "delete" /\ m[1] \in op.own}
<1>3. /\ policy' = [p \in Policies |-> IF p \in op.own THEN After(op.kind, policy[p]) ELSE policy[p]]
      /\ matches' = matches \ dropped /\ owed' = owed \ dropped /\ cache' = [cache EXCEPT ![op.at] = NoEntry]
  BY DEF Changed
<1>4. \A row \in PolicyRow : /\ After(op.kind, row) \in PolicyRow
                             /\ After(op.kind, row).count = IF op.kind = "delete" THEN 0 ELSE row.count
  BY <1>2 DEF After, PolicyRow
<1>5. /\ policy' \in [Policies -> PolicyRow]
      /\ \A p \in Policies : policy'[p].count = IF p \in op.own /\ op.kind = "delete" THEN 0 ELSE policy[p].count
  BY <1>2, <1>3, <1>4
<1>6. MatchCountIsRows'
  <2> SUFFICES ASSUME NEW p \in Policies PROVE policy'[p].count = Cardinality(RowsOf(p, matches'))
    BY DEF MatchCountIsRows, RowsOf
  <2>1. policy[p].count = Cardinality(RowsOf(p, matches))
    BY <1>0 DEF TablesSound, MatchCountIsRows, RowsOf
  <2>2. CASE p \in op.own /\ op.kind = "delete"
    <3>1. RowsOf(p, matches') = {}
      BY <1>2, <1>3, <2>2 DEF RowsOf
    <3>2. QED
      BY <1>5, <2>2, <3>1, FS_EmptySet
  <2>3. CASE ~(p \in op.own /\ op.kind = "delete")
    <3>1. RowsOf(p, matches') = RowsOf(p, matches)
      BY <1>2, <1>3, <2>3 DEF RowsOf
    <3>2. QED
      BY <1>5, <2>1, <2>3, <3>1
  <2>4. QED
    BY <2>2, <2>3
<1>7. TablesSound'
  BY <1>0, <1>1, <1>3, <1>5, <1>6 DEF TablesSound, RowTypes
<1>8. ASSUME NEW q \in Active, NEW p \in Policies, RowsOf(p, Counted(req[q])) # {}
      PROVE  policy'[p].count = policy[p].count
  <2>1. req[q] \in Request /\ Tallied(req[q]) /\ Unheld(req[q])
    BY <1>0 DEF RequestsSound, Active
  <2>2. req[q].tx.bumped[p] # 0
    BY <1>0, <1>8, <2>1, CountedPolicies
  <2>3. p \notin op.own
    BY <2>1, <2>2 DEF Unheld
  <2>4. QED
    BY <1>5, <2>3
<1>9. \A q \in Active : req[q].tx.rows \cap matches' = {}
  BY <1>0, <1>3 DEF RequestsSound, Tallied
<1>10. op'.own \subseteq op.own
  BY <1>1 DEF NoOp
<1>11. req' \in [Requests -> {Idle} \cup Request] /\ \A q \in Requests : req'[q] = IF q \in {} THEN Idle ELSE req[q]
  BY <1>0, <1>1 DEF RequestsSound
<1>12. RequestsSound'
  BY <1>0, <1>1, <1>8, <1>9, <1>10, <1>11, RequestsEnd
<1>13. CacheSound'
  <2>1. NoEntry \in Entries /\ NoEntry.until <= NoEntry.read + TTL
    BY IngestAssumption DEF NoEntry, Entries, Times
  <2>2. QED
    BY <1>0, <1>2, <1>3, <2>1 DEF CacheSound
<1>14. OpSound'
  BY <1>1 DEF OpSound, OpTypes, NoOp
<1>15. QED
  BY <1>0, <1>1, <1>7, <1>12, <1>13, <1>14 DEF IngestSound, ClientSound

LEMMA OtherMoves ==
  ASSUME IngestSound, ChangeFails \/ Tick \/ UNCHANGED ingestVars
  PROVE  IngestSound'
<1>0. RequestsSound /\ ClientSound /\ CacheSound /\ OpSound /\ TablesSound
  BY DEF IngestSound
<1>1. /\ policy' = policy /\ matches' = matches /\ req' = req /\ cache' = cache
      /\ UNCHANGED <<tables, cache, req, batch, changes, faults>>
  BY DEF ChangeFails, Tick, ingestVars, tables
<1>2. op' \in {op, NoOp} /\ NoOp.own = {} /\ NoOp.pc = "idle"
  BY DEF ChangeFails, Tick, ingestVars, NoOp
<1>3. now \in Times /\ now' \in Times /\ now <= now' /\ Times \subseteq Nat
  BY <1>0, IngestAssumption DEF ChangeFails, Tick, ingestVars, TablesSound, Times
<1>4. Active' = Active
  BY <1>1 DEF Active
<1>5. ASSUME NEW q \in Active PROVE Tallied(req[q])' /\ Recent(req[q])' /\ Unheld(req[q])'
  <2>1. req[q] \in Request /\ Tallied(req[q]) /\ Recent(req[q]) /\ Unheld(req[q])
    BY <1>0 DEF RequestsSound, Active
  <2>2. req[q].start \in Nat
    BY <1>3, <2>1, RequestFields
  <2>3. Tallied(req[q])' /\ Unheld(req[q])'
    BY <1>1, <1>2, <2>1 DEF Tallied, Counted, Unheld
  <2>4. Recent(req[q])'
    <3>4. now \in Nat /\ now' \in Nat /\ now <= now'
      BY <1>3
    <3>5. req[q].start <= now
      BY <2>1 DEF Recent
    <3>1. now \in Nat /\ now' \in Nat /\ req[q].start <= now'
      BY <2>2, <3>4, <3>5
    <3>2. req'[q] = req[q]
      BY <1>1
    <3>3. QED
      BY <2>1, <3>1, <3>2 DEF Recent
  <2>5. QED
    BY <2>3, <2>4
<1>6. RequestsSound'
  BY <1>0, <1>1, <1>4, <1>5 DEF RequestsSound, Apart
<1>7. OpSound'
  BY <1>0, <1>2 DEF OpSound, OpTypes
<1>8. QED
  BY <1>0, <1>1, <1>3, <1>6, <1>7 DEF IngestSound, TablesSound, RowTypes, MatchCountIsRows, CacheSound, ClientSound, tables

LEMMA IngestInitially ==
  ASSUME IngestInit
  PROVE  IngestSound
<1> USE DEF IngestInit
<1>1. \A r \in Requests : req[r] = Idle
  OBVIOUS
<1>2. RequestsSound
  BY <1>1 DEF RequestsSound, Active
<1>3. RowTypes
  BY DEF RowTypes, PolicyRow, TraceRow, NoTrace
<1>4. MatchCountIsRows
  <2>1. \A p \in Policies : {m \in matches : m[1] = p} = {} /\ policy[p].count = 0
    OBVIOUS
  <2>2. QED
    BY <2>1, FS_EmptySet DEF MatchCountIsRows
<1>5. TablesSound
  BY <1>3, <1>4, IngestAssumption DEF TablesSound, Times
<1>6. CacheSound
  <2>1. NoEntry \in Entries /\ NoEntry.until <= NoEntry.read + TTL
    BY IngestAssumption DEF NoEntry, Entries, Times
  <2>2. QED
    BY <2>1 DEF CacheSound
<1>7. OpSound
  BY DEF OpSound, OpTypes, NoOp
<1>8. ClientSound
  BY IngestAssumption DEF ClientSound
<1>9. QED
  BY <1>2, <1>5, <1>6, <1>7, <1>8 DEF IngestSound

(* The inductive invariant of ingest: an open transaction counts a policy  *)
(* from what the table has, alone, and its rows are new (repositories/     *)
(* policies.py record_match); a cached list is no older than its entry     *)
(* says (policy_cache.py).                                                 *)
THEOREM IngestInvariant == IngestSpec => []IngestSound
<1>1. IngestInit => IngestSound
  BY IngestInitially
<1>2. IngestSound /\ [IngestNext]_ingestVars => IngestSound'
  <2> SUFFICES ASSUME IngestSound, [IngestNext]_ingestVars PROVE IngestSound'
    OBVIOUS
  <2>1. ASSUME NEW r \in Requests, RequestStep(r) \/ Fail(r) PROVE IngestSound'
    BY <2>1, CacheSteps, BatchSteps, MatchStep, BumpStep, FailedMatches, CommitStep, FailStep DEF RequestStep
  <2>2. ASSUME NEW p \in Policies, NEW w \in Workers, Create(p, w) \/ Patch(p, w) \/ Delete(p, w) PROVE IngestSound'
    <3>1. <<p>> \in Seq(Policies) \ {<<>>}
      OBVIOUS
    <3>2. QED
      BY <2>2, <3>1, ChangeStep DEF Create, Patch, Delete
  <2>3. ASSUME NEW todo \in Orders, NEW w \in Workers, Import(todo, w) \/ Batch(todo, w) PROVE IngestSound'
    <3>1. todo \in Seq(Policies) \ {<<>>}
      BY IngestAssumption
    <3>2. QED
      BY <2>3, <3>1, ChangeStep DEF Import, Batch
  <2>4. QED
    BY <2>1, <2>2, <2>3, StartStep, TouchStep, ChangedStep, CrashStep, OtherMoves DEF IngestNext
<1>3. QED
  BY <1>1, <1>2, PTL DEF IngestSpec

(* Every variable of ingest has its type, for all policies, spans,         *)
(* batches, processes and requests.                                        *)
THEOREM IngestTypeCorrect == IngestSpec => []IngestTypeOK
<1>1. QED
  BY IngestInvariant, SoundTypes, PTL

(* A policy's match_count is the number of its rows in policy_matches,     *)
(* whatever batches are sent twice, at a time or after a lost reply, and   *)
(* whatever operators change meanwhile (record_match).                     *)
THEOREM MatchCountIsRowsHolds == IngestSpec => []MatchCountIsRows
<1>1. IngestSound => MatchCountIsRows
  BY DEF IngestSound, TablesSound
<1>2. QED
  BY <1>1, IngestInvariant, PTL

(* The policies a batch is evaluated with were in force less than a TTL    *)
(* before the request came, or later (policy_cache.get_policies).          *)
THEOREM StaleAtMostTTLHolds == IngestSpec => []StaleAtMostTTL
<1>1. IngestSound => StaleAtMostTTL
  BY DEF IngestSound, RequestsSound, Recent, StaleAtMostTTL
<1>2. QED
  BY <1>1, IngestInvariant, PTL
=============================================================================
