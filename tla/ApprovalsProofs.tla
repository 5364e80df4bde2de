-------------------------- MODULE ApprovalsProofs ---------------------------
(***************************************************************************)
(* Proofs about Approvals, for any number of calls, spans and operators,   *)
(* any thresholds and any timeout.                                         *)
(***************************************************************************)
EXTENDS Approvals, FiniteSetTheorems, TLAPS

(* What create_approval inserts, and what resolve_approval writes, are     *)
(* rows.                                                                   *)
LEMMA PendingRowType ==
  ASSUME now \in Nat, NEW n \in Int
  PROVE  /\ PendingRow(n) \in Row
         /\ PendingRow(n).status = "pending"
         /\ PendingRow(n).current = 0
         /\ PendingRow(n).approved_by = {}
         /\ PendingRow(n).denied_by = {}
<1>1. now + Timeout \in Nat /\ (IF n < 1 THEN 1 ELSE n) \in Nat
  BY BoundsAssumption
<1>2. QED
  BY <1>1 DEF PendingRow, Row, Statuses

LEMMA ResolvedType ==
  ASSUME NEW row \in Row, NEW seen, NEW a \in Actors, NEW d \in Decisions,
         seen.current \in Nat, seen.approved_by \subseteq Actors, seen.denied_by \subseteq Actors
  PROVE  Resolved(row, seen, a, d) \in Row
<1>1. CASE d = "denied"
  <2>1. Resolved(row, seen, a, d) =
          [row EXCEPT !.status = "denied", !.approved_by = seen.approved_by,
                      !.denied_by = seen.denied_by \cup {a}]
    BY <1>1 DEF Resolved
  <2>2. seen.denied_by \cup {a} \in SUBSET Actors
    OBVIOUS
  <2>3. QED
    BY <2>1, <2>2 DEF Row, Statuses
<1>2. CASE d # "denied"
  <2>1. PICK st \in Statuses :
          Resolved(row, seen, a, d) =
            [row EXCEPT !.status = st, !.approved_by = seen.approved_by \cup {a},
                        !.denied_by = seen.denied_by, !.current = seen.current + 1]
    BY <1>2 DEF Resolved, Statuses
  <2>2. seen.approved_by \cup {a} \in SUBSET Actors /\ seen.current + 1 \in Nat
    OBVIOUS
  <2>3. QED
    BY <2>1, <2>2 DEF Row
<1>3. QED
  BY <1>1, <1>2

(* A Slack handler that is under way holds a copy of a row.                *)
LEMMA OpenClick ==
  ASSUME NEW k \in Clicks, k.open
  PROVE  /\ k.id \in Ids /\ k.decision \in Decisions /\ k.current \in Nat
         /\ k.approved_by \subseteq Actors /\ k.denied_by \subseteq Actors
<1> DEFINE Open == [open : {TRUE}, id : Ids, decision : Decisions, current : Nat,
                    approved_by : SUBSET Actors, denied_by : SUBSET Actors]
<1>1. NoClick.open = FALSE
  BY DEF NoClick
<1>2. k \in Open
  BY <1>1 DEF Clicks
<1>3. QED
  BY <1>2

(* The values of every variable stay in their types.                       *)
THEOREM TypeCorrect == Spec => []TypeOK
<1>1. Init => TypeOK
  BY BoundsAssumption DEF Init, TypeOK, AbsentRow, Row, Statuses, Phases, Wires, Clicks, NoClick
<1>2. TypeOK /\ [Next]_vars => TypeOK'
  <2> SUFFICES ASSUME TypeOK, [Next]_vars PROVE TypeOK'
    OBVIOUS
  <2> USE DEF TypeOK
  <2>1. ASSUME NEW c \in Calls, HoldCall(c) PROVE TypeOK'
    BY <2>1 DEF HoldCall, Phases, Wires
  <2>2. ASSUME NEW c \in Calls, PostReturns(c) PROVE TypeOK'
    BY <2>2, BoundsAssumption DEF PostReturns, Phases, Wires
  <2>3. ASSUME NEW c \in Calls, PostFails(c) PROVE TypeOK'
    BY <2>3 DEF PostFails, Phases, Wires
  <2>4. ASSUME NEW c \in Calls, PollSend(c) PROVE TypeOK'
    BY <2>4 DEF PollSend, Wires
  <2>5. ASSUME NEW c \in Calls, PollAgain(c) PROVE TypeOK'
    BY <2>5 DEF PollAgain, Wires
  <2>6. ASSUME NEW c \in Calls, PollReturns(c) PROVE TypeOK'
    BY <2>6 DEF PollReturns, Wires, Phases
  <2>7. ASSUME NEW c \in Calls, PollFails(c) PROVE TypeOK'
    BY <2>7 DEF PollFails, Wires
  <2>8. ASSUME NEW c \in Calls, LocalTimeout(c) PROVE TypeOK'
    BY <2>8 DEF LocalTimeout, Phases
  <2>9. ASSUME NEW c \in Calls, Crash(c) PROVE TypeOK'
    BY <2>9 DEF Crash, Phases, Wires
  <2>10. ASSUME NEW c \in Calls, ServePost(c) PROVE TypeOK'
    <3>1. PICK n \in Int : rows' = [rows EXCEPT ![c] = PendingRow(n)]
      BY <2>10, BoundsAssumption DEF ServePost
    <3>2. rows' \in [Ids -> Row]
      BY <3>1, PendingRowType
    <3>3. wire' \in [Calls -> Wires]
      BY <2>10 DEF ServePost, Wires
    <3>4. QED
      BY <2>10, <3>2, <3>3 DEF ServePost
  <2>11. ASSUME NEW c \in Calls, ServeGet(c) PROVE TypeOK'
    <3>1. rows[c].status \in Wires
      BY DEF Ids, Row, Wires
    <3>2. QED
      BY <2>11, <3>1 DEF ServeGet
  <2>12. ASSUME NEW c \in Calls, DropPost(c) PROVE TypeOK'
    BY <2>12 DEF DropPost, Wires
  <2>13. ASSUME NEW s \in Spans, IngestSpan(s) PROVE TypeOK'
    <3>1. PICK n \in Int : rows' = [rows EXCEPT ![s] = PendingRow(n)]
      BY <2>13, BoundsAssumption DEF IngestSpan
    <3>2. rows' \in [Ids -> Row]
      BY <3>1, PendingRowType
    <3>3. QED
      BY <2>13, <3>2 DEF IngestSpan
  <2>14. ASSUME NEW id \in Ids, NEW a \in ApiActors, NEW d \in Decisions, ApiResolve(id, a, d)
         PROVE TypeOK'
    <3>1. a \in Actors /\ rows[id] \in Row
      BY DEF Actors
    <3>2. Resolved(rows[id], rows[id], a, d) \in Row
      BY <3>1, ResolvedType DEF Row
    <3>3. QED
      BY <2>14, <3>1, <3>2 DEF ApiResolve
  <2>15. ASSUME NEW id \in Ids, NEW s \in SlackActors, NEW d \in Decisions, SlackRead(id, s, d)
         PROVE TypeOK'
    <3>1. Click(id, d, rows[id]) \in Clicks
      BY DEF Click, Clicks, Row
    <3>2. QED
      BY <2>15, <3>1 DEF SlackRead
  <2>16. ASSUME NEW s \in SlackActors, SlackResolve(s) PROVE TypeOK'
    <3> DEFINE k == slack[s]
    <3>1. /\ k.id \in Ids /\ k.decision \in Decisions /\ k.current \in Nat
          /\ k.approved_by \subseteq Actors /\ k.denied_by \subseteq Actors
      BY <2>16, OpenClick DEF SlackResolve
    <3>2. s \in Actors /\ rows[k.id] \in Row
      BY <3>1 DEF Actors
    <3>3. Resolved(rows[k.id], k, s, k.decision) \in Row
      BY <3>1, <3>2, ResolvedType
    <3>4. rows' \in [Ids -> Row] /\ accepted' \subseteq (Ids \X Actors \X Decisions)
      BY <2>16, <3>1, <3>2, <3>3 DEF SlackResolve
    <3>5. slack' \in [SlackActors -> Clicks]
      BY <2>16 DEF SlackResolve, Clicks
    <3>6. QED
      BY <2>16, <3>4, <3>5 DEF SlackResolve
  <2>17. ASSUME NEW s \in SlackActors, SlackFails(s) PROVE TypeOK'
    BY <2>17 DEF SlackFails, Clicks
  <2>18. ASSUME ReaperTick PROVE TypeOK'
    BY <2>18 DEF ReaperTick, Row, Statuses
  <2>19. ASSUME Tick PROVE TypeOK'
    BY <2>19 DEF Tick
  <2>20. CASE UNCHANGED vars
    BY <2>20 DEF vars
  <2>21. QED
    BY <2>1, <2>2, <2>3, <2>4, <2>5, <2>6, <2>7, <2>8, <2>9, <2>10, <2>11, <2>12, <2>13,
       <2>14, <2>15, <2>16, <2>17, <2>18, <2>19, <2>20
    DEF Next, SdkStep, ReceiverStep, OperatorStep
<1>3. QED
  BY <1>1, <1>2, PTL DEF Spec

-----------------------------------------------------------------------------

(* resolve_approval keeps the counts right, the grants backed and the      *)
(* vetoes decided, from any copy of the row whose counts are right: the    *)
(* row itself for the API, a possibly stale copy for Slack.                *)
LEMMA ResolveKeeps ==
  ASSUME TypeOK, CountsSound, DeniesDecide, GrantBacked,
         NEW id \in Ids, NEW a \in Actors, NEW d \in Decisions, NEW seen,
         seen.current \in Nat, seen.approved_by \subseteq Actors,
         Sound(id, seen),
         Resolvable(rows[id], seen, a, d),
         rows' = [rows EXCEPT ![id] = Resolved(rows[id], seen, a, d)],
         accepted' = accepted \cup {<<id, a, d>>}
  PROVE  /\ \A i \in Ids : rows'[i].status = "pending" => Sound(i, rows[i])'
         /\ DeniesDecide'
         /\ GrantBacked'
<1> DEFINE new == Resolved(rows[id], seen, a, d)
<1>1. rows[id].status = "pending" /\ rows[id] \in Row
  BY DEF Resolvable, TypeOK
<1>2. \A i \in Ids : Approvers(i) \subseteq Approvers(i)'
  BY DEF Approvers
<1>3. rows'[id] = new /\ \A i \in Ids \ {id} : rows'[i] = rows[i]
  BY DEF TypeOK
<1>4. \A i \in Ids \ {id} :
        /\ rows'[i].status = "pending" => Sound(i, rows[i])'
        /\ rows'[i].status = "approved" =>
             /\ rows'[i].approved_by \subseteq Approvers(i)'
             /\ Cardinality(rows'[i].approved_by) >= rows'[i].required
             /\ rows'[i].denied_by = {}
        /\ \A b \in Actors : <<i, b, "denied">> \in accepted' => rows'[i].status = "denied"
  BY <1>2, <1>3 DEF CountsSound, Sound, DeniesDecide, GrantBacked
<1>5. CASE d = "denied"
  <2>1. new.status = "denied"
    BY <1>1, <1>5 DEF Resolved, Row
  <2>2. QED
    BY <1>3, <1>4, <2>1 DEF DeniesDecide, GrantBacked
<1>6. CASE d # "denied"
  <2>1. d = "approved" /\ a \notin seen.approved_by
    BY <1>6 DEF Decisions, Resolvable
  <2>2. /\ new.status = IF seen.current + 1 >= rows[id].required THEN "approved" ELSE "pending"
        /\ new.approved_by = seen.approved_by \cup {a}
        /\ new.denied_by = seen.denied_by
        /\ new.current = seen.current + 1
        /\ new.required = rows[id].required
    BY <1>1, <1>6 DEF Resolved, Row
  <2>3. IsFiniteSet(seen.approved_by)
    BY ActorsAssumption, FS_Subset
  <2>4. Cardinality(new.approved_by) = new.current
    BY <2>1, <2>2, <2>3, FS_AddElement DEF Sound
  <2>5. new.approved_by \subseteq Approvers(id)' /\ new.denied_by = {}
    BY <1>2, <2>1, <2>2 DEF Sound, Approvers
  <2>6. Sound(id, rows[id])'
    BY <1>3, <2>4, <2>5 DEF Sound
  <2>7. \A b \in Actors : <<id, b, "denied">> \notin accepted'
    BY <1>1, <2>1 DEF DeniesDecide
  <2>8. new.status = "approved" => Cardinality(new.approved_by) >= new.required
    BY <1>1, <2>2, <2>4 DEF Row
  <2>9. DeniesDecide'
    BY <1>4, <2>7 DEF DeniesDecide
  <2>10. GrantBacked'
    BY <1>3, <1>4, <2>5, <2>8 DEF GrantBacked
  <2>11. QED
    BY <1>4, <2>6, <2>9, <2>10
<1>7. QED
  BY <1>5, <1>6

(* create_approval inserts a row whose counts are right and that nobody    *)
(* has decided.                                                            *)
LEMMA CreateKeeps ==
  ASSUME TypeOK, CountsSound, DeniesDecide, GrantBacked,
         NEW id \in Ids, rows[id].status = "absent", NEW n \in Int,
         rows' = [rows EXCEPT ![id] = PendingRow(n)],
         UNCHANGED <<slack, accepted>>
  PROVE  CountsSound' /\ DeniesDecide' /\ GrantBacked'
<1>1. /\ rows'[id] = PendingRow(n)
      /\ \A i \in Ids \ {id} : rows'[i] = rows[i]
  BY DEF TypeOK
<1>2. /\ PendingRow(n).status = "pending" /\ PendingRow(n).current = 0
      /\ PendingRow(n).approved_by = {} /\ PendingRow(n).denied_by = {}
  BY DEF PendingRow
<1>3. Sound(id, rows[id])'
  BY <1>1, <1>2, FS_EmptySet DEF Sound
<1>4. CountsSound'
  BY <1>1, <1>3 DEF CountsSound, Sound, Approvers
<1>5. DeniesDecide'
  BY <1>1 DEF DeniesDecide
<1>6. GrantBacked'
  BY <1>1, <1>2 DEF GrantBacked, Approvers
<1>7. QED
  BY <1>4, <1>5, <1>6

(* Steps that touch neither the table nor a Slack handler.                 *)
LEMMA TableUntouched ==
  ASSUME CountsSound, DeniesDecide, GrantBacked, UNCHANGED <<rows, slack, accepted>>
  PROVE  CountsSound' /\ DeniesDecide' /\ GrantBacked'
BY DEF CountsSound, DeniesDecide, GrantBacked, Sound, Approvers

(* A row only moves from absent to pending and from pending to a verdict:  *)
(* the calls' phases go on agreeing with it.                               *)
LEMMA RowsAdvance ==
  ASSUME TypeOK, PhasesAgree, UNCHANGED <<sdk, wire>>,
         \A id \in Ids : \/ rows'[id].status = rows[id].status
                         \/ /\ rows[id].status = "pending"
                            /\ rows'[id].status \in {"pending", "approved", "denied", "expired"}
  PROVE  PhasesAgree'
BY DEF PhasesAgree, Ids

LEMMA ResolvedStatus ==
  ASSUME NEW row \in Row, NEW seen, NEW a, NEW d
  PROVE  Resolved(row, seen, a, d).status \in {"pending", "approved", "denied"}
BY DEF Resolved, Row

(* The strengthening of GrantBacked and VetoStops that every step keeps.   *)
THEOREM InductiveInvariant == Spec => []Inductive
<1>1. Init => Inductive
  <2> SUFFICES ASSUME Init PROVE Inductive
    OBVIOUS
  <2>1. TypeOK
    BY BoundsAssumption
    DEF Init, TypeOK, AbsentRow, Row, Statuses, Phases, Wires, Clicks, NoClick
  <2>2. \A id \in Ids : rows[id].status = "absent"
    BY DEF Init, AbsentRow
  <2>3. PhasesAgree
    BY <2>2 DEF Init, PhasesAgree, Ids, Statuses
  <2>4. \A s \in SlackActors : slack[s].open = FALSE
    BY DEF Init, NoClick
  <2>5. CountsSound /\ DeniesDecide /\ GrantBacked
    BY <2>2, <2>4 DEF Init, CountsSound, DeniesDecide, GrantBacked
  <2>6. QED
    BY <2>1, <2>3, <2>5 DEF Inductive
<1>2. Inductive /\ TypeOK' /\ [Next]_vars => Inductive'
  <2> SUFFICES ASSUME Inductive, TypeOK', [Next]_vars
               PROVE  PhasesAgree' /\ CountsSound' /\ DeniesDecide' /\ GrantBacked'
    BY DEF Inductive
  <2> DEFINE Data == CountsSound' /\ DeniesDecide' /\ GrantBacked'
  <2> USE DEF Inductive
  <2>1. ASSUME NEW c \in Calls, HoldCall(c) PROVE PhasesAgree' /\ Data
    <3>1. PhasesAgree'
      BY <2>1 DEF HoldCall, TypeOK, PhasesAgree, Statuses
    <3>2. QED
      BY <2>1, <3>1, TableUntouched DEF HoldCall
  <2>2. ASSUME NEW c \in Calls, PostReturns(c) PROVE PhasesAgree' /\ Data
    <3>1. PhasesAgree'
      BY <2>2 DEF PostReturns, TypeOK, PhasesAgree, Statuses
    <3>2. QED
      BY <2>2, <3>1, TableUntouched DEF PostReturns
  <2>3. ASSUME NEW c \in Calls, PostFails(c) PROVE PhasesAgree' /\ Data
    <3>1. PhasesAgree'
      BY <2>3 DEF PostFails, TypeOK, PhasesAgree, Statuses
    <3>2. QED
      BY <2>3, <3>1, TableUntouched DEF PostFails
  <2>4. ASSUME NEW c \in Calls, PollSend(c) PROVE PhasesAgree' /\ Data
    <3>1. PhasesAgree'
      BY <2>4 DEF PollSend, TypeOK, PhasesAgree, Statuses
    <3>2. QED
      BY <2>4, <3>1, TableUntouched DEF PollSend
  <2>5. ASSUME NEW c \in Calls, PollAgain(c) PROVE PhasesAgree' /\ Data
    <3>1. PhasesAgree'
      BY <2>5 DEF PollAgain, TypeOK, PhasesAgree, Statuses
    <3>2. QED
      BY <2>5, <3>1, TableUntouched DEF PollAgain
  <2>6. ASSUME NEW c \in Calls, PollReturns(c) PROVE PhasesAgree' /\ Data
    <3>1. PhasesAgree'
      BY <2>6 DEF PollReturns, TypeOK, PhasesAgree, Statuses
    <3>2. QED
      BY <2>6, <3>1, TableUntouched DEF PollReturns
  <2>7. ASSUME NEW c \in Calls, PollFails(c) PROVE PhasesAgree' /\ Data
    <3>1. PhasesAgree'
      BY <2>7 DEF PollFails, TypeOK, PhasesAgree, Statuses
    <3>2. QED
      BY <2>7, <3>1, TableUntouched DEF PollFails
  <2>8. ASSUME NEW c \in Calls, LocalTimeout(c) PROVE PhasesAgree' /\ Data
    <3>1. PhasesAgree'
      BY <2>8 DEF LocalTimeout, TypeOK, PhasesAgree, Statuses
    <3>2. QED
      BY <2>8, <3>1, TableUntouched DEF LocalTimeout
  <2>9. ASSUME NEW c \in Calls, Crash(c) PROVE PhasesAgree' /\ Data
    <3>1. PhasesAgree'
      BY <2>9 DEF Crash, TypeOK, PhasesAgree, Statuses
    <3>2. QED
      BY <2>9, <3>1, TableUntouched DEF Crash
  <2>10. ASSUME NEW c \in Calls, ServePost(c) PROVE PhasesAgree' /\ Data
    <3>1. PICK n \in Int : rows' = [rows EXCEPT ![c] = PendingRow(n)]
      BY <2>10, BoundsAssumption DEF ServePost
    <3>2. rows[c].status = "absent" /\ c \in Ids
      BY <2>10 DEF ServePost, PhasesAgree, Ids
    <3>3. Data
      BY <2>10, <3>1, <3>2, CreateKeeps DEF ServePost
    <3>4. PendingRow(n).status = "pending"
      BY DEF PendingRow
    <3>5. PhasesAgree'
      BY <2>10, <3>1, <3>2, <3>4 DEF ServePost, TypeOK, PhasesAgree, Statuses, Ids
    <3>6. QED
      BY <3>3, <3>5
  <2>11. ASSUME NEW c \in Calls, ServeGet(c) PROVE PhasesAgree' /\ Data
    <3>1. rows[c].status \in Statuses
      BY DEF TypeOK, Row, Ids
    <3>2. PhasesAgree'
      BY <2>11, <3>1 DEF ServeGet, TypeOK, PhasesAgree, Statuses
    <3>3. QED
      BY <2>11, <3>2, TableUntouched DEF ServeGet
  <2>12. ASSUME NEW c \in Calls, DropPost(c) PROVE PhasesAgree' /\ Data
    <3>1. PhasesAgree'
      BY <2>12 DEF DropPost, TypeOK, PhasesAgree, Statuses
    <3>2. QED
      BY <2>12, <3>1, TableUntouched DEF DropPost
  <2>13. ASSUME NEW s \in Spans, IngestSpan(s) PROVE PhasesAgree' /\ Data
    <3>1. PICK n \in Int : rows' = [rows EXCEPT ![s] = PendingRow(n)]
      BY <2>13, BoundsAssumption DEF IngestSpan
    <3>2. rows[s].status = "absent" /\ s \in Ids /\ s \notin Calls
      BY <2>13, IdsAssumption DEF IngestSpan, Ids
    <3>3. Data
      BY <2>13, <3>1, <3>2, CreateKeeps DEF IngestSpan
    <3>4. \A c \in Calls : rows'[c] = rows[c]
      BY <3>1, <3>2 DEF TypeOK, Ids
    <3>5. PhasesAgree'
      BY <2>13, <3>4 DEF IngestSpan, PhasesAgree
    <3>6. QED
      BY <3>3, <3>5
  <2>14. ASSUME NEW id \in Ids, NEW a \in ApiActors, NEW d \in Decisions, ApiResolve(id, a, d)
         PROVE PhasesAgree' /\ Data
    <3>1. /\ a \in Actors /\ rows[id] \in Row /\ rows[id].status = "pending"
          /\ Sound(id, rows[id])
      BY <2>14 DEF Actors, ApiResolve, Resolvable, CountsSound, TypeOK
    <3>2. /\ \A i \in Ids : rows'[i].status = "pending" => Sound(i, rows[i])'
          /\ DeniesDecide' /\ GrantBacked'
      BY <2>14, <3>1, ResolveKeeps DEF ApiResolve, Row
    <3>3. \A s \in SlackActors : slack'[s].open => Sound(slack[s].id, slack[s])'
      BY <2>14 DEF ApiResolve, CountsSound, Sound, Approvers
    <3>4. PhasesAgree'
      BY <2>14, <3>1, ResolvedStatus, RowsAdvance DEF ApiResolve, TypeOK
    <3>5. QED
      BY <3>2, <3>3, <3>4 DEF CountsSound
  <2>15. ASSUME NEW id \in Ids, NEW s \in SlackActors, NEW d \in Decisions, SlackRead(id, s, d)
         PROVE PhasesAgree' /\ Data
    <3>1. Sound(id, rows[id])
      BY <2>15 DEF SlackRead, CountsSound
    <3>2. /\ slack'[s] = Click(id, d, rows[id])
          /\ \A t \in SlackActors \ {s} : slack'[t] = slack[t]
      BY <2>15 DEF SlackRead, TypeOK
    <3>3. Sound(id, slack'[s]) /\ slack'[s].id = id
      BY <3>1, <3>2 DEF Sound, Click
    <3>4. CountsSound'
      BY <2>15, <3>2, <3>3 DEF SlackRead, CountsSound, Sound, Approvers
    <3>5. QED
      BY <2>15, <3>4 DEF SlackRead, PhasesAgree, DeniesDecide, GrantBacked, Approvers
  <2>16. ASSUME NEW s \in SlackActors, SlackResolve(s) PROVE PhasesAgree' /\ Data
    <3> DEFINE k == slack[s]
    <3>1. k.open /\ k \in Clicks
      BY <2>16 DEF SlackResolve, TypeOK
    <3>2. /\ k.id \in Ids /\ k.decision \in Decisions /\ k.current \in Nat
          /\ k.approved_by \subseteq Actors /\ s \in Actors
      BY <3>1, OpenClick DEF Actors
    <3>3. Sound(k.id, k)
      BY <3>1 DEF CountsSound
    <3>4. \A i \in Ids, x \in SlackActors : Approvers(i) \subseteq Approvers(i)'
      BY <2>16 DEF SlackResolve, Approvers
    <3>5. slack'[s].open = FALSE /\ \A t \in SlackActors \ {s} : slack'[t] = slack[t]
      BY <2>16 DEF SlackResolve, TypeOK, NoClick
    <3>6. \A t \in SlackActors : slack'[t].open => Sound(slack[t].id, slack[t])'
      <4> SUFFICES ASSUME NEW t \in SlackActors, slack'[t].open
                   PROVE  Sound(slack[t].id, slack[t])'
        OBVIOUS
      <4>1. slack'[t] = slack[t] /\ slack[t].open /\ slack[t] \in Clicks
        BY <3>5 DEF TypeOK
      <4>2. slack[t].id \in Ids /\ Sound(slack[t].id, slack[t])
        BY <4>1, OpenClick DEF CountsSound
      <4>3. QED
        BY <3>4, <4>1, <4>2 DEF Sound
    <3>7. CASE Resolvable(rows[k.id], k, s, k.decision)
      <4>1. rows[k.id].status = "pending" /\ rows[k.id] \in Row
        BY <3>2, <3>7 DEF Resolvable, TypeOK
      <4>2. /\ \A i \in Ids : rows'[i].status = "pending" => Sound(i, rows[i])'
            /\ DeniesDecide' /\ GrantBacked'
        BY <2>16, <3>2, <3>3, <3>7, ResolveKeeps DEF SlackResolve
      <4>3. PhasesAgree'
        BY <2>16, <3>2, <3>7, <4>1, ResolvedStatus, RowsAdvance DEF SlackResolve, TypeOK
      <4>4. QED
        BY <3>6, <4>2, <4>3 DEF CountsSound
    <3>8. CASE ~Resolvable(rows[k.id], k, s, k.decision)
      <4>1. UNCHANGED <<rows, accepted, sdk, wire>>
        BY <2>16, <3>8 DEF SlackResolve
      <4>2. QED
        BY <3>6, <4>1 DEF PhasesAgree, CountsSound, DeniesDecide, GrantBacked, Sound, Approvers
    <3>9. QED
      BY <3>7, <3>8
  <2>17. ASSUME NEW s \in SlackActors, SlackFails(s) PROVE PhasesAgree' /\ Data
    <3>1. slack'[s].open = FALSE /\ \A t \in SlackActors \ {s} : slack'[t] = slack[t]
      BY <2>17 DEF SlackFails, TypeOK, NoClick
    <3>2. CountsSound'
      BY <2>17, <3>1 DEF SlackFails, CountsSound, Sound, Approvers
    <3>3. QED
      BY <2>17, <3>2 DEF SlackFails, PhasesAgree, DeniesDecide, GrantBacked, Approvers
  <2>18. ASSUME ReaperTick PROVE PhasesAgree' /\ Data
    <3>1. \A id \in Ids :
            \/ rows'[id] = rows[id]
            \/ /\ rows[id].status = "pending"
               /\ rows'[id].status = "expired"
      BY <2>18 DEF ReaperTick, Overdue, TypeOK, Row
    <3>2. PhasesAgree'
      BY <2>18, <3>1, RowsAdvance DEF ReaperTick
    <3>3. CountsSound'
      BY <2>18, <3>1 DEF ReaperTick, CountsSound, Sound, Approvers
    <3>4. DeniesDecide'
      BY <2>18, <3>1 DEF ReaperTick, DeniesDecide
    <3>5. GrantBacked'
      BY <2>18, <3>1 DEF ReaperTick, GrantBacked, Approvers
    <3>6. QED
      BY <3>2, <3>3, <3>4, <3>5
  <2>19. ASSUME Tick PROVE PhasesAgree' /\ Data
    <3>1. PhasesAgree'
      BY <2>19 DEF Tick, PhasesAgree
    <3>2. QED
      BY <2>19, <3>1, TableUntouched DEF Tick
  <2>20. CASE UNCHANGED vars
    BY <2>20, TableUntouched DEF vars, PhasesAgree
  <2>21. QED
    BY <2>1, <2>2, <2>3, <2>4, <2>5, <2>6, <2>7, <2>8, <2>9, <2>10, <2>11, <2>12, <2>13,
       <2>14, <2>15, <2>16, <2>17, <2>18, <2>19, <2>20
    DEF Next, SdkStep, ReceiverStep, OperatorStep
<1>3. QED
  BY <1>1, <1>2, TypeCorrect, PTL DEF Spec

(* An approved request was approved by enough different actors, and vetoed *)
(* by none, whatever the interleaving of clicks, polls and expiry.         *)
THEOREM GrantBackedHolds == Spec => []GrantBacked
<1>1. Inductive => GrantBacked
  BY DEF Inductive
<1>2. QED
  BY <1>1, InductiveInvariant, PTL

(* A tool call whose request anyone denied does not run.                   *)
THEOREM VetoStopsHolds == Spec => []VetoStops
<1>1. Inductive => VetoStops
  BY DEF Inductive, VetoStops, DeniesDecide, PhasesAgree
<1>2. QED
  BY <1>1, InductiveInvariant, PTL

-----------------------------------------------------------------------------
(* The refinement of HeldCall.                                             *)

(* How a step of the table looks to HeldCall: some of the calls' pending   *)
(* requests get their answer, and nothing else.                            *)
LEMMA TableStepRefines ==
  ASSUME Inductive, UNCHANGED sdk,
         \A id \in Ids : \/ rows'[id].status = rows[id].status
                         \/ /\ rows[id].status = "pending"
                            /\ rows'[id].status \in {"approved", "denied", "expired"}
  PROVE  [Held!Next]_(Held!vars)
<1> DEFINE S == {c \in Calls : rows'[c].status # rows[c].status}
           f == [c \in S |-> rows'[c].status]
<1>1. heldCall' = heldCall
  BY DEF heldCall
<1>2. CASE S = {}
  <2>1. heldVerdict' = heldVerdict
    BY <1>2 DEF heldVerdict, Ids
  <2>2. QED
    BY <1>1, <2>1 DEF Held!vars
<1>3. CASE S # {}
  <2>1. \A c \in S : /\ rows[c].status = "pending"
                     /\ rows'[c].status \in {"approved", "denied", "expired"}
    BY DEF Ids
  <2>2. S \in (SUBSET Calls) \ {{}} /\ f \in [S -> {"approved", "denied", "expired"}]
    BY <1>3, <2>1
  <2>3. \A c \in S : heldVerdict[c] = "pending"
    BY <2>1 DEF heldVerdict
  <2>4. heldVerdict' = [c \in Calls |-> IF c \in S THEN f[c] ELSE heldVerdict[c]]
    BY <2>1 DEF heldVerdict
  <2>5. Held!Answer
    BY <1>1, <2>2, <2>3, <2>4 DEF Held!Answer
  <2>6. QED
    BY <2>5 DEF Held!Next
<1>4. QED
  BY <1>2, <1>3

(* The workflow implements HeldCall: a held call is decided once and for   *)
(* good, and its tool runs only after it was approved.                     *)
THEOREM ApprovalsImplementHeldCall == Spec => ImplementsHeldCall
<1>1. Init => Held!Init
  BY DEF Init, Held!Init, heldCall, heldVerdict, AbsentRow, Ids
<1>2. Inductive /\ [Next]_vars => [Held!Next]_(Held!vars)
  <2> SUFFICES ASSUME Inductive, [Next]_vars PROVE [Held!Next]_(Held!vars)
    OBVIOUS
  <2> USE DEF Inductive
  <2>1. ASSUME NEW c \in Calls, HoldCall(c) PROVE Held!Hold(c)
    BY <2>1 DEF HoldCall, Held!Hold, heldCall, heldVerdict, TypeOK
  <2>2. ASSUME NEW c \in Calls, PostReturns(c) PROVE UNCHANGED Held!vars
    BY <2>2 DEF PostReturns, Held!vars, heldCall, heldVerdict, TypeOK
  <2>3. ASSUME NEW c \in Calls, PostFails(c) \/ LocalTimeout(c) \/ Crash(c) PROVE Held!Stop(c)
    BY <2>3 DEF PostFails, LocalTimeout, Crash, Held!Stop, heldCall, heldVerdict, TypeOK
  <2>4. ASSUME NEW c \in Calls,
               PollSend(c) \/ PollAgain(c) \/ PollFails(c) \/ ServeGet(c) \/ DropPost(c)
        PROVE  UNCHANGED Held!vars
    BY <2>4 DEF PollSend, PollAgain, PollFails, ServeGet, DropPost, Held!vars, heldCall, heldVerdict
  <2>5. ASSUME NEW c \in Calls, PollReturns(c) PROVE Held!Run(c) \/ Held!Stop(c)
    <3>1. rows[c].status = wire[c] /\ sdk[c] = "polling"
      BY <2>5 DEF PollReturns, PhasesAgree
    <3>2. CASE wire[c] = "approved"
      BY <2>5, <3>1, <3>2 DEF PollReturns, Held!Run, heldCall, heldVerdict, TypeOK
    <3>3. CASE wire[c] # "approved"
      BY <2>5, <3>1, <3>3 DEF PollReturns, Held!Stop, heldCall, heldVerdict, TypeOK
    <3>4. QED
      BY <3>2, <3>3
  <2>6. ASSUME NEW c \in Calls, ServePost(c) PROVE Held!Ask(c)
    <3>1. PICK n \in Int : rows' = [rows EXCEPT ![c] = PendingRow(n)]
      BY <2>6, BoundsAssumption DEF ServePost
    <3>2. rows[c].status = "absent" /\ sdk[c] # "idle" /\ PendingRow(n).status = "pending"
      BY <2>6 DEF ServePost, PhasesAgree, PendingRow
    <3>3. heldCall' = heldCall /\ heldCall[c] # "idle"
      BY <2>6, <3>2 DEF ServePost, heldCall, TypeOK
    <3>4. heldVerdict' = [heldVerdict EXCEPT ![c] = "pending"] /\ heldVerdict[c] = "none"
      BY <3>1, <3>2 DEF heldVerdict, TypeOK, Ids
    <3>5. QED
      BY <3>3, <3>4 DEF Held!Ask
  <2>7. ASSUME NEW s \in Spans, IngestSpan(s) PROVE UNCHANGED Held!vars
    <3>1. \A c \in Calls : rows'[c] = rows[c]
      BY <2>7, IdsAssumption DEF IngestSpan, TypeOK, Ids
    <3>2. QED
      BY <2>7, <3>1 DEF IngestSpan, Held!vars, heldCall, heldVerdict
  <2>8. ASSUME NEW id \in Ids, NEW a \in ApiActors, NEW d \in Decisions, ApiResolve(id, a, d)
        PROVE [Held!Next]_(Held!vars)
    <3>1. rows[id].status = "pending" /\ rows[id] \in Row
      BY <2>8 DEF ApiResolve, Resolvable, TypeOK
    <3>2. QED
      BY <2>8, <3>1, ResolvedStatus, TableStepRefines DEF ApiResolve, TypeOK
  <2>9. ASSUME NEW s \in SlackActors, SlackResolve(s) PROVE [Held!Next]_(Held!vars)
    <3> DEFINE k == slack[s]
    <3>1. k.id \in Ids
      BY <2>9, OpenClick DEF SlackResolve, TypeOK
    <3>2. CASE Resolvable(rows[k.id], k, s, k.decision)
      <4>1. rows[k.id].status = "pending" /\ rows[k.id] \in Row
        BY <3>1, <3>2 DEF Resolvable, TypeOK
      <4>2. QED
        BY <2>9, <3>1, <3>2, <4>1, ResolvedStatus, TableStepRefines DEF SlackResolve, TypeOK
    <3>3. CASE ~Resolvable(rows[k.id], k, s, k.decision)
      BY <2>9, <3>3, TableStepRefines DEF SlackResolve
    <3>4. QED
      BY <3>2, <3>3
  <2>10. ASSUME ReaperTick PROVE [Held!Next]_(Held!vars)
    <3>1. \A id \in Ids : \/ rows'[id].status = rows[id].status
                          \/ /\ rows[id].status = "pending"
                             /\ rows'[id].status = "expired"
      BY <2>10 DEF ReaperTick, Overdue, TypeOK, Row
    <3>2. QED
      BY <2>10, <3>1, TableStepRefines DEF ReaperTick
  <2>11. ASSUME UNCHANGED <<rows, sdk>> PROVE UNCHANGED Held!vars
    BY <2>11 DEF Held!vars, heldCall, heldVerdict
  <2>12. QED
    BY <2>1, <2>2, <2>3, <2>4, <2>5, <2>6, <2>7, <2>8, <2>9, <2>10, <2>11
    DEF Next, SdkStep, ReceiverStep, OperatorStep, SlackRead, SlackFails, Tick, vars, Held!Next
<1>3. QED
  BY <1>1, <1>2, InductiveInvariant, PTL DEF Spec, ImplementsHeldCall, Held!Spec
=============================================================================
