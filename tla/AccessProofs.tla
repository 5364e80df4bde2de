---------------------------- MODULE AccessProofs ----------------------------
(***************************************************************************)
(* Proofs about who has access to a project.                               *)
(*                                                                         *)
(* Members: whatever requests race, there are no more owners than founding *)
(* registrations, and ownership is gained by one of these or by the accept *)
(* of a pending transfer; for any number of users, requests and transfers. *)
(*                                                                         *)
(* ApiKeys: rotation gives a key one successor, and the reaper spares what *)
(* is not expired, for any number of keys, of requests at a time, of       *)
(* updates and any grace period.                                           *)
(***************************************************************************)
EXTENDS Members, ApiKeys, FiniteSetTheorems, TLAPS

(* An accept that has locked its transfer, a registration that has         *)
(* inserted its user.                                                      *)
Held(s) == req[s].op = "accept" /\ req[s].pc \in {"owner", "write"}
Inserted(s) == req[s].op = "register" /\ req[s].pc = "write"

(* A transfer that is locked stays as it was read.                         *)
Accepting(s) ==
  /\ req[s].pc = "owner" => req[s].op = "accept"
  /\ Held(s) => req[s].id = transfer.id /\ req[s].by = transfer.to /\ req[s].on = transfer.from

Registering(s) ==
  /\ req[s].pc = "insert" => req[s].op = "register"
  /\ req[s].op = "register" => req[s].by \in Users /\ req[s].pc \in {"insert", "write"}
  /\ Inserted(s) => req[s].by \notin account /\ req[s].seen # "owner"

(* What is written refers to accounts that are there.                      *)
Written(s) ==
  /\ req[s].op \in ByRole \cup OnMember \cup {"initiate"} => req[s].on \in Users
  /\ req[s].pc = "write" /\ req[s].op = "add" => req[s].on \in account
  /\ req[s].pc = "write" /\ req[s].op = "invite" /\ req[s].first => req[s].on \in account
  /\ req[s].pc = "write" /\ req[s].op = "initiate" => req[s].on \in account /\ req[s].by \in account
  /\ req[s].op = "accept" => req[s].by # Nobody

Sound(s) == Accepting(s) /\ Registering(s) /\ Written(s)

OneAccept == \A s, o \in Slots : Held(s) /\ Held(o) => s = o
OneInsert == \A s, o \in Slots : Inserted(s) /\ Inserted(o) /\ req[s].by = req[o].by => s = o

(* The owners, and whom an accept is about to make an admin: the role read *)
(* may have been changed since, and the one who accepts is an owner then.  *)
Giving == {req[s].on : s \in {o \in Slots : req[o].op = "accept" /\ req[o].pc = "write"}}
Counted == Cardinality(Owners \cup Giving) <= founders

Inductive == TypeOK /\ (\A s \in Slots : Sound(s)) /\ OneAccept /\ OneInsert /\ Counted

-----------------------------------------------------------------------------
LEMMA TypesOfARequest ==
  ASSUME NEW r \in Request
  PROVE  /\ r.pc \in {"idle", "read", "insert", "owner", "write"} /\ r.op \in Operations \cup {"none"}
         /\ r.by \in Users \cup {Key, Nobody} /\ r.as \in Roles /\ r.on \in Users \cup {Nobody}
         /\ r.to \in Granted \cup {"none"} /\ r.id \in Transfers \cup {Nobody} /\ r.seen \in Roles /\ r.first \in BOOLEAN
BY DEF Request

LEMMA IdleRequest ==
  Idle \in Request /\ Idle.pc = "idle" /\ Idle.op = "none"
BY DEF Idle, Request, Roles, Granted, Operations

LEMMA OperationNames ==
  /\ ByRole = {"add", "update", "remove"} /\ OnMember = {"invite", "change", "expel", "revoke"}
  /\ OnTransfer = {"accept", "reject"}
  /\ Operations = {"add", "update", "remove", "invite", "change", "expel", "revoke", "accept", "reject", "initiate", "register"}
  /\ Granted = {"admin", "operator", "viewer"} /\ Roles = {"none", "owner", "admin", "operator", "viewer"}
BY DEF ByRole, OnMember, OnTransfer, Operations, Granted, Roles

(* All who are counted are users, and so finitely many.                    *)
LEMMA CountedAreFinite ==
  ASSUME TypeOK
  PROVE  /\ IsFiniteSet(Owners \cup Giving) /\ Cardinality(Owners \cup Giving) \in Nat /\ founders \in Nat
<1>1. IsFiniteSet(Users \cup {Nobody})
  BY MembersAssumption, FS_AddElement
<1>2. Giving \subseteq Users \cup {Nobody}
  BY TypesOfARequest DEF Giving, TypeOK
<1>3. Owners \cup Giving \subseteq Users \cup {Nobody}
  BY <1>2 DEF Owners
<1>4. IsFiniteSet(Owners \cup Giving)
  BY <1>1, <1>3, FS_Subset
<1>5. QED
  BY <1>4, FS_CardinalityType DEF TypeOK

LEMMA AtMostOneMore ==
  ASSUME NEW S, IsFiniteSet(S), NEW x
  PROVE  /\ IsFiniteSet(S \cup {x}) /\ Cardinality(S \cup {x}) \in Nat
         /\ Cardinality(S \cup {x}) <= Cardinality(S) + 1
<1>1. IsFiniteSet(S \cup {x})
  BY FS_AddElement
<1>2. Cardinality(S) \in Nat /\ Cardinality(S \cup {x}) \in Nat
  BY <1>1, FS_CardinalityType
<1>3. Cardinality(S \cup {x}) = IF x \in S THEN Cardinality(S) ELSE Cardinality(S) + 1
  BY FS_AddElement
<1>4. QED
  BY <1>1, <1>2, <1>3

(* No more are counted if nobody is added.                                 *)
LEMMA NobodyAdded ==
  ASSUME TypeOK, TypeOK', Counted, (Owners \cup Giving)' \subseteq Owners \cup Giving, founders' = founders
  PROVE  Counted'
<1>1. IsFiniteSet(Owners \cup Giving) /\ Cardinality(Owners \cup Giving) \in Nat /\ founders \in Nat
  BY CountedAreFinite
<1>2. Cardinality((Owners \cup Giving)') <= Cardinality(Owners \cup Giving) /\ Cardinality((Owners \cup Giving)') \in Nat
  BY <1>1, FS_Subset, FS_CardinalityType
<1>3. QED
  BY <1>1, <1>2 DEF Counted

(* One is added for a registration that founds.                            *)
LEMMA OneAdded ==
  ASSUME TypeOK, TypeOK', Counted, NEW u, (Owners \cup Giving)' \subseteq Owners \cup Giving \cup {u},
         founders' = founders + 1
  PROVE  Counted'
<1>1. IsFiniteSet(Owners \cup Giving) /\ Cardinality(Owners \cup Giving) \in Nat /\ founders \in Nat
  BY CountedAreFinite
<1>2. IsFiniteSet(Owners \cup Giving \cup {u}) /\ Cardinality(Owners \cup Giving \cup {u}) <= Cardinality(Owners \cup Giving) + 1
      /\ Cardinality(Owners \cup Giving \cup {u}) \in Nat
  BY <1>1, AtMostOneMore
<1>3. Cardinality((Owners \cup Giving)') <= Cardinality(Owners \cup Giving \cup {u}) /\ Cardinality((Owners \cup Giving)') \in Nat
  BY <1>2, FS_Subset, FS_CardinalityType
<1>4. QED
  BY <1>1, <1>2, <1>3 DEF Counted

(* One takes the place of another.                                         *)
LEMMA OneReplaced ==
  ASSUME TypeOK, TypeOK', Counted, NEW u, NEW o \in Owners \cup Giving,
         (Owners \cup Giving)' \subseteq ((Owners \cup Giving) \ {o}) \cup {u}, founders' = founders
  PROVE  Counted'
<1> DEFINE Rest == (Owners \cup Giving) \ {o}
<1>1. IsFiniteSet(Owners \cup Giving) /\ Cardinality(Owners \cup Giving) \in Nat /\ founders \in Nat
  BY CountedAreFinite
<1>2. IsFiniteSet(Rest) /\ Cardinality(Rest) = Cardinality(Owners \cup Giving) - 1 /\ Cardinality(Rest) \in Nat
  BY <1>1, FS_RemoveElement, FS_CardinalityType
<1>3. IsFiniteSet(Rest \cup {u}) /\ Cardinality(Rest \cup {u}) <= Cardinality(Rest) + 1 /\ Cardinality(Rest \cup {u}) \in Nat
  BY <1>2, AtMostOneMore
<1>4. Cardinality((Owners \cup Giving)') <= Cardinality(Rest \cup {u}) /\ Cardinality((Owners \cup Giving)') \in Nat
  BY <1>3, FS_Subset, FS_CardinalityType
<1>5. QED
  BY <1>1, <1>2, <1>3, <1>4 DEF Counted

LEMMA InitInductive == Init => Inductive
<1> SUFFICES ASSUME Init PROVE Inductive
  OBVIOUS
<1>1. TypeOK
  <2>1. req \in [Slots -> Request]
    BY IdleRequest DEF Init
  <2>2. role \in [Users -> Roles] /\ \A u \in Users : role[u] = "none"
    BY DEF Init, Roles
  <2>3. QED
    BY <2>1, <2>2 DEF Init, TypeOK
<1>2. \A s \in Slots : req[s].pc = "idle" /\ req[s].op = "none"
  BY IdleRequest DEF Init
<1>3. \A s \in Slots : Sound(s) /\ ~Held(s) /\ ~Inserted(s)
  BY <1>2, OperationNames DEF Sound, Accepting, Registering, Written, Held, Inserted
<1>4. Owners = {} /\ Giving = {}
  <2>1. Owners = {}
    BY DEF Init, Owners
  <2>2. Giving = {}
    BY <1>2 DEF Giving
  <2>3. QED
    BY <2>1, <2>2
<1>5. Counted
  <2>1. Owners \cup Giving = {} /\ founders = 0
    BY <1>4 DEF Init
  <2>2. QED
    BY <2>1, FS_EmptySet DEF Counted
<1>6. QED
  BY <1>1, <1>3, <1>5 DEF Inductive, OneAccept, OneInsert

(* A step of one request: what it asks of the step for all to stay sound.  *)
LEMMA SlotStep ==
  ASSUME Inductive, NEW s \in Slots, TypeOK', Counted', \A o \in Slots \ {s} : req'[o] = req[o],
         account \subseteq account',
         \A o \in Slots \ {s} : Inserted(o) => req[o].by \notin account',
         transfer' = transfer \/ \A o \in Slots \ {s} : ~Held(o),
         Sound(s)',
         Held(s)' => \A o \in Slots \ {s} : ~Held(o),
         Inserted(s)' => \A o \in Slots \ {s} : ~(Inserted(o) /\ req[o].by = req'[s].by)
  PROVE  Inductive'
<1>1. ASSUME NEW o \in Slots, o # s
      PROVE  /\ req'[o] = req[o] /\ (Held(o)' <=> Held(o)) /\ (Inserted(o)' <=> Inserted(o)) /\ Sound(o)'
  <2>1. req'[o] = req[o] /\ Sound(o)
    BY <1>1 DEF Inductive
  <2>2. (Held(o)' <=> Held(o)) /\ (Inserted(o)' <=> Inserted(o))
    BY <2>1 DEF Held, Inserted
  <2>3. Accepting(o)'
    BY <1>1, <2>1, <2>2 DEF Sound, Accepting
  <2>4. Registering(o)'
    BY <1>1, <2>1, <2>2 DEF Sound, Registering
  <2>5. Written(o)'
    BY <2>1 DEF Sound, Written
  <2>6. QED
    BY <2>1, <2>2, <2>3, <2>4, <2>5 DEF Sound
<1>2. \A o \in Slots : Sound(o)'
  BY <1>1
<1>3. OneAccept'
  <2> SUFFICES ASSUME NEW p \in Slots, NEW o \in Slots, Held(p)', Held(o)', p # o PROVE FALSE
    BY DEF OneAccept
  <2>1. CASE p = s
    BY <2>1, <1>1
  <2>2. CASE o = s
    BY <2>2, <1>1
  <2>3. CASE p # s /\ o # s
    BY <2>3, <1>1 DEF Inductive, OneAccept
  <2>4. QED
    BY <2>1, <2>2, <2>3
<1>4. OneInsert'
  <2> SUFFICES ASSUME NEW p \in Slots, NEW o \in Slots, Inserted(p)', Inserted(o)', req'[p].by = req'[o].by, p # o
               PROVE FALSE
    BY DEF OneInsert
  <2>1. CASE p = s
    BY <2>1, <1>1
  <2>2. CASE o = s
    BY <2>2, <1>1
  <2>3. CASE p # s /\ o # s
    BY <2>3, <1>1 DEF Inductive, OneInsert
  <2>4. QED
    BY <2>1, <2>2, <2>3
<1>5. QED
  BY <1>2, <1>3, <1>4 DEF Inductive
-----------------------------------------------------------------------------
(* The steps.                                                              *)

LEMMA EndedSlot ==
  ASSUME TypeOK, NEW s \in Slots, End(s)
  PROVE  /\ req' \in [Slots -> Request] /\ req'[s] = Idle /\ (\A o \in Slots \ {s} : req'[o] = req[o])
         /\ Sound(s)' /\ ~Held(s)' /\ ~Inserted(s)'
         /\ Giving' = {req[o].on : o \in {p \in Slots \ {s} : req[p].op = "accept" /\ req[p].pc = "write"}}
<1>1. req'[s] = Idle /\ (\A o \in Slots \ {s} : req'[o] = req[o])
  BY DEF End, TypeOK
<1>2. req' \in [Slots -> Request]
  BY IdleRequest DEF End, TypeOK
<1>3. Sound(s)' /\ ~Held(s)' /\ ~Inserted(s)'
  BY <1>1, IdleRequest, OperationNames DEF Sound, Accepting, Registering, Written, Held, Inserted
<1>4. Giving' = {req[o].on : o \in {p \in Slots \ {s} : req[p].op = "accept" /\ req[p].pc = "write"}}
  BY <1>1, IdleRequest DEF Giving
<1>5. QED
  BY <1>1, <1>2, <1>3, <1>4

(* A request that ends and leaves transfers and accounts alone.            *)
LEMMA EndStep ==
  ASSUME Inductive, NEW s \in Slots, End(s), UNCHANGED <<account, founders>>,
         transfer' = transfer \/ \A o \in Slots \ {s} : ~Held(o),
         transfer' = NoTransfer \/ transfer' \in [id : Transfers, from : account, to : account],
         role' \in [Users -> Roles], \A u \in Users : role'[u] # "none" => u \in account,
         Owners' \subseteq Owners,
         invited' \in [Users -> Granted \cup {"none"}]
  PROVE  Inductive'
<1>1. TypeOK'
  BY EndedSlot DEF Inductive, TypeOK, NoTransfer
<1>2. Counted'
  <2>1. Giving' \subseteq Giving
    BY EndedSlot DEF Inductive, Giving
  <2>2. QED
    BY <1>1, <2>1, NobodyAdded DEF Inductive
<1>3. \A o \in Slots \ {s} : Inserted(o) => req[o].by \notin account'
  BY DEF Inductive, Sound, Registering
<1>4. QED
  BY <1>1, <1>2, <1>3, EndedSlot, SlotStep DEF Inductive

(* A request that goes on, and no accept that comes to its writes.         *)
LEMMA GoesOn ==
  ASSUME Inductive, NEW s \in Slots, req' \in [Slots -> Request], \A o \in Slots \ {s} : req'[o] = req[o],
         UNCHANGED <<account, role, invited, transfer, founders>>,
         req'[s].op = "accept" /\ req'[s].pc = "write" => req'[s].on \in Owners,
         Sound(s)', Held(s)' => \A o \in Slots \ {s} : ~Held(o),
         Inserted(s)' => \A o \in Slots \ {s} : ~(Inserted(o) /\ req[o].by = req'[s].by)
  PROVE  Inductive'
<1>1. TypeOK'
  BY DEF Inductive, TypeOK, NoTransfer
<1>2. Counted'
  <2>1. Giving' \subseteq Giving \cup Owners
    BY DEF Giving
  <2>2. Owners' = Owners
    BY DEF Owners
  <2>3. QED
    BY <1>1, <2>1, <2>2, NobodyAdded DEF Inductive
<1>3. \A o \in Slots \ {s} : Inserted(o) => req[o].by \notin account'
  BY DEF Inductive, Sound, Registering
<1>4. QED
  BY <1>1, <1>2, <1>3, SlotStep DEF Inductive

LEMMA AuthorizeStep ==
  ASSUME Inductive, NEW s \in Slots, Authorize(s)
  PROVE  Inductive'
<1>1. PICK op \in Operations \ {"register"}, by \in Users \cup {Key} :
        \E as \in (IF by = Key THEN {"none"} ELSE {role[by]}) :
          /\ Caller(by, as, op)
          /\ \E on \in (IF op \in OnTransfer THEN {Nobody} ELSE Users),
                to \in (IF op \in {"add", "update", "invite", "change"} THEN Grantable ELSE {"none"}) :
               /\ op \in OnTransfer => transfer # NoTransfer
               /\ req' = [req EXCEPT ![s] =
                    Asked(op, IF op \in {"add", "invite", "revoke"} THEN Nobody ELSE by, IF op \in ByRole THEN as ELSE "none", on, to)]
  BY DEF Authorize
<1>2. PICK as \in (IF by = Key THEN {"none"} ELSE {role[by]}),
           on \in (IF op \in OnTransfer THEN {Nobody} ELSE Users),
           to \in (IF op \in {"add", "update", "invite", "change"} THEN Grantable ELSE {"none"}) :
        /\ op \in OnTransfer => transfer # NoTransfer
        /\ req' = [req EXCEPT ![s] =
             Asked(op, IF op \in {"add", "invite", "revoke"} THEN Nobody ELSE by, IF op \in ByRole THEN as ELSE "none", on, to)]
  BY <1>1
<1> DEFINE caller == IF op \in {"add", "invite", "revoke"} THEN Nobody ELSE by
           rank == IF op \in ByRole THEN as ELSE "none"
           asked == Asked(op, caller, rank, on, to)
<1>3. /\ caller \in Users \cup {Key, Nobody} /\ rank \in Roles /\ on \in Users \cup {Nobody}
      /\ to \in Granted \cup {"none"} /\ (op \in ByRole \cup OnMember \cup {"initiate"} => on \in Users)
  <2>1. as \in Roles
    BY OperationNames DEF Inductive, TypeOK
  <2>2. to \in Granted \cup {"none"}
    BY MembersAssumption
  <2>3. op \in ByRole \cup OnMember \cup {"initiate"} => on \in Users
    BY OperationNames
  <2>4. QED
    BY <2>1, <2>2, <2>3, OperationNames
<1>4. (IF op \in OnTransfer THEN transfer.id ELSE Nobody) \in Transfers \cup {Nobody}
  BY DEF Inductive, TypeOK, NoTransfer
<1>5. asked \in Request
  <2>1. (IF op = "revoke" THEN "write" ELSE "read") \in {"idle", "read", "insert", "owner", "write"}
    OBVIOUS
  <2>2. "none" \in Roles /\ FALSE \in BOOLEAN /\ op \in Operations \cup {"none"}
    BY OperationNames
  <2>3. QED
    BY <1>3, <1>4, <2>1, <2>2 DEF Asked, Request
<1>6. asked.op = op /\ asked.on = on /\ asked.by = caller /\ asked.pc = (IF op = "revoke" THEN "write" ELSE "read")
  BY DEF Asked
<1>7. req' = [req EXCEPT ![s] = asked]
  BY <1>2
<1> HIDE DEF asked
<1>8. req'[s] = asked /\ req' \in [Slots -> Request] /\ \A o \in Slots \ {s} : req'[o] = req[o]
  BY <1>5, <1>7 DEF Inductive, TypeOK
<1>9. ~Held(s)' /\ ~Inserted(s)' /\ Sound(s)'
  <2>1. req'[s].op = op /\ op # "register" /\ req'[s].on = on /\ req'[s].by = caller /\ req'[s].pc = (IF op = "revoke" THEN "write" ELSE "read")
    BY <1>6, <1>8
  <2>2. ~Held(s)' /\ ~Inserted(s)'
    BY <2>1 DEF Held, Inserted
  <2>3. Accepting(s)' /\ Registering(s)'
    BY <2>1, <2>2 DEF Accepting, Registering
  <2>4. Written(s)'
    <3>1. op = "accept" => caller # Nobody
      BY MembersAssumption
    <3>2. QED
      BY <1>3, <2>1, <3>1 DEF Written
  <2>5. QED
    BY <2>2, <2>3, <2>4 DEF Sound
<1>10. QED
  <2>1. ~(req'[s].op = "accept" /\ req'[s].pc = "write")
    BY <1>9 DEF Held
  <2>2. UNCHANGED <<account, role, invited, transfer, founders>>
    BY DEF Authorize
  <2>3. QED
    BY <1>8, <1>9, <2>1, <2>2, GoesOn

LEMMA ReadStep ==
  ASSUME Inductive, NEW s \in Slots, Read(s)
  PROVE  Inductive'
<1> DEFINE r == req[s]
           read == [req EXCEPT ![s].pc = "write", ![s].as = "none",
                      ![s].by = IF req[s].op = "initiate" THEN req[s].by ELSE Nobody,
                      ![s].first = req[s].op = "invite" /\ req[s].on \in account]
<1>1. req \in [Slots -> Request] /\ r \in Request /\ r.pc = "read" /\ r.op # "accept"
      /\ UNCHANGED <<account, role, invited, transfer, founders>>
  BY DEF Read, At, Inductive, TypeOK
<1>2. CASE ~Permitted(r)
  <2>1. End(s)
    BY <1>2 DEF Read
  <2>2. QED
    BY <1>1, <2>1, EndStep DEF Inductive, TypeOK, Owners
<1>3. CASE Permitted(r)
  <2>1. req' = read
    BY <1>3 DEF Read
  <2>2. r.op # "register" /\ (r.op \in ByRole \cup OnMember \cup {"initiate"} => r.on \in Users)
    BY <1>1 DEF Inductive, Sound, Registering, Written
  <2>3. "none" \in Roles /\ "write" \in {"idle", "read", "insert", "owner", "write"}
    BY OperationNames
  <2>4. /\ read[s] = [r EXCEPT !.pc = "write", !.as = "none", !.by = IF r.op = "initiate" THEN r.by ELSE Nobody,
                                !.first = r.op = "invite" /\ r.on \in account]
        /\ \A o \in Slots \ {s} : read[o] = req[o]
    BY <1>1
  <2>5. /\ read[s].pc = "write" /\ read[s].op = r.op /\ read[s].on = r.on
        /\ read[s].by = (IF r.op = "initiate" THEN r.by ELSE Nobody)
        /\ (read[s].first <=> r.op = "invite" /\ r.on \in account)
        /\ read[s] \in Request
    BY <1>1, <2>3, <2>4 DEF Request
  <2>6. read \in [Slots -> Request]
    BY <1>1, <2>5
  <2> HIDE DEF read
  <2>7. /\ r.op = "add" => r.on \in account
        /\ r.op = "initiate" => r.on \in account /\ r.by \in account
    <3>1. CASE r.op = "add"
      <4>1. AddReads(r)
        BY <1>3, <3>1 DEF Permitted
      <4>2. QED
        BY <3>1, <4>1 DEF AddReads
    <3>2. CASE r.op = "initiate"
      <4>1. r.by \in Users /\ role[r.by] = "owner" /\ role[r.on] = "admin"
        <5>1. InitiateReads(r)
          BY <1>3, <3>2 DEF Permitted
        <5>2. QED
          BY <5>1 DEF InitiateReads
      <4>2. r.on \in Users
        BY <1>1, <2>2, <3>2, <4>1, TypesOfARequest DEF Inductive, Sound, Written
      <4>3. QED
        BY <3>2, <4>1, <4>2 DEF Inductive, TypeOK
    <3>3. QED
      BY <3>1, <3>2
  <2>8. ~Held(s)' /\ ~Inserted(s)' /\ Sound(s)'
    <3>1. ~Held(s)' /\ ~Inserted(s)'
      BY <1>1, <2>1, <2>2, <2>5 DEF Held, Inserted
    <3>2. Accepting(s)' /\ Registering(s)'
      BY <2>1, <2>2, <2>5, <3>1 DEF Accepting, Registering
    <3>3. Written(s)'
      BY <1>1, <2>1, <2>2, <2>5, <2>7 DEF Written
    <3>4. QED
      BY <3>1, <3>2, <3>3 DEF Sound
  <2>9. ~(req'[s].op = "accept" /\ req'[s].pc = "write")
    BY <2>8 DEF Held
  <2>10. QED
    BY <1>1, <2>1, <2>4, <2>6, <2>8, <2>9, GoesOn DEF read
<1>4. QED
  BY <1>2, <1>3

(* What a row of project_members becomes.                                  *)
LEMMA RolesAreInserted ==
  ASSUME Inductive, NEW u \in account, NEW r \in Granted \cup {"none"}, Insert(u, r)
  PROVE  /\ role' \in [Users -> Roles] /\ (\A v \in Users : role'[v] # "none" => v \in account)
         /\ Owners' \subseteq Owners
BY OperationNames DEF Inductive, TypeOK, Insert, Owners

LEMMA RolesAreSet ==
  ASSUME Inductive, NEW u \in Users, NEW r \in Granted \cup {"none"}, SetRole(u, r)
  PROVE  /\ role' \in [Users -> Roles] /\ (\A v \in Users : role'[v] # "none" => v \in account)
         /\ Owners' \subseteq Owners
BY OperationNames DEF Inductive, TypeOK, SetRole, Owners

LEMMA AddMemberStep ==
  ASSUME Inductive, NEW s \in Slots, AddMember(s)
  PROVE  Inductive'
<1>1. req[s].on \in account /\ req[s].to \in Granted \cup {"none"}
  BY TypesOfARequest DEF AddMember, At, Inductive, TypeOK, Sound, Written
<1>2. End(s) /\ Insert(req[s].on, req[s].to) /\ UNCHANGED <<account, invited, transfer, founders>>
  BY DEF AddMember
<1>3. QED
  BY <1>1, <1>2, RolesAreInserted, EndStep DEF Inductive, TypeOK

LEMMA UpdateMemberRoleStep ==
  ASSUME Inductive, NEW s \in Slots, UpdateMemberRole(s)
  PROVE  Inductive'
<1>1. req[s].on \in Users /\ req[s].to \in Granted \cup {"none"}
  BY TypesOfARequest, OperationNames DEF UpdateMemberRole, Inductive, TypeOK, Sound, Written
<1>2. End(s) /\ SetRole(req[s].on, req[s].to) /\ UNCHANGED <<account, invited, transfer, founders>>
  BY DEF UpdateMemberRole
<1>3. QED
  BY <1>1, <1>2, RolesAreSet, EndStep DEF Inductive, TypeOK

LEMMA RemoveMemberStep ==
  ASSUME Inductive, NEW s \in Slots, RemoveMember(s)
  PROVE  Inductive'
<1>1. End(s) /\ role' = [role EXCEPT ![req[s].on] = "none"] /\ UNCHANGED <<account, invited, transfer, founders>>
  BY DEF RemoveMember
<1>2. /\ role' \in [Users -> Roles] /\ (\A v \in Users : role'[v] # "none" => v \in account)
      /\ Owners' \subseteq Owners
  BY <1>1, OperationNames DEF Inductive, TypeOK, Owners
<1>3. QED
  BY <1>1, <1>2, EndStep DEF Inductive, TypeOK

LEMMA InviteMemberStep ==
  ASSUME Inductive, NEW s \in Slots, InviteMember(s)
  PROVE  Inductive'
<1>1. End(s) /\ UNCHANGED <<account, transfer, founders>> /\ req[s].to \in Granted \cup {"none"}
  BY TypesOfARequest DEF InviteMember, Inductive, TypeOK
<1>2. CASE req[s].first
  <2>1. req[s].on \in account
    BY <1>2 DEF InviteMember, At, Inductive, Sound, Written
  <2>2. Insert(req[s].on, req[s].to) /\ UNCHANGED invited
    BY <1>2 DEF InviteMember
  <2>3. QED
    BY <1>1, <2>1, <2>2, RolesAreInserted, EndStep DEF Inductive, TypeOK
<1>3. CASE ~req[s].first
  <2>1. invited' = [invited EXCEPT ![req[s].on] = req[s].to] /\ UNCHANGED role
    BY <1>3 DEF InviteMember
  <2>2. invited' \in [Users -> Granted \cup {"none"}]
    BY <1>1, <2>1 DEF Inductive, TypeOK
  <2>3. QED
    BY <1>1, <2>1, <2>2, EndStep DEF Inductive, TypeOK, Owners
<1>4. QED
  BY <1>2, <1>3

LEMMA RevokeInvitationStep ==
  ASSUME Inductive, NEW s \in Slots, RevokeInvitation(s)
  PROVE  Inductive'
<1>1. End(s) /\ UNCHANGED <<account, role, transfer, founders>> /\ invited' = [invited EXCEPT ![req[s].on] = "none"]
  BY DEF RevokeInvitation
<1>2. invited' \in [Users -> Granted \cup {"none"}]
  BY <1>1 DEF Inductive, TypeOK
<1>3. QED
  BY <1>1, <1>2, EndStep DEF Inductive, TypeOK, Owners

(* An unlocked transfer is no accept's.                                    *)
LEMMA UnlockedIsFree ==
  ASSUME Inductive, ~Locked(transfer.id)
  PROVE  \A o \in Slots : ~Held(o)
BY DEF Inductive, Sound, Accepting, Held, Locked

LEMMA InitiateTransferStep ==
  ASSUME Inductive, NEW s \in Slots, InitiateTransfer(s)
  PROVE  Inductive'
<1>1. End(s) /\ UNCHANGED <<account, role, invited, founders>> /\ \A o \in Slots : ~Held(o)
  BY UnlockedIsFree DEF InitiateTransfer
<1>2. PICK id \in (IF transfer = NoTransfer THEN FreshIds ELSE {transfer.id}) :
        transfer' = [id |-> id, from |-> req[s].by, to |-> req[s].on]
  BY DEF InitiateTransfer
<1>3. id \in Transfers
  BY DEF Inductive, TypeOK, FreshIds
<1>4. req[s].on \in account /\ req[s].by \in account
  BY DEF InitiateTransfer, At, Inductive, Sound, Written
<1>5. transfer' \in [id : Transfers, from : account, to : account]
  BY <1>2, <1>3, <1>4
<1>6. QED
  BY <1>1, <1>5, EndStep DEF Inductive, TypeOK, Owners

LEMMA RejectTransferStep ==
  ASSUME Inductive, NEW s \in Slots, RejectTransfer(s)
  PROVE  Inductive'
<1>1. End(s) /\ UNCHANGED <<account, role, invited, founders>> /\ ~Locked(req[s].id)
      /\ transfer' = IF transfer.id = req[s].id THEN NoTransfer ELSE transfer
  BY DEF RejectTransfer
<1>2. transfer' = transfer \/ (transfer' = NoTransfer /\ \A o \in Slots : ~Held(o))
  BY <1>1, UnlockedIsFree
<1>3. transfer' = NoTransfer \/ transfer' \in [id : Transfers, from : account, to : account]
  BY <1>2 DEF Inductive, TypeOK
<1>4. QED
  BY <1>1, <1>2, <1>3, EndStep DEF Inductive, TypeOK, Owners

LEMMA AcceptLocksStep ==
  ASSUME Inductive, NEW s \in Slots, AcceptLocks(s)
  PROVE  Inductive'
<1>1. /\ req \in [Slots -> Request] /\ req[s] \in Request /\ req[s].op = "accept" /\ ~Locked(req[s].id)
      /\ UNCHANGED <<account, role, invited, transfer, founders>>
  BY DEF AcceptLocks, Inductive, TypeOK
<1>2. CASE ~(transfer.id = req[s].id /\ transfer.to = req[s].by)
  <2>1. End(s)
    BY <1>2 DEF AcceptLocks
  <2>2. QED
    BY <1>1, <2>1, EndStep DEF Inductive, TypeOK, Owners
<1>3. CASE transfer.id = req[s].id /\ transfer.to = req[s].by
  <2>1. req' = [req EXCEPT ![s].pc = "owner", ![s].on = transfer.from]
    BY <1>3 DEF AcceptLocks
  <2>2. transfer.from \in Users \cup {Nobody}
    BY DEF Inductive, TypeOK, NoTransfer
  <2>3. /\ req'[s] = [req[s] EXCEPT !.pc = "owner", !.on = transfer.from]
        /\ \A o \in Slots \ {s} : req'[o] = req[o]
    BY <1>1, <2>1
  <2>4. /\ req'[s] \in Request /\ req'[s].pc = "owner" /\ req'[s].op = "accept" /\ req'[s].on = transfer.from
        /\ req'[s].id = req[s].id /\ req'[s].by = req[s].by
    BY <1>1, <2>2, <2>3 DEF Request
  <2>5. req' \in [Slots -> Request]
    BY <1>1, <2>1, <2>4
  <2>6. \A o \in Slots : ~Held(o)
    BY <1>1, <1>3, UnlockedIsFree
  <2>7. Sound(s)' /\ ~Inserted(s)'
    <3>1. req[s].by # Nobody
      BY <1>1 DEF Inductive, Sound, Written
    <3>2. QED
      BY <1>1, <1>3, <2>4, <3>1, OperationNames DEF Sound, Accepting, Registering, Written, Held, Inserted
  <2>8. QED
    BY <1>1, <2>3, <2>4, <2>5, <2>6, <2>7, GoesOn
<1>4. QED
  BY <1>2, <1>3

LEMMA AcceptReadsOwnerStep ==
  ASSUME Inductive, NEW s \in Slots, AcceptReadsOwner(s)
  PROVE  Inductive'
<1>1. /\ req \in [Slots -> Request] /\ req[s] \in Request /\ Held(s) /\ req[s].op = "accept"
      /\ UNCHANGED <<account, role, invited, founders>>
  BY DEF AcceptReadsOwner, At, Held, Inductive, TypeOK, Sound, Accepting
<1>2. \A o \in Slots \ {s} : ~Held(o)
  BY <1>1 DEF Inductive, OneAccept
<1>3. CASE role[req[s].on] # "owner"
  <2>1. End(s) /\ transfer' = NoTransfer
    BY <1>3 DEF AcceptReadsOwner
  <2>2. QED
    BY <1>1, <1>2, <2>1, EndStep DEF Inductive, TypeOK, Owners
<1>4. CASE role[req[s].on] = "owner"
  <2>1. req' = [req EXCEPT ![s].pc = "write"] /\ transfer' = transfer
    BY <1>4 DEF AcceptReadsOwner, Go
  <2>2. req'[s] = [req[s] EXCEPT !.pc = "write"] /\ \A o \in Slots \ {s} : req'[o] = req[o]
    BY <1>1, <2>1
  <2>3. /\ req'[s] \in Request /\ req'[s].pc = "write" /\ req'[s].op = "accept" /\ req'[s].on = req[s].on
        /\ req'[s].id = req[s].id /\ req'[s].by = req[s].by
    BY <1>1, <2>2 DEF Request
  <2>4. req' \in [Slots -> Request]
    BY <1>1, <2>1, <2>3
  <2>5. Sound(s)' /\ ~Inserted(s)'
    BY <1>1, <2>1, <2>3, OperationNames DEF Inductive, Sound, Accepting, Registering, Written, Held, Inserted
  <2>6. req'[s].on \in Owners
    <3>1. transfer # NoTransfer => req[s].on \in Users
      BY <1>1 DEF Inductive, TypeOK, Sound, Accepting
    <3>2. transfer # NoTransfer
      <4>1. req[s].by = transfer.to /\ req[s].by # Nobody
        BY <1>1 DEF Inductive, Sound, Accepting, Written
      <4>2. QED
        BY <4>1 DEF NoTransfer
    <3>3. QED
      BY <1>4, <2>3, <3>1, <3>2 DEF Owners
  <2>7. QED
    BY <1>1, <1>2, <2>1, <2>2, <2>3, <2>4, <2>5, <2>6, GoesOn
<1>5. QED
  BY <1>3, <1>4

LEMMA SwapRolesStep ==
  ASSUME Inductive, NEW s \in Slots, SwapRoles(s)
  PROVE  /\ Inductive' /\ Owners' \subseteq Owners \cup {req[s].by} /\ transfer.to = req[s].by
         /\ req[s].op = "accept" /\ req'[s] = Idle
<1>1. /\ End(s) /\ UNCHANGED <<account, invited, founders>> /\ transfer' = NoTransfer /\ Held(s)
      /\ req[s].op = "accept" /\ req[s].pc = "write"
  BY DEF SwapRoles, At, Held
<1>2. \A o \in Slots \ {s} : ~Held(o)
  BY <1>1 DEF Inductive, OneAccept
<1>3. /\ role' \in [Users -> Roles] /\ (\A v \in Users : role'[v] # "none" => v \in account)
      /\ Owners' \subseteq (Owners \ {req[s].on}) \cup {req[s].by}
  <2>1. role' = [u \in Users |-> IF role[u] = "none" THEN "none"
                                ELSE IF u = req[s].by THEN "owner"
                                ELSE IF u = req[s].on THEN "admin" ELSE role[u]]
    BY DEF SwapRoles
  <2>2. QED
    BY <2>1, OperationNames DEF Inductive, TypeOK, Owners
<1>4. TypeOK'
  BY <1>1, <1>3, EndedSlot DEF Inductive, TypeOK
<1>5. Giving' = {} /\ req[s].on \in Giving
  <2>1. Giving' = {}
    BY <1>1, <1>2, EndedSlot DEF Inductive, Held
  <2>2. QED
    BY <1>1, <2>1 DEF Giving
<1>6. Counted'
  BY <1>1, <1>3, <1>4, <1>5, OneReplaced DEF Inductive
<1>7. \A o \in Slots \ {s} : Inserted(o) => req[o].by \notin account'
  BY <1>1 DEF Inductive, Sound, Registering
<1>8. Inductive'
  BY <1>1, <1>2, <1>4, <1>6, <1>7, EndedSlot, SlotStep DEF Inductive
<1>9. transfer.to = req[s].by
  BY <1>1 DEF Inductive, Sound, Accepting
<1>10. QED
  BY <1>1, <1>3, <1>8, <1>9, EndedSlot DEF Inductive

LEMMA RegisterStep ==
  ASSUME Inductive, NEW s \in Slots, Register(s)
  PROVE  Inductive'
<1>1. PICK u \in Users \ account :
        req' = [req EXCEPT ![s] = [pc |-> "insert", op |-> "register", by |-> u, as |-> "none", on |-> Nobody,
                                   to |-> "none", id |-> Nobody, seen |-> "none", first |-> account = {}]]
  BY DEF Register
<1> DEFINE new == [pc |-> "insert", op |-> "register", by |-> u, as |-> "none", on |-> Nobody,
                   to |-> "none", id |-> Nobody, seen |-> "none", first |-> account = {}]
<1>2. new \in Request
  BY OperationNames DEF Request
<1>3. new.pc = "insert" /\ new.op = "register" /\ new.by = u
  OBVIOUS
<1> HIDE DEF new
<1>4. req'[s] = new /\ req' \in [Slots -> Request] /\ \A o \in Slots \ {s} : req'[o] = req[o]
  BY <1>1, <1>2 DEF Inductive, TypeOK, new
<1>5. ~Held(s)' /\ ~Inserted(s)' /\ Sound(s)'
  BY <1>3, <1>4, OperationNames DEF Held, Inserted, Sound, Accepting, Registering, Written
<1>6. UNCHANGED <<account, role, invited, transfer, founders>>
  BY DEF Register
<1>7. QED
  BY <1>3, <1>4, <1>5, <1>6, GoesOn

LEMMA RegisterInsertsStep ==
  ASSUME Inductive, NEW s \in Slots, RegisterInserts(s)
  PROVE  Inductive'
<1>1. /\ req \in [Slots -> Request] /\ req[s] \in Request /\ req[s].pc = "insert" /\ req[s].by \in Users
      /\ req[s].op = "register"
      /\ UNCHANGED <<account, role, invited, transfer, founders>>
      /\ \A o \in Slots \ {s} : ~(Inserted(o) /\ req[o].by = req[s].by)
  BY DEF RegisterInserts, At, Inserted, Inductive, TypeOK, Sound, Registering
<1>2. CASE req[s].by \in account
  <2>1. End(s)
    BY <1>2 DEF RegisterInserts
  <2>2. QED
    BY <1>1, <2>1, EndStep DEF Inductive, TypeOK, Owners
<1>3. CASE req[s].by \notin account
  <2>1. req' = [req EXCEPT ![s].pc = "write", ![s].seen = invited[req[s].by]]
    BY <1>3 DEF RegisterInserts
  <2>2. invited[req[s].by] \in Roles /\ invited[req[s].by] # "owner"
    BY <1>1, OperationNames DEF Inductive, TypeOK
  <2>3. /\ req'[s] = [req[s] EXCEPT !.pc = "write", !.seen = invited[req[s].by]]
        /\ \A o \in Slots \ {s} : req'[o] = req[o]
    BY <1>1, <2>1
  <2>4. /\ req'[s] \in Request /\ req'[s].pc = "write" /\ req'[s].op = "register" /\ req'[s].by = req[s].by
        /\ req'[s].seen # "owner"
    BY <1>1, <2>2, <2>3 DEF Request
  <2>5. req' \in [Slots -> Request]
    BY <1>1, <2>1, <2>4
  <2>6. ~Held(s)' /\ Sound(s)'
    BY <1>1, <1>3, <2>4, OperationNames DEF Held, Inserted, Sound, Accepting, Registering, Written
  <2>7. QED
    BY <1>1, <2>3, <2>4, <2>5, <2>6, GoesOn
<1>4. QED
  BY <1>2, <1>3

LEMMA RegisterCommitsStep ==
  ASSUME Inductive, NEW s \in Slots, RegisterCommits(s)
  PROVE  /\ Inductive'
         /\ Owners' \subseteq Owners \/ (Owners' \subseteq Owners \cup (account' \ account) /\ founders' > founders)
<1> DEFINE u == req[s].by
<1>1. /\ End(s) /\ UNCHANGED transfer /\ account' = account \cup {u}
      /\ founders' = (IF req[s].first THEN founders + 1 ELSE founders)
      /\ role' = [role EXCEPT ![u] = IF req[s].first THEN "owner" ELSE req[s].seen]
      /\ invited' = [invited EXCEPT ![u] = "none"] /\ Inserted(s)
  BY DEF RegisterCommits, At, Inserted
<1>2. u \in Users \ account /\ req[s].seen \in Roles \ {"owner"} /\ founders \in Nat
  <2>1. u \in Users /\ u \notin account /\ req[s].seen # "owner"
    BY <1>1 DEF Inductive, Sound, Registering, Inserted
  <2>2. req[s].seen \in Roles /\ founders \in Nat
    BY TypesOfARequest DEF Inductive, TypeOK
  <2>3. QED
    BY <2>1, <2>2
<1>3. /\ role' \in [Users -> Roles] /\ (\A v \in Users : role'[v] # "none" => v \in account')
      /\ IF req[s].first THEN Owners' \subseteq Owners \cup {u} ELSE Owners' \subseteq Owners
  BY <1>1, <1>2, OperationNames DEF Inductive, TypeOK, Owners
<1>4. TypeOK'
  <2>1. invited' \in [Users -> Granted \cup {"none"}] /\ founders' \in Nat /\ account' \subseteq Users
    BY <1>1, <1>2 DEF Inductive, TypeOK
  <2>2. transfer' = NoTransfer \/ transfer' \in [id : Transfers, from : account', to : account']
    BY <1>1 DEF Inductive, TypeOK
  <2>3. QED
    BY <1>1, <1>3, <2>1, <2>2, EndedSlot DEF Inductive, TypeOK
<1>5. Giving' \subseteq Giving
  BY <1>1, EndedSlot DEF Inductive, Giving
<1>6. Counted'
  <2>1. CASE req[s].first
    BY <1>1, <1>3, <1>4, <1>5, <2>1, OneAdded DEF Inductive
  <2>2. CASE ~req[s].first
    BY <1>1, <1>3, <1>4, <1>5, <2>2, NobodyAdded DEF Inductive
  <2>3. QED
    BY <2>1, <2>2
<1>7. \A o \in Slots \ {s} : Inserted(o) => req[o].by \notin account'
  BY <1>1 DEF Inductive, OneInsert, Sound, Registering
<1>8. Inductive'
  BY <1>1, <1>4, <1>6, <1>7, EndedSlot, SlotStep DEF Inductive
<1>9. Owners' \subseteq Owners \/ (Owners' \subseteq Owners \cup (account' \ account) /\ founders' > founders)
  <2>1. CASE req[s].first
    <3>1. Owners' \subseteq Owners \cup {u} /\ u \in account' \ account /\ founders' > founders
      BY <1>1, <1>2, <1>3, <2>1
    <3>2. QED
      BY <3>1
  <2>2. CASE ~req[s].first
    BY <1>3, <2>2
  <2>3. QED
    BY <2>1, <2>2
<1>10. QED
  BY <1>8, <1>9

LEMMA NextInductive == Inductive /\ [Next]_vars => Inductive'
<1> SUFFICES ASSUME Inductive, [Next]_vars PROVE Inductive'
  OBVIOUS
<1>1. CASE UNCHANGED vars
  <2>1. UNCHANGED <<account, role, invited, transfer, req, founders>>
    BY <1>1 DEF vars
  <2>2. TypeOK'
    BY <2>1 DEF Inductive, TypeOK, NoTransfer
  <2>3. \A s \in Slots : Sound(s)'
    BY <2>1 DEF Inductive, Sound, Accepting, Registering, Written, Held, Inserted
  <2>4. OneAccept' /\ OneInsert'
    BY <2>1 DEF Inductive, OneAccept, OneInsert, Held, Inserted
  <2>5. Counted'
    BY <2>1 DEF Inductive, Counted, Owners, Giving
  <2>6. QED
    BY <2>2, <2>3, <2>4, <2>5 DEF Inductive
<1>2. CASE Next
  <2>1. PICK s \in Slots :
          \/ Authorize(s) \/ Read(s)
          \/ AddMember(s) \/ UpdateMemberRole(s) \/ RemoveMember(s)
          \/ InviteMember(s) \/ RevokeInvitation(s)
          \/ InitiateTransfer(s) \/ RejectTransfer(s)
          \/ AcceptLocks(s) \/ AcceptReadsOwner(s) \/ SwapRoles(s)
          \/ Register(s) \/ RegisterInserts(s) \/ RegisterCommits(s)
    BY <1>2 DEF Next
  <2>2. QED
    BY <2>1, AuthorizeStep, ReadStep, AddMemberStep, UpdateMemberRoleStep, RemoveMemberStep, InviteMemberStep,
       RevokeInvitationStep, InitiateTransferStep, RejectTransferStep, AcceptLocksStep, AcceptReadsOwnerStep,
       SwapRolesStep, RegisterStep, RegisterInsertsStep, RegisterCommitsStep
<1>3. QED
  BY <1>1, <1>2

(* Everything that the theorems rest on holds in every state.              *)
THEOREM InductiveInvariant == Spec => []Inductive
BY InitInductive, NextInductive, PTL DEF Spec

-----------------------------------------------------------------------------
(* Accounts, roles, the transfer and the requests keep their types.        *)
THEOREM TypeCorrect == Spec => []TypeOK
<1>1. Inductive => TypeOK
  BY DEF Inductive
<1>2. QED
  BY <1>1, InductiveInvariant, PTL

(* There are no more owners than registrations that counted no user.       *)
THEOREM OwnersAreFoundedHolds == Spec => []OwnersAreFounded
<1>1. Inductive => OwnersAreFounded
  <2> SUFFICES ASSUME Inductive PROVE OwnersAreFounded
    OBVIOUS
  <2>1. /\ IsFiniteSet(Owners \cup Giving) /\ Cardinality(Owners \cup Giving) \in Nat /\ founders \in Nat
        /\ Cardinality(Owners \cup Giving) <= founders
    BY CountedAreFinite DEF Inductive, Counted
  <2>2. Cardinality(Owners) <= Cardinality(Owners \cup Giving) /\ Cardinality(Owners) \in Nat
    BY <2>1, FS_Subset, FS_CardinalityType
  <2>3. QED
    BY <2>1, <2>2 DEF OwnersAreFounded
<1>2. QED
  BY <1>1, InductiveInvariant, PTL

(* Only a founding registration and the accept of a pending transfer by    *)
(* its recipient make an owner.                                            *)
THEOREM OwnershipIsAcceptedHolds == Spec => OwnershipIsAccepted
<1> DEFINE Accepted ==
      \A u \in Owners' \ Owners :
        \/ u \in account' \ account /\ founders' > founders
        \/ transfer.to = u /\ \E s \in Slots : req[s].op = "accept" /\ req[s].by = u /\ req'[s] = Idle
<1>1. Inductive /\ [Next]_vars => [Accepted]_vars
  <2> SUFFICES ASSUME Inductive, Next PROVE Accepted
    BY DEF vars
  <2>1. PICK s \in Slots :
          \/ Authorize(s) \/ Read(s)
          \/ AddMember(s) \/ UpdateMemberRole(s) \/ RemoveMember(s)
          \/ InviteMember(s) \/ RevokeInvitation(s)
          \/ InitiateTransfer(s) \/ RejectTransfer(s)
          \/ AcceptLocks(s) \/ AcceptReadsOwner(s) \/ SwapRoles(s)
          \/ Register(s) \/ RegisterInserts(s) \/ RegisterCommits(s)
    BY DEF Next
  <2>2. CASE SwapRoles(s)
    BY <2>2, SwapRolesStep
  <2>3. CASE RegisterCommits(s)
    BY <2>3, RegisterCommitsStep
  <2>4. CASE AddMember(s) \/ InviteMember(s)
    <3>1. req[s].to \in Granted \cup {"none"}
      BY TypesOfARequest DEF Inductive, TypeOK
    <3>2. role' = role \/ Insert(req[s].on, req[s].to)
      BY <2>4 DEF AddMember, InviteMember
    <3>3. Owners' \subseteq Owners
      BY <3>1, <3>2, OperationNames DEF Inductive, TypeOK, Insert, Owners
    <3>4. QED
      BY <3>3
  <2>5. CASE UpdateMemberRole(s)
    <3>1. req[s].to \in Granted \cup {"none"}
      BY TypesOfARequest DEF Inductive, TypeOK
    <3>2. Owners' \subseteq Owners
      BY <2>5, <3>1, OperationNames DEF Inductive, TypeOK, UpdateMemberRole, SetRole, Owners
    <3>3. QED
      BY <3>2
  <2>6. CASE RemoveMember(s)
    <3>1. Owners' \subseteq Owners
      BY <2>6 DEF Inductive, TypeOK, RemoveMember, Owners
    <3>2. QED
      BY <3>1
  <2>7. CASE \/ Authorize(s) \/ Read(s) \/ RevokeInvitation(s) \/ InitiateTransfer(s) \/ RejectTransfer(s)
             \/ AcceptLocks(s) \/ AcceptReadsOwner(s) \/ Register(s) \/ RegisterInserts(s)
    <3>1. role' = role
      BY <2>7 DEF Authorize, Read, RevokeInvitation, InitiateTransfer, RejectTransfer, AcceptLocks,
        AcceptReadsOwner, Register, RegisterInserts
    <3>2. QED
      BY <3>1 DEF Owners
  <2>8. QED
    BY <2>1, <2>2, <2>3, <2>4, <2>5, <2>6, <2>7
<1>2. QED
  BY <1>1, InductiveInvariant, PTL DEF Spec, OwnershipIsAccepted

-----------------------------------------------------------------------------
(* ApiKeys.                                                                *)

(* The keys that an actor refers to exist, and each stage has its keys.    *)
Known(a) ==
  /\ \A k \in Keys : k \in keyReq[a].held \/ k \in keyReq[a].todo \/ k = keyReq[a].on \/ k = keyReq[a].by => key[k].made
  /\ keyReq[a].op \in {"rotate", "update", "revoke"} \/ keyReq[a].pc = "wait" => keyReq[a].on \in Keys
  /\ keyReq[a].pc = "touch" => keyReq[a].by \in Keys

(* A rotation under way holds a key that has no successor.                 *)
Rotating(a) ==
  keyReq[a].pc = "write" /\ keyReq[a].op = "rotate"
    => keyReq[a].on \in Keys /\ keyReq[a].on \in keyReq[a].held /\ ~key[keyReq[a].on].deprecated

(* The reaper holds keys that were expired at the time it asked for.       *)
Reaping(a) ==
  /\ keyReq[a].op = "reap" => keyReq[a].at <= now /\ \A k \in keyReq[a].held : Expired(k, keyReq[a].at)
  /\ keyReq[a].op = "reap" => a = Reaper
  /\ a = Reaper /\ keyReq[a].pc # "idle" => keyReq[a].op = "reap"

KeySound(a) == Known(a) /\ Rotating(a) /\ Reaping(a)

(* A row is held by one actor.                                             *)
Locks == \A a, b \in Actors : a # b => keyReq[a].held \cap keyReq[b].held = {}

KeyInductive == KeyTypeOK /\ (\A a \in Actors : KeySound(a)) /\ Locks /\ OneSuccessor

LEMMA TypesOfAKey ==
  ASSUME KeyTypeOK, NEW k \in Keys
  PROVE  /\ key[k] \in Row /\ (key[k].made \/ key[k] = Absent)
         /\ key[k].made \in BOOLEAN /\ key[k].revoked \in BOOLEAN /\ key[k].deprecated \in BOOLEAN
         /\ key[k].expires \in 0 .. Never /\ key[k].from \in Keys \cup {NoKey}
BY DEF KeyTypeOK, Row

LEMMA TypesOfAKeyRequest ==
  ASSUME NEW q \in KeyRequest
  PROVE  /\ q.pc \in {"idle", "touch", "act", "wait", "write"} /\ q.op \in KeyOperations \cup {"none", "reap"}
         /\ q.by \in Keys \cup {NoKey} /\ q.on \in Keys \cup {NoKey} /\ q.ask \in 0 .. Never /\ q.at \in Times
         /\ q.held \in SUBSET Keys /\ q.todo \in SUBSET Keys
BY DEF KeyRequest

LEMMA IdleKeyRequest ==
  /\ KeyIdle \in KeyRequest /\ KeyIdle.pc = "idle" /\ KeyIdle.op = "none" /\ KeyIdle.by = NoKey /\ KeyIdle.on = NoKey
  /\ KeyIdle.held = {} /\ KeyIdle.todo = {}
BY ApiKeysAssumption DEF KeyIdle, KeyRequest, Never, Times

LEMMA AbsentRow ==
  /\ Absent \in Row /\ ~Absent.made /\ ~Absent.deprecated /\ Absent.from = NoKey
  /\ \A e \in 0 .. Never, f \in Keys \cup {NoKey} :
       /\ Made(e, f) \in Row /\ Made(e, f).made /\ ~Made(e, f).deprecated /\ Made(e, f).from = f
<1>1. Never \in 0 .. Never
  BY ApiKeysAssumption DEF Never
<1>2. /\ Absent \in Row /\ ~Absent.made /\ ~Absent.deprecated /\ Absent.from = NoKey
      /\ Absent = [made |-> FALSE, revoked |-> FALSE, deprecated |-> FALSE, expires |-> Never, from |-> NoKey]
  BY <1>1 DEF Absent, Row
<1>3. ASSUME NEW e \in 0 .. Never, NEW f \in Keys \cup {NoKey}
      PROVE  Made(e, f) \in Row /\ Made(e, f).made /\ ~Made(e, f).deprecated /\ Made(e, f).from = f
  BY DEF Made, Row
<1>4. QED
  BY <1>2, <1>3

LEMMA KeyInitInductive == KeyInit => KeyInductive
<1> SUFFICES ASSUME KeyInit PROVE KeyInductive
  OBVIOUS
<1> USE ApiKeysAssumption
<1>1. \A k \in Keys : key[k] \in Row /\ (key[k].made \/ key[k] = Absent) /\ ~key[k].deprecated /\ key[k].from = NoKey
  BY AbsentRow DEF KeyInit, Never
<1>2. KeyTypeOK
  <2>1. 0 \in Times /\ 0 \in 0 .. MaxUpdates
    BY DEF Times
  <2>2. key \in [Keys -> Row]
    BY <1>1 DEF KeyInit
  <2>3. keyReq \in [Actors -> KeyRequest]
    BY IdleKeyRequest DEF KeyInit
  <2>4. QED
    BY <1>1, <2>1, <2>2, <2>3 DEF KeyInit, KeyTypeOK
<1>3. \A a \in Actors : KeySound(a) /\ keyReq[a].held = {}
  BY IdleKeyRequest DEF KeyInit, KeySound, Known, Rotating, Reaping
<1>4. Locks
  BY <1>3 DEF Locks
<1>5. OneSuccessor
  BY <1>1 DEF OneSuccessor
<1>6. QED
  BY <1>2, <1>3, <1>4, <1>5 DEF KeyInductive

(* A step of one actor: what it asks of the step for the rest to stay      *)
(* sound.                                                                  *)
LEMMA ActorStep ==
  ASSUME KeyInductive, NEW a \in Actors, keyReq' \in [Actors -> KeyRequest], \A b \in Actors \ {a} : keyReq'[b] = keyReq[b],
         key' \in [Keys -> Row], \A k \in Keys : key'[k].made \/ key'[k] = Absent,
         \A k \in Keys : key[k].made => key'[k].made,
         \A b \in Actors \ {a} : \A k \in keyReq[b].held :
           key'[k].expires = key[k].expires /\ key'[k].deprecated = key[k].deprecated,
         now' = now, deleted' \in BOOLEAN, updates' \in 0 .. MaxUpdates,
         \A k \in keyReq'[a].held : k \in keyReq[a].held \/ Free(k, a),
         KeySound(a)', OneSuccessor'
  PROVE  KeyInductive'
<1>1. KeyTypeOK'
  BY DEF KeyInductive, KeyTypeOK
<1>3. ASSUME NEW b \in Actors PROVE KeySound(b)'
  <2>1. CASE b = a
    BY <2>1
  <2>2. CASE b # a
    <3>1. keyReq[b] \in KeyRequest /\ KeySound(b) /\ keyReq'[b] = keyReq[b]
      BY <2>2 DEF KeyInductive, KeyTypeOK
    <3>2. \A k \in keyReq[b].held : key'[k].expires = key[k].expires /\ key'[k].deprecated = key[k].deprecated
      BY <2>2
    <3>3. Known(b)'
      BY <3>1, TypesOfAKeyRequest DEF KeySound, Known
    <3>4. Rotating(b)'
      BY <3>1, <3>2 DEF KeySound, Rotating
    <3>5. Reaping(b)'
      BY <3>1, <3>2 DEF KeySound, Reaping, Expired
    <3>6. QED
      BY <3>3, <3>4, <3>5 DEF KeySound
  <2>3. QED
    BY <2>1, <2>2
<1>4. Locks'
  <2> SUFFICES ASSUME NEW b \in Actors, NEW c \in Actors, b # c, NEW k, k \in keyReq'[b].held, k \in keyReq'[c].held
               PROVE  FALSE
    BY DEF Locks
  <2>1. \A d \in Actors \ {a} : k \in keyReq[d].held /\ k \in keyReq'[a].held => FALSE
    BY DEF KeyInductive, Locks, Free
  <2>2. QED
    BY <2>1 DEF KeyInductive, Locks
<1>5. QED
  BY <1>1, <1>3, <1>4 DEF KeyInductive

(* ... and one that only the request changes with.                         *)
LEMMA RequestStep ==
  ASSUME KeyInductive, NEW a \in Actors, keyReq' \in [Actors -> KeyRequest], \A b \in Actors \ {a} : keyReq'[b] = keyReq[b],
         UNCHANGED <<now, key, deleted>>, updates' \in 0 .. MaxUpdates,
         \A k \in keyReq'[a].held : k \in keyReq[a].held \/ Free(k, a),
         KeySound(a)'
  PROVE  KeyInductive'
<1>1. OneSuccessor'
  BY DEF KeyInductive, OneSuccessor
<1>2. key' \in [Keys -> Row] /\ (\A k \in Keys : key'[k].made \/ key'[k] = Absent) /\ deleted' \in BOOLEAN
  BY DEF KeyInductive, KeyTypeOK
<1>3. QED
  BY <1>1, <1>2, ActorStep

(* The end of a request or a tick.                                         *)
LEMMA EndedIsSound ==
  ASSUME KeyInductive, NEW a \in Actors, KeyEnd(a)
  PROVE  /\ KeySound(a)' /\ keyReq' \in [Actors -> KeyRequest] /\ (\A b \in Actors \ {a} : keyReq'[b] = keyReq[b])
         /\ \A k \in keyReq'[a].held : k \in keyReq[a].held \/ Free(k, a)
<1>1. keyReq'[a] = KeyIdle
  BY DEF KeyEnd, KeyInductive, KeyTypeOK
<1>2. keyReq' \in [Actors -> KeyRequest] /\ (\A b \in Actors \ {a} : keyReq'[b] = keyReq[b])
  BY IdleKeyRequest DEF KeyEnd, KeyInductive, KeyTypeOK
<1>3. KeySound(a)'
  BY <1>1, IdleKeyRequest, ApiKeysAssumption DEF KeySound, Known, Rotating, Reaping
<1>4. QED
  BY <1>1, <1>2, <1>3, IdleKeyRequest

LEMMA KeyEndStep ==
  ASSUME KeyInductive, NEW a \in Actors, KeyEnd(a), UNCHANGED <<now, key, deleted, updates>>
  PROVE  KeyInductive'
<1>1. updates' \in 0 .. MaxUpdates
  BY DEF KeyInductive, KeyTypeOK
<1>2. QED
  BY <1>1, EndedIsSound, RequestStep

LEMMA UpdatesStay ==
  ASSUME KeyInductive, updates' = updates
  PROVE  updates' \in 0 .. MaxUpdates
BY DEF KeyInductive, KeyTypeOK

(* A step that ends its request and writes the keys.                       *)
LEMMA WriteStep ==
  ASSUME KeyInductive, NEW a \in Actors, KeyEnd(a), key' \in [Keys -> Row],
         \A k \in Keys : key'[k].made \/ key'[k] = Absent,
         \A k \in Keys : key[k].made => key'[k].made,
         \A b \in Actors \ {a} : \A k \in keyReq[b].held :
           key'[k].expires = key[k].expires /\ key'[k].deprecated = key[k].deprecated,
         now' = now, deleted' \in BOOLEAN, updates' = updates, OneSuccessor'
  PROVE  KeyInductive'
<1>1. updates' \in 0 .. MaxUpdates
  BY DEF KeyInductive, KeyTypeOK
<1>2. QED
  BY <1>1, EndedIsSound, ActorStep

-----------------------------------------------------------------------------
(* The steps.                                                              *)

LEMMA AuthenticateStep ==
  ASSUME KeyInductive, NEW a \in KeySlots, Authenticate(a)
  PROVE  KeyInductive'
<1> USE ApiKeysAssumption
<1>1. a \in Actors /\ a # Reaper
  BY DEF Actors
<1>2. PICK by \in Callers, op \in KeyOperations :
        /\ by = NoKey \/ Authenticates(by)
        /\ op = "update" => updates < MaxUpdates
        /\ updates' = IF op = "update" THEN updates + 1 ELSE updates
        /\ \E on \in (IF op \in {"rotate", "update", "revoke"} THEN {k \in Keys : key[k].made} ELSE {NoKey}),
              ask \in (IF op \in {"create", "update"} THEN Expiries ELSE {0}) :
             keyReq' = [keyReq EXCEPT ![a] = KeyAsked(op, by, on, ask)]
  BY DEF Authenticate
<1>3. PICK on \in Keys \cup {NoKey}, ask \in 0 .. Never :
        /\ op \in {"rotate", "update", "revoke"} => on \in Keys
        /\ on \in Keys => key[on].made
        /\ keyReq' = [keyReq EXCEPT ![a] = KeyAsked(op, by, on, ask)]
  <2>1. 0 \in 0 .. Never
    BY DEF Never
  <2>2. QED
    BY <1>2, <2>1
<1>4. updates' \in 0 .. MaxUpdates
  BY <1>2 DEF KeyInductive, KeyTypeOK
<1> DEFINE q == KeyAsked(op, by, on, ask)
<1>5. /\ q.pc \in {"act", "touch"} /\ (by = NoKey <=> q.pc = "act") /\ q.op = op /\ q.by = by /\ q.on = on
      /\ q.held = {} /\ q.todo = {}
  BY DEF KeyAsked
<1>6. q \in KeyRequest
  <2>1. 0 \in Times
    BY DEF Times
  <2>2. QED
    BY <2>1 DEF KeyAsked, KeyRequest
<1>7. keyReq'[a] = q /\ keyReq' \in [Actors -> KeyRequest] /\ \A b \in Actors \ {a} : keyReq'[b] = keyReq[b]
  BY <1>1, <1>3, <1>6 DEF KeyInductive, KeyTypeOK
<1>8. UNCHANGED <<now, key, deleted>>
  BY DEF Authenticate
<1>9. by \in Keys => key[by].made
  BY <1>2 DEF Authenticates, Live
<1>10. KeySound(a)'
  BY <1>1, <1>3, <1>5, <1>7, <1>8, <1>9 DEF KeySound, Known, Rotating, Reaping, KeyOperations
<1>11. QED
  BY <1>1, <1>4, <1>5, <1>7, <1>8, <1>10, RequestStep

LEMMA TouchStep ==
  ASSUME KeyInductive, NEW a \in KeySlots, Touch(a)
  PROVE  KeyInductive'
<1>1. a \in Actors /\ a # Reaper /\ keyReq \in [Actors -> KeyRequest] /\ KeySound(a)
  BY ApiKeysAssumption DEF Actors, KeyInductive, KeyTypeOK
<1>2. keyReq[a].pc = "touch" /\ UNCHANGED <<now, key, deleted, updates>> /\ Free(keyReq[a].by, a)
  BY DEF Touch, KeyAt
<1>3. keyReq[a].by \in Keys /\ key[keyReq[a].by].made
  BY <1>1, <1>2 DEF KeySound, Known
<1>4. /\ keyReq' \in [Actors -> KeyRequest] /\ (\A b \in Actors \ {a} : keyReq'[b] = keyReq[b])
      /\ keyReq'[a].held = {keyReq[a].by} /\ keyReq'[a].todo = keyReq[a].todo /\ keyReq'[a].on = keyReq[a].on
      /\ keyReq'[a].pc = "act" /\ keyReq'[a].op = keyReq[a].op /\ keyReq'[a].by = NoKey
  <2>1. keyReq' = [keyReq EXCEPT ![a] = [keyReq[a] EXCEPT !.pc = "act", !.by = NoKey, !.held = {keyReq[a].by}]]
    BY <1>1 DEF Touch, KeyRequest
  <2>2. {keyReq[a].by} \in SUBSET Keys
    BY <1>3
  <2>3. [keyReq[a] EXCEPT !.pc = "act", !.by = NoKey, !.held = {keyReq[a].by}] \in KeyRequest
    BY <1>1, <2>2 DEF KeyRequest
  <2>4. QED
    BY <1>1, <2>1, <2>3 DEF KeyRequest
<1>5. KeySound(a)'
  BY <1>1, <1>2, <1>3, <1>4, ApiKeysAssumption DEF KeySound, Known, Rotating, Reaping
<1>6. QED
  BY <1>1, <1>2, <1>4, <1>5, UpdatesStay, RequestStep

LEMMA CreateStep ==
  ASSUME KeyInductive, NEW a \in KeySlots, CreateApiKey(a)
  PROVE  KeyInductive'
<1>1. PICK k \in Fresh : key' = [key EXCEPT ![k] = Made(keyReq[a].ask, NoKey)]
  BY DEF CreateApiKey
<1>2. a \in Actors /\ KeyEnd(a) /\ UNCHANGED <<now, deleted, updates>>
  BY DEF CreateApiKey, Actors
<1>3. keyReq[a].ask \in 0 .. Never
  BY <1>2, TypesOfAKeyRequest DEF KeyInductive, KeyTypeOK
<1>4. k \in Keys /\ ~key[k].made /\ key[k] = Absent
  BY DEF Fresh, KeyInductive, KeyTypeOK
<1>5. /\ key'[k].made /\ ~key'[k].deprecated /\ key'[k].from = NoKey /\ \A h \in Keys \ {k} : key'[h] = key[h]
      /\ key' \in [Keys -> Row]
  BY <1>1, <1>3, <1>4, AbsentRow DEF KeyInductive, KeyTypeOK
<1>6. \A b \in Actors : k \notin keyReq[b].held
  BY <1>4 DEF KeyInductive, KeySound, Known
<1>7. OneSuccessor'
  <2>1. ~key[k].deprecated /\ key[k].from = NoKey /\ NoKey \notin Keys
    BY <1>4, AbsentRow, ApiKeysAssumption
  <2>2. \A h \in Keys : (key'[h].deprecated <=> key[h].deprecated) /\ key'[h].from = key[h].from
    BY <1>5, <2>1
  <2>3. QED
    BY <2>2 DEF KeyInductive, OneSuccessor
<1>8. \A b \in Actors : keyReq[b].held \subseteq Keys
  BY TypesOfAKeyRequest DEF KeyInductive, KeyTypeOK
<1>9. \A h \in Keys : (key'[h].made \/ key'[h] = Absent) /\ (key[h].made => key'[h].made)
  BY <1>4, <1>5 DEF KeyInductive, KeyTypeOK
<1>10. deleted' \in BOOLEAN
  BY <1>2 DEF KeyInductive, KeyTypeOK
<1>11. \A b \in Actors \ {a} : \A h \in keyReq[b].held :
         key'[h].expires = key[h].expires /\ key'[h].deprecated = key[h].deprecated
  BY <1>5, <1>6, <1>8
<1>12. QED
  BY <1>2, <1>5, <1>7, <1>9, <1>10, <1>11, WriteStep

LEMMA RotateLocksStep ==
  ASSUME KeyInductive, NEW a \in KeySlots, RotateLocks(a)
  PROVE  KeyInductive'
<1>1. a \in Actors /\ a # Reaper /\ keyReq \in [Actors -> KeyRequest] /\ KeySound(a) /\ now \in Times
  BY ApiKeysAssumption DEF Actors, KeyInductive, KeyTypeOK
<1>2. /\ keyReq[a].pc = "act" /\ keyReq[a].op = "rotate" /\ UNCHANGED <<now, key, deleted, updates>>
      /\ Free(keyReq[a].on, a)
  BY DEF RotateLocks, KeyAt
<1>3. keyReq[a].on \in Keys /\ key[keyReq[a].on].made
  BY <1>1, <1>2 DEF KeySound, Known
<1>4. CASE Fits("rotate", keyReq[a].on)
  <2>1. ~key[keyReq[a].on].deprecated
    BY <1>4 DEF Fits
  <2>2. /\ keyReq' \in [Actors -> KeyRequest] /\ (\A b \in Actors \ {a} : keyReq'[b] = keyReq[b])
        /\ keyReq'[a].held = keyReq[a].held \cup {keyReq[a].on} /\ keyReq'[a].todo = keyReq[a].todo /\ keyReq'[a].on = keyReq[a].on
        /\ keyReq'[a].pc = "write" /\ keyReq'[a].op = "rotate" /\ keyReq'[a].by = keyReq[a].by
    BY <1>1, <1>2, <1>3, <1>4 DEF RotateLocks, KeyRequest
  <2>3. KeySound(a)'
    BY <1>1, <1>2, <1>3, <2>1, <2>2 DEF KeySound, Known, Rotating, Reaping
  <2>4. QED
    BY <1>1, <1>2, <2>2, <2>3, UpdatesStay, RequestStep
<1>5. CASE ~Fits("rotate", keyReq[a].on)
  BY <1>1, <1>2, <1>5, KeyEndStep DEF RotateLocks
<1>6. QED
  BY <1>4, <1>5

LEMMA RotateStep ==
  ASSUME KeyInductive, NEW a \in KeySlots, RotateApiKey(a)
  PROVE  KeyInductive'
<1> DEFINE old == keyReq[a].on
<1>1. PICK k \in Fresh :
        key' = [key EXCEPT ![old].deprecated = TRUE, ![old].expires = keyReq[a].at + Grace, ![k] = Made(Never, old)]
  BY DEF RotateApiKey
<1>2. a \in Actors /\ KeyEnd(a) /\ UNCHANGED <<now, deleted, updates>> /\ keyReq[a].pc = "write" /\ keyReq[a].op = "rotate"
  BY DEF RotateApiKey, Actors, KeyAt
<1>3. keyReq[a].at + Grace \in 0 .. Never
  BY <1>2, TypesOfAKeyRequest, ApiKeysAssumption DEF KeyInductive, KeyTypeOK, Times, Never
<1>4. old \in Keys /\ old \in keyReq[a].held /\ ~key[old].deprecated /\ key[old].made
  BY <1>2 DEF KeyInductive, KeySound, Rotating, Known
<1>5. k \in Keys /\ ~key[k].made /\ key[k] = Absent /\ k # old
  BY <1>4 DEF Fresh, KeyInductive, KeyTypeOK
<1>6. key \in [Keys -> Row] /\ Made(Never, old) \in Row /\ Made(Never, old).made /\ ~Made(Never, old).deprecated
      /\ Made(Never, old).from = old
  <2>1. Never \in 0 .. Never
    BY ApiKeysAssumption DEF Never
  <2>2. QED
    BY <1>4, <2>1, AbsentRow DEF KeyInductive, KeyTypeOK
<1>7. /\ key' \in [Keys -> Row] /\ key'[k] = Made(Never, old) /\ \A h \in Keys \ {k, old} : key'[h] = key[h]
      /\ key'[old].deprecated /\ key'[old].made /\ key'[old].from = key[old].from
  BY <1>1, <1>3, <1>4, <1>5, <1>6 DEF Row
<1>8. \A b \in Actors \ {a} : k \notin keyReq[b].held /\ old \notin keyReq[b].held
  BY <1>2, <1>4, <1>5 DEF KeyInductive, KeySound, Known, Locks
<1>9. OneSuccessor'
  <2>1. ~key[k].deprecated /\ key[k].from = NoKey /\ NoKey \notin Keys
    BY <1>5, AbsentRow, ApiKeysAssumption
  <2>2. \A h \in Keys : key[h].from # old /\ key[h].from # k
    BY <1>4, <1>5, <2>1 DEF KeyInductive, OneSuccessor
  <2>3. \A h \in Keys \ {k} : key'[h].from = key[h].from
    BY <1>7
  <2>4. \A h \in Keys \ {old} : key'[h].deprecated <=> key[h].deprecated
    BY <1>6, <1>7, <2>1
  <2>5. key'[k].from = old
    BY <1>6, <1>7
  <2>6. QED
    <3>2. \A h \in Keys : key'[h].from = old => h = k
      BY <2>2, <2>3
    <3>3. \A h \in Keys : key'[h].from # k
      BY <1>5, <2>2, <2>3, <2>5
    <3>4. ASSUME NEW h \in Keys \ {old, k}
          PROVE  /\ \A i, j \in Keys : key'[i].from = h /\ key'[j].from = h => i = j
                 /\ key'[h].deprecated <=> \E i \in Keys : key'[i].from = h
      <4>1. \A i \in Keys : key'[i].from = h <=> key[i].from = h
        BY <1>5, <2>1, <2>3, <2>5
      <4>2. QED
        BY <2>4, <4>1 DEF KeyInductive, OneSuccessor
    <3>5. ~key'[k].deprecated
      BY <1>6, <1>7
    <3>6. QED
      BY <1>5, <1>7, <2>5, <3>2, <3>3, <3>4, <3>5 DEF OneSuccessor
<1>10. \A h \in Keys : key'[h].made \/ key'[h] = Absent
  BY <1>6, <1>7 DEF KeyInductive, KeyTypeOK
<1>11. \A b \in Actors \ {a} : \A h \in keyReq[b].held :
         key'[h].expires = key[h].expires /\ key'[h].deprecated = key[h].deprecated
  <2>1. \A b \in Actors : keyReq[b].held \subseteq Keys
    BY TypesOfAKeyRequest DEF KeyInductive, KeyTypeOK
  <2>2. QED
    BY <1>7, <1>8, <2>1
<1>12. \A h \in Keys : key[h].made => key'[h].made
  BY <1>6, <1>7
<1>13. deleted' \in BOOLEAN
  BY <1>2 DEF KeyInductive, KeyTypeOK
<1>14. QED
  BY <1>2, <1>7, <1>9, <1>10, <1>11, <1>12, <1>13, WriteStep

LEMMA UpdateSelectsStep ==
  ASSUME KeyInductive, NEW a \in KeySlots, UpdateSelects(a)
  PROVE  KeyInductive'
<1>1. a \in Actors /\ a # Reaper /\ keyReq \in [Actors -> KeyRequest] /\ KeySound(a)
  BY ApiKeysAssumption DEF Actors, KeyInductive, KeyTypeOK
<1>2. keyReq[a].pc = "act" /\ keyReq[a].op = "update" /\ UNCHANGED <<now, key, deleted, updates>>
  BY DEF UpdateSelects, KeyAt
<1>3. CASE Fits("update", keyReq[a].on)
  <2>1. /\ keyReq' \in [Actors -> KeyRequest] /\ (\A b \in Actors \ {a} : keyReq'[b] = keyReq[b])
        /\ keyReq'[a].held = keyReq[a].held /\ keyReq'[a].todo = keyReq[a].todo /\ keyReq'[a].on = keyReq[a].on
        /\ keyReq'[a].pc = "wait" /\ keyReq'[a].op = "update" /\ keyReq'[a].by = keyReq[a].by
    BY <1>1, <1>2, <1>3 DEF UpdateSelects, KeyGo, KeyRequest
  <2>2. KeySound(a)'
    BY <1>1, <1>2, <2>1 DEF KeySound, Known, Rotating, Reaping
  <2>3. QED
    BY <1>1, <1>2, <2>1, <2>2, UpdatesStay, RequestStep
<1>4. CASE ~Fits("update", keyReq[a].on)
  BY <1>1, <1>2, <1>4, KeyEndStep DEF UpdateSelects
<1>5. QED
  BY <1>3, <1>4

(* Writing one row that no other actor holds, and neither its successor nor *)
(* whether it has one.                                                     *)
LEMMA WriteRow ==
  ASSUME KeyInductive, NEW a \in Actors, KeyEnd(a), NEW k \in Keys, key[k].made, NEW r \in Row,
         r.made, r.deprecated = key[k].deprecated, r.from = key[k].from,
         Free(k, a), key' = [key EXCEPT ![k] = r], UNCHANGED <<now, deleted, updates>>
  PROVE  KeyInductive'
<1>1. key' \in [Keys -> Row] /\ key'[k] = r /\ \A h \in Keys \ {k} : key'[h] = key[h]
  BY DEF KeyInductive, KeyTypeOK
<1>2. \A h \in Keys : (key'[h].made \/ key'[h] = Absent) /\ (key[h].made => key'[h].made)
  BY <1>1 DEF KeyInductive, KeyTypeOK
<1>3. \A h \in Keys : key'[h].deprecated = key[h].deprecated /\ key'[h].from = key[h].from
  BY <1>1
<1>4. OneSuccessor'
  BY <1>3 DEF KeyInductive, OneSuccessor
<1>5. \A b \in Actors : keyReq[b].held \subseteq Keys
  BY TypesOfAKeyRequest DEF KeyInductive, KeyTypeOK
<1>6. \A b \in Actors \ {a} : \A h \in keyReq[b].held :
         key'[h].expires = key[h].expires /\ key'[h].deprecated = key[h].deprecated
  BY <1>1, <1>5 DEF Free
<1>7. deleted' \in BOOLEAN
  BY DEF KeyInductive, KeyTypeOK
<1>8. QED
  BY <1>1, <1>2, <1>4, <1>6, <1>7, WriteStep

LEMMA UpdateStep ==
  ASSUME KeyInductive, NEW a \in KeySlots, UpdateApiKey(a)
  PROVE  KeyInductive'
<1> DEFINE k == keyReq[a].on
<1>1. a \in Actors /\ keyReq[a].pc = "wait" /\ Free(k, a) /\ KeyEnd(a) /\ UNCHANGED <<now, deleted, updates>>
  BY DEF UpdateApiKey, KeyAt, Actors
<1>2. k \in Keys /\ key[k].made
  BY <1>1 DEF KeyInductive, KeySound, Known
<1>3. keyReq[a].ask \in 0 .. Never
  BY <1>1, TypesOfAKeyRequest DEF KeyInductive, KeyTypeOK
<1> DEFINE r == [key[k] EXCEPT !.expires = keyReq[a].ask]
<1>4. r \in Row /\ r.made /\ r.deprecated = key[k].deprecated /\ r.from = key[k].from
  BY <1>2, <1>3 DEF KeyInductive, KeyTypeOK, Row
<1>5. key' = [key EXCEPT ![k] = r]
  BY <1>2 DEF UpdateApiKey, KeyInductive, KeyTypeOK, Row
<1>6. QED
  BY <1>1, <1>2, <1>4, <1>5, WriteRow

LEMMA RevokeStep ==
  ASSUME KeyInductive, NEW a \in KeySlots, RevokeApiKey(a)
  PROVE  KeyInductive'
<1> DEFINE k == keyReq[a].on
<1>1. a \in Actors /\ keyReq[a].op = "revoke" /\ Free(k, a) /\ KeyEnd(a) /\ UNCHANGED <<now, deleted, updates>>
  BY DEF RevokeApiKey, Actors
<1>2. k \in Keys /\ key[k].made
  BY <1>1 DEF KeyInductive, KeySound, Known
<1>3. CASE Fits("revoke", k)
  <2> DEFINE r == [key[k] EXCEPT !.revoked = TRUE]
  <2>1. r \in Row /\ r.made /\ r.deprecated = key[k].deprecated /\ r.from = key[k].from
    BY <1>2 DEF KeyInductive, KeyTypeOK, Row
  <2>2. key' = [key EXCEPT ![k] = r]
    BY <1>2, <1>3 DEF RevokeApiKey, KeyInductive, KeyTypeOK, Row
  <2>3. QED
    BY <1>1, <1>2, <2>1, <2>2, WriteRow
<1>4. CASE ~Fits("revoke", k)
  <2>1. key' = key
    BY <1>4 DEF RevokeApiKey
  <2>2. QED
    BY <1>1, <2>1, KeyEndStep
<1>5. QED
  BY <1>3, <1>4

LEMMA DeleteStartsStep ==
  ASSUME KeyInductive, NEW a \in KeySlots, DeleteStarts(a)
  PROVE  KeyInductive'
<1> DEFINE rows == {k \in Keys : Live(k)}
<1>1. a \in Actors /\ a # Reaper /\ keyReq \in [Actors -> KeyRequest] /\ KeySound(a)
  BY ApiKeysAssumption DEF Actors, KeyInductive, KeyTypeOK
<1>2. /\ keyReq[a].pc = "act" /\ keyReq[a].op = "delete" /\ UNCHANGED <<now, key, deleted, updates>>
      /\ IF deleted THEN KeyEnd(a) ELSE Scan(a, rows)
  BY DEF DeleteStarts, KeyAt
<1>3. CASE deleted
  BY <1>1, <1>2, <1>3, KeyEndStep
<1>4. CASE ~deleted /\ rows = {}
  <2>1. keyReq' = [keyReq EXCEPT ![a].pc = "write", ![a].todo = {}, ![a].on = NoKey]
    BY <1>2, <1>4 DEF Scan
  <2>2. /\ keyReq' \in [Actors -> KeyRequest] /\ (\A b \in Actors \ {a} : keyReq'[b] = keyReq[b])
        /\ keyReq'[a].held = keyReq[a].held /\ keyReq'[a].todo = {} /\ keyReq'[a].on = NoKey
        /\ keyReq'[a].pc = "write" /\ keyReq'[a].op = "delete" /\ keyReq'[a].by = keyReq[a].by
    <3>1. keyReq' = [keyReq EXCEPT ![a] = [keyReq[a] EXCEPT !.pc = "write", !.todo = {}, !.on = NoKey]]
      BY <1>1, <2>1 DEF KeyRequest
    <3>2. [keyReq[a] EXCEPT !.pc = "write", !.todo = {}, !.on = NoKey] \in KeyRequest
      BY <1>1 DEF KeyRequest
    <3>3. QED
      BY <1>1, <1>2, <3>1, <3>2 DEF KeyRequest
  <2>3. KeySound(a)'
    BY <1>1, <1>2, <2>2, ApiKeysAssumption DEF KeySound, Known, Rotating, Reaping
  <2>4. QED
    BY <1>1, <1>2, <2>2, <2>3, UpdatesStay, RequestStep
<1>5. CASE ~deleted /\ rows # {}
  <2>1. PICK k \in rows : keyReq' = [keyReq EXCEPT ![a].pc = "wait", ![a].todo = rows \ {k}, ![a].on = k]
    BY <1>2, <1>5 DEF Scan
  <2>2. k \in Keys /\ rows \ {k} \in SUBSET Keys /\ \A h \in rows : key[h].made
    BY DEF Live
  <2>3. /\ keyReq' \in [Actors -> KeyRequest] /\ (\A b \in Actors \ {a} : keyReq'[b] = keyReq[b])
        /\ keyReq'[a].held = keyReq[a].held /\ keyReq'[a].todo = rows \ {k} /\ keyReq'[a].on = k
        /\ keyReq'[a].pc = "wait" /\ keyReq'[a].op = "delete" /\ keyReq'[a].by = keyReq[a].by
    <3>1. keyReq' = [keyReq EXCEPT ![a] = [keyReq[a] EXCEPT !.pc = "wait", !.todo = rows \ {k}, !.on = k]]
      BY <1>1, <2>1 DEF KeyRequest
    <3>2. [keyReq[a] EXCEPT !.pc = "wait", !.todo = rows \ {k}, !.on = k] \in KeyRequest
      BY <1>1, <2>2 DEF KeyRequest
    <3>3. QED
      BY <1>1, <1>2, <3>1, <3>2 DEF KeyRequest
  <2>4. KeySound(a)'
    BY <1>1, <1>2, <2>2, <2>3 DEF KeySound, Known, Rotating, Reaping
  <2>5. QED
    BY <1>1, <1>2, <2>3, <2>4, UpdatesStay, RequestStep
<1>6. QED
  BY <1>3, <1>4, <1>5

LEMMA ReaperTickStep ==
  ASSUME KeyInductive, ReaperTick
  PROVE  KeyInductive'
<1> DEFINE rows == {k \in Keys : Live(k) /\ Expired(k, now)}
<1>1. Reaper \in Actors /\ keyReq \in [Actors -> KeyRequest] /\ now \in Times
  BY DEF Actors, KeyInductive, KeyTypeOK
<1>2. PICK k \in rows : keyReq' = [keyReq EXCEPT ![Reaper] =
        [KeyIdle EXCEPT !.pc = "wait", !.op = "reap", !.at = now, !.todo = rows \ {k}, !.on = k]]
  BY DEF ReaperTick
<1>3. UNCHANGED <<now, key, deleted, updates>>
  BY DEF ReaperTick
<1> DEFINE q == [KeyIdle EXCEPT !.pc = "wait", !.op = "reap", !.at = now, !.todo = rows \ {k}, !.on = k]
<1>4. q \in KeyRequest /\ q.pc = "wait" /\ q.op = "reap" /\ q.at = now /\ q.todo = rows \ {k} /\ q.on = k
      /\ q.held = {} /\ q.by = NoKey
  <2>1. k \in Keys /\ rows \ {k} \in SUBSET Keys
    OBVIOUS
  <2>2. QED
    BY <1>1, <2>1, IdleKeyRequest DEF KeyRequest
<1>5. \A h \in rows : key[h].made
  BY DEF Live
<1>6. keyReq'[Reaper] = q /\ keyReq' \in [Actors -> KeyRequest] /\ \A b \in Actors \ {Reaper} : keyReq'[b] = keyReq[b]
  BY <1>1, <1>2, <1>4
<1>7. now <= now
  BY <1>1, ApiKeysAssumption DEF Times
<1>8. KeySound(Reaper)'
  BY <1>3, <1>4, <1>5, <1>6, <1>7, ApiKeysAssumption DEF KeySound, Known, Rotating, Reaping
<1>9. QED
  BY <1>1, <1>3, <1>4, <1>6, <1>8, UpdatesStay, RequestStep

LEMMA ScanLocksStep ==
  ASSUME KeyInductive, NEW a \in Actors, ScanLocks(a)
  PROVE  KeyInductive'
<1> DEFINE k == keyReq[a].on
           taken == IF Revocable(a, k) THEN keyReq[a].held \cup {k} ELSE keyReq[a].held
<1>1. keyReq \in [Actors -> KeyRequest] /\ keyReq[a] \in KeyRequest /\ KeySound(a)
  BY DEF KeyInductive, KeyTypeOK
<1>2. /\ keyReq[a].pc = "wait" /\ keyReq[a].op \in {"delete", "reap"} /\ Free(k, a)
      /\ UNCHANGED <<now, key, deleted, updates>>
      /\ IF keyReq[a].todo = {}
         THEN keyReq' = [keyReq EXCEPT ![a].pc = "write", ![a].held = taken, ![a].on = NoKey]
         ELSE \E n \in keyReq[a].todo : keyReq' = [keyReq EXCEPT ![a].held = taken, ![a].on = n, ![a].todo = @ \ {n}]
  BY DEF ScanLocks, KeyAt
<1>3. k \in Keys /\ key[k].made
  BY <1>1, <1>2 DEF KeySound, Known
<1>4. taken \in SUBSET Keys /\ (\A h \in taken : h \in keyReq[a].held \/ h = k)
      /\ \A h \in taken : h \in keyReq[a].held \/ Free(h, a)
  BY <1>1, <1>2, <1>3, TypesOfAKeyRequest
<1>5. keyReq[a].op = "reap" => \A h \in taken : Expired(h, keyReq[a].at)
  BY <1>1 DEF KeySound, Reaping, Revocable
<1> HIDE DEF taken
<1>6. CASE keyReq[a].todo = {}
  <2>1. keyReq' = [keyReq EXCEPT ![a] = [keyReq[a] EXCEPT !.pc = "write", !.held = taken, !.on = NoKey]]
    BY <1>1, <1>2, <1>6 DEF KeyRequest
  <2>2. [keyReq[a] EXCEPT !.pc = "write", !.held = taken, !.on = NoKey] \in KeyRequest
    BY <1>1, <1>4 DEF KeyRequest
  <2>3. /\ keyReq' \in [Actors -> KeyRequest] /\ (\A b \in Actors \ {a} : keyReq'[b] = keyReq[b])
        /\ keyReq'[a].held = taken /\ keyReq'[a].todo = keyReq[a].todo /\ keyReq'[a].on = NoKey
        /\ keyReq'[a].pc = "write" /\ keyReq'[a].op = keyReq[a].op /\ keyReq'[a].by = keyReq[a].by /\ keyReq'[a].at = keyReq[a].at
    BY <1>1, <2>1, <2>2 DEF KeyRequest
  <2>4. KeySound(a)'
    BY <1>1, <1>2, <1>3, <1>4, <1>5, <2>3, ApiKeysAssumption DEF KeySound, Known, Rotating, Reaping, Expired
  <2>5. QED
    BY <1>2, <1>4, <2>3, <2>4, UpdatesStay, RequestStep
<1>7. CASE keyReq[a].todo # {}
  <2>1. PICK n \in keyReq[a].todo :
          keyReq' = [keyReq EXCEPT ![a] = [keyReq[a] EXCEPT !.held = taken, !.on = n, !.todo = keyReq[a].todo \ {n}]]
    BY <1>1, <1>2, <1>7 DEF KeyRequest
  <2>2. n \in Keys /\ key[n].made /\ keyReq[a].todo \ {n} \in SUBSET Keys
    BY <1>1, TypesOfAKeyRequest DEF KeySound, Known
  <2>3. [keyReq[a] EXCEPT !.held = taken, !.on = n, !.todo = keyReq[a].todo \ {n}] \in KeyRequest
    BY <1>1, <1>4, <2>2 DEF KeyRequest
  <2>4. /\ keyReq' \in [Actors -> KeyRequest] /\ (\A b \in Actors \ {a} : keyReq'[b] = keyReq[b])
        /\ keyReq'[a].held = taken /\ keyReq'[a].todo = keyReq[a].todo \ {n} /\ keyReq'[a].on = n
        /\ keyReq'[a].pc = "wait" /\ keyReq'[a].op = keyReq[a].op /\ keyReq'[a].by = keyReq[a].by /\ keyReq'[a].at = keyReq[a].at
    BY <1>1, <1>2, <2>1, <2>3 DEF KeyRequest
  <2>5. KeySound(a)'
    BY <1>1, <1>2, <1>3, <1>4, <1>5, <2>2, <2>4 DEF KeySound, Known, Rotating, Reaping, Expired
  <2>6. QED
    BY <1>2, <1>4, <2>4, <2>5, UpdatesStay, RequestStep
<1>8. QED
  BY <1>6, <1>7

(* Revoking what is held.                                                  *)
LEMMA RevokeHeldStep ==
  ASSUME KeyInductive, NEW a \in Actors, RevokesAll(a), KeyEnd(a), UNCHANGED <<now, updates>>, deleted' \in BOOLEAN
  PROVE  KeyInductive'
<1>1. \A k \in Keys : [key[k] EXCEPT !.revoked = TRUE] \in Row
  BY DEF KeyInductive, KeyTypeOK, Row
<1>2. key' \in [Keys -> Row]
  BY <1>1 DEF RevokesAll, KeyInductive, KeyTypeOK, Row
<1>3. \A k \in Keys : /\ key'[k].made = key[k].made /\ key'[k].deprecated = key[k].deprecated
                      /\ key'[k].from = key[k].from /\ key'[k].expires = key[k].expires
                      /\ k \notin keyReq[a].held => key'[k] = key[k]
  BY DEF RevokesAll, KeyInductive, KeyTypeOK, Row
<1>4. \A k \in Keys : key'[k].made \/ key'[k] = Absent
  BY <1>3 DEF KeyInductive, KeyTypeOK, KeySound, Known
<1>5. OneSuccessor'
  BY <1>3 DEF KeyInductive, OneSuccessor
<1>6. \A b \in Actors : keyReq[b].held \subseteq Keys
  BY TypesOfAKeyRequest DEF KeyInductive, KeyTypeOK
<1>7. QED
  BY <1>2, <1>3, <1>4, <1>5, <1>6, WriteStep

LEMMA StepInductive == KeyInductive /\ [KeyNext]_keyVars => KeyInductive'
<1> SUFFICES ASSUME KeyInductive, [KeyNext]_keyVars PROVE KeyInductive'
  OBVIOUS
<1>1. KeySlots \subseteq Actors /\ Reaper \in Actors
  BY DEF Actors
<1>2. CASE UNCHANGED keyVars
  <2>1. KeyInductive
    OBVIOUS
  <2>2. QED
    BY <1>2, <2>1 DEF keyVars, KeyInductive, KeyTypeOK, KeySound, Known, Rotating, Reaping, Expired, Locks, OneSuccessor
<1>3. CASE Tick
  <2>1. now' \in Times /\ now' = now + 1 /\ UNCHANGED <<key, deleted, keyReq, updates>>
    BY <1>3, ApiKeysAssumption DEF Tick, KeyInductive, KeyTypeOK, Times
  <2>2. \A a \in Actors : keyReq[a].at <= now => keyReq[a].at <= now'
    BY <2>1, TypesOfAKeyRequest, ApiKeysAssumption DEF KeyInductive, KeyTypeOK, Times
  <2>3. QED
    BY <2>1, <2>2 DEF KeyInductive, KeyTypeOK, KeySound, Known, Rotating, Reaping, Expired, Locks, OneSuccessor
<1>4. CASE ReaperTick
  BY <1>4, ReaperTickStep
<1>5. CASE ReaperCommits
  <2>1. deleted' \in BOOLEAN
    BY <1>5 DEF ReaperCommits, KeyInductive, KeyTypeOK
  <2>2. QED
    BY <1>1, <1>5, <2>1, RevokeHeldStep DEF ReaperCommits
<1>6. ASSUME NEW a \in Actors, ScanLocks(a) PROVE KeyInductive'
  BY <1>6, ScanLocksStep
<1>7. ASSUME NEW a \in Actors, Fails(a) PROVE KeyInductive'
  BY <1>7, KeyEndStep DEF Fails
<1>8. ASSUME NEW a \in KeySlots, DeleteProject(a) PROVE KeyInductive'
  BY <1>1, <1>8, RevokeHeldStep DEF DeleteProject
<1>9. ASSUME NEW a \in KeySlots, Use(a) PROVE KeyInductive'
  BY <1>1, <1>9, KeyEndStep DEF Use
<1>10. ASSUME NEW a \in KeySlots, Authenticate(a) \/ Touch(a) \/ CreateApiKey(a) PROVE KeyInductive'
  BY <1>10, AuthenticateStep, TouchStep, CreateStep
<1>11. ASSUME NEW a \in KeySlots, RotateLocks(a) \/ RotateApiKey(a) \/ UpdateSelects(a) \/ UpdateApiKey(a) PROVE KeyInductive'
  BY <1>11, RotateLocksStep, RotateStep, UpdateSelectsStep, UpdateStep
<1>12. ASSUME NEW a \in KeySlots, RevokeApiKey(a) \/ DeleteStarts(a) PROVE KeyInductive'
  BY <1>12, RevokeStep, DeleteStartsStep
<1>13. QED
  BY <1>2, <1>3, <1>4, <1>5, <1>6, <1>7, <1>8, <1>9, <1>10, <1>11, <1>12 DEF KeyNext, Work

(* Everything that the theorems rest on holds in every state.              *)
LEMMA Invariance == KeySpec => []KeyInductive
<1>1. KeyInit => KeyInductive
  BY KeyInitInductive
<1>2. KeyInductive /\ [KeyNext]_keyVars => KeyInductive'
  BY StepInductive
<1>3. QED
  BY <1>1, <1>2, PTL DEF KeySpec

(* The variables keep to their types, and a row that was never inserted    *)
(* stays as it is (receiver/models/core.py).                               *)
THEOREM KeyTypeCorrect == KeySpec => []KeyTypeOK
<1>1. KeyInductive => KeyTypeOK
  BY DEF KeyInductive
<1>2. QED
  BY <1>1, Invariance, PTL

(* However many rotations of a key run at once, beside updates, revocations *)
(* and the reaper, it gets one successor (rotate_api_key).                 *)
THEOREM OneSuccessorHolds == KeySpec => []OneSuccessor
<1>1. KeyInductive => OneSuccessor
  BY DEF KeyInductive
<1>2. QED
  BY <1>1, Invariance, PTL

(* A commit of the reaper revokes keys that are expired at that time,      *)
(* whatever was done to them after its statement began (reap_expired_keys). *)
THEOREM ReaperSpares == KeySpec => ReapsExpiredOnly
<1> DEFINE Step == KeyAt(Reaper, "write") /\ ~KeyAt(Reaper, "write")'
                     => \A k \in Keys : Live(k) /\ ~Live(k)' => Expired(k, now)
<1>1. KeyInductive /\ [KeyNext]_keyVars => [Step]_keyVars
  <2> SUFFICES ASSUME KeyInductive, KeyNext, KeyAt(Reaper, "write"), ~KeyAt(Reaper, "write")',
                      NEW k \in Keys, Live(k), ~Live(k)'
               PROVE  Expired(k, now)
    BY DEF Live, KeyAt, keyVars
  <2> USE ApiKeysAssumption
  <2>1. Reaper \in Actors /\ keyReq \in [Actors -> KeyRequest]
    BY DEF Actors, KeyInductive, KeyTypeOK
  <2>2. keyReq[Reaper].pc = "write" /\ keyReq'[Reaper] # keyReq[Reaper] /\ key' # key
    BY DEF KeyAt, Live
  <2>3. ~\E a \in KeySlots : Authenticate(a) \/ Work(a)
    BY <2>1, <2>2 DEF Authenticate, Work, Touch, Use, CreateApiKey, UpdateSelects, RotateLocks, RotateApiKey,
       UpdateApiKey, RevokeApiKey, DeleteStarts, DeleteProject, KeyEnd, KeyGo, Scan, KeyRequest
  <2>4. ReaperCommits
    BY <2>2, <2>3 DEF KeyNext, Tick, ReaperTick, ScanLocks, Fails, KeyAt
  <2>5. k \in keyReq[Reaper].held
    BY <2>4 DEF ReaperCommits, RevokesAll, Live, KeyInductive, KeyTypeOK
  <2>6. Expired(k, keyReq[Reaper].at) /\ keyReq[Reaper].at <= now
    BY <2>1, <2>2, <2>5 DEF KeyInductive, KeySound, Reaping
  <2>7. key[k].expires \in Int /\ keyReq[Reaper].at \in Int /\ now \in Int
    BY <2>1, TypesOfAKey, TypesOfAKeyRequest DEF KeyInductive, KeyTypeOK, Times, Never
  <2>8. QED
    BY <2>6, <2>7 DEF Expired
<1>2. QED
  BY <1>1, Invariance, PTL DEF KeySpec, ReapsExpiredOnly
=============================================================================
