------------------------------- MODULE Members -------------------------------
(***************************************************************************)
(* The members of a project: accounts and the first owner (register),      *)
(* invitations, roles (receiver/api/members.py, for owners and admins, and *)
(* receiver/api/dashboard_convenience.py, for whoever may write the        *)
(* settings) and the transfer of ownership.                                *)
(*                                                                         *)
(* A request authenticates and takes the caller's role, then reads the     *)
(* rows its refusals are about, then writes and commits.  At PostgreSQL's  *)
(* READ COMMITTED every one of these sees what has been committed by then. *)
(* The last statements of a request and its COMMIT are one step: between   *)
(* them it holds the rows it wrote, and nobody sees them.  Only the row of *)
(* a transfer is locked before that (SELECT ... FOR UPDATE).               *)
(*                                                                         *)
(* One project, "default", that is not deleted.                            *)
(***************************************************************************)
EXTENDS Naturals, FiniteSets

CONSTANTS
  Users,
  Key,        \* a caller with an API key of the wildcard scope: no user, no role
  Nobody,
  Grantable,  \* the roles that requests ask for
  Slots,      \* requests that are served at a time
  Transfers   \* values of pending_ownership_transfers.id

Granted == {"admin", "operator", "viewer"}
Roles == {"none", "owner"} \cup Granted

ASSUME MembersAssumption ==
  /\ IsFiniteSet(Users) /\ Key \notin Users /\ Nobody \notin Users \cup {Key}
  /\ Grantable \subseteq Granted

VARIABLES
  account,   \* the users with an account
  role,      \* project_members: the role of a user, "none" without a row
  invited,   \* pending_invitations: the role an address was invited to
  transfer,  \* pending_ownership_transfers: no row or one, project_id is unique
  req,       \* [Slots -> request]
  founders   \* history: how many registrations counted no user before them

vars == <<account, role, invited, transfer, req, founders>>

NoTransfer == [id |-> Nobody, from |-> Nobody, to |-> Nobody]

\* The operations of api/members.py; of the dashboard on a member; on a transfer.
ByRole == {"add", "update", "remove"}
OnMember == {"invite", "change", "expel", "revoke"}
OnTransfer == {"accept", "reject"}
Operations == ByRole \cup OnMember \cup OnTransfer \cup {"initiate", "register"}

Idle == [pc |-> "idle", op |-> "none", by |-> Nobody, as |-> "none", on |-> Nobody,
         to |-> "none", id |-> Nobody, seen |-> "none", first |-> FALSE]
Request == [pc : {"idle", "read", "insert", "owner", "write"}, op : Operations \cup {"none"},
            by : Users \cup {Key, Nobody}, as : Roles, on : Users \cup {Nobody}, to : Granted \cup {"none"},
            id : Transfers \cup {Nobody}, seen : Roles, first : BOOLEAN]

TypeOK ==
  /\ account \subseteq Users /\ founders \in Nat
  /\ role \in [Users -> Roles] /\ \A u \in Users : role[u] # "none" => u \in account
  /\ invited \in [Users -> Granted \cup {"none"}]
  /\ transfer = NoTransfer \/ transfer \in [id : Transfers, from : account, to : account]
  /\ req \in [Slots -> Request]

Init ==
  /\ account = {} /\ founders = 0
  /\ role = [u \in Users |-> "none"]
  /\ invited = [u \in Users |-> "none"]
  /\ transfer = NoTransfer
  /\ req = [s \in Slots |-> Idle]

Owners == {u \in Users : role[u] = "owner"}

\* rbac.py: roles are ranked, and one manages the roles below it.
Rank(r) == CASE r = "owner" -> 4 [] r = "admin" -> 3 [] r = "operator" -> 2 [] r = "viewer" -> 1 [] OTHER -> 0
CanManage(actor, target) == Rank(actor) > Rank(target)
\* The roles whose scopes hold project_settings:write; the owner's is the wildcard.
WritesSettings == {"owner", "admin", "operator"}

At(s, pc) == req[s].pc = pc
Go(s, pc) == req' = [req EXCEPT ![s].pc = pc]
End(s) == req' = [req EXCEPT ![s] = Idle]


\* Defect: the transfer is read without FOR UPDATE.
LockedNever(id) == FALSE

\* The row of a transfer is locked by an accept that has read it.
Locked(id) == \E s \in Slots : req[s].op = "accept" /\ req[s].pc \in {"owner", "write"} /\ req[s].id = id
-----------------------------------------------------------------------------
(* Authentication: the caller's role is read, and the scope or the role is *)
(* required.  A session of somebody who is not a member gets no further.   *)
(* A request keeps what a later statement of it uses.                      *)

Caller(by, as, op) ==
  \/ by = Key /\ as = "none"
  \/ /\ by \in Users /\ as = role[by] /\ as # "none"
     /\ as \in (IF op \in ByRole THEN {"owner", "admin"} ELSE WritesSettings)

Asked(op, by, as, on, to) ==
  [pc |-> IF op = "revoke" THEN "write" ELSE "read", op |-> op, by |-> by, as |-> as, on |-> on, to |-> to,
   id |-> IF op \in OnTransfer THEN transfer.id ELSE Nobody, seen |-> "none", first |-> FALSE]

Authorize(s) ==
  /\ At(s, "idle")
  /\ \E op \in Operations \ {"register"}, by \in Users \cup {Key} :
       \E as \in (IF by = Key THEN {"none"} ELSE {role[by]}) :
         /\ Caller(by, as, op)
         /\ \E on \in (IF op \in OnTransfer THEN {Nobody} ELSE Users),
               to \in (IF op \in {"add", "update", "invite", "change"} THEN Grantable ELSE {"none"}) :
              /\ op \in OnTransfer => transfer # NoTransfer
              /\ req' = [req EXCEPT ![s] =
                   Asked(op, IF op \in {"add", "invite", "revoke"} THEN Nobody ELSE by, IF op \in ByRole THEN as ELSE "none", on, to)]
  /\ UNCHANGED <<account, role, invited, transfer, founders>>
-----------------------------------------------------------------------------
(* The row a request reads decides whether it goes on to write.            *)

AddReads(r) ==
  /\ r.as # "none" => CanManage(r.as, r.to)
  /\ r.on \in account /\ role[r.on] = "none"

UpdateReads(r) ==
  /\ role[r.on] \notin {"none", "owner"}
  /\ r.as # "none" => CanManage(r.as, role[r.on]) /\ CanManage(r.as, r.to)
  /\ r.by # r.on

RemoveReads(r) ==
  /\ role[r.on] # "none" /\ r.by # r.on
  /\ role[r.on] = "owner" => r.as = "owner" /\ Cardinality(Owners) > 1
  /\ r.as # "none" => CanManage(r.as, role[r.on])

\* With an account: not a member yet.  Without: the invitation is stored.
InviteReads(r) == r.on \in account => role[r.on] = "none"

ChangeReads(r) == role[r.on] \notin {"none", "owner"} /\ r.by # r.on

ExpelReads(r) == role[r.on] \notin {"none", "owner"} /\ r.by # r.on

\* Only the owner, and to an admin (_require_owner, initiate_transfer_ownership).
InitiateReads(r) ==
  /\ r.by \in Users /\ role[r.by] = "owner"
  /\ r.on # r.by /\ role[r.on] = "admin"

RejectReads(r) == transfer.id = r.id /\ r.by \in {transfer.from, transfer.to}

Permitted(r) ==
  CASE r.op = "add" -> AddReads(r)
    [] r.op = "update" -> UpdateReads(r)
    [] r.op = "remove" -> RemoveReads(r)
    [] r.op = "invite" -> InviteReads(r)
    [] r.op = "change" -> ChangeReads(r)
    [] r.op = "expel" -> ExpelReads(r)
    [] r.op = "initiate" -> InitiateReads(r)
    [] r.op = "reject" -> RejectReads(r)
    [] OTHER -> TRUE

\* An invitation remembers whether the address had an account ("first").
Read(s) ==
  /\ At(s, "read") /\ req[s].op # "accept"
  /\ IF Permitted(req[s])
     THEN req' = [req EXCEPT ![s].pc = "write", ![s].as = "none",
                    ![s].by = IF req[s].op = "initiate" THEN req[s].by ELSE Nobody,
                    ![s].first = req[s].op = "invite" /\ req[s].on \in account]
     ELSE End(s)
  /\ UNCHANGED <<account, role, invited, transfer, founders>>
-----------------------------------------------------------------------------
(* Writes.  A row that is gone is not written, a second row of a member is *)
(* refused by the primary key.                                             *)

Insert(u, r) == role' = IF role[u] = "none" THEN [role EXCEPT ![u] = r] ELSE role
SetRole(u, r) == role' = IF role[u] = "none" THEN role ELSE [role EXCEPT ![u] = r]

AddMember(s) ==
  /\ At(s, "write") /\ req[s].op = "add" /\ Insert(req[s].on, req[s].to)
  /\ End(s) /\ UNCHANGED <<account, invited, transfer, founders>>

UpdateMemberRole(s) ==
  /\ At(s, "write") /\ req[s].op \in {"update", "change"} /\ SetRole(req[s].on, req[s].to)
  /\ End(s) /\ UNCHANGED <<account, invited, transfer, founders>>

RemoveMember(s) ==
  /\ At(s, "write") /\ req[s].op \in {"remove", "expel"} /\ role' = [role EXCEPT ![req[s].on] = "none"]
  /\ End(s) /\ UNCHANGED <<account, invited, transfer, founders>>

InviteMember(s) ==
  /\ At(s, "write") /\ req[s].op = "invite"
  /\ IF req[s].first
     THEN Insert(req[s].on, req[s].to) /\ UNCHANGED invited
     ELSE invited' = [invited EXCEPT ![req[s].on] = req[s].to] /\ UNCHANGED role
  /\ End(s) /\ UNCHANGED <<account, transfer, founders>>

RevokeInvitation(s) ==
  /\ At(s, "write") /\ req[s].op = "revoke"
  /\ invited' = [invited EXCEPT ![req[s].on] = "none"]
  /\ End(s) /\ UNCHANGED <<account, role, transfer, founders>>

\* An id that no request knows.
FreshIds == Transfers \ ({transfer.id} \cup {req[s].id : s \in Slots})

\* INSERT ... ON CONFLICT (project_id) DO UPDATE: a row that is there keeps its id.
InitiateTransfer(s) ==
  /\ At(s, "write") /\ req[s].op = "initiate"
  /\ ~Locked(transfer.id)
  /\ \E id \in (IF transfer = NoTransfer THEN FreshIds ELSE {transfer.id}) :
       transfer' = [id |-> id, from |-> req[s].by, to |-> req[s].on]
  /\ End(s) /\ UNCHANGED <<account, role, invited, founders>>

RejectTransfer(s) ==
  /\ At(s, "write") /\ req[s].op = "reject"
  /\ ~Locked(req[s].id)
  /\ transfer' = IF transfer.id = req[s].id THEN NoTransfer ELSE transfer
  /\ End(s) /\ UNCHANGED <<account, role, invited, founders>>
-----------------------------------------------------------------------------
(* accept_transfer_ownership: lock the transfer, read the role of the one  *)
(* who gives the project away, exchange the roles.                         *)

AcceptLocks(s) ==
  /\ At(s, "read") /\ req[s].op = "accept"
  /\ ~Locked(req[s].id)
  /\ IF transfer.id = req[s].id /\ transfer.to = req[s].by
     THEN req' = [req EXCEPT ![s].pc = "owner", ![s].on = transfer.from] ELSE End(s)
  /\ UNCHANGED <<account, role, invited, transfer, founders>>


\* Defect: the role of the one who gives the project away is not read again.
AcceptReadsNothing(s) ==
  /\ At(s, "owner") /\ Go(s, "write")
  /\ UNCHANGED <<account, role, invited, transfer, founders>>

AcceptReadsOwner(s) ==
  /\ At(s, "owner")
  /\ IF role[req[s].on] = "owner"
     THEN Go(s, "write") /\ UNCHANGED transfer
     ELSE End(s) /\ transfer' = NoTransfer
  /\ UNCHANGED <<account, role, invited, founders>>

SwapRoles(s) ==
  /\ At(s, "write") /\ req[s].op = "accept"
  /\ role' = [u \in Users |-> IF role[u] = "none" THEN "none"
                              ELSE IF u = req[s].by THEN "owner"
                              ELSE IF u = req[s].on THEN "admin" ELSE role[u]]
  /\ transfer' = NoTransfer
  /\ End(s) /\ UNCHANGED <<account, invited, founders>>
-----------------------------------------------------------------------------
(* register.  The count of users and the invitations are read before the   *)
(* COMMIT; users.email is unique, and the second INSERT of an address      *)
(* waits for the first.  The DELETE removes the invitations of its time.   *)

Register(s) ==
  /\ At(s, "idle")
  /\ \E u \in Users \ account :
       req' = [req EXCEPT ![s] = [pc |-> "insert", op |-> "register", by |-> u, as |-> "none", on |-> Nobody,
                                  to |-> "none", id |-> Nobody, seen |-> "none", first |-> account = {}]]
  /\ UNCHANGED <<account, role, invited, transfer, founders>>

RegisterInserts(s) ==
  LET u == req[s].by IN
  /\ At(s, "insert")
  /\ ~\E o \in Slots : At(o, "write") /\ req[o].op = "register" /\ req[o].by = u
  /\ IF u \in account THEN End(s)
     ELSE req' = [req EXCEPT ![s].pc = "write", ![s].seen = invited[u]]
  /\ UNCHANGED <<account, role, invited, transfer, founders>>

RegisterCommits(s) ==
  LET u == req[s].by IN
  /\ At(s, "write") /\ req[s].op = "register"
  /\ account' = account \cup {u}
  /\ founders' = IF req[s].first THEN founders + 1 ELSE founders
  /\ role' = [role EXCEPT ![u] = IF req[s].first THEN "owner" ELSE req[s].seen]
  /\ invited' = [invited EXCEPT ![u] = "none"]
  /\ End(s) /\ UNCHANGED transfer
-----------------------------------------------------------------------------
Next ==
  \E s \in Slots :
    \/ Authorize(s) \/ Read(s)
    \/ AddMember(s) \/ UpdateMemberRole(s) \/ RemoveMember(s)
    \/ InviteMember(s) \/ RevokeInvitation(s)
    \/ InitiateTransfer(s) \/ RejectTransfer(s)
    \/ AcceptLocks(s) \/ AcceptReadsOwner(s) \/ SwapRoles(s)
    \/ Register(s) \/ RegisterInserts(s) \/ RegisterCommits(s)

Spec == Init /\ [][Next]_vars
-----------------------------------------------------------------------------
\* Ownership moves and is not multiplied: whatever requests race, with a
\* stale role or a stale transfer, there are no more owners than accounts
\* that registered as the first.
OwnersAreFounded == Cardinality(Owners) <= founders

\* One becomes the owner by registering first, or by the accept of a transfer
\* that is, at that moment, pending and addressed to the accepting user: not
\* one that has been re-addressed, rejected or replaced since it was read.
OwnershipIsAccepted ==
  [][\A u \in Owners' \ Owners :
       \/ u \in account' \ account /\ founders' > founders
       \/ transfer.to = u /\ \E s \in Slots : req[s].op = "accept" /\ req[s].by = u /\ req'[s] = Idle]_vars

\* "Cannot change the owner's role", "Cannot remove the project owner": what
\* the requests on members refuse, so that a project keeps its owner.
\* Violated (README, 4).
OwnerRemains == [][Owners # {} => Owners' # {}]_vars
=============================================================================
