------------------------------- MODULE ApiKeys -------------------------------
(***************************************************************************)
(* The API keys of a project: authentication (receiver/auth.py,            *)
(* receiver/repositories/auth.py), creation, rotation, update, revocation  *)
(* (receiver/api/api_keys.py), the key reaper (receiver/key_reaper.py) and *)
(* the deletion of the project (receiver/api/projects.py).                 *)
(*                                                                         *)
(* A request is one transaction, at READ COMMITTED, that commits when its  *)
(* reply has been sent.  It holds the rows it has written or selected FOR  *)
(* UPDATE until then; the first of them is its own key's, whose            *)
(* last_used_at authentication sets: requests with one key run one after   *)
(* the other.  A statement that has waited for a row looks again whether   *)
(* the row still fits its WHERE.                                           *)
(***************************************************************************)
EXTENDS Integers, FiniteSets

CONSTANTS
  Keys,         \* values of api_keys.id
  Minted,       \* the keys there are at first, without an expiry
  NoKey,       \* no key; as the caller of a request, a dashboard session
  Callers,      \* the keys, or NoKey, that requests are made with: a bound
  KeySlots,        \* requests that are served at a time
  Reaper,       \* the tick of the key reaper
  Grace,        \* grace_period_hours, at least 1
  Expiries,     \* the values of expires_at that operators choose
  MaxTime, MaxUpdates  \* bounds

Never == MaxTime + Grace + 1  \* expires_at is NULL: later than any time
Times == 0 .. MaxTime
Actors == KeySlots \cup {Reaper}

ASSUME ApiKeysAssumption ==
  /\ Minted \subseteq Keys /\ NoKey \notin Keys /\ Reaper \notin KeySlots /\ Callers \subseteq Keys \cup {NoKey}
  /\ MaxTime \in Nat /\ Grace \in Nat \ {0} /\ MaxUpdates \in Nat
  /\ Expiries \subseteq 0 .. Never

VARIABLES
  now,
  key,      \* [Keys -> Row]: api_keys
  deleted,  \* the project's deleted_at is set
  keyReq,      \* [Actors -> KeyRequest]: what runs
  updates   \* how many updates there have been

keyVars == <<now, key, deleted, keyReq, updates>>

Row == [made : BOOLEAN, revoked : BOOLEAN, deprecated : BOOLEAN, expires : 0 .. Never, from : Keys \cup {NoKey}]
Absent == [made |-> FALSE, revoked |-> FALSE, deprecated |-> FALSE, expires |-> Never, from |-> NoKey]
Made(expires, from) == [made |-> TRUE, revoked |-> FALSE, deprecated |-> FALSE, expires |-> expires, from |-> from]

KeyOperations == {"use", "create", "rotate", "update", "revoke", "delete"}
KeyRequest == [pc : {"idle", "touch", "act", "wait", "write"}, op : KeyOperations \cup {"none", "reap"},
            by : Keys \cup {NoKey}, on : Keys \cup {NoKey}, ask : 0 .. Never, at : Times,
            held : SUBSET Keys, todo : SUBSET Keys]
KeyIdle == [pc |-> "idle", op |-> "none", by |-> NoKey, on |-> NoKey, ask |-> 0, at |-> 0, held |-> {}, todo |-> {}]

KeyTypeOK ==
  /\ now \in Times /\ deleted \in BOOLEAN /\ updates \in 0 .. MaxUpdates
  /\ key \in [Keys -> Row] /\ \A k \in Keys : key[k].made \/ key[k] = Absent
  /\ keyReq \in [Actors -> KeyRequest]

KeyInit ==
  /\ now = 0 /\ deleted = FALSE /\ updates = 0
  /\ key = [k \in Keys |-> IF k \in Minted THEN Made(Never, NoKey) ELSE Absent]
  /\ keyReq = [a \in Actors |-> KeyIdle]

\* find_active_keys_by_prefix, and what verify_token_and_touch asks besides.
Live(k) == key[k].made /\ ~key[k].revoked
Expired(k, t) == key[k].expires <= t
Authenticates(k) == Live(k) /\ ~Expired(k, now)

KeyAt(a, pc) == keyReq[a].pc = pc
KeyEnd(a) == keyReq' = [keyReq EXCEPT ![a] = KeyIdle]
KeyGo(a, pc) == keyReq' = [keyReq EXCEPT ![a].pc = pc]

Tick == now < MaxTime /\ now' = now + 1 /\ UNCHANGED <<key, deleted, keyReq, updates>>
-----------------------------------------------------------------------------
(* Row locks.                                                              *)

Free(k, a) == \A b \in Actors \ {a} : k \notin keyReq[b].held

\* The database fails a statement or the COMMIT, or picks the transaction in a
\* circle of waits: nothing of it is kept.  The reaper tries again.
Fails(a) == ~KeyAt(a, "idle") /\ KeyEnd(a) /\ UNCHANGED <<now, key, deleted, updates>>
-----------------------------------------------------------------------------
(* Authentication.  A session of a member of a deleted project gets no     *)
(* role; a key is looked at, and then its row is written.  There are ids   *)
(* for the keys that are under way: Keys bounds what is minted.            *)

Fresh == {k \in Keys : ~key[k].made}
Minting == {"create", "rotate"}

KeyAsked(op, by, on, ask) ==
  [pc |-> IF by = NoKey THEN "act" ELSE "touch", op |-> op, by |-> by, on |-> on, ask |-> ask,
   at |-> 0, held |-> {}, todo |-> {}]

Authenticate(a) ==
  /\ KeyAt(a, "idle")
  /\ \E by \in Callers, op \in KeyOperations :
       /\ IF by = NoKey THEN ~deleted /\ op # "use" ELSE Authenticates(by)
       /\ op = "update" => updates < MaxUpdates
       /\ op \in Minting => Cardinality(Fresh) > Cardinality({b \in KeySlots : keyReq[b].op \in Minting})
       /\ updates' = IF op = "update" THEN updates + 1 ELSE updates
       /\ \E on \in (IF op \in {"rotate", "update", "revoke"} THEN {k \in Keys : key[k].made} ELSE {NoKey}),
             ask \in (IF op \in {"create", "update"} THEN Expiries ELSE {0}) :
            keyReq' = [keyReq EXCEPT ![a] = KeyAsked(op, by, on, ask)]
  /\ UNCHANGED <<now, key, deleted>>

Touch(a) ==
  /\ KeyAt(a, "touch") /\ Free(keyReq[a].by, a)
  /\ keyReq' = [keyReq EXCEPT ![a].pc = "act", ![a].by = NoKey, ![a].held = {keyReq[a].by}]
  /\ UNCHANGED <<now, key, deleted, updates>>

\* A request that only needed to authenticate, and its COMMIT.
Use(a) ==
  /\ KeyAt(a, "act") /\ keyReq[a].op = "use" /\ KeyEnd(a)
  /\ UNCHANGED <<now, key, deleted, updates>>
-----------------------------------------------------------------------------
\* An INSERT and its COMMIT: nobody sees the row before.
CreateApiKey(a) ==
  /\ KeyAt(a, "act") /\ keyReq[a].op = "create"
  /\ \E k \in Fresh : key' = [key EXCEPT ![k] = Made(keyReq[a].ask, NoKey)]
  /\ KeyEnd(a) /\ UNCHANGED <<now, deleted, updates>>

\* What the WHERE of a statement asks.  A row that has stopped to fit never
\* fits again: whether it did before the wait makes no difference.
Fits(op, k) == Live(k) /\ (op = "rotate" => ~key[k].deprecated)

\* Defect: without FOR UPDATE.
RotateSelects(a) ==
  /\ KeyAt(a, "act") /\ keyReq[a].op = "rotate"
  /\ IF Fits("rotate", keyReq[a].on) THEN keyReq' = [keyReq EXCEPT ![a].pc = "write", ![a].at = now] ELSE KeyEnd(a)
  /\ UNCHANGED <<now, key, deleted, updates>>

\* rotate_api_key: SELECT ... FOR UPDATE, then the clock.
RotateLocks(a) ==
  /\ KeyAt(a, "act") /\ keyReq[a].op = "rotate" /\ Free(keyReq[a].on, a)
  /\ IF Fits("rotate", keyReq[a].on)
     THEN keyReq' = [keyReq EXCEPT ![a].pc = "write", ![a].held = @ \cup {keyReq[a].on}, ![a].at = now]
     ELSE KeyEnd(a)
  /\ UNCHANGED <<now, key, deleted, updates>>

RotateApiKey(a) ==
  /\ KeyAt(a, "write") /\ keyReq[a].op = "rotate"
  /\ \E k \in Fresh :
       key' = [key EXCEPT ![keyReq[a].on].deprecated = TRUE, ![keyReq[a].on].expires = keyReq[a].at + Grace,
                          ![k] = Made(Never, keyReq[a].on)]
  /\ KeyEnd(a) /\ UNCHANGED <<now, deleted, updates>>

\* update_api_key reads a live row, and its UPDATE is by id alone.
UpdateSelects(a) ==
  /\ KeyAt(a, "act") /\ keyReq[a].op = "update"
  /\ IF Fits("update", keyReq[a].on) THEN KeyGo(a, "wait") ELSE KeyEnd(a)
  /\ UNCHANGED <<now, key, deleted, updates>>

UpdateApiKey(a) ==
  /\ KeyAt(a, "wait") /\ keyReq[a].op = "update" /\ Free(keyReq[a].on, a)
  /\ key' = [key EXCEPT ![keyReq[a].on].expires = keyReq[a].ask]
  /\ KeyEnd(a) /\ UNCHANGED <<now, deleted, updates>>

RevokeApiKey(a) ==
  /\ KeyAt(a, "act") /\ keyReq[a].op = "revoke" /\ Free(keyReq[a].on, a)
  /\ key' = IF Fits("revoke", keyReq[a].on) THEN [key EXCEPT ![keyReq[a].on].revoked = TRUE] ELSE key
  /\ KeyEnd(a) /\ UNCHANGED <<now, deleted, updates>>
-----------------------------------------------------------------------------
(* Statements that revoke many rows: the ones their snapshot saw, one by   *)
(* one, and each only if it still fits when its lock is got.               *)

\* The reaper and the deletion of the project take the rows in any order.
Scan(a, rows) ==
  IF rows = {} THEN keyReq' = [keyReq EXCEPT ![a].pc = "write", ![a].todo = {}, ![a].on = NoKey]
  ELSE \E k \in rows : keyReq' = [keyReq EXCEPT ![a].pc = "wait", ![a].todo = rows \ {k}, ![a].on = k]

DeleteStarts(a) ==
  /\ KeyAt(a, "act") /\ keyReq[a].op = "delete"
  /\ ~\E b \in KeySlots \ {a} : keyReq[b].op = "delete" /\ keyReq[b].pc \in {"wait", "write"}
  /\ IF deleted THEN KeyEnd(a) ELSE Scan(a, {k \in Keys : Live(k)})
  /\ UNCHANGED <<now, key, deleted, updates>>

ReaperTick ==
  /\ KeyAt(Reaper, "idle")
  /\ \E k \in Keys : Live(k) /\ Expired(k, now)
  /\ LET rows == {k \in Keys : Live(k) /\ Expired(k, now)} IN
       \E k \in rows : keyReq' = [keyReq EXCEPT ![Reaper] =
         [KeyIdle EXCEPT !.pc = "wait", !.op = "reap", !.at = now, !.todo = rows \ {k}, !.on = k]]
  /\ UNCHANGED <<now, key, deleted, updates>>

\* Defect: what the snapshot saw is revoked.
RevocableThen(a, k) == Live(k)

Revocable(a, k) == Live(k) /\ (keyReq[a].op = "reap" => Expired(k, keyReq[a].at))

ScanLocks(a) ==
  LET k == keyReq[a].on
      taken == IF Revocable(a, k) THEN keyReq[a].held \cup {k} ELSE keyReq[a].held IN
  /\ KeyAt(a, "wait") /\ keyReq[a].op \in {"delete", "reap"} /\ Free(k, a)
  /\ IF keyReq[a].todo = {}
     THEN keyReq' = [keyReq EXCEPT ![a].pc = "write", ![a].held = taken, ![a].on = NoKey]
     ELSE \E n \in keyReq[a].todo : keyReq' = [keyReq EXCEPT ![a].held = taken, ![a].on = n, ![a].todo = @ \ {n}]
  /\ UNCHANGED <<now, key, deleted, updates>>

RevokesAll(a) == key' = [k \in Keys |-> IF k \in keyReq[a].held THEN [key[k] EXCEPT !.revoked = TRUE] ELSE key[k]]

DeleteProject(a) ==
  /\ KeyAt(a, "write") /\ keyReq[a].op = "delete"
  /\ RevokesAll(a) /\ deleted' = TRUE
  /\ KeyEnd(a) /\ UNCHANGED <<now, updates>>

ReaperCommits ==
  /\ KeyAt(Reaper, "write")
  /\ RevokesAll(Reaper)
  /\ KeyEnd(Reaper) /\ UNCHANGED <<now, deleted, updates>>
-----------------------------------------------------------------------------
Work(a) ==
  \/ Touch(a) \/ Use(a) \/ CreateApiKey(a) \/ UpdateSelects(a) \/ RotateLocks(a) \/ RotateApiKey(a)
  \/ UpdateApiKey(a) \/ RevokeApiKey(a) \/ DeleteStarts(a) \/ DeleteProject(a)

KeyNext ==
  \/ Tick \/ ReaperTick \/ ReaperCommits
  \/ \E a \in KeySlots : Authenticate(a) \/ Work(a)
  \/ \E a \in Actors : ScanLocks(a) \/ Fails(a)

KeySpec == KeyInit /\ [][KeyNext]_keyVars
-----------------------------------------------------------------------------
\* "Two concurrent rotate calls would otherwise ... both mint a replacement":
\* a key has at most one successor, and has one exactly when it is deprecated,
\* whatever else revokes, updates, reaps or rotates it meanwhile.
OneSuccessor ==
  \A k \in Keys :
    /\ \A h, j \in Keys : key[h].from = k /\ key[j].from = k => h = j
    /\ key[k].deprecated <=> \E h \in Keys : key[h].from = k

\* The reaper revokes keys that are expired when they are revoked: one whose
\* expiry an update or a rotation puts off, while the reaper waits for its row
\* or goes through the others, is spared.
ReapsExpiredOnly ==
  [][KeyAt(Reaper, "write") /\ ~KeyAt(Reaper, "write")'
       => \A k \in Keys : Live(k) /\ ~Live(k)' => Expired(k, now)]_keyVars

\* "A deleted project must not keep authenticating."  Violated (README, 4).
DeletedKeepsNoKey == deleted => \A k \in Keys : ~Authenticates(k)
=============================================================================
