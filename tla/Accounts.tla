------------------------------ MODULE Accounts ------------------------------
(***************************************************************************)
(* One user's account on the receiver: login and its lockout, the sessions *)
(* and their cap, the second factor, password change and reset             *)
(* (receiver/api/auth_endpoints.py, security_auto.py, repositories/        *)
(* sessions.py, mfa.py, password_reset.py, admin_cli.py).                  *)
(*                                                                         *)
(* A request is a transaction at READ COMMITTED.  Its reads come first;    *)
(* its first UPDATE of the user's row makes it the row's holder, for whom  *)
(* other updates of the row wait, until it commits.  A request that        *)
(* updates the row and commits at once is one step.                        *)
(***************************************************************************)
EXTENDS Integers, FiniteSets

CONSTANTS
  Requests, Codes,
  Tokens,       \* reset tokens
  MaxSessions,  \* MAX_CONCURRENT_SESSIONS
  MaxFailed,    \* MAX_FAILED_ATTEMPTS
  MaxMade, MaxChanges, MaxSetups,  \* bounds: sessions made, new passwords, second factors set up
  Nothing

AccountsAssumption ==
  {MaxSessions, MaxFailed} \subseteq Nat \ {0} /\ {MaxMade, MaxChanges, MaxSetups} \subseteq Nat /\ Nothing \notin Requests

VARIABLES
  user,      \* User: the row
  sessions,  \* SUBSET Session: the rows
  resets,    \* [Tokens -> {"none", "unused", "used"}]: the rows
  holder,    \* the request that has updated the user's row and not committed, or Nothing
  reqs,      \* [Requests -> Request]
  made,      \* the sessions made: their creation times
  changes,   \* the new passwords, which are numbered
  cleared,   \* history: the password of the last change or reset that ended sessions
  kept,      \* history: the session that it kept, or Nothing
  setups     \* the second factors set up

vars == <<user, sessions, resets, holder, reqs, made, changes, cleared, kept, setups>>

Passwords == 0..MaxChanges
Ids == 1..MaxMade
User == [password : Passwords, failed : 0..MaxFailed, until : {"none", "past", "future"},
         force : BOOLEAN, mfa : BOOLEAN, secret : BOOLEAN, codes : SUBSET Codes]
\* via: how it was made; after: the passwords changed when its request took the row.
Session == [id : Ids, via : {"login", "pending", "mfa"}, after : Passwords, live : BOOLEAN]
\* What a request has read or chosen: the password, the session or the token it
\* came with, whether the user has a second factor, the codes that stay, and the
\* sessions that it saw past their time or is about to end.
Request ==
  [at : {"idle", "failing", "right", "counting", "opening", "changing", "confirming", "marked",
         "admin", "finishing", "verified", "enabling", "disabling"},
   password : Passwords, session : Ids \cup {Nothing}, token : Tokens \cup {Nothing},
   mfa : BOOLEAN, rehash : BOOLEAN, codes : SUBSET Codes, ids : SUBSET Ids, after : Passwords]
Idle == [at |-> "idle", password |-> 0, session |-> Nothing, token |-> Nothing,
         mfa |-> FALSE, rehash |-> FALSE, codes |-> {}, ids |-> {}, after |-> 0]

TypeOK ==
  /\ user \in User /\ sessions \subseteq Session /\ resets \in [Tokens -> {"none", "unused", "used"}]
  /\ holder \in Requests \cup {Nothing} /\ reqs \in [Requests -> Request]
  /\ made \in 0..MaxMade /\ changes \in Passwords /\ cleared \in Passwords /\ kept \in Ids \cup {Nothing}
  /\ setups \in 0..MaxSetups

Init ==
  /\ user = [password |-> 0, failed |-> 0, until |-> "none", force |-> FALSE, mfa |-> FALSE, secret |-> FALSE, codes |-> {}]
  /\ sessions = {} /\ resets = [t \in Tokens |-> "none"] /\ holder = Nothing /\ reqs = [r \in Requests |-> Idle]
  /\ made = 0 /\ changes = 0 /\ cleared = 0 /\ kept = Nothing /\ setups = 0

Live == {s \in sessions : s.live}
IdsOf(S) == {s.id : s \in S}
Becomes(r, q) == reqs' = [reqs EXCEPT ![r] = q]
Free == holder = Nothing
Counters == <<made, changes, cleared, kept, setups>>
Began(r) == reqs[r].at = "idle"

\* The bounds leave room for what the requests on their way still make.
On(points) == Cardinality({r \in Requests : reqs[r].at \in points})
RoomForSession == made + On({"right", "counting", "opening", "verified"}) < MaxMade
RoomForPassword == changes + On({"changing", "confirming", "marked", "admin", "finishing"}) < MaxChanges
-----------------------------------------------------------------------------
(* Login.                                                                  *)

\* check_account_lockout, the user's row, and the password against it.
Login(r, p) ==
  /\ Began(r) /\ user.until # "future" /\ p \in 0..changes /\ RoomForSession
  /\ IF p = user.password
     THEN \E rehash \in BOOLEAN :
            Becomes(r, [Idle EXCEPT !.at = "right", !.password = p, !.mfa = user.mfa, !.rehash = rehash,
                                    !.ids = IdsOf(sessions \ Live)])
     ELSE Becomes(r, [Idle EXCEPT !.at = "failing"])
  /\ UNCHANGED <<user, sessions, resets, holder, Counters>>

Counted(n) == IF n > MaxFailed THEN MaxFailed ELSE n

\* record_failed_login commits by itself.
RecordFailedLogin(r) ==
  /\ reqs[r].at = "failing" /\ Free
  /\ user' = [user EXCEPT !.failed = Counted(@ + 1), !.until = IF user.failed + 1 >= MaxFailed THEN "future" ELSE @]
  /\ Becomes(r, Idle)
  /\ UNCHANGED <<sessions, resets, holder, Counters>>

\* A hash of other parameters is made anew, of the password that was read.
ResetFailedLogin(r) ==
  /\ reqs[r].at = "right" /\ Free /\ holder' = r
  /\ Becomes(r, [reqs[r] EXCEPT !.at = "counting", !.after = changes])
  /\ UNCHANGED <<user, sessions, resets, Counters>>

\* The oldest of the sessions, so that there is room for one more.
Oldest(S, n) == {s \in S : Cardinality({t \in S : t.id < s.id}) < n}

\* Defect: no room is made for the new one.
EvictedTooFew(S) == IF Cardinality(S) <= MaxSessions THEN {} ELSE Oldest(S, Cardinality(S) - MaxSessions)
Evicted(S) == IF Cardinality(S) < MaxSessions THEN {} ELSE Oldest(S, Cardinality(S) - MaxSessions + 1)

\* NOW() is the time at which the transaction began.
EnforceSessionCap(r) ==
  /\ reqs[r].at = "counting"
  /\ Becomes(r, [reqs[r] EXCEPT !.at = "opening", !.ids = IdsOf(Evicted({s \in sessions : s.id \notin reqs[r].ids}))])
  /\ UNCHANGED <<user, sessions, resets, holder, Counters>>

NewSession(via, after) == [id |-> made + 1, via |-> via, after |-> after, live |-> TRUE]
CreateSession == made' = made + 1

\* With a second factor the session is a short one, for the code.
LoginCommits(r) ==
  /\ reqs[r].at = "opening" /\ CreateSession
  /\ sessions' = {s \in sessions : s.id \notin reqs[r].ids}
                 \cup {NewSession(IF reqs[r].mfa THEN "pending" ELSE "login", reqs[r].after)}
  /\ user' = [user EXCEPT !.failed = 0, !.until = "none", !.password = IF reqs[r].rehash THEN reqs[r].password ELSE @]
  /\ holder' = Nothing /\ Becomes(r, Idle)
  /\ UNCHANGED <<resets, changes, cleared, kept, setups>>
-----------------------------------------------------------------------------
(* The second factor.                                                      *)

\* verify_mfa_code: a code of the app leaves the backup codes as they are.
CodesAfter == (IF user.secret THEN {user.codes} ELSE {})
              \cup {user.codes \ {c} : c \in IF user.secret THEN user.codes ELSE {}}

\* The session and the code are read ...
MfaVerifies(r, s) ==
  /\ Began(r) /\ s \in Live /\ RoomForSession
  /\ \E codes \in CodesAfter :
       Becomes(r, [Idle EXCEPT !.at = "verified", !.session = s.id, !.codes = codes, !.rehash = codes # user.codes])
  /\ UNCHANGED <<user, sessions, resets, holder, Counters>>

\* ... and a session takes the place of that one.
MfaCommits(r) ==
  /\ reqs[r].at = "verified" /\ CreateSession
  /\ reqs[r].rehash => Free
  /\ user' = IF reqs[r].rehash THEN [user EXCEPT !.codes = reqs[r].codes] ELSE user
  /\ sessions' = {s \in sessions : s.id # reqs[r].session} \cup {NewSession("mfa", changes)}
  /\ Becomes(r, Idle)
  /\ UNCHANGED <<resets, holder, changes, cleared, kept, setups>>

\* One wrong code too many.
MfaExhausted(s) ==
  /\ s \in Live /\ sessions' = sessions \ {s}
  /\ UNCHANGED <<user, resets, holder, reqs, Counters>>

\* A new secret, whether or not one is in use.
SetupTotp ==
  /\ Live # {} /\ Free /\ setups < MaxSetups /\ setups' = setups + 1
  /\ user' = [user EXCEPT !.secret = TRUE]
  /\ UNCHANGED <<sessions, resets, holder, reqs, made, changes, cleared, kept>>

MfaVerifySetup(r) ==
  /\ Began(r) /\ Live # {} /\ user.secret /\ Becomes(r, [Idle EXCEPT !.at = "enabling"])
  /\ UNCHANGED <<user, sessions, resets, holder, Counters>>

EnableMfa(r) ==
  /\ reqs[r].at = "enabling" /\ Free
  /\ user' = [user EXCEPT !.mfa = TRUE, !.codes = Codes]
  /\ Becomes(r, Idle)
  /\ UNCHANGED <<sessions, resets, holder, Counters>>

MfaDisable(r) ==
  /\ Began(r) /\ Live # {} /\ user.secret /\ Becomes(r, [Idle EXCEPT !.at = "disabling"])
  /\ UNCHANGED <<user, sessions, resets, holder, Counters>>

MfaDisabled(row) == [row EXCEPT !.mfa = FALSE, !.secret = FALSE, !.codes = {}]

DisableMfa(r) ==
  /\ reqs[r].at = "disabling" /\ Free
  /\ user' = MfaDisabled(user)
  /\ Becomes(r, Idle)
  /\ UNCHANGED <<sessions, resets, holder, Counters>>
-----------------------------------------------------------------------------
(* New passwords.                                                          *)

NewPassword == changes' = changes + 1

\* The caller's session, the password, and a code if there is a second factor.
ChangePassword(r, s, p) ==
  /\ Began(r) /\ s \in Live /\ p = user.password /\ RoomForPassword
  /\ \E codes \in IF user.mfa THEN CodesAfter ELSE {user.codes} :
       Becomes(r, [Idle EXCEPT !.at = "changing", !.session = s.id, !.codes = codes, !.rehash = codes # user.codes])
  /\ UNCHANGED <<user, sessions, resets, holder, Counters>>

\* The caller's stays.
ChangeCommits(r) ==
  /\ reqs[r].at = "changing" /\ Free /\ NewPassword
  /\ user' = [user EXCEPT !.password = changes + 1, !.force = FALSE, !.codes = IF reqs[r].rehash THEN reqs[r].codes ELSE @]
  /\ sessions' = {s \in sessions : s.id = reqs[r].session}
  /\ cleared' = changes + 1 /\ kept' = reqs[r].session /\ Becomes(r, Idle)
  /\ UNCHANGED <<resets, holder, made, setups>>

RequestReset(t) ==
  /\ resets[t] = "none" /\ resets' = [resets EXCEPT ![t] = "unused"]
  /\ UNCHANGED <<user, sessions, holder, reqs, Counters>>

\* The token is read as unused ...
ConfirmReset(r, t) ==
  /\ Began(r) /\ resets[t] = "unused" /\ RoomForPassword /\ Becomes(r, [Idle EXCEPT !.at = "confirming", !.token = t])
  /\ UNCHANGED <<user, sessions, resets, holder, Counters>>

\* ... and marked, when nobody else has it marked, used or not; or it is gone.
ConsumeToken(r) ==
  /\ reqs[r].at = "confirming" /\ \A q \in Requests : reqs[q].token = reqs[r].token => reqs[q].at \notin {"marked", "finishing"}
  /\ Becomes(r, IF resets[reqs[r].token] = "none" THEN Idle ELSE [reqs[r] EXCEPT !.at = "marked"])
  /\ UNCHANGED <<user, sessions, resets, holder, Counters>>

AdminReset(r) ==
  /\ Began(r) /\ RoomForPassword /\ Becomes(r, [Idle EXCEPT !.at = "admin"])
  /\ UNCHANGED <<user, sessions, resets, holder, Counters>>

ResetTakesRow(r) ==
  /\ reqs[r].at \in {"marked", "admin"} /\ Free /\ holder' = r /\ Becomes(r, [reqs[r] EXCEPT !.at = "finishing"])
  /\ UNCHANGED <<user, sessions, resets, Counters>>

\* The tokens that it has to delete, and that another request has marked.
MarkedByOthers(r) == \E q \in Requests \ {r} : reqs[q].at = "marked" /\ resets[reqs[q].token] = "unused"

\* The other tokens that are unused, and every session, are deleted.
ResetPassword(r) ==
  /\ reqs[r].at = "finishing" /\ ~MarkedByOthers(r) /\ NewPassword
  /\ user' = [user EXCEPT !.password = changes + 1]
  /\ resets' = [t \in Tokens |-> IF t = reqs[r].token THEN "used" ELSE IF resets[t] = "unused" THEN "none" ELSE resets[t]]
  /\ sessions' = {}
  /\ holder' = Nothing /\ cleared' = changes + 1 /\ kept' = Nothing /\ Becomes(r, Idle)
  /\ UNCHANGED <<made, setups>>

\* Two confirmations wait for each other, and PostgreSQL aborts one of them.
DeadlockAborts(r) ==
  /\ \E q \in Requests : reqs[q].at = "finishing" /\ MarkedByOthers(q) /\ (r = q \/ reqs[r].at = "marked")
  /\ holder' = (IF holder = r THEN Nothing ELSE holder) /\ Becomes(r, Idle)
  /\ UNCHANGED <<user, sessions, resets, Counters>>

\* strathon-admin reset-password: the sessions stay.
AdminCliReset ==
  /\ Free /\ RoomForPassword /\ NewPassword
  /\ \E row \in {user, MfaDisabled(user)} : user' = [row EXCEPT !.password = changes + 1, !.force = TRUE]
  /\ UNCHANGED <<sessions, resets, holder, reqs, made, cleared, kept, setups>>
-----------------------------------------------------------------------------
Logout(s) ==
  /\ s \in Live /\ sessions' = sessions \ {s}
  /\ UNCHANGED <<user, resets, holder, reqs, Counters>>

\* Time: a session, or a lockout, is over.
Expires ==
  /\ \/ \E s \in Live : sessions' = (sessions \ {s}) \cup {[s EXCEPT !.live = FALSE]} /\ UNCHANGED user
     \/ user.until = "future" /\ user' = [user EXCEPT !.until = "past"] /\ UNCHANGED sessions
  /\ UNCHANGED <<resets, holder, reqs, Counters>>

Cleanup ==
  /\ sessions # Live /\ sessions' = Live
  /\ UNCHANGED <<user, resets, holder, reqs, Counters>>

Signs(r) ==
  \/ \E p \in Passwords : Login(r, p)
  \/ RecordFailedLogin(r) \/ ResetFailedLogin(r) \/ EnforceSessionCap(r) \/ LoginCommits(r)

SecondFactor(r) ==
  \/ \E s \in sessions : MfaVerifies(r, s)
  \/ MfaCommits(r) \/ MfaVerifySetup(r) \/ EnableMfa(r) \/ MfaDisable(r) \/ DisableMfa(r)

Resets(r) ==
  \/ \E s \in sessions, p \in Passwords : ChangePassword(r, s, p)
  \/ \E t \in Tokens : ConfirmReset(r, t)
  \/ ChangeCommits(r) \/ ConsumeToken(r) \/ AdminReset(r) \/ ResetTakesRow(r) \/ ResetPassword(r) \/ DeadlockAborts(r)

Next ==
  \/ SetupTotp \/ AdminCliReset \/ Expires \/ Cleanup
  \/ \E r \in Requests : Signs(r) \/ SecondFactor(r) \/ Resets(r)
  \/ \E t \in Tokens : RequestReset(t)
  \/ \E s \in sessions : Logout(s) \/ MfaExhausted(s)

Spec == Init /\ [][Next]_vars
-----------------------------------------------------------------------------
\* Logins at the same time do not exceed the cap, because each counts while it
\* holds the user's row (a second factor's session comes on top).
LoginsAreCapped == Cardinality({s \in Live : s.via # "mfa"}) <= MaxSessions

\* A session of a login that took the row before the password was changed or reset
\* does not outlive it, however the two overlap: the row is updated first, and the
\* sessions are deleted then; only the session that made the change is kept.
LoginsEndWithThePassword == \A s \in Live : s.via # "mfa" => s.after >= cleared \/ s.id = kept

\* An account is locked when the failures reach the limit, and its time is not
\* lost by logins and failures that overlap, until one login succeeds.
LockoutFollowsFailures == (user.failed >= MaxFailed) <=> (user.until # "none")

AccountsHold == LoginsAreCapped /\ LoginsEndWithThePassword /\ LockoutFollowsFailures
=============================================================================
