------------------------------ MODULE HaltSync -------------------------------
(***************************************************************************)
(* How a halt reaches the agents: the SDK's HaltEnforcer                   *)
(* (sdk/.../policy/halt_enforcer.py), which copies the active halts of     *)
(* the receiver (POST /v1/intervention/sync) into a cache, and the tool    *)
(* calls that the dispatcher (sdk/.../policy/steer.py) checks against it.  *)
(*                                                                         *)
(* One thread refreshes the cache: a first refresh when the client is      *)
(* built, then one after another.  A failed refresh keeps the cache.  With *)
(* fail_closed a call is refused once the last good refresh is too old.    *)
(* The receiver's side is HaltTable, which BudgetMonitor implements.       *)
(***************************************************************************)
EXTENDS Integers, FiniteSets

CONSTANTS
  Halts,       \* ids of rows of halt_state
  Clients,     \* SDK clients, each of one agent
  Calls,       \* tool calls
  ClientOf,    \* [Calls -> Clients]
  Scope,       \* [Halts -> SUBSET Clients]: all, or the ones of an agent
  FailClosed,  \* clients built with fail_closed=True
  MaxStale,    \* fail_closed_max_staleness_sec
  Timeout,     \* what a refresh may take before it fails (request_timeout_sec)
  MaxTime,     \* bound on the clock
  MaxFaults    \* bound on failed refreshes

ASSUME SyncAssumption ==
  /\ ClientOf \in [Calls -> Clients]
  /\ Scope \in [Halts -> SUBSET Clients]
  /\ FailClosed \subseteq Clients
  /\ MaxStale \in Nat /\ Timeout \in Nat /\ MaxTime \in Nat /\ MaxFaults \in Nat

VARIABLES
  clock,
  status,     \* [Halts -> "unset", "active" or "cleared"]: halt_state
  since,      \* history: when a halt's status last changed
  sync,       \* [Clients -> Refresh]: the refresh under way
  phase,      \* [Clients -> "new", "open" or "closed"]
  cache,      \* [Clients -> SUBSET Halts]: _halts
  refreshed,  \* [Clients -> time of the last good refresh]: _last_refresh_at
  taken,      \* history: when the receiver read what is in a client's cache
  call,       \* [Calls -> where the call is]
  faults

vars == <<clock, status, since, sync, phase, cache, refreshed, taken, call, faults>>

Times == 0..MaxTime
Never == -1 - MaxStale   \* _last_refresh_at = 0.0: older than any threshold

Waiting == [at |-> "waiting"]
Refresh ==
  {Waiting}
  \cup [at : {"asked"}, sent : Times]
  \cup [at : {"served"}, sent : Times, read : Times, halts : SUBSET Halts]

Table == INSTANCE HaltTable WITH Ids <- Halts, status <- status

Init ==
  /\ clock = 0
  /\ Table!Init
  /\ since = [h \in Halts |-> 0]
  /\ sync = [c \in Clients |-> Waiting]
  /\ phase = [c \in Clients |-> "new"]
  /\ cache = [c \in Clients |-> {}]
  /\ refreshed = [c \in Clients |-> Never]
  /\ taken = [c \in Clients |-> 0]
  /\ call = [k \in Calls |-> "new"]
  /\ faults = 0

-----------------------------------------------------------------------------
(* The receiver.                                                           *)

RaiseHalt(h) ==
  /\ Table!Raise(h)
  /\ since' = [since EXCEPT ![h] = clock]
  /\ UNCHANGED <<clock, sync, phase, cache, refreshed, taken, call, faults>>

ClearHalt(h) ==
  /\ h \in Table!Active
  /\ Table!Clear({h})
  /\ since' = [since EXCEPT ![h] = clock]
  /\ UNCHANGED <<clock, sync, phase, cache, refreshed, taken, call, faults>>

(* No refresh outlives its timeout.                                        *)
TimePasses ==
  /\ clock < MaxTime
  /\ \A c \in Clients : sync[c].at \in {"asked", "served"} => clock < sync[c].sent + Timeout
  /\ clock' = clock + 1
  /\ UNCHANGED <<status, since, sync, phase, cache, refreshed, taken, call, faults>>

-----------------------------------------------------------------------------
(* The refresh.                                                            *)

Ask(c) ==
  /\ sync[c] = Waiting
  /\ phase[c] # "closed"
  /\ sync' = [sync EXCEPT ![c] = [at |-> "asked", sent |-> clock]]
  /\ UNCHANGED <<clock, status, since, phase, cache, refreshed, taken, call, faults>>

(* The receiver reads the active halts of the project.                     *)
Serve(c) ==
  /\ sync[c].at = "asked"
  /\ sync' = [sync EXCEPT ![c] = [at |-> "served", sent |-> @.sent, read |-> clock,
                                  halts |-> Table!Active]]
  /\ UNCHANGED <<clock, status, since, phase, cache, refreshed, taken, call, faults>>

(* The first refresh completes the constructor, even when it fails.        *)
Returned(c) ==
  /\ sync' = [sync EXCEPT ![c] = Waiting]
  /\ phase' = [phase EXCEPT ![c] = IF @ = "new" THEN "open" ELSE @]

(* Mutant: the reply is added to the cache.                                *)
DeliverMerged(c) ==
  /\ sync[c].at = "served"
  /\ cache' = [cache EXCEPT ![c] = @ \cup sync[c].halts]
  /\ refreshed' = [refreshed EXCEPT ![c] = clock]
  /\ taken' = [taken EXCEPT ![c] = sync[c].read]
  /\ Returned(c)
  /\ UNCHANGED <<clock, status, since, call, faults>>

(* The reply replaces the cache, and is stamped with the time of arrival.  *)
Deliver(c) ==
  /\ sync[c].at = "served"
  /\ cache' = [cache EXCEPT ![c] = sync[c].halts]
  /\ refreshed' = [refreshed EXCEPT ![c] = clock]
  /\ taken' = [taken EXCEPT ![c] = sync[c].read]
  /\ Returned(c)
  /\ UNCHANGED <<clock, status, since, call, faults>>

(* Mutant: a failed refresh counts as one.                                 *)
RefreshFailsStamped(c) ==
  /\ sync[c].at \in {"asked", "served"}
  /\ faults < MaxFaults
  /\ faults' = faults + 1
  /\ refreshed' = [refreshed EXCEPT ![c] = clock]
  /\ Returned(c)
  /\ UNCHANGED <<clock, status, since, cache, taken, call>>

(* An HTTP or network error, or the timeout: the cache stays.              *)
RefreshFails(c) ==
  /\ sync[c].at \in {"asked", "served"}
  /\ faults < MaxFaults
  /\ faults' = faults + 1
  /\ Returned(c)
  /\ UNCHANGED <<clock, status, since, cache, refreshed, taken, call>>

(* The client is closed; a refresh under way still ends.                   *)
Stop(c) ==
  /\ phase[c] = "open"
  /\ phase' = [phase EXCEPT ![c] = "closed"]
  /\ UNCHANGED <<clock, status, since, sync, cache, refreshed, taken, call, faults>>

-----------------------------------------------------------------------------
(* A tool call.                                                            *)

Stale(c) == c \in FailClosed /\ clock - refreshed[c] > MaxStale
Halting(c) == {h \in cache[c] : c \in Scope[h]}

(* Mutant: the halts are consulted before their age.                       *)
CheckHaltsFirst(k) ==
  /\ call[k] = "new"
  /\ phase[ClientOf[k]] # "new"
  /\ call' = [call EXCEPT ![k] = IF Halting(ClientOf[k]) # {} THEN "halted"
                                 ELSE IF Stale(ClientOf[k]) THEN "unreachable"
                                 ELSE "checked"]
  /\ UNCHANGED <<clock, status, since, sync, phase, cache, refreshed, taken, faults>>

Check(k) ==
  /\ call[k] = "new"
  /\ phase[ClientOf[k]] # "new"
  /\ call' = [call EXCEPT ![k] = IF Stale(ClientOf[k]) THEN "unreachable"
                                 ELSE IF Halting(ClientOf[k]) # {} THEN "halted"
                                 ELSE "checked"]
  /\ UNCHANGED <<clock, status, since, sync, phase, cache, refreshed, taken, faults>>

(* The policy check allows the call, holds it for an approval, or refuses  *)
(* it (block, throttle, steer).                                            *)
Decide(k) ==
  /\ call[k] = "checked"
  /\ \E d \in {"ran", "held", "refused"} : call' = [call EXCEPT ![k] = d]
  /\ UNCHANGED <<clock, status, since, sync, phase, cache, refreshed, taken, faults>>

(* The wait for the approval returns: the tool is run without another look *)
(* at the halts.                                                           *)
Approved(k) ==
  /\ call[k] = "held"
  /\ call' = [call EXCEPT ![k] = "ran"]
  /\ UNCHANGED <<clock, status, since, sync, phase, cache, refreshed, taken, faults>>

NotApproved(k) ==
  /\ call[k] = "held"
  /\ call' = [call EXCEPT ![k] = "refused"]
  /\ UNCHANGED <<clock, status, since, sync, phase, cache, refreshed, taken, faults>>

-----------------------------------------------------------------------------

Next == \/ \E h \in Halts : RaiseHalt(h) \/ ClearHalt(h)
        \/ TimePasses
        \/ \E c \in Clients : Ask(c) \/ Serve(c) \/ Deliver(c) \/ RefreshFails(c) \/ Stop(c)
        \/ \E k \in Calls : Check(k) \/ Decide(k) \/ Approved(k) \/ NotApproved(k)

(* The refresh thread runs until the client is closed, and a request that  *)
(* does not fail is answered.                                              *)
Fairness == \A c \in Clients : WF_vars(Ask(c) \/ Serve(c) \/ Deliver(c))

Spec == Init /\ [][Next]_vars /\ Fairness

-----------------------------------------------------------------------------
(* Properties.                                                             *)

TypeOK ==
  /\ clock \in Times
  /\ status \in [Halts -> {"unset", "active", "cleared"}]
  /\ since \in [Halts -> Times]
  /\ sync \in [Clients -> Refresh]
  /\ phase \in [Clients -> {"new", "open", "closed"}]
  /\ cache \in [Clients -> SUBSET Halts]
  /\ refreshed \in [Clients -> Times \cup {Never}]
  /\ taken \in [Clients -> Times]
  /\ call \in [Calls -> {"new", "unreachable", "halted", "checked", "held", "ran", "refused"}]

(* A fail-closed client lets no call pass the check once a halt of its     *)
(* scope has been active for longer than the threshold and one refresh,    *)
(* whatever refreshes failed or were late.                                 *)
Lag == MaxStale + Timeout

HaltReachesCalls ==
  [][\A k \in Calls : LET c == ClientOf[k] IN
       call[k] = "new" /\ call'[k] = "checked" /\ c \in FailClosed
         => \A h \in Table!Active : c \in Scope[h] => clock - since[h] <= Lag]_vars

(* And it refuses no call for a halt that was cleared longer ago.          *)
ClearReachesCalls ==
  [][\A k \in Calls : LET c == ClientOf[k] IN
       call[k] = "new" /\ call'[k] = "halted" /\ c \in FailClosed
         => \A h \in Halting(c) : h \in Table!Active \/ clock - since[h] <= Lag]_vars

(* The cache of a client that stays open ends up with the receiver's       *)
(* active halts, and only those.                                           *)
CachesConverge ==
  \A c \in Clients : <>[](phase[c] = "closed" \/ cache[c] = Table!Active)

(* docs/intervention.md:405-407: once the SDK polls, it "sees the halt and *)
(* starts raising StrathonHaltExceeded at every tool-call boundary", and   *)
(* steer.py:354 says kill-switches "override everything".  Violated: a     *)
(* call that waited for an approval is run although its client's cache     *)
(* holds a halt for it.                                                    *)
HeldCallsHonourHalts ==
  [][\A k \in Calls :
       call[k] = "held" /\ call'[k] = "ran" => Halting(ClientOf[k]) = {}]_vars
=============================================================================
