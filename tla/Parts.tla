------------------------------- MODULE Parts --------------------------------
(***************************************************************************)
(* The smaller parts of the receiver and of the SDK, each an instance of   *)
(* its module.  They share no state that their models keep, so one part    *)
(* runs in a behaviour, chosen at the start, and the variables of the      *)
(* others are Off.                                                         *)
(***************************************************************************)
EXTENDS Drift

CONSTANTS
  Clients, Calls, Frameworks, ThreadKinds, MaxInstruments, MaxUninstalls,              \* Client
  BreakerAgents, Tools, ErrorThreshold, Window, Cooldown, HalfOpenMax, BreakerTime,    \* Breaker
  AlertAgents, Projects, Channels, ProjectsOf, ChannelKinds, Owner, Timeout,
  AlertTime, ChannelChanges, MaxDrifts,                                                \* Alerts
  Requests, Codes, Tokens, MaxSessions, MaxFailed, MaxSessionsMade, PasswordChanges, MaxSetups, \* Accounts
  Receivers, Ingests, Traces, Premake, Retention, Batch, Keeps, FirstMonth, LastMonth, MaxUpdates, \* Partitions
  Lists, RowIds, RowTimes, Vals, Cap, TableChanges,                                          \* Listings
  Batches, Settings, SettingsChanges,                                                  \* Redaction
  Callers, Capacity, Rate, Per, PruneInterval, IdleTimeout, LimitTime, MaxRequests,    \* RateLimits
  Nothing, Off

VARIABLES
  part,
  framework, enforcing, pc, provider, installed, loops, stopped, receivers, target, original, entry,
  installing, raced, instruments, uninstalls, calls,                                   \* Client
  breakers, since,                                                                     \* Breaker
  last_heartbeat, agent_project, alerted, kind, channels, todo, scan, job, told, drifts, \* Alerts
  user, sessions, resets, holder, reqs, cleared, kept, setups,                         \* Accounts
  month, tables, events, workers, keep, traces, stored, writes, ensured, ensuredEvents, updates, \* Partitions
  list, table, walk, got, steady, moved,                                               \* Listings
  settings, spans, request, rows, hooks, asks, read, changed,                          \* Redaction
  clock, buckets, pruned, pending, passed, promised, requests,                         \* RateLimits
  now, made, changes                                                                   \* of two of them

Client == INSTANCE Client WITH Kinds <- ThreadKinds

Breaker == INSTANCE Breaker WITH Agents <- BreakerAgents, NoTool <- Nothing, MaxTime <- BreakerTime

Alerts == INSTANCE Alerts WITH
  Agents <- AlertAgents, Kinds <- ChannelKinds, MaxTime <- AlertTime, MaxChanges <- ChannelChanges

Accounts == INSTANCE Accounts WITH MaxMade <- MaxSessionsMade, MaxChanges <- PasswordChanges

Partitions == INSTANCE Partitions WITH First <- FirstMonth, Last <- LastMonth

Listings == INSTANCE Listings WITH Ids <- RowIds, Times <- RowTimes, MaxChanges <- TableChanges

Redaction == INSTANCE Redaction WITH MaxChanges <- SettingsChanges

RateLimits == INSTANCE RateLimits WITH Clients <- Callers, MaxTime <- LimitTime

ASSUME PartsAssumption ==
  /\ Client!ClientAssumption /\ Breaker!BreakerAssumption
  /\ Alerts!AlertsAssumption /\ Accounts!AccountsAssumption /\ Partitions!PartitionsAssumption
  /\ Listings!ListingsAssumption /\ Redaction!RedactionAssumption /\ RateLimits!RateLimitsAssumption
-----------------------------------------------------------------------------
\* The variables of one part only.
OfClient == <<framework, enforcing, pc, provider, installed, loops, stopped, receivers, target, original, entry,
              installing, raced, instruments, uninstalls, calls>>
OfAlerts == <<last_heartbeat, agent_project, alerted, kind, channels, todo, scan, job, told, drifts>>
OfAccounts == <<user, sessions, resets, holder, reqs, cleared, kept, setups>>
OfPartitions == <<month, tables, events, workers, keep, traces, stored, writes, ensured, ensuredEvents, updates>>
OfListings == <<list, table, walk, got, steady, moved>>
OfRedaction == <<settings, spans, request, rows, hooks, asks, read, changed>>
OfRateLimits == <<clock, buckets, pruned, pending, passed, promised, requests>>

NoDrift == baselines = Off /\ alerts = {}
NoClient ==
  /\ framework = Off /\ enforcing = Off /\ pc = Off /\ provider = Off /\ installed = Off /\ loops = Off
  /\ stopped = Off /\ receivers = Off /\ target = Off /\ original = Off /\ entry = Off /\ installing = Off
  /\ raced = Off /\ instruments = Off /\ uninstalls = Off /\ calls = Off
NoBreaker == breakers = Off /\ since = Off
NoAlerts ==
  /\ last_heartbeat = Off /\ agent_project = Off /\ alerted = Off /\ kind = Off /\ channels = Off
  /\ todo = Off /\ scan = Off /\ job = Off /\ told = Off /\ drifts = Off
NoAccounts ==
  /\ user = Off /\ sessions = Off /\ resets = Off /\ holder = Off /\ reqs = Off /\ cleared = Off /\ kept = Off /\ setups = Off
NoPartitions ==
  /\ month = Off /\ tables = Off /\ events = Off /\ workers = Off /\ keep = Off /\ traces = Off /\ stored = Off
  /\ writes = Off /\ ensured = Off /\ ensuredEvents = Off /\ updates = Off
NoListings == list = Off /\ table = Off /\ walk = Off /\ got = Off /\ steady = Off /\ moved = Off
NoRedaction ==
  /\ settings = Off /\ spans = Off /\ request = Off /\ rows = Off /\ hooks = Off /\ asks = Off /\ read = Off /\ changed = Off
NoRateLimits ==
  /\ clock = Off /\ buckets = Off /\ pruned = Off /\ pending = Off /\ passed = Off /\ promised = Off /\ requests = Off

PartsInit ==
  \/ /\ part = "drift" /\ Init /\ NoClient /\ NoBreaker /\ NoAlerts /\ NoAccounts /\ NoPartitions /\ NoListings /\ NoRedaction /\ NoRateLimits
     /\ now = Off /\ made = Off /\ changes = Off
  \/ /\ part = "client" /\ Client!Init /\ NoDrift /\ NoBreaker /\ NoAlerts /\ NoAccounts /\ NoPartitions /\ NoListings /\ NoRedaction /\ NoRateLimits
     /\ now = Off /\ made = Off /\ changes = Off
  \/ /\ part = "breaker" /\ Breaker!Init /\ NoDrift /\ NoClient /\ NoAlerts /\ NoAccounts /\ NoPartitions /\ NoListings /\ NoRedaction /\ NoRateLimits
     /\ made = Off /\ changes = Off
  \/ /\ part = "alerts" /\ Alerts!Init /\ NoDrift /\ NoClient /\ NoBreaker /\ NoAccounts /\ NoPartitions /\ NoListings /\ NoRedaction /\ NoRateLimits
     /\ made = Off
  \/ /\ part = "accounts" /\ Accounts!Init /\ NoDrift /\ NoClient /\ NoBreaker /\ NoAlerts /\ NoPartitions /\ NoListings /\ NoRedaction /\ NoRateLimits
     /\ now = Off
  \/ /\ part = "partitions" /\ Partitions!Init /\ NoDrift /\ NoClient /\ NoBreaker /\ NoAlerts /\ NoAccounts /\ NoListings /\ NoRedaction /\ NoRateLimits
     /\ now = Off /\ changes = Off
  \/ /\ part = "listings" /\ Listings!Init /\ NoDrift /\ NoClient /\ NoBreaker /\ NoAlerts /\ NoAccounts /\ NoPartitions /\ NoRedaction /\ NoRateLimits
     /\ now = Off /\ made = Off /\ changes = Off
  \/ /\ part = "redaction" /\ Redaction!Init /\ NoDrift /\ NoClient /\ NoBreaker /\ NoAlerts /\ NoAccounts /\ NoPartitions /\ NoListings /\ NoRateLimits
     /\ now = Off /\ made = Off /\ changes = Off
  \/ /\ part = "limits" /\ RateLimits!Init /\ NoDrift /\ NoClient /\ NoBreaker /\ NoAlerts /\ NoAccounts /\ NoPartitions /\ NoListings /\ NoRedaction
     /\ now = Off /\ made = Off /\ changes = Off

DriftSteps ==
  /\ part = "drift" /\ Next
  /\ UNCHANGED <<part, OfClient, breakers, since, OfAlerts, OfAccounts, OfPartitions, OfListings, OfRedaction, OfRateLimits, now, made, changes>>
ClientSteps ==
  /\ part = "client" /\ Client!Next
  /\ UNCHANGED <<part, vars, breakers, since, OfAlerts, OfAccounts, OfPartitions, OfListings, OfRedaction, OfRateLimits, now, made, changes>>
BreakerSteps ==
  /\ part = "breaker" /\ Breaker!Next
  /\ UNCHANGED <<part, vars, OfClient, OfAlerts, OfAccounts, OfPartitions, OfListings, OfRedaction, OfRateLimits, made, changes>>
AlertsSteps ==
  /\ part = "alerts" /\ Alerts!Next
  /\ UNCHANGED <<part, vars, OfClient, breakers, since, OfAccounts, OfPartitions, OfListings, OfRedaction, OfRateLimits, made>>
AccountsSteps ==
  /\ part = "accounts" /\ Accounts!Next
  /\ UNCHANGED <<part, vars, OfClient, breakers, since, OfAlerts, OfPartitions, OfListings, OfRedaction, OfRateLimits, now>>
PartitionsSteps ==
  /\ part = "partitions" /\ Partitions!Next
  /\ UNCHANGED <<part, vars, OfClient, breakers, since, OfAlerts, OfAccounts, OfListings, OfRedaction, OfRateLimits, now, changes>>
ListingsSteps ==
  /\ part = "listings" /\ Listings!Next
  /\ UNCHANGED <<part, vars, OfClient, breakers, since, OfAlerts, OfAccounts, OfPartitions, OfRedaction, OfRateLimits, now, made, changes>>
RedactionSteps ==
  /\ part = "redaction" /\ Redaction!Next
  /\ UNCHANGED <<part, vars, OfClient, breakers, since, OfAlerts, OfAccounts, OfPartitions, OfListings, OfRateLimits, now, made, changes>>
RateLimitsSteps ==
  /\ part = "limits" /\ RateLimits!Next
  /\ UNCHANGED <<part, vars, OfClient, breakers, since, OfAlerts, OfAccounts, OfPartitions, OfListings, OfRedaction, now, made, changes>>

PartsNext == DriftSteps \/ ClientSteps \/ BreakerSteps \/ AlertsSteps \/ AccountsSteps \/ PartitionsSteps \/ ListingsSteps \/ RedactionSteps
             \/ RateLimitsSteps

partsVars ==
  <<part, vars, OfClient, breakers, since, OfAlerts, OfAccounts, OfPartitions, OfListings, OfRedaction, OfRateLimits, now, made, changes>>

PartsSpec == PartsInit /\ [][PartsNext]_partsVars
-----------------------------------------------------------------------------
\* The clients of a process share the global provider and the patch: Client.
ClientsShareWell == part = "client" => Client!ClientsShareWell

\* A breaker closes only when it is proven, or by an operator: Breaker.
Hysteresis == [][part = "breaker" => Breaker!ClosesWhenProven]_<<breakers, now, since>>

\* A silence is told once, and each channel of an alert is tried: Alerts.
AlertsAreGiven == part = "alerts" => Alerts!AlertsAreGiven

\* The cap of sessions, their end with the password, the lockout: Accounts.
AccountsHold == part = "accounts" => Accounts!AccountsHold

\* A walk by key skips no row and repeats none, while the table changes: Listings.
WalksAreWhole == part = "listings" => Listings!WalksAreWhole

\* What patterns and settings name reaches no row and no alert: Redaction.
RawStaysOut == part = "redaction" => Redaction!RawStaysOut

\* No client passes a limit more often than the bucket allows: RateLimits.
LimitsKept == part = "limits" => RateLimits!LimitsKept

\* A span has its partition, and none is dropped that is to be kept: Partitions.
SpansAreStored == part = "partitions" => Partitions!SpansAreStored
=============================================================================
