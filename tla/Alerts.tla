------------------------------- MODULE Alerts -------------------------------
(***************************************************************************)
(* The alerts about an agent that reach a project's notification channels: *)
(* the heartbeat monitor (receiver/heartbeat.py), the loop of the drift    *)
(* detector (receiver/vigil.py), the dispatcher they share                 *)
(* (receiver/integrations/dispatcher.py) and the endpoints that change the *)
(* channels (receiver/api/notification_channels.py).                       *)
(*                                                                         *)
(* Both loops wait for each channel in turn, up to ten seconds, and the    *)
(* heartbeats, the channels and the clock go on meanwhile.  A process has  *)
(* its own tables, and keeps an agent by its name alone.                   *)
(***************************************************************************)
EXTENDS Integers, Sequences, SequencesExt, FiniteSets

CONSTANTS
  Agents, Projects, Channels,
  ProjectsOf,   \* [Agents -> SUBSET Projects]: those with an agent of the name
  Kinds,        \* the assignments [Channels -> {"slack", "discord", "webhook", "github"}] that are looked at
  Owner,        \* [Channels -> Projects]
  Timeout,      \* HEARTBEAT_TIMEOUT
  MaxTime, MaxChanges, MaxDrifts,  \* bounds: of the clock, the channels' changes, the ticks that find a drift
  Nothing

Events == {"heartbeat_missed", "behavioral_drift"}
Loops == {"heartbeat", "vigil"}

AlertsAssumption ==
  /\ ProjectsOf \in [Agents -> SUBSET Projects] /\ Owner \in [Channels -> Projects]
  /\ Kinds \subseteq [Channels -> {"slack", "discord", "webhook", "github"}]
  /\ {Timeout, MaxTime, MaxChanges, MaxDrifts} \subseteq Nat /\ Nothing \notin Agents \cup Projects
  /\ IsFiniteSet(Agents) /\ IsFiniteSet(Channels)

VARIABLES
  now,            \* time.monotonic()
  last_heartbeat, \* [Agents -> time or Nothing]
  agent_project,  \* [Agents -> project or Nothing]
  alerted,        \* the agents that are silent and told of
  kind,           \* one of Kinds
  channels,       \* [Channels -> Channel or Nothing]: the rows
  todo,           \* [Loops -> the agents that its tick has yet to look at, with what it read]
  scan,           \* the time the heartbeat monitor read at its tick's start, Nothing between ticks
  job,            \* [Loops -> Job or Nothing]: the dispatch that is under way
  told,           \* history, [Agents -> Nat]: the alerts since its last heartbeat
  changes, drifts

tables == <<last_heartbeat, agent_project, alerted>>
vars == <<kind, now, tables, channels, todo, scan, job, told, changes, drifts>>

Channel == [enabled : BOOLEAN, events : SUBSET Events]
\* wanted and tried are the channels that the alert is for, and those that got it.
Job == [event : Events, project : Projects, left : Seq(Channels), wanted : SUBSET Channels, tried : SUBSET Channels]
Entry == [agent : Agents, last : 0..MaxTime]

TypeOK ==
  /\ kind \in Kinds /\ now \in 0..MaxTime /\ last_heartbeat \in [Agents -> 0..MaxTime \cup {Nothing}]
  /\ agent_project \in [Agents -> Projects \cup {Nothing}] /\ alerted \subseteq Agents
  /\ channels \in [Channels -> Channel \cup {Nothing}]
  /\ todo["heartbeat"] \in Seq(Entry) /\ todo["vigil"] \in Seq(Agents)
  /\ scan \in 0..MaxTime \cup {Nothing} /\ job \in [Loops -> Job \cup {Nothing}]
  /\ told \in [Agents -> 0..2] /\ changes \in 0..MaxChanges /\ drifts \in 0..MaxDrifts

Init ==
  /\ kind \in Kinds /\ now = 0 /\ last_heartbeat = [a \in Agents |-> Nothing] /\ agent_project = [a \in Agents |-> Nothing]
  /\ alerted = {} /\ channels = [c \in Channels |-> Nothing]
  /\ todo = [l \in Loops |-> <<>>] /\ scan = Nothing /\ job = [l \in Loops |-> Nothing]
  /\ told = [a \in Agents |-> 0] /\ changes = 0 /\ drifts = 0

Tick == now < MaxTime /\ now' = now + 1 /\ UNCHANGED <<kind, tables, channels, todo, scan, job, told, changes, drifts>>
-----------------------------------------------------------------------------
(* The channels of a project.                                              *)

Changes == changes < MaxChanges /\ changes' = changes + 1 /\ UNCHANGED <<kind, now, tables, todo, scan, job, told, drifts>>

CreateChannel(c, row) ==
  /\ Changes /\ channels[c] = Nothing
  /\ channels' = [channels EXCEPT ![c] = row]

UpdateChannel(c, row) ==
  /\ Changes /\ channels[c] # Nothing /\ row # channels[c]
  /\ channels' = [channels EXCEPT ![c] = row]

DeleteChannel(c) ==
  /\ Changes /\ channels[c] # Nothing
  /\ channels' = [channels EXCEPT ![c] = Nothing]
-----------------------------------------------------------------------------
(* dispatch_event, of either loop.                                         *)

\* An empty list of events stands for all.
Wants(row, event) == row.events = {} \/ event \in row.events

Enabled(project) == {c \in Channels : Owner[c] = project /\ channels[c] # Nothing /\ channels[c].enabled}

\* The rows are read once; a channel that does not want the event is passed by.
Dispatch(l, event, project) ==
  LET wanted == {c \in Enabled(project) : Wants(channels[c], event)} IN
  \E rows \in SetToSeqs(wanted) :
    job' = [job EXCEPT ![l] = [event |-> event, project |-> project, wanted |-> wanted, tried |-> {}, left |-> rows]]

\* A POST that is answered, refused, or that fails: it is logged.
Send(l, c) == job' = [job EXCEPT ![l].left = Tail(@), ![l].tried = @ \cup {c}]

SendSlack(l, c) == kind[c] = "slack" /\ Send(l, c)
SendDiscord(l, c) == kind[c] = "discord" /\ Send(l, c)
SendWebhook(l, c) == kind[c] = "webhook" /\ Send(l, c)
\* Without a request for an event that makes no issue, such as heartbeat_missed.
SendGitHub(l, c) == kind[c] = "github" /\ Send(l, c)

\* Defect: a failure ends the dispatch.
DeliversOrStops(l) ==
  /\ job[l] # Nothing /\ job[l].left # <<>>
  /\ \/ Send(l, Head(job[l].left))
     \/ job' = [job EXCEPT ![l].left = <<>>]
  /\ UNCHANGED <<kind, now, tables, channels, todo, scan, told, changes, drifts>>

Delivers(l) ==
  /\ job[l] # Nothing /\ job[l].left # <<>>
  /\ LET c == Head(job[l].left) IN SendSlack(l, c) \/ SendDiscord(l, c) \/ SendWebhook(l, c) \/ SendGitHub(l, c)
  /\ UNCHANGED <<kind, now, tables, channels, todo, scan, told, changes, drifts>>

Dispatched(l) ==
  /\ job[l] # Nothing /\ job[l].left = <<>>
  /\ job' = [job EXCEPT ![l] = Nothing]
  /\ UNCHANGED <<kind, now, tables, channels, todo, scan, told, changes, drifts>>
-----------------------------------------------------------------------------
(* Heartbeats.                                                             *)

RecordHeartbeat(a, p) ==
  /\ last_heartbeat' = [last_heartbeat EXCEPT ![a] = now] /\ agent_project' = [agent_project EXCEPT ![a] = p]
  /\ alerted' = alerted \ {a} /\ told' = [told EXCEPT ![a] = 0]
  /\ UNCHANGED <<kind, now, channels, todo, scan, job, changes, drifts>>

\* list(_last_heartbeat.items())
ScanStarts ==
  /\ scan = Nothing /\ scan' = now
  /\ \E agents \in SetToSeqs({a \in Agents : last_heartbeat[a] # Nothing}) :
       todo' = [todo EXCEPT !["heartbeat"] = [i \in DOMAIN agents |-> [agent |-> agents[i], last |-> last_heartbeat[agents[i]]]]]
  /\ UNCHANGED <<kind, now, tables, channels, job, told, changes, drifts>>

Missed(entry) == scan - entry.last > Timeout /\ entry.agent \notin alerted

\* The agent is noted first; reading its channels may fail, and then none hears of it.
Looks ==
  LET a == Head(todo["heartbeat"]).agent IN
  /\ scan # Nothing /\ job["heartbeat"] = Nothing /\ todo["heartbeat"] # <<>>
  /\ todo' = [todo EXCEPT !["heartbeat"] = Tail(@)]
  /\ IF Missed(Head(todo["heartbeat"]))
     THEN /\ alerted' = alerted \cup {a} /\ told' = [told EXCEPT ![a] = @ + 1]
          /\ Dispatch("heartbeat", "heartbeat_missed", agent_project[a]) \/ UNCHANGED job
     ELSE UNCHANGED <<alerted, told, job>>
  /\ UNCHANGED <<kind, now, last_heartbeat, agent_project, channels, scan, changes, drifts>>

ScanEnds ==
  /\ scan # Nothing /\ todo["heartbeat"] = <<>> /\ job["heartbeat"] = Nothing /\ scan' = Nothing
  /\ UNCHANGED <<kind, now, tables, channels, todo, job, told, changes, drifts>>
-----------------------------------------------------------------------------
(* Drift.                                                                  *)

VigilTicks ==
  /\ todo["vigil"] = <<>> /\ job["vigil"] = Nothing /\ drifts < MaxDrifts /\ drifts' = drifts + 1
  /\ \E drifted \in SUBSET Agents \ {{}} : \E agents \in SetToSeqs(drifted) : todo' = [todo EXCEPT !["vigil"] = agents]
  /\ UNCHANGED <<kind, now, tables, channels, scan, job, told, changes>>

\* Some project that has spans of an agent of that name; an error drops the
\* alerts that are left.
VigilAlerts ==
  /\ job["vigil"] = Nothing /\ todo["vigil"] # <<>>
  /\ \/ /\ \E p \in ProjectsOf[Head(todo["vigil"])] : Dispatch("vigil", "behavioral_drift", p)
        /\ todo' = [todo EXCEPT !["vigil"] = Tail(@)]
     \/ todo' = [todo EXCEPT !["vigil"] = <<>>] /\ UNCHANGED job
  /\ UNCHANGED <<kind, now, tables, channels, scan, told, changes, drifts>>
-----------------------------------------------------------------------------
Rows == {[enabled |-> e, events |-> s] : e \in BOOLEAN, s \in {{}, {"behavioral_drift"}}}

Next ==
  \/ Tick \/ ScanStarts \/ Looks \/ ScanEnds \/ VigilTicks \/ VigilAlerts
  \/ \E a \in Agents : \E p \in ProjectsOf[a] : RecordHeartbeat(a, p)
  \/ \E l \in Loops : Delivers(l) \/ Dispatched(l)
  \/ \E c \in Channels : DeleteChannel(c) \/ \E row \in Rows : CreateChannel(c, row) \/ UpdateChannel(c, row)

Spec == Init /\ [][Next]_vars
-----------------------------------------------------------------------------
\* A silence is told once, though the monitor works on what it read before it
\* waited for the channels: an agent that was silent when the tick began, and has
\* not been heard of since, is told of when the tick is through, and not again
\* before it is heard.
SilenceIsToldOnce ==
  \A a \in Agents :
    /\ told[a] <= 1
    /\ scan # Nothing /\ todo["heartbeat"] = <<>> /\ last_heartbeat[a] # Nothing /\ scan - last_heartbeat[a] > Timeout
       => told[a] = 1

\* A channel that fails does not keep an alert from the others.
EachChannelIsTried == \A l \in Loops : job[l] # Nothing /\ job[l].left = <<>> => job[l].tried = job[l].wanted

AlertsAreGiven == SilenceIsToldOnce /\ EachChannelIsTried
=============================================================================
