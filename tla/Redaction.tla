------------------------------ MODULE Redaction ------------------------------
(***************************************************************************)
(* What a batch of spans leaves behind of the personal data and the keys   *)
(* in its attributes (receiver/redaction.py, credential_patterns.py), by   *)
(* the settings of its project, which may change while it is ingested.     *)
(*                                                                         *)
(* A span has one attribute that matters.  Of its value the model keeps    *)
(* whether it is text and which patterns match it; what one pattern has    *)
(* replaced no later one matches.                                          *)
(***************************************************************************)
EXTENDS Integers, Sequences, FiniteSetsExt

CONSTANTS
  Batches,     \* sequences of spans, of which one is sent
  Settings,    \* the rows of settings that are looked at
  MaxChanges,  \* bound: of the settings
  Nothing

\* In the order in which the patterns are tried; three entities stand for eleven.
Stages == <<"base64", "credential", "API_KEY", "CREDIT_CARD", "PHONE_NUMBER", "custom">>
Entities == {"API_KEY", "CREDIT_CARD", "PHONE_NUMBER", "custom"}
Patterns == {Stages[i] : i \in DOMAIN Stages}
Validated == {"CREDIT_CARD"}
ValueActions == {"redact", "mask", "hash"}
KeyActions == ValueActions \cup {"delete"}

\* valid: a validator accepts the match; policy: the action of the one it matches.
Span == [key : STRING, text : BOOLEAN, hits : SUBSET Patterns, valid : BOOLEAN,
         policy : {"none", "log", "alert", "require_approval"}]

\* The columns are JSON: an action may be none of those, or no string at all ("odd").
Row == [enabled : BOOLEAN, strategy : ValueActions \cup {"missing", "unknown", "odd"},
        keys : KeyActions \cup {"none", "unknown"}, key : STRING, allowlist : SUBSET STRING, regex : {"none", "good", "bad"}]
Config == [enabled : BOOLEAN, strategy : ValueActions, keys : KeyActions \cup {"none"}, key : STRING,
           allowlist : SUBSET STRING, custom : BOOLEAN]

RedactionAssumption == Settings \subseteq Row /\ Batches \subseteq Seq(Span) /\ MaxChanges \in Nat

VARIABLES
  settings,  \* the row of the project, or Nothing
  spans,     \* of the batch
  request,   \* to ingest: how far it is, the config it loaded
  rows,      \* what it writes: the spans' attributes,
  hooks,     \* the payloads of alerts,
  asks,      \* the arguments in approvals
  read,      \* history: the settings it loaded
  changed

vars == <<settings, spans, request, rows, hooks, asks, read, changed>>

Outs == [kept : BOOLEAN, raw : BOOLEAN, as : ValueActions]
Raw == [kept |-> TRUE, raw |-> TRUE, as |-> "redact"]
Dropped == [kept |-> FALSE, raw |-> FALSE, as |-> "redact"]
Treated(action) == [kept |-> TRUE, raw |-> FALSE, as |-> action]

Init ==
  /\ settings \in Settings \cup {Nothing} /\ spans \in Batches
  /\ request = [at |-> "start", next |-> 1, config |-> Nothing]
  /\ rows = {} /\ hooks = {} /\ asks = {} /\ read = Nothing /\ changed = 0
-----------------------------------------------------------------------------
(* The config.                                                             *)

Disabled == [enabled |-> FALSE, strategy |-> "redact", keys |-> "none", key |-> "", allowlist |-> {}, custom |-> FALSE]

\* Unknown actions are dropped, for the default; a regex that does not compile is skipped.
ValidStrategy(s) == IF s \in ValueActions THEN s ELSE "redact"
ValidKeyActions(k) == IF k \in KeyActions THEN k ELSE "none"
CompileCustomPatterns(row) == row.regex = "good"

LoadRedactionConfig(row) ==
  IF row = Nothing THEN Disabled
  ELSE IF ~row.enabled THEN Disabled
  ELSE [enabled |-> TRUE, strategy |-> ValidStrategy(row.strategy), keys |-> ValidKeyActions(row.keys), key |-> row.key,
        allowlist |-> row.allowlist, custom |-> CompileCustomPatterns(row)]

\* To look up an action that is no string raises what the load does not catch.
Raises(row) == row # Nothing /\ row.enabled /\ row.strategy = "odd"
-----------------------------------------------------------------------------
(* One value.                                                              *)

\* A chunk is only ever taken out whole, or left.
RescanReplaces(config) == config.strategy = "redact"

Replaces(stage, s, config) ==
  /\ stage \in s.hits
  /\ stage \in Validated => s.valid
  /\ stage = "custom" => config.custom
  /\ stage = "base64" => RescanReplaces(config)

\* Of base64 and of credentials, whatever the strategy, a placeholder.
ApplyValueAction(stage, config) == Treated(IF stage \in Entities THEN config.strategy ELSE "redact")

RedactString(s, config) ==
  LET hits == {i \in DOMAIN Stages : Replaces(Stages[i], s, config)}
  IN IF hits = {} THEN Raw ELSE ApplyValueAction(Stages[Min(hits)], config)

RedactAttributes(s, config) ==
  LET action == IF s.key = config.key THEN config.keys ELSE "none" IN
  CASE ~config.enabled -> Raw
    [] config.enabled /\ config.allowlist # {} /\ s.key \notin config.allowlist -> Dropped
    [] config.enabled /\ (config.allowlist = {} \/ s.key \in config.allowlist) ->
         IF action = "delete" THEN Dropped
         ELSE IF ~s.text THEN Raw
         ELSE IF action # "none" THEN Treated(action)
         ELSE RedactString(s, config)
-----------------------------------------------------------------------------
(* The request.                                                            *)

\* "proceeding without redaction"
Load ==
  /\ request.at = "start"
  /\ request' = [request EXCEPT !.at = "spans", !.config = IF Raises(settings) THEN Disabled ELSE LoadRedactionConfig(settings)]
  /\ read' = settings
  /\ UNCHANGED <<settings, spans, rows, hooks, asks, changed>>

\* The next span; policies look at what it had.  One that no policy matches may be
\* left out by sampling.
Takes(config) ==
  LET s == spans[request.next]
      out == [span |-> request.next, out |-> RedactAttributes(s, config)]
  IN
  /\ request.at = "spans" /\ request.next <= Len(spans)
  /\ request' = [request EXCEPT !.next = @ + 1]
  /\ rows' \in {rows \cup {out}} \cup (IF s.policy = "none" THEN {rows} ELSE {})
  /\ hooks' = IF s.policy = "alert" THEN hooks \cup {out} ELSE hooks
  /\ asks' = IF s.policy = "require_approval" THEN asks \cup {[span |-> request.next, out |-> Raw]} ELSE asks
  /\ UNCHANGED <<settings, spans, read, changed>>

\* Defect: each span by the settings of the moment.
TakeAfresh == Takes(LoadRedactionConfig(settings))

Take == Takes(request.config)

Commit ==
  /\ request.at = "spans" /\ request.next > Len(spans)
  /\ request' = [request EXCEPT !.at = "over"]
  /\ UNCHANGED <<settings, spans, rows, hooks, asks, read, changed>>

\* A statement that fails takes the transaction with it, the load's too.
Fails ==
  /\ request.at # "over" /\ request' = [request EXCEPT !.at = "over"]
  /\ rows' = {} /\ hooks' = {} /\ asks' = {}
  /\ UNCHANGED <<settings, spans, read, changed>>

UpdateSettings(row) ==
  /\ changed < MaxChanges /\ changed' = changed + 1
  /\ settings' = row /\ row # settings
  /\ UNCHANGED <<spans, request, rows, hooks, asks, read>>

Next == Load \/ Take \/ Commit \/ Fails \/ \E row \in Settings : UpdateSettings(row)

Spec == Init /\ [][Next]_vars
-----------------------------------------------------------------------------
TypeOK ==
  /\ \A x \in rows \cup hooks \cup asks : x.span \in DOMAIN spans /\ x.out \in Outs
  /\ request.at \in {"start", "spans", "over"} /\ request.config \in Config \cup {Nothing} /\ changed \in 0..MaxChanges

\* What the settings promise of a span: nothing that is not on the list or is to be
\* deleted, no text that a pattern of theirs matches, and the action they name.
\* Base64 is left when the strategy says another action than the default.
Promised(s, row, out) ==
  LET listed == row.allowlist = {} \/ s.key \in row.allowlist
      named == s.key = row.key /\ row.keys \in KeyActions
      counts == {h \in s.hits : /\ h \in Validated => s.valid
                                /\ h = "custom" => row.regex = "good"
                                /\ h = "base64" => row.strategy \notin {"mask", "hash"}}
  IN
  /\ out.kept <=> (listed /\ ~(named /\ row.keys = "delete"))
  /\ out.raw /\ s.text => ~named /\ counts = {}
  /\ out.kept /\ ~out.raw /\ named => out.as = row.keys
  /\ out.kept /\ ~out.raw /\ ~named =>
       out.as = "redact" \/ (out.as = row.strategy /\ counts \cap Entities # {} /\ counts \cap {"base64", "credential"} = {})

\* "Neither the spans table nor the webhook payload ever carries the raw PII": every
\* span of a batch is treated as the settings promised when it began, whatever they
\* became since, and the alerts carry what the rows do; but where settings are off, or
\* no row, or odd.
RawStaysOut ==
  /\ read # Nothing => (read.enabled /\ ~Raises(read) =>
       \A x \in rows \cup hooks : Promised(spans[x.span], read, x.out))
  /\ hooks \subseteq rows

\* Violated (README, 4).  "neither downstream consumer ever sees the original PII"
AsksAreRedacted ==
  read # Nothing => (read.enabled /\ ~Raises(read) => \A x \in asks : Promised(spans[x.span], read, x.out))
=============================================================================
