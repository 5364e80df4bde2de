------------------------------ MODULE Listings ------------------------------
(***************************************************************************)
(* The lists of the API that are read page by page: spans, traces, audit   *)
(* events and webhook deliveries.  A client walks one of them while its    *)
(* table changes: each page is a query of its own, and all it takes from   *)
(* one to the next is the cursor.  By default the rows come newest first   *)
(* and the cursor is the last row's key; spans and traces may be sorted by *)
(* a column, and the cursor is then an offset.                             *)
(***************************************************************************)
EXTENDS Integers, Sequences, SequencesExt, FiniteSets

CONSTANTS
  Lists,       \* of {"spans", "traces", "events", "deliveries"}
  Ids,         \* of rows, given once; the key of a row is its time and its id
  Times,
  Vals,        \* of the column that is sorted by or filtered on: it changes
  Cap,         \* the most rows on a page
  MaxChanges,  \* bound: of the table's changes under a walk
  Nothing

\* What the client has of the page before: nothing, a row's key, or an offset.
Cursor == {Nothing} \cup [t : Times, id : Ids] \cup [o : Nat]

ListingsAssumption ==
  /\ IsFiniteSet(Ids) /\ Ids \cup Times \cup Vals \subseteq Nat /\ Cap \in Nat \ {0} /\ MaxChanges \in Nat
  /\ Nothing \notin [t : Times, id : Ids] \cup [o : Nat] \cup [page : Seq(Ids), next : Cursor]

VARIABLES
  list,        \* the one that is walked
  table,       \* [Ids -> Stored, or New or Gone]
  walk,        \* the client's: what it asks for, the cursor it has, how it stands
  got,         \* [Ids -> Nat]: how often it has been given a row
  steady,      \* history: the rows the walk was to show when it began, and at all times since
  moved        \* history: how often the table changed under the walk

vars == <<list, table, walk, got, steady, moved>>

Stored == [is : {"stored"}, t : Times, v : Vals]
New == [is |-> "new", t |-> 0, v |-> 0]
Gone == [is |-> "gone", t |-> 0, v |-> 0]
Sorts == {"none", "unknown", "asc", "desc"}
Sortable == {"spans", "traces"}
Walk == [sort : Sorts, want : Vals \cup {Nothing}, cursor : Cursor,
         state : {"walking", "over", "refused"}]

\* A condition on the changing column, if the list offers one: of spans, traces and
\* deliveries; what an audit filter looks at does not change.
Matches(i) == table[i].is = "stored" /\ (walk.want = Nothing \/ table[i].v = walk.want)

TypeOK ==
  /\ list \in Lists /\ table \in [Ids -> Stored \cup {New, Gone}] /\ walk \in Walk
  /\ got \in [Ids -> Nat] /\ steady \subseteq Ids /\ moved \in 0..MaxChanges

Init ==
  /\ list \in Lists /\ table \in [Ids -> Stored \cup {New}]
  /\ \E s \in (IF list \in Sortable THEN Sorts ELSE {"none"}), w \in {Nothing} \cup Vals :
       walk = [sort |-> s, want |-> w, cursor |-> Nothing, state |-> "walking"]
  /\ got = [i \in Ids |-> 0] /\ steady = {i \in Ids : Matches(i)} /\ moved = 0
-----------------------------------------------------------------------------
(* The queries.                                                            *)

ParseSort(sort) == [column |-> sort \in {"asc", "desc"}, descending |-> sort # "asc"]

\* ORDER BY, over rows of which no two are alike.
InOrder(rows, before(_, _)) == CHOOSE s \in SetToSeqs(rows) : \A k, l \in DOMAIN s : k < l => before(s[k], s[l])

Newer(i, j) == table[i].t > table[j].t \/ (table[i].t = table[j].t /\ i > j)

\* Defect: a row's own time is beyond it.
BeyondTime(i, c) == table[i].t < c.t

\* (time, id) < (:time, :id)
Beyond(i, c) == table[i].t < c.t \/ (table[i].t = c.t /\ i < c.id)

Upto(rows, n) == SubSeq(rows, 1, IF n > Len(rows) THEN Len(rows) ELSE n)

\* A page and whether there is more, of the sorted rows: one too many is asked for.
Fetch(sorted, offset, limit) ==
  LET rows == Upto(SubSeq(sorted, offset + 1, Len(sorted)), limit + 1)
  IN [page |-> Upto(rows, limit), more |-> Len(rows) > limit]

Clamp(limit) == IF limit < 1 THEN 1 ELSE IF limit > Cap THEN Cap ELSE limit

Remaining == InOrder({i \in Ids : Matches(i) /\ (walk.cursor = Nothing \/ Beyond(i, walk.cursor))}, Newer)

ByKey(limit) ==
  LET f == Fetch(Remaining, 0, limit)
  IN [page |-> f.page, next |-> IF f.more THEN [t |-> table[Last(f.page)].t, id |-> Last(f.page)] ELSE Nothing]

Lower(i, j) == table[i].v < table[j].v \/ (table[i].v = table[j].v /\ i < j)

InColumn(descending) ==
  LET Before(i, j) == IF descending THEN Lower(j, i) ELSE Lower(i, j)
  IN InOrder({i \in Ids : Matches(i)}, Before)

ByOffset(limit, descending) ==
  LET offset == IF walk.cursor = Nothing THEN 0 ELSE walk.cursor.o
      f == Fetch(InColumn(descending), offset, limit)
  IN [page |-> f.page, next |-> IF f.more THEN [o |-> offset + limit] ELSE Nothing]

\* _decode_cursor: a cursor of the other kind has none of the fields.
Readable(fields) == walk.cursor = Nothing \/ DOMAIN walk.cursor = fields

ListSpans(limit) ==
  LET sorted == ParseSort(walk.sort)
  IN CASE sorted.column /\ Readable({"o"}) -> ByOffset(Clamp(limit), sorted.descending)
       [] ~sorted.column /\ Readable({"t", "id"}) -> ByKey(Clamp(limit))
       [] OTHER -> Nothing

\* The same statements, over the other table.
ListTraces(limit) == ListSpans(limit)
ListEvents(limit) == ByKey(Clamp(limit))
ListDeliveries(limit) == ByKey(Clamp(limit))
-----------------------------------------------------------------------------
(* The requests of the client.                                             *)

Asks(name) == list = name /\ walk.state = "walking"

\* 400 for a cursor that cannot be read.
Given(answer) ==
  IF answer = Nothing THEN walk' = [walk EXCEPT !.state = "refused"] /\ UNCHANGED got
  ELSE /\ walk' = [walk EXCEPT !.cursor = answer.next, !.state = IF answer.next = Nothing THEN "over" ELSE "walking"]
       /\ got' = [i \in Ids |-> got[i] + Cardinality({k \in DOMAIN answer.page : answer.page[k] = i})]

\* The routes take a limit of 1 and more, up to the cap.
SpansEndpoint(limit) ==
  /\ Asks("spans") /\ limit \in 1..Cap /\ Given(ListSpans(limit))
  /\ UNCHANGED <<list, table, steady, moved>>

TracesEndpoint(limit) ==
  /\ Asks("traces") /\ limit \in 1..Cap /\ Given(ListTraces(limit))
  /\ UNCHANGED <<list, table, steady, moved>>

\* The reading of audit events is an audit event (but in a table that is full).
EventsEndpoint(limit) ==
  /\ Asks("events") /\ limit \in 1..Cap /\ Given(ListEvents(limit))
  /\ \/ \E i \in Ids, row \in Stored : table[i] = New /\ table' = [table EXCEPT ![i] = row]
     \/ (\A i \in Ids : table[i] # New) /\ UNCHANGED table
  /\ UNCHANGED <<list, steady, moved>>

\* This route takes any limit, and cuts it.
DeliveriesEndpoint(limit) ==
  /\ Asks("deliveries") /\ Given(ListDeliveries(limit))
  /\ UNCHANGED <<list, table, steady, moved>>

\* The client asks for another order with the cursor it has, one of the other kind.
Resort(sort) ==
  /\ walk.state = "walking" /\ walk.cursor # Nothing /\ list \in Sortable
  /\ ParseSort(walk.sort).column = (DOMAIN walk.cursor = {"o"})
  /\ ParseSort(sort).column # ParseSort(walk.sort).column
  /\ walk' = [walk EXCEPT !.sort = sort]
  /\ UNCHANGED <<list, table, got, steady, moved>>
-----------------------------------------------------------------------------
(* The table, meanwhile.                                                   *)

Changes(i, row) ==
  /\ walk.state = "walking" /\ moved < MaxChanges /\ moved' = moved + 1
  /\ table' = [table EXCEPT ![i] = row]
  /\ UNCHANGED <<list, walk, got>>

\* Any time: of a client's span, or of a transaction that began before others did.
Insert(i, row) == table[i] = New /\ Changes(i, row) /\ UNCHANGED steady

\* A span or a delivery ends, a trace's roll-up changes: never the key.
Update(i, v) ==
  /\ table[i].is = "stored" /\ list # "events" /\ table[i].v # v
  /\ Changes(i, [table[i] EXCEPT !.v = v])
  /\ steady' = IF walk.want = Nothing THEN steady ELSE steady \ {i}

\* By retention, or with the policy of a delivery.
Delete(i) ==
  /\ table[i].is = "stored" /\ list # "events"
  /\ Changes(i, Gone)
  /\ steady' = steady \ {i}

Next ==
  \/ \E limit \in 0..Cap + 1 : SpansEndpoint(limit) \/ TracesEndpoint(limit) \/ EventsEndpoint(limit) \/ DeliveriesEndpoint(limit)
  \/ \E sort \in Sorts : Resort(sort)
  \/ \E i \in Ids : Delete(i) \/ (\E row \in Stored : Insert(i, row)) \/ (\E v \in Vals : Update(i, v))

Spec == Init /\ [][Next]_vars
-----------------------------------------------------------------------------
\* "Stable across concurrent inserts; never skips or double-returns rows": a walk by
\* key gives no row twice, and when it is over it has given each that was there, and
\* matched, all the time; one by offset only as long as the table does not change.
WalksAreWhole ==
  (~ParseSort(walk.sort).column /\ Readable({"t", "id"})) \/ moved = 0 =>
    /\ \A i \in Ids : got[i] <= 1
    /\ walk.state = "over" => \A i \in steady : got[i] = 1
=============================================================================
