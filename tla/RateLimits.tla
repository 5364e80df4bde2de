------------------------------ MODULE RateLimits ------------------------------
(***************************************************************************)
(* The limits of a receiver process on requests (receiver/rate_limit.py):  *)
(* a bucket of tokens for each client of the API, for each address that    *)
(* registers, and one for all registrations.  A bucket that is idle is     *)
(* dropped, and a new one is full.                                         *)
(*                                                                         *)
(* A request passes its limits one after another.  No step of one is       *)
(* interrupted: the locks are free whenever the event loop gets to them.   *)
(***************************************************************************)
EXTENDS Integers, Sequences

CONSTANTS
  Clients,
  Capacity, Rate,  \* [Stores -> Nat]: in tokens; in parts of a token a second
  Per,             \* the parts of a token
  PruneInterval, IdleTimeout,
  MaxTime, MaxRequests,  \* bounds
  Nothing

Stores == {"api", "login", "register_global"}

\* A bucket that is idle for longer than the timeout has filled up: so it is by
\* default (2, 60 and 60 seconds; 300), not with a login window above the timeout.
RateLimitsAssumption ==
  /\ Capacity \in [Stores -> Nat \ {0}] /\ Rate \in [Stores -> Nat \ {0}] /\ Per \in Nat \ {0}
  /\ PruneInterval \in Nat \ {0} /\ MaxTime \in Nat /\ PruneInterval <= MaxTime /\ MaxRequests \in Nat
  /\ IdleTimeout \in Nat /\ Nothing \notin [tokens : Nat, at : Nat]
  /\ \A s \in Stores : IdleTimeout * Rate[s] >= Capacity[s] * Per

Global == [store |-> "register_global", of |-> Nothing]
Buckets == [store : {"api", "login"}, of : Clients] \cup {Global}
Bucket(store, c) == [store |-> store, of |-> c]

VARIABLES
  clock,
  buckets,   \* [Buckets -> Nothing, or its tokens, in parts, and when it was last used]
  pruned,    \* [Stores -> time]: _last_prune_at
  pending,   \* [Clients -> sequence of buckets]: the limits its request has still to pass
  passed,    \* history: [Buckets -> [time -> how many passed until then]]
  promised,  \* history: [Buckets -> Nothing, or when the last refusal said to retry]
  requests

vars == <<clock, buckets, pruned, pending, passed, promised, requests>>

Times == 0..MaxTime

TypeOK ==
  /\ clock \in Times /\ pruned \in [Stores -> Times] /\ pending \in [Clients -> Seq(Buckets)]
  /\ \A b \in Buckets : buckets[b] # Nothing => buckets[b].tokens \in 0..Capacity[b.store] * Per /\ buckets[b].at \in Times
  /\ passed \in [Buckets -> [Times -> Nat]] /\ requests \in 0..MaxRequests

Init ==
  /\ clock = PruneInterval /\ buckets = [b \in Buckets |-> Nothing] /\ pruned = [s \in Stores |-> 0]
  /\ pending = [c \in Clients |-> <<>>] /\ passed = [b \in Buckets |-> [t \in Times |-> 0]]
  /\ promised = [b \in Buckets |-> Nothing] /\ requests = 0

Tick == clock < MaxTime /\ clock' = clock + 1 /\ UNCHANGED <<buckets, pruned, pending, passed, promised, requests>>
-----------------------------------------------------------------------------
NewBucket(b) == [tokens |-> Capacity[b.store] * Per, at |-> clock]

Least(a, b) == IF a < b THEN a ELSE b

Refilled(b, old) == Least(Capacity[b.store] * Per, old.tokens + (clock - old.at) * Rate[b.store])

\* Defect: what a refusal found in the bucket is refilled again.
PaidTwice(b, old) ==
  LET tokens == Refilled(b, old)
  IN IF tokens >= Per THEN [tokens |-> tokens - Per, at |-> clock] ELSE [tokens |-> tokens, at |-> old.at]

\* TokenBucket.consume
Paid(b, old) ==
  LET tokens == Refilled(b, old)
  IN [tokens |-> IF tokens >= Per THEN tokens - Per ELSE tokens, at |-> clock]

Allows(b, old) == Refilled(b, old) >= Per

\* In whole seconds, rounded up.
RetryAfter(b, old) == (Per - Refilled(b, old) + Rate[b.store] - 1) \div Rate[b.store]

Stale(b) == buckets[b] # Nothing /\ clock - buckets[b].at > IdleTimeout

\* RateLimiterStore.consume
Consume(b, c) ==
  LET old == IF buckets[b] = Nothing THEN NewBucket(b) ELSE buckets[b]
      prunes == clock - pruned[b.store] >= PruneInterval
  IN
  /\ buckets' = [x \in Buckets |-> IF x = b THEN Paid(b, old)
                                   ELSE IF prunes /\ x.store = b.store /\ Stale(x) THEN Nothing ELSE buckets[x]]
  /\ pruned' = IF prunes THEN [pruned EXCEPT ![b.store] = clock] ELSE pruned
  /\ IF Allows(b, old) THEN passed' = [passed EXCEPT ![b] = [t \in Times |-> IF t < clock THEN @[t] ELSE @[t] + 1]] /\ promised' = [promised EXCEPT ![b] = Nothing]
     ELSE promised' = [promised EXCEPT ![b] = clock + RetryAfter(b, old)] /\ UNCHANGED passed
  /\ pending' = [pending EXCEPT ![c] = IF Allows(b, old) THEN Tail(@) ELSE <<>>]
-----------------------------------------------------------------------------
Arrives(c, limits) ==
  /\ pending[c] = <<>> /\ requests < MaxRequests /\ requests' = requests + 1
  /\ pending' = [pending EXCEPT ![c] = limits]
  /\ UNCHANGED <<clock, buckets, pruned, passed, promised>>

Request(c) == Arrives(c, <<Bucket("api", c)>>)

\* The cap on all registrations comes before the one on the address.
Register(c) == Arrives(c, <<Bucket("api", c), Global, Bucket("login", c)>>)

\* The middleware: 429 when its bucket is empty, before the endpoint sees the request.
Dispatch(c) ==
  /\ pending[c] # <<>> /\ Head(pending[c]).store = "api"
  /\ Consume(Head(pending[c]), c) /\ UNCHANGED <<clock, requests>>

\* _rate_limit, and the endpoint's own.
RateLimit(c) ==
  /\ pending[c] # <<>> /\ Head(pending[c]).store = "login"
  /\ Consume(Head(pending[c]), c) /\ UNCHANGED <<clock, requests>>

RateLimitGlobal(c) ==
  /\ pending[c] # <<>> /\ Head(pending[c]) = Global
  /\ Consume(Global, c) /\ UNCHANGED <<clock, requests>>

Next == Tick \/ \E c \in Clients : Request(c) \/ Register(c) \/ Dispatch(c) \/ RateLimit(c) \/ RateLimitGlobal(c)

Spec == Init /\ [][Next]_vars
-----------------------------------------------------------------------------
\* However requests come, whatever buckets are dropped and made anew: between any two
\* times no more pass than a full bucket and what it gained in between; and who comes
\* when a refusal said, and not before, passes, unless others spent the tokens.
LimitsKept ==
  \A b \in Buckets :
    /\ \A t \in 1..clock : LET n == passed[b][clock] - passed[b][t - 1]
                            IN Per * n <= Per * Capacity[b.store] + (clock - t) * Rate[b.store]
    /\ promised[b] # Nothing =>
         buckets[b] = Nothing \/ buckets[b].tokens + (promised[b] - buckets[b].at) * Rate[b.store] >= Per
=============================================================================
