------------------------------ MODULE RateLimit ------------------------------
(***************************************************************************)
(* platform_core/security/ratelimit: RateLimitMiddleware.process_request   *)
(* over the active rules, in order of priority, for requests that share an *)
(* identifier, and the three backends that count them: the sliding window  *)
(* (a sorted set in Redis), the token bucket (a JSON value in Redis) and   *)
(* the fixed window (a counter in Django's cache).                         *)
(*                                                                         *)
(* Requests run in worker threads.  Every call of Redis or of the cache is *)
(* one step, and so is every reading of the clock; a worker is at most     *)
(* MaxDelay ticks between two of its steps.  A tick is one unit of the     *)
(* window; the instants inside a tick are the fractions of time.time().    *)
(* Tokens are counted in units of 1/Window, which makes the refill exact.  *)
(***************************************************************************)
EXTENDS Integers, Sequences, FiniteSets

CONSTANTS
  Backends,    \* settings.RATELIMIT_BACKEND is one of them
  Workers,     \* the threads that serve requests of the same identifier
  Rules,       \* the rules that apply to these requests
  Order,       \* ... by decreasing priority
  LogOnly,     \* the rules whose action is 'log_only'
  Policies,    \* rule -> the limits it may have: its own, or the user's custom ones
  Window,      \* the window, in ticks
  Fractions,   \* the instants inside one tick
  MaxDelay,    \* bound: ticks between two steps of a worker
  MaxTime      \* bound: the last tick

None == 0      \* burst_limit is null (or 0: the code tests its truth)

ASSUME RateAssumption ==
  /\ Backends \subseteq {"sliding_window", "token_bucket", "fixed_window"}
  /\ Order \in Seq(Rules)
  /\ LogOnly \subseteq Rules
  /\ Policies \in [Rules -> SUBSET [limit : Nat, burst : Nat]]
  /\ \A r \in Rules : Policies[r] # {}
  /\ Window \in Nat \ {0} /\ Fractions \in Nat \ {0}
  /\ MaxDelay \in Nat /\ MaxTime \in Nat

VARIABLES
  backend,     \* the backend in use
  now,         \* the clock
  entries,     \* rule -> the members of its sorted set: the instants recorded
  bucket,      \* rule -> its bucket
  counter,     \* rule -> window start -> its counter
  check,       \* where each worker's request is
  used,        \* worker -> the last instant it has read
  admitted,    \* history: the requests each rule has let through
  overlapped,  \* history: the rules two checks of which have overlapped
  skipped      \* history: the rules not checked because a log_only rule was exceeded

store == <<entries, bucket, counter>>
vars == <<backend, now, entries, bucket, counter, check, used, admitted, overlapped, skipped>>

Times == 0..MaxTime
Instants == Times \X (1..Fractions)
NoInstant == <<0, 0>>
Tick(i) == i[1]

NoBucket == [tokens |-> 0, last |-> 0, until |-> 0]
NoCount == [n |-> 0, until |-> 0]
NoCheck == [at |-> "idle"]

(* Redis and the cache drop a key when its time is over. *)
Alive(x) == now < x.until

Limits == [limit : Nat, burst : Nat]
Buckets == [tokens : Nat, last : Times, until : Nat]

AtRules == [at : {"rule"}, turn : Nat \ {0}]
InCheck == [at : {"zset", "fetched", "stamped", "get", "incr", "set"}, turn : DOMAIN Order,
            since : Times, p : Limits, seen : Buckets]

TypeOK ==
  /\ backend \in Backends
  /\ now \in Times
  /\ entries \in [Rules -> SUBSET Instants]
  /\ bucket \in [Rules -> Buckets]
  /\ counter \in [Rules -> [Times -> [n : Nat, until : Nat]]]
  /\ check \in [Workers -> {NoCheck} \cup AtRules \cup InCheck]
  /\ used \in [Workers -> Instants \cup {NoInstant}]
  /\ admitted \in [Rules -> SUBSET [inst : Instants, at : Times, by : Workers]]
  /\ overlapped \in SUBSET Rules
  /\ skipped \in SUBSET Rules

Init ==
  /\ backend \in Backends
  /\ now = 0
  /\ entries = [r \in Rules |-> {}]
  /\ bucket = [r \in Rules |-> NoBucket]
  /\ counter = [r \in Rules |-> [w \in Times |-> NoCount]]
  /\ check = [c \in Workers |-> NoCheck]
  /\ used = [c \in Workers |-> NoInstant]
  /\ admitted = [r \in Rules |-> {}]
  /\ overlapped = {}
  /\ skipped = {}

-----------------------------------------------------------------------------
(* RateLimitMiddleware.process_request *)

(* The rule whose turn it is. *)
Rule(c) == Order[check[c].turn]
AtRule(c) == check[c].at = "rule" /\ check[c].turn \in DOMAIN Order

Request(c) ==
  /\ check[c] = NoCheck
  /\ check' = [check EXCEPT ![c] = [at |-> "rule", turn |-> 1]]
  /\ UNCHANGED <<backend, now, store, used, admitted, overlapped, skipped>>

(* The request goes on to the view. *)
AllRulesPassed(c) ==
  /\ check[c].at = "rule" /\ check[c].turn \notin DOMAIN Order
  /\ check' = [check EXCEPT ![c] = NoCheck]
  /\ UNCHANGED <<backend, now, store, used, admitted, overlapped, skipped>>

RulesAfter(c) == {Order[i] : i \in {j \in DOMAIN Order : j > check[c].turn}}

(* On to the next rule, or the answer of this one's action: 'throttle',     *)
(* 'block' and 'captcha' refuse the request, 'log_only' sends it to the     *)
(* view, but not past the rules that were still to be checked.              *)
Answer(c, allowed) ==
  IF allowed
  THEN /\ check' = [check EXCEPT ![c] = [at |-> "rule", turn |-> @.turn + 1]]
       /\ admitted' = [admitted EXCEPT ![Rule(c)] =
                         @ \cup {[inst |-> used[c], at |-> now, by |-> c]}]
       /\ UNCHANGED skipped
  ELSE /\ check' = [check EXCEPT ![c] = NoCheck]
       /\ skipped' = IF Rule(c) \in LogOnly THEN skipped \cup RulesAfter(c) ELSE skipped
       /\ UNCHANGED admitted

(* The check goes on: "p" are its limits, "seen" what it has read. *)
Goto(c, at, p, seen) ==
  check' = [check EXCEPT ![c] = [at |-> at, turn |-> @.turn, since |-> now,
                                 p |-> p, seen |-> seen]]

(* time.time() never gives the same thread the same instant twice. *)
ReadClock(c, i) ==
  /\ Tick(i) = now
  /\ Tick(used[c]) = now => i[2] > used[c][2]
  /\ used' = [used EXCEPT ![c] = i]

(* Two checks overlap when one reads the store before the other has written. *)
Overlap(c) ==
  overlapped' = overlapped \cup
    {r \in {Rule(c)} : \E d \in Workers \ {c} :
        check[d].at \in {"fetched", "stamped", "incr", "set"} /\ Rule(d) = r}

-----------------------------------------------------------------------------
(* SlidingWindowBackend *)

(* At most burst, or at most limit, requests BEFORE this one. *)
Allows(n, p) == (p.burst # None /\ n <= p.burst) \/ n <= p.limit

SlidingClock(c) ==
  /\ backend = "sliding_window" /\ AtRule(c)
  /\ \E p \in Policies[Rule(c)], i \in Instants : ReadClock(c, i) /\ Goto(c, "zset", p, NoBucket)
  /\ UNCHANGED <<backend, now, store, admitted, overlapped, skipped>>

Outside_Early(e, i) ==   \* mutant: entries are dropped half a window too soon
  Tick(e) <= Tick(i) - (Window \div 2)

(* The entry e is outside the window that ends at i. *)
Outside(e, i) ==
  \/ Tick(e) < Tick(i) - Window
  \/ Tick(e) = Tick(i) - Window /\ e[2] <= i[2]

Kept(c) == {e \in entries[Rule(c)] : ~Outside(e, used[c])}

(* The pipeline is a transaction: trim, count, add.  The expiry of the key  *)
(* drops nothing the next trim would keep.                                  *)
SlidingPipeline(c) ==
  /\ check[c].at = "zset"
  /\ entries' = [entries EXCEPT ![Rule(c)] = Kept(c) \cup {used[c]}]
  /\ Answer(c, Allows(Cardinality(Kept(c)), check[c].p))
  /\ UNCHANGED <<backend, now, bucket, counter, used, overlapped>>

-----------------------------------------------------------------------------
(* TokenBucketBackend *)

MaxTokens(p) == (IF p.burst # None THEN p.burst ELSE p.limit) * Window

TokenGet(c) ==
  /\ backend = "token_bucket" /\ AtRule(c)
  /\ \E p \in Policies[Rule(c)] :
       Goto(c, "fetched", p, IF Alive(bucket[Rule(c)]) THEN bucket[Rule(c)] ELSE NoBucket)
  /\ Overlap(c)
  /\ UNCHANGED <<backend, now, store, used, admitted, skipped>>

(* A missing bucket is a full one. *)
TokenClock(c) ==
  /\ check[c].at = "fetched"
  /\ \E i \in Instants : ReadClock(c, i)
  /\ Goto(c, "stamped", check[c].p, check[c].seen)
  /\ UNCHANGED <<backend, now, store, admitted, overlapped, skipped>>

Least(m, n) == IF m < n THEN m ELSE n

Refilled(c) ==
  LET p == check[c].p
      seen == check[c].seen
  IN IF seen.until = 0 THEN MaxTokens(p)
     ELSE Least(MaxTokens(p), seen.tokens + (Tick(used[c]) - seen.last) * p.limit)

TokenStore_KeepsLast(c) ==   \* mutant: last_refill is not brought forward
  /\ check[c].at = "stamped"
  /\ LET enough == Refilled(c) >= Window
         left == IF enough THEN Refilled(c) - Window ELSE Refilled(c)
     IN /\ bucket' = [bucket EXCEPT ![Rule(c)] =
                        [tokens |-> left, last |-> @.last, until |-> now + 2 * Window]]
        /\ Answer(c, enough)
  /\ UNCHANGED <<backend, now, entries, counter, used, overlapped>>

TokenStore_Overdraws(c) ==   \* mutant: the token is taken before the comparison
  /\ check[c].at = "stamped"
  /\ bucket' = [bucket EXCEPT ![Rule(c)] = [tokens |-> Refilled(c) - Window,
                                           last |-> Tick(used[c]), until |-> now + 2 * Window]]
  /\ Answer(c, Refilled(c) >= Window)
  /\ UNCHANGED <<backend, now, entries, counter, used, overlapped>>

TokenStore(c) ==
  /\ check[c].at = "stamped"
  /\ LET enough == Refilled(c) >= Window
         left == IF enough THEN Refilled(c) - Window ELSE Refilled(c)
     IN /\ bucket' = [bucket EXCEPT ![Rule(c)] =
                        [tokens |-> left, last |-> Tick(used[c]), until |-> now + 2 * Window]]
        /\ Answer(c, enough)
  /\ UNCHANGED <<backend, now, entries, counter, used, overlapped>>

-----------------------------------------------------------------------------
(* FixedWindowBackend *)

WindowStart(c) == Tick(used[c]) - (Tick(used[c]) % Window)
Counter(c) == counter[Rule(c)][WindowStart(c)]

FixedAllows_OffByOne(n, p) == (p.burst # None /\ n <= p.burst) \/ n <= p.limit   \* mutant

FixedAllows(n, p) == (p.burst # None /\ n < p.burst) \/ n < p.limit

FixedClock(c) ==
  /\ backend = "fixed_window" /\ AtRule(c)
  /\ \E p \in Policies[Rule(c)], i \in Instants : ReadClock(c, i) /\ Goto(c, "get", p, NoBucket)
  /\ UNCHANGED <<backend, now, store, admitted, overlapped, skipped>>

FixedGet(c) ==
  /\ check[c].at = "get"
  /\ LET n == IF Alive(Counter(c)) THEN Counter(c).n ELSE 0
     IN IF FixedAllows(n, check[c].p)
        THEN Goto(c, "incr", check[c].p, NoBucket) /\ UNCHANGED <<admitted, skipped>>
        ELSE Answer(c, FALSE)
  /\ Overlap(c)
  /\ UNCHANGED <<backend, now, store, used>>

(* cache.incr raises ValueError for a key that is not there ... *)
FixedIncr(c) ==
  /\ check[c].at = "incr"
  /\ IF Alive(Counter(c))
     THEN /\ counter' = [counter EXCEPT ![Rule(c)][WindowStart(c)].n = @ + 1]
          /\ Answer(c, TRUE)
     ELSE Goto(c, "set", check[c].p, NoBucket) /\ UNCHANGED <<counter, admitted, skipped>>
  /\ UNCHANGED <<backend, now, entries, bucket, used, overlapped>>

(* ... and the code sets it, whatever the others have counted since. *)
FixedSet(c) ==
  /\ check[c].at = "set"
  /\ counter' = [counter EXCEPT ![Rule(c)][WindowStart(c)] = [n |-> 1, until |-> now + Window]]
  /\ Answer(c, TRUE)
  /\ UNCHANGED <<backend, now, entries, bucket, used, overlapped>>

-----------------------------------------------------------------------------
(* No worker is kept waiting longer than MaxDelay between two steps. *)
PassTime ==
  /\ now < MaxTime
  /\ \A c \in Workers : check[c].at \notin {"idle", "rule"} => now < check[c].since + MaxDelay
  /\ now' = now + 1
  /\ UNCHANGED <<backend, store, check, used, admitted, overlapped, skipped>>

Next ==
  \/ PassTime
  \/ \E c \in Workers :
       \/ Request(c) \/ AllRulesPassed(c)
       \/ SlidingClock(c) \/ SlidingPipeline(c)
       \/ TokenGet(c) \/ TokenClock(c) \/ TokenStore(c)
       \/ FixedClock(c) \/ FixedGet(c) \/ FixedIncr(c) \/ FixedSet(c)

Spec == Init /\ [][Next]_vars

-----------------------------------------------------------------------------
Ceiling(p) == IF p.burst > p.limit THEN p.burst ELSE p.limit

(* The instants of the requests a rule has let through since time t. *)
InstantsSince(r, t) == {a.inst : a \in {b \in admitted[r] : b.at > t}}

(* Sliding window: however the checks of concurrent requests interleave, a  *)
(* rule lets requests of at most limit + 1 (or burst + 1) different instants *)
(* through in any stretch of the window's length, less the time a worker    *)
(* may lose between reading the clock and running the pipeline.  The one    *)
(* more is the request itself, which is counted after the comparison.       *)
SlidingBound ==
  backend = "sliding_window" =>
    \A r \in Rules : \E p \in Policies[r] :
      Cardinality(InstantsSince(r, now - (Window - MaxDelay))) <= Ceiling(p) + 1

(* Token bucket: as long as no two checks have overlapped, a rule lets at   *)
(* most a full bucket and one window's refill through in any window.  Users *)
(* with limits of their own share the bucket, so the bucket may be that of  *)
(* one policy and the refill that of another.                               *)
TokenBound ==
  backend = "token_bucket" =>
    \A r \in Rules \ overlapped : \E p, q \in Policies[r] :
      Cardinality({a \in admitted[r] : Tick(a.inst) > now - Window}) * Window
        <= MaxTokens(p) + (Window - 1) * q.limit

(* Fixed window: as long as no two checks have overlapped, a rule lets at   *)
(* most limit (or burst) requests through within each window of the clock.  *)
(* A request that is delayed past the end of the window its clock was read  *)
(* in may find the counter expired: only those answered in time count.      *)
WithinWindow(r, w) ==
  {a \in admitted[r] : {Tick(a.inst), a.at} \subseteq w..(w + Window - 1)}

FixedBound ==
  backend = "fixed_window" =>
    \A r \in Rules \ overlapped : \A w \in {t \in Times : t % Window = 0} :
      \E p \in Policies[r] : Cardinality(WithinWindow(r, w)) <= Ceiling(p)
=============================================================================
