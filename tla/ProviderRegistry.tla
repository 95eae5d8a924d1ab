-------------------------- MODULE ProviderRegistry --------------------------
(***************************************************************************)
(* platform_core/integrations: ProviderRegistry.execute over the fallback  *)
(* order of ONE service, the CircuitBreaker of each of its providers, the  *)
(* result cache, and the health endpoints that read the breakers.          *)
(*                                                                         *)
(* A caller is a thread with an event loop of its own; nothing locks a     *)
(* breaker.  Every method of the breaker is therefore modelled one access  *)
(* to a shared attribute at a time, and a thread inside a method is "at"   *)
(* its next access.                                                        *)
(*                                                                         *)
(* failure_count is compared with the threshold alone and                  *)
(* _half_open_attempts with 0, so the first is kept up to the threshold    *)
(* and the second as "has a probe failed since the last success?".         *)
(***************************************************************************)
EXTENDS Naturals, Sequences, FiniteSets

CONSTANTS
  Providers,        \* the enabled providers of the service
  Order,            \* the order execute tries them in
  Callers,          \* the threads: each has at most one request or query at a time
  Threshold,        \* circuit_breaker_threshold
  RecoveryTimeout,  \* circuit_breaker_timeout, in ticks of the clock
  Disturbances      \* what else happens: "query", "cancel", "cache" (results are
                    \* cached), "cache_down" (the cache raises), "reset"

ASSUME RegistryAssumption ==
  /\ Order \in Seq(Providers)
  /\ Threshold \in Nat \ {0}
  /\ RecoveryTimeout \in Nat
  /\ Disturbances \subseteq {"query", "cancel", "cache", "cache_down", "reset"}

VARIABLES
  state,     \* CircuitBreaker.state
  failures,  \* CircuitBreaker.failure_count
  probed,    \* CircuitBreaker._half_open_attempts > 0
  age,       \* time since last_failure_time, up to RecoveryTimeout + 1
  at,        \* where each thread is
  turn,      \* the index of execute's loop (of a query: the provider it is about)
  asking,    \* the threads that answer a health query
  seen,      \* the failure_count a thread has read, to store it plus one
  stamp,     \* time since a thread read the clock, to store last_failure_time
  cached,    \* the providers whose result for the request is in the cache
  mixed,     \* history: threads whose present call of a breaker overlapped another's
  streak,    \* history: failures since the last success that overlapped nothing
  rest       \* history: time since the last failure recorded without an overlap

breaker == <<state, failures, probed, age>>
thread  == <<at, turn, asking>>
local   == <<seen, stamp>>
history == <<mixed, streak, rest>>
vars == <<breaker, thread, local, cached, history>>

InCanAttempt == {"is_open", "is_rested", "wake", "is_probed"}
InSuccess    == {"clear_probed", "close"}
InFailure    == {"count", "clock", "stamp", "judge", "probe", "weigh", "open"}
InMethod     == InCanAttempt \cup InSuccess \cup InFailure
InTry        == {"admitted", "running", "storing"}

Times == 0..(RecoveryTimeout + 1)

TypeOK ==
  /\ state \in [Providers -> {"closed", "open", "half_open"}]
  /\ failures \in [Providers -> 0..Threshold]
  /\ probed \in [Providers -> BOOLEAN]
  /\ age \in [Providers -> Times]
  /\ at \in [Callers -> {"idle", "next"} \cup InTry \cup InMethod]
  /\ turn \in [Callers -> 1..(Len(Order) + 1)]
  /\ \A c \in Callers : at[c] \in InTry \cup InMethod => turn[c] \in DOMAIN Order
  /\ asking \subseteq Callers
  /\ seen \in [Callers -> 0..Threshold]
  /\ stamp \in [Callers -> Times]
  /\ cached \subseteq Providers
  /\ mixed \subseteq Callers
  /\ streak \in [Providers -> 0..Threshold]
  /\ rest \in [Providers -> Times]

(* last_failure_time is None until the first failure: nothing reads it before. *)
Init ==
  /\ state = [p \in Providers |-> "closed"]
  /\ failures = [p \in Providers |-> 0]
  /\ probed = [p \in Providers |-> FALSE]
  /\ age = [p \in Providers |-> RecoveryTimeout + 1]
  /\ at = [c \in Callers |-> "idle"]
  /\ turn = [c \in Callers |-> 1]
  /\ asking = {}
  /\ seen = [c \in Callers |-> 0]
  /\ stamp = [c \in Callers |-> RecoveryTimeout + 1]
  /\ cached = {}
  /\ mixed = {}
  /\ streak = [p \in Providers |-> 0]
  /\ rest = [p \in Providers |-> RecoveryTimeout + 1]

OneMore(n) == IF n < Threshold THEN n + 1 ELSE n
Older(t) == IF t <= RecoveryTimeout THEN t + 1 ELSE t

(* The provider whose turn it is in the loop. *)
Turn(c) == Order[turn[c]]
AtProvider(c) == at[c] = "next" /\ turn[c] \in DOMAIN Order

Goes(c, where) == at' = [at EXCEPT ![c] = where]
Stays == UNCHANGED <<turn, asking>>

NextProvider_Back(c) ==   \* mutant: the index of the loop runs backwards
  /\ Goes(c, "next")
  /\ turn' = [turn EXCEPT ![c] = @ - 1]
  /\ UNCHANGED asking

NextProvider(c) ==
  /\ Goes(c, "next")
  /\ turn' = [turn EXCEPT ![c] = @ + 1]
  /\ UNCHANGED asking

(* The request, or the query, has its answer. *)
Done(c) ==
  /\ Goes(c, "idle")
  /\ turn' = [turn EXCEPT ![c] = 1]
  /\ asking' = asking \ {c}

-----------------------------------------------------------------------------
(* History: which calls of a breaker overlap *)

Others(c) == {d \in Callers \ {c} : at[d] \in InMethod /\ Turn(d) = Turn(c)}

EntersMethod(c) ==
  mixed' = IF Others(c) = {} THEN mixed ELSE mixed \cup Others(c) \cup {c}

LeavesMethod(c) == mixed' = mixed \ {c}

-----------------------------------------------------------------------------
(* CircuitBreaker.can_attempt: "circuit breaker is open" is one more error for execute *)

Answered(c, yes) ==
  \/ c \in asking /\ Done(c)
  \/ c \notin asking /\ yes /\ Goes(c, "admitted") /\ Stays
  \/ c \notin asking /\ ~yes /\ NextProvider(c)

AskIfClosed(c) ==
  /\ AtProvider(c)
  /\ \/ state[Turn(c)] = "closed" /\ Answered(c, TRUE) /\ UNCHANGED mixed
     \/ state[Turn(c)] # "closed" /\ Goes(c, "is_open") /\ Stays /\ EntersMethod(c)
  /\ UNCHANGED <<breaker, local, cached, streak, rest>>

AskIfOpen(c) ==
  /\ at[c] = "is_open"
  /\ Goes(c, IF state[Turn(c)] = "open" THEN "is_rested" ELSE "is_probed")
  /\ Stays
  /\ UNCHANGED <<breaker, local, cached, history>>

Rested_Swapped(p) == age[p] < RecoveryTimeout   \* mutant: the comparison is swapped

Rested(p) == age[p] > RecoveryTimeout

AskIfRested(c) ==
  /\ at[c] = "is_rested"
  /\ \/ Rested(Turn(c)) /\ Goes(c, "wake") /\ Stays /\ UNCHANGED mixed
     \/ ~Rested(Turn(c)) /\ Answered(c, FALSE) /\ LeavesMethod(c)
  /\ UNCHANGED <<breaker, local, cached, streak, rest>>

WakeBreaker(c) ==
  /\ at[c] = "wake"
  /\ state' = [state EXCEPT ![Turn(c)] = "half_open"]
  /\ Answered(c, TRUE) /\ LeavesMethod(c)
  /\ UNCHANGED <<failures, probed, age, local, cached, streak, rest>>

AskIfProbed(c) ==
  /\ at[c] = "is_probed"
  /\ Answered(c, ~probed[Turn(c)]) /\ LeavesMethod(c)
  /\ UNCHANGED <<breaker, local, cached, streak, rest>>

-----------------------------------------------------------------------------
(* CircuitBreaker.record_success *)

StartSuccess(c) ==
  /\ failures' = [failures EXCEPT ![Turn(c)] = 0]
  /\ Goes(c, "clear_probed") /\ Stays /\ EntersMethod(c)
  /\ UNCHANGED <<state, probed, age, local, cached, streak, rest>>

ClearProbed(c) ==
  /\ at[c] = "clear_probed"
  /\ probed' = [probed EXCEPT ![Turn(c)] = FALSE]
  /\ Goes(c, "close") /\ Stays
  /\ UNCHANGED <<state, failures, age, local, cached, history>>

Closed_StaysHalf(p) == state' = state   \* mutant: the breaker is not closed

Closed(p) == state' = [state EXCEPT ![p] = "closed"]

CloseBreaker(c) ==
  /\ at[c] = "close"
  /\ Closed(Turn(c))
  /\ streak' = IF c \in mixed THEN streak ELSE [streak EXCEPT ![Turn(c)] = 0]
  /\ \/ "cache" \in Disturbances /\ Goes(c, "storing") /\ Stays
     \/ "cache" \notin Disturbances /\ Done(c)
  /\ LeavesMethod(c)
  /\ UNCHANGED <<failures, probed, age, local, cached, rest>>

-----------------------------------------------------------------------------
(* CircuitBreaker.record_failure *)

StartFailure(c) ==
  /\ seen' = [seen EXCEPT ![c] = failures[Turn(c)]]
  /\ streak' = [streak EXCEPT ![Turn(c)] = OneMore(@)]
  /\ Goes(c, "count") /\ Stays /\ EntersMethod(c)
  /\ UNCHANGED <<breaker, stamp, cached, rest>>

CountFailure(c) ==
  /\ at[c] = "count"
  /\ failures' = [failures EXCEPT ![Turn(c)] = OneMore(seen[c])]
  /\ seen' = [seen EXCEPT ![c] = 0]
  /\ Goes(c, "clock") /\ Stays
  /\ UNCHANGED <<state, probed, age, stamp, cached, history>>

ReadClock(c) ==
  /\ at[c] = "clock"
  /\ stamp' = [stamp EXCEPT ![c] = 0]
  /\ Goes(c, "stamp") /\ Stays
  /\ UNCHANGED <<breaker, seen, cached, history>>

StampFailure(c) ==
  /\ at[c] = "stamp"
  /\ age' = [age EXCEPT ![Turn(c)] = stamp[c]]
  /\ stamp' = [stamp EXCEPT ![c] = RecoveryTimeout + 1]
  /\ Goes(c, "judge") /\ Stays
  /\ UNCHANGED <<state, failures, probed, seen, cached, history>>

AfterJudging_IgnoresProbe(p) == "weigh"   \* mutant: a failed probe is an ordinary failure

AfterJudging(p) == IF state[p] = "half_open" THEN "probe" ELSE "weigh"

JudgeFailure(c) ==
  /\ at[c] = "judge"
  /\ Goes(c, AfterJudging(Turn(c))) /\ Stays
  /\ UNCHANGED <<breaker, local, cached, history>>

CountProbe(c) ==
  /\ at[c] = "probe"
  /\ probed' = [probed EXCEPT ![Turn(c)] = TRUE]
  /\ Goes(c, "open") /\ Stays
  /\ UNCHANGED <<state, failures, age, local, cached, history>>

(* The loop goes on; this failure is one the breaker has had to itself, or not. *)
FailureRecorded(c) ==
  /\ rest' = IF c \in mixed THEN rest ELSE [rest EXCEPT ![Turn(c)] = age[Turn(c)]]
  /\ NextProvider(c) /\ LeavesMethod(c)
  /\ UNCHANGED streak

Reached_OffByOne(p) == failures[p] + 1 >= Threshold   \* mutant

Reached(p) == failures[p] >= Threshold

WeighFailures(c) ==
  /\ at[c] = "weigh"
  /\ \/ Reached(Turn(c)) /\ Goes(c, "open") /\ Stays /\ UNCHANGED history
     \/ ~Reached(Turn(c)) /\ FailureRecorded(c)
  /\ UNCHANGED <<breaker, local, cached>>

OpenBreaker(c) ==
  /\ at[c] = "open"
  /\ state' = [state EXCEPT ![Turn(c)] = "open"]
  /\ FailureRecorded(c)
  /\ UNCHANGED <<failures, probed, age, local, cached>>

-----------------------------------------------------------------------------
(* ProviderRegistry.execute *)

Request(c) ==
  /\ at[c] = "idle"
  /\ Goes(c, "next") /\ Stays
  /\ UNCHANGED <<breaker, local, cached, history>>

(* A cached result is returned: the breaker has been asked and no outcome is recorded. *)
CacheHit(c) ==
  /\ at[c] = "admitted" /\ Turn(c) \in cached
  /\ Done(c)
  /\ UNCHANGED <<breaker, local, cached, history>>

StartCall(c) ==
  /\ at[c] = "admitted" /\ Turn(c) \notin cached
  /\ Goes(c, "running") /\ Stays
  /\ UNCHANGED <<breaker, local, cached, history>>

CallSucceeds(c) == at[c] = "running" /\ StartSuccess(c)

StoreResult(c) ==
  /\ at[c] = "storing"
  /\ cached' = cached \cup {Turn(c)}
  /\ Done(c)
  /\ UNCHANGED <<breaker, local, history>>

CallFails(c) == at[c] = "running" /\ StartFailure(c)

(* cache.get or cache.set raises inside the try: one more failure of the provider, *)
(* even when it has just returned a result.                                        *)
CacheFails(c) ==
  /\ "cache_down" \in Disturbances
  /\ at[c] \in {"admitted", "storing"}
  /\ StartFailure(c)

(* AllProvidersFailedError *)
GiveUpRequest(c) ==
  /\ at[c] = "next" /\ turn[c] \notin DOMAIN Order
  /\ Done(c)
  /\ UNCHANGED <<breaker, local, cached, history>>

(* CancelledError is no Exception: the coroutine ends and nothing is recorded. *)
CallCancelled(c) ==
  /\ "cancel" \in Disturbances
  /\ at[c] = "running"
  /\ Done(c)
  /\ UNCHANGED <<breaker, local, cached, history>>

-----------------------------------------------------------------------------
(* get_available_providers and get_circuit_breaker_states ask can_attempt too. *)
QueryState(c) ==
  /\ "query" \in Disturbances
  /\ at[c] = "idle"
  /\ Goes(c, "next")
  /\ \E i \in DOMAIN Order : turn' = [turn EXCEPT ![c] = i]
  /\ asking' = asking \cup {c}
  /\ UNCHANGED <<breaker, local, cached, history>>

(* reset_circuit_breaker: the count is cleared, then breaker.CircuitState is an *)
(* AttributeError.                                                              *)
ResetBreaker(p) ==
  /\ "reset" \in Disturbances
  /\ failures' = [failures EXCEPT ![p] = 0]
  /\ UNCHANGED <<state, probed, age, thread, local, cached, history>>

CacheExpires(p) ==
  /\ p \in cached
  /\ cached' = cached \ {p}
  /\ UNCHANGED <<breaker, thread, local, history>>

Tick ==
  /\ \/ \E p \in Providers : age[p] <= RecoveryTimeout \/ rest[p] <= RecoveryTimeout
     \/ \E c \in Callers : stamp[c] <= RecoveryTimeout
  /\ age' = [p \in Providers |-> Older(age[p])]
  /\ rest' = [p \in Providers |-> Older(rest[p])]
  /\ stamp' = [c \in Callers |-> Older(stamp[c])]
  /\ UNCHANGED <<state, failures, probed, thread, seen, cached, mixed, streak>>

Caller(c) ==
  \/ AskIfClosed(c) \/ AskIfOpen(c) \/ AskIfRested(c) \/ WakeBreaker(c) \/ AskIfProbed(c)
  \/ ClearProbed(c) \/ CloseBreaker(c)
  \/ CountFailure(c) \/ ReadClock(c) \/ StampFailure(c) \/ JudgeFailure(c)
  \/ CountProbe(c) \/ WeighFailures(c) \/ OpenBreaker(c)
  \/ CacheHit(c) \/ StartCall(c) \/ CallSucceeds(c) \/ StoreResult(c)
  \/ CallFails(c) \/ CacheFails(c) \/ GiveUpRequest(c) \/ CallCancelled(c)

Next ==
  \/ \E c \in Callers : Request(c) \/ QueryState(c) \/ Caller(c)
  \/ \E p \in Providers : ResetBreaker(p) \/ CacheExpires(p)
  \/ Tick

Spec == Init /\ [][Next]_vars

(* Requests keep coming and every call of a provider returns or raises (each    *)
(* provider has a timeout of its own); time passes.                             *)
FairSpec ==
  /\ Spec
  /\ \A c \in Callers : WF_vars(Request(c)) /\ WF_vars(Caller(c))
  /\ WF_vars(Tick)

-----------------------------------------------------------------------------
(* Properties *)

(* A breaker is not closed unless Threshold failures were reported to it since the    *)
(* last success that no other thread's call overlapped, whatever torn increments,      *)
(* late results, queries, stale wake-ups and resets interleave (record_failure,        *)
(* can_attempt).  On one thread no call overlaps another: then it is every success.    *)
OpenedByFailures ==
  \A p \in Providers : state[p] # "closed" => streak[p] = Threshold

(* A thread that wakes a breaker, or passes one it finds half-open, does so only when  *)
(* the last failure that no other thread's call overlapped is older than the timeout,  *)
(* even if other threads record late outcomes while it asks (can_attempt, execute).    *)
(* A thread that sees the breaker close while it asks may pass: it overlapped.         *)
NoCallBeforeRecovery ==
  [][\A c \in Callers :
       /\ at[c] = "wake" \/ (at[c] = "is_probed" /\ c \notin mixed)
       /\ at'[c] = "admitted"
       => rest[Turn(c)] > RecoveryTimeout]_vars

(* What makes them inductive: counts, read or stored, never run ahead of the failures; *)
(* who is about to open or wake a breaker has seen its failures; no stamp is older     *)
(* than the last undisturbed failure; an undisturbed call finds what it read.          *)
ThreadConsistent(c) ==
  /\ at[c] = "count" => OneMore(seen[c]) <= streak[Turn(c)]
  /\ at[c] \in {"is_open", "is_rested", "wake", "probe", "open"} => streak[Turn(c)] = Threshold
  /\ at[c] = "wake" => rest[Turn(c)] > RecoveryTimeout
  /\ at[c] = "stamp" => stamp[c] <= rest[Turn(c)]
  /\ at[c] \in InMethod /\ c \notin mixed =>
       /\ Others(c) = {}
       /\ at[c] \in {"is_open", "is_rested"} => state[Turn(c)] # "closed"
       /\ at[c] = "is_probed" => state[Turn(c)] = "half_open"
       /\ at[c] \in {"clear_probed", "close"} => failures[Turn(c)] = 0
       /\ at[c] = "weigh" => state[Turn(c)] # "half_open"

BreakerConsistent(p) ==
  /\ failures[p] <= streak[p]
  /\ age[p] <= rest[p]
  /\ state[p] # "closed" => streak[p] = Threshold
  /\ state[p] = "half_open" => rest[p] > RecoveryTimeout

Consistent ==
  /\ \A p \in Providers : BreakerConsistent(p)
  /\ \A c \in Callers : ThreadConsistent(c)

(* While requests keep coming, the first provider's breaker does not stay open: after *)
(* the timeout a request goes through.                                               *)
OpenIsProbed ==
  state[Order[1]] = "open" ~> state[Order[1]] # "open"

(* A half-open breaker closes or opens again.  The runs show that it needs every call *)
(* that was let through to record its outcome.                                       *)
HalfOpenResolves ==
  \A p \in Providers : state[p] = "half_open" ~> state[p] # "half_open"

=============================================================================
