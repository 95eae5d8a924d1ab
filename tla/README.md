# Verification of the EnterpriseLand platform core

This directory holds TLA+ models of the parts of `src/platform_core` whose
correctness depends on the order in which processes, threads, requests and
messages interleave, the TLC configurations that check them on small instances,
and TLAPS proofs about them for every value of their constants.

## 1. The system

The repository is a Django platform: REST endpoints (Django REST framework;
`ATOMIC_REQUESTS` is set at `core/settings/secrets.py:355`, but inside `OPTIONS`, where
Django does not look for it, so the models that depend on it cover both values), Celery
workers and beat, Channels websocket consumers, a
PostgreSQL database, Redis as cache and channel layer, and RabbitMQ (pika) as
event broker. `src/venv` is vendored; the base model classes of
`platform_core.common` are not in the repository and count, like the database
and the broker, as external.

| Component | State it keeps | Operations | Talks to |
|---|---|---|---|
| Event publisher, `events/publishers.py` | `events_store` row per event | `publish` | the broker, inside a database transaction |
| Event consumer, `events/consumers.py` | a thread per subscription, a thread pool, cached handlers, `events_processors` rows | `_process_message`, `_process_event`, `_handle_processing_error`, `_send_to_dead_letter`, `stop` | broker callbacks, the rows it shares with other processes |
| Broker client, `events/brokers.py` | connection, channel, unacknowledged messages, queues with a message TTL | `publish`, `subscribe`, `create_queue`, `acknowledge` (empty) | RabbitMQ |
| Event endpoints, `events/views.py` | none of its own | `retry`, `pause`, `resume`, health | processor and subscription rows |
| Workflow engine, `workflows/engine.py` | none of its own | `execute_task`, `_handle_task_completion`, `_execute_system_task`, `_check_workflow_completion` | task and instance rows |
| Workflow rows and builders, `workflows/models.py`, `base.py` | status and counters of instances and tasks, transitions, dependencies | state machine of tasks | |
| Workflow endpoints, `workflows/views.py` | none | `cancel`, `reassign`, `add_dependency`, updates of instances and tasks | the same rows, concurrently with the engine |
| Provider registry, `integrations/registry.py` | providers, a circuit breaker each, result cache | `execute`, status queries, `reset_circuit_breaker` | external services |
| Circuit breaker, `integrations/circuit_breaker.py` | state, failure count, time of the last failure, probes | `can_attempt`, `record_success`, `record_failure` | |
| Rate limiting, `security/ratelimit/` | a sorted set, a bucket or a counter per rule | `process_request`, `check_rate_limit` of three backends | Redis, from every request |
| Lock, `cache/backends.py` RedisLock | one key with an expiry | `acquire`, `release` | Redis |
| Tiered cache, `cache/backends.py` TieredCache | a dictionary per process (L1), Redis (L2) | `get`, `set`, `delete`, `clear` | the same Redis keys, from every process |
| Tagged cache, `cache/backends.py` TaggedCache, `decorators.py`, `signals.py` | keys, a set of keys per tag, expiries | cached methods, `invalidate_tag` from `post_save` | the database's commits |
| Webhooks, `notifications/` | a row per delivery | `deliver_webhook`, `send_webhook_event`, the test and retry endpoints | Celery, HTTP |
| Module registry, `modules/` | loaded modules and dependencies | load, unload, dependency order | |
| Presence, `websocket/` | presence and connection rows | connect, disconnect, heartbeat | channel layer |
| Alerts, `alerts/` | pending window in the cache, alert rows | evaluate, notify | Celery beat |
| Gateway, `gateway/` | routes, breaker, response cache | route | internal services |
| Accounts, files, CDN, monitoring, performance, compliance, business modules | rows | mostly CRUD | |

What is hard in it: consumers in several processes share one processor row and
save it whole; a message is sent inside a database transaction; a handler goes
on after its attempt timed out; messages are redelivered after crashes and lost
connections, are never acknowledged and expire in the queue; workflow requests read rows without a
lock, decide, and write whole rows, as do the endpoints beside them; a question to a
breaker changes its state, and nothing locks its methods against other threads; results
of calls arrive after the breaker they belong to has changed; counters
are read and written by different commands; a lock expires while it is held; a
dictionary in one process knows nothing of the writes of another; a cached value
is older than the invalidation that should have removed it; a task saves a row
it has read before someone else changed it.
`PROJECT.json` lists these hazards at their lines.

What makes the modelled components correct:

- events: no verdict without its justification ("failed" and "dead_lettered"
  need the whole budget of attempts, "completed" a handler call that returned),
  no message lost before a verdict but to its expiry, no row stuck in "processing",
  every committed event attempted;
- workflows: an instance is completed only when every task has been finished and
  failed only when one has failed; a finished task's successor is activated;
- breakers: opened only by enough failures since the last success that no other
  thread's call overlapped, silent until the recovery timeout after the last failure
  nobody overlapped, and coming back after it;
- rate limits: a bound on the requests any window lets through;
- the lock: one holder at a time, deleted by its owner only, never held for ever;
- the tiered cache: bounded dictionaries, stale values that do not spread;
- the tagged cache: an invalidation finds what was cached before it, and old
  values go away in the end;
- webhooks: the budget of requests, final success, no promise without a task,
  and an end of every delivery.

## 2. The modules

| Module | Models |
|---|---|
| `EventBus` | publisher, broker queue of one subscription, consumer processes with their pools, processor rows, the retry endpoint |
| `EventDelivery` | abstract: what a subscription promises about its events: deliveries, attempts, handler calls, dead letters, verdicts; implemented by `EventBus` |
| `WorkflowEngine` | one workflow instance under concurrent `execute_task`, `cancel`, `reassign`, `add_dependency` and update requests |
| `ProviderRegistry` | the fallback loop over the providers of one service, the unlocked methods of their breakers, and the result cache |
| `RateLimit` | the middleware's loop over the rules and the three backends, concurrent requests of one identifier |
| `RedisLock` | one lock: acquire and release of its clients, expiry, crashes, lost replies |
| `LeaseLock` | abstract: one owner at a time, freed by the owner or by time; implemented by `RedisLock` |
| `TieredCache` | threads of several processes over their dictionaries and one Redis |
| `TaggedCache` | the keys of one tag: readers that cache, savers that invalidate, expiries, failures |
| `WebhookDelivery` | one webhook delivery: creator, tasks, retry requests |
| `MCEventBus`, `MCWorkflowEngine`, `MCProviderRegistry`, `MCRateLimit`, `MCRedisLock`, `MCTieredCache`, `MCTaggedCache` | symmetry, graphs, orders, limits and timeouts for TLC |
| `EventBusProofs`, `WorkflowEngineProofs`, `ProviderRegistryProofs`, `RateLimitProofs`, `RedisLockProofs`, `TieredCacheProofs`, `TaggedCacheProofs`, `WebhookDeliveryProofs` | theorems and proofs |

The components share no state (each uses its own rows and keys), so no module
composes two of them; what a module needs of the database, Redis, RabbitMQ or
Celery is modelled in it, from its use.

Two components have an abstract specification of what they promise, without the
machinery that keeps the promise. Each is checked on a run that has the faults the
promise must survive, and proved for every value of the constants:

| Promise | Kept by | Mapping |
|---|---|---|
| `EventDelivery` | `EventBus!ImplementsDelivery` | the counters are the history variables; the verdict is the status of the processor row |
| `LeaseLock` | `RedisLock!ImplementsLease` | the owner is the client whose SET wrote the key, a claim the lease its client counts down, as long as nobody shares the identifier; `asking` are the clients inside `acquire` |

### EventBus

A step is what happens between two accesses to shared state. `publication[e]`
follows `publish(e)`: the row is inserted, the broker takes the message
(`PublishAccepted`), and the transaction commits or rolls back
(`PublishCommit`, `PublishRollback`); a refusal rolls the whole thing back
(`PublishRejected`). A consumer's thread runs through `pc`: *lookup* and
*create* of the event row, `Claim` (`get_or_create` of the processor and the
status check on the instance), `StartAttempt` (attempt counted, row saved, job
submitted), then `Complete` or `AttemptFails` and `ScheduleRetry` or `GiveUp`.
`memAttempts` is the instance in the thread's memory: `SaveProcessor` writes the
row from it, whatever the row has become. `futures` is the thread pool; a job
stays there after the attempt that submitted it has timed out.
`Return` leaves the message unacknowledged because nothing in
the code acknowledges one (`brokers.py:199-206`, `279-286`); `Requeue` is the
`basic_nack` of the wrapper, or the end of the thread when the channel is gone.
`Expire` takes a ready message out of the queue: `create_queue` declares an
`x-message-ttl` (`brokers.py:236-242`; 24 hours, `settings.py:169-170`), and the dead
letter exchange it names is declared nowhere and bound to no queue, so the message is
gone without a verdict on its row. `expired` remembers it.

External, modelled from their use: PostgreSQL's unique index (an INSERT waits for
an uncommitted row with the same key), RabbitMQ's redelivery, the executor's
workers, crashes and the supervisor's restart.

`tries` and `effects` are history variables: attempts begun, handler calls that
returned. `faults` and `deliveries` bound a behaviour (`MaxFaults`,
`MaxDeliveries`).

Abstracted: event type and filter matching (`Matching`), the payload, retry
delays (`next_retry_at` is written and nothing reads it), `should_retry` on the
exception type (it only looks at the number of attempts). There is no action for
`pause` and `resume`: `subscription.save()` runs `signals.py:41`, where
`kwargs.get('update_fields', [])` is `None`, so the request fails with TypeError
before it reaches the consumer.

### WorkflowEngine

A user's request is `Load` (task and instance read before the transaction), one action
of the engine (`StartOrFail`, `Finish`, or `Refused`, `FinishRefused` when the
state machine raises), and `Commit`. `locked` is the row lock that the first
UPDATE of the instance row takes and the commit releases. `Finish` is `complete`
or `skip` with all they call: the target's activation, the run of a system task,
and the completion check, which reads the database and so sees the old status
of the task being finished (`Visible`).

`Staff` use the other endpoints. `desk[s]` is what such a request has read: the instance
(`LoadInstance`, then `CancelInstance` or `UpdateInstance`), a task (`LoadTask`, then
`SaveTask`) or the dependencies of a task (`CheckDependency`, then `AddDependency`). None
of them locks what it reads (`views.py:500-534` for `reassign`), and all but the last save
the whole row, status included. So a `reassign` that read a successor before it was
activated makes it 'created' again; `undone` is the history of that, until a request acts
on the task or activates it anew. A save waits for the transaction that has written
the same row. `MaxRequests` bounds the requests of staff in a behaviour.

Abstracted: tasks have at most one successor and transitions no condition, as in
the graphs `base.py` builds; permissions; the outcome of a system task's handler
is either; the second read and increment of the counter by a skip with a system
target is one step. Not modelled: a PUT or PATCH that names `status` or `workflow`, a POST
and a DELETE, which change rows without the engine and make no promise about it.
`approve_task`, `reject_task`, `pause` and `resume` of an
instance are called by no endpoint, and the `retry` endpoint cannot be reached
(`can_edit` excludes the statuses it asks for).

### ProviderRegistry

A caller is a thread with an event loop of its own (gunicorn runs two threads per
worker), and nothing locks a breaker, so its methods are split: a step is one access to
a shared attribute, and `at[c]` is the thread's next one.

| Method | Steps |
|---|---|
| `can_attempt` | `AskIfClosed`, `AskIfOpen`, `AskIfRested`, `WakeBreaker`, `AskIfProbed` |
| `record_success` | `StartSuccess` (the count), `ClearProbed`, `CloseBreaker` |
| `record_failure` | `StartFailure` (the count is read), `CountFailure`, `ReadClock`, `StampFailure`, `JudgeFailure`, then `CountProbe` or `WeighFailures`, and `OpenBreaker` |

`seen` is the count a thread has read and `stamp` the time, to be stored by a later step:
increments are lost, and an old time overwrites a newer one. The comparison of line 110
reads the clock and then the attribute; it is one step, in which both have their value
at the same tick.
`execute` is `Request`, then per provider the question, the cache (`CacheHit`,
`StartCall`), the outcome (`CallSucceeds`, `CallFails`) and `StoreResult`. `CacheFails` is
an exception of the cache inside the try block. `QueryState` is a health endpoint: a
thread in `asking` asks one breaker and does nothing with the answer. All callers make
the same request, so the cache has one entry per provider. `failure_count` is kept up to
the threshold and `_half_open_attempts` as "greater than 0" (`probed`), which is all the
code compares them with; `age` is the time since the last failure, up to just over the
timeout.

Three variables are history. `mixed` are the threads whose present call of a breaker has
overlapped another's; `streak` counts the failures reported since the last success that
is not mixed (a reset does not clear it), and `rest` the time since the last such
failure. An outcome whose record another thread ran into may be overrun, so nothing
can be promised of it; on one thread nothing is ever mixed.

### RateLimit

A check reads the clock and then sends its commands, and every one of these is a
step: `SlidingClock`, `SlidingPipeline` (a MULTI transaction); `TokenGet`,
`TokenClock`, `TokenStore`; `FixedClock`, `FixedGet`, `FixedIncr`, `FixedSet`.
`check[c]` is the local state of a request, `Answer` what the middleware does with
the verdict: on to the next rule, or the end of the loop. Time is counted in
ticks, of which a window has several, and an instant is a tick with a fraction:
requests of one instant are one member of the sorted set. Tokens are counted in
units of 1/window, which makes the refill exact. `admitted` is history.

A rule's `Policies` are its own limits and the custom ones of users who share its
identifier: the same set, bucket or counter is then checked against different limits.

Abstracted: the identifier (all requests share it), float rounding, the metadata
of the response, the whitelist and its 300-second cache, custom rules of API keys.
There is one window: custom limits are always per minute, so the model covers them
for the rules that are per minute too.
`reset` and `get_usage` have no caller, and `decorators.py` cannot be imported.

### RedisLock

One key. Each command to Redis, and each comparison in the client, is a step:
`Obtain`, `TryFails`, `GiveUp` end `acquire`; `Watch`, `Compare`, `Exec` are
`release`. `ReplyLost` is a SET that Redis carried out and the client did not hear
of. What is left of the expiry, of the deadline and of the lease a client believes
in is counted in ticks. Identifiers are `str(time.time())`: a call may draw that of
another call of the same tick, which `twins` remembers. In `LeaseLock` the lock becomes void by
that, when a client begins to ask (`Ask`), and by nothing else. `decode` says whether the
connection decodes replies; if not, `release` compares bytes with a string and
deletes nothing. Each use makes a lock object of its own, as `cache_manager.lock`
does.

### TieredCache

What a thread does under `l1_lock` is one step, and so is each command to Redis:
`GetHit`; `GetMiss`, `Fetch` or `FetchMiss`, `Promote`; `Set`, `Delete`, `Clear`, then
`WriteL2` or `WriteFails`. `Put` is `_set_l1` as it is: a key that is there keeps its
old value. `Json` is the round trip through the serialisation. `settled[k]` is
history: what the last write of `k` left, if it succeeded and no other operation on
`k` overlapped it. Left out: `None` as a value, statistics, `touch`, `increment`,
`get_many`, and the command of a client that gave up that reaches Redis late.

### TaggedCache

The keys of one tag. A reader computes a value (`Load`), then `SetValue`, `AddTag`,
`ExpireTag`; a saver commits and invalidates, or, in a transaction, invalidates
first and commits last: `Save`, `Members`, `DeleteMember`, `DropTag`, `Commit`. A value
is *current* until the next commit and *old* after it. Each command may fail, and
the code goes on as it does. The "keytag:" sets are left out: their names are built
from bytes and match nothing, so they change nothing. `clean` and `tracked` are
history: the keys cached without one of the disturbances that `NoneMissed` names.

### WebhookDelivery

`row` is what is committed, `mem[w]` and `view[a]` are the copies a task or a retry
request read and will save whole (`Save`). A worker goes *loaded*, *posting*, then
*answered* or *raised*, *failing*, *retrying*, *scheduling*. With `ATOMIC_REQUESTS`
(the variable `atomic`) a request's row is written at its end and its row lock
(`RowLocked`) makes other saves wait, while its message is out already
(`InsertSend`, `RetrySend`); without it each save is seen at once. Messages are
acknowledged early and are lost with the worker. `dropped`, `raced` and `posts` are
history. Abstracted: countdowns (a queued task may start at any time; with the
default `max_attempts` they stay below the broker's visibility timeout, so no task
is delivered twice), payload and signature, the deletion of an endpoint with its
deliveries.

## 3. The runs

Passing runs:

| Run | Instance | Shows |
|---|---|---|
| `event_shared` | 2 events (one filtered out), 2 consumers, 1 operator, budget 2, 2 faults of every kind (expiry is one), 3 deliveries | `TypeOK`, `GivenUpOnlyAfterBudget`, `NoMessageLost`, `ImplementsDelivery` (rows that any number of writers share) |
| `event_live` | 2 events, 1 consumer, prefetch 2, database errors, crashes and expiry, fair | `ProcessingResolves`, `EveryEventAttempted`, `CompletedIsFinal` |
| `workflow_concurrent` | a user task before a system task, 2 users, failures, and one request of staff: cancel, update, reassign or a dependency | `TypeOK`, `CompletedMeansAllFinished`, `FailedMeansTaskFailed`, `SuccessorActivated` |
| `provider_fallback` | 2 providers, 2 threads, threshold 2, queries, cancellations, cache hits and errors, resets | `TypeOK`, `OpenedByFailures`, `NoCallBeforeRecovery` |
| `provider_recovery` | 1 provider, 2 threads, a timeout of a tick, no disturbances, fair | `OpenIsProbed`, `HalfOpenResolves` |
| `ratelimit_backends` | each backend, 2 workers, 2 rules (one log_only; one with a burst and a custom limit), a window of 3 ticks, 1 tick of delay | `TypeOK`, `SlidingBound`, `TokenBound`, `FixedBound` |
| `redislock_contention` | 2 clients with timeouts 1 and 2, 3 identifiers, both kinds of connection, fair | `TypeOK`, `MutualExclusion`, `OwnerDeletes`, `ImplementsLease`, `KeyExpires`, `CallsReturn` |
| `tiered_tiers` | 2 keys, 3 values, dictionaries of one entry, two threads of one process and one of another | `TypeOK`, `Settled`, `StaleOnlyShrinks`, `DeleterForgets` |
| `tagged_invalidation` | 2 keys with timeouts 1 and 2, a reader, a saver and a thread that does both, with and without transactions, fair | `TypeOK`, `NoneMissed`, `Converges` |
| `webhook_attempts` | 2 workers, 2 administrators, 3 attempts, with and without `ATOMIC_REQUESTS`, fair | `TypeOK`, `BudgetKept`, `NoneStranded`, `SuccessFinal`, `Settles` |

Runs whose property the code violates:

| Run | Property | What happens |
|---|---|---|
| `event_noretry` | `ScheduledRetryHappens` | the first attempt fails, the row is 'pending' with `next_retry_at`, and nothing ever happens to it |
| `workflow_nevercomplete` | `WorkflowCompletes` | the check sees the last task as still pending; the instance stays 'started' |

Why the bounds are enough. Two consumers, users, callers, workers, clients or
administrators give every pairwise race on a shared row, key or breaker, and the
races of this code are between two readers of one of them. Rows of different
events share nothing but the consumer's pool and prefetch window, for which
`event_live` has two events that are handled; in `event_shared` the second is one
that the filter ignores. Three deliveries and two faults allow a crash or lost
connection, a redelivery, and a second one that meets the verdict of the first. A
budget of 2 separates "retry" from "give up". Threshold 2 separates the first
failure from the one that opens. In `provider_fallback` time is "not over yet" or "over":
a timeout of 0 ticks has both, because the code asks for more than the timeout, and a
stamp that was read a tick ago is then old; `provider_recovery` has a timeout of one.
`workflow_concurrent` lets staff make one request: a stale save of each kind against
every interleaving of two users. Several of them together are the proofs' business, which
bound neither staff nor requests.
Timeouts of one and two ticks let one lease or key outlive another. A window of
three ticks and five instants lets a window end, and a delayed check fall into the
next. In the dictionary of one entry every second key evicts, and the third
process-thread pair makes a value stale in a process that did not write it. A
webhook has its default of three attempts; `MaxTasks` = 3 allows a queued task, a
running one and a request at once, and `MaxCount` bounds how far the count of a
raced delivery can run (such a delivery can be attempted without end, §5). The
proofs remove these bounds for the theorems below.

The event runs turn the deadlock check off, because the system legitimately
comes to rest: every message delivered, no fault left. So do `webhook_attempts`,
where the delivery ends, and `ratelimit_backends`, where `MaxTime` ends it. The
other runs check deadlock.

### Fairness

- `event_live`, `event_noretry`: a publisher's transaction ends, a consumer's
  thread goes on, and a crashed process is restarted by its supervisor (weak
  fairness of each). Nothing is assumed of handlers: they may hang, and the timeout
  of `future.result` ends the attempt. Deliveries are bounded by a number that the
  faults of the run cannot exhaust. A shutdown is no fault of the live run:
  `stop()` waits for hung handlers without a limit. Nothing has to expire, and the two
  liveness properties are about messages that do not.
- `workflow_nevercomplete`: every user keeps making requests and gets an answer.
- `provider_recovery`: requests keep coming, each provider call returns or raises
  (the providers' HTTP clients have timeouts), time passes.
- `redislock_contention`: time passes, and a client inside `acquire` or `release`
  goes on: the loops poll. Blocks may last for ever, and nobody has to come back.
- `tagged_invalidation`: time passes, and a client that has begun goes on, its
  commands succeeding or failing. Nobody has to read, save, commit or crash.
- `webhook_attempts`: creators and requests run to their end, a worker takes the
  messages there are, and a POST is answered or raises (`timeout=30`, and the
  task's time limit). Crashes, inactive endpoints and administrators are free.

## 4. The proofs

Proved by TLAPS for all values of the constants, from the named assumptions of
each module (`EventsAssumption`, `LimitsAssumption`, `GraphAssumption`,
`RegistryAssumption`, `RateAssumption`, `LockAssumption`, `TieredAssumption`,
`TaggedAssumption`, `DeliveryAssumption`), which say what the constants are and no
more:

- `EventBusProofs!TypeCorrect`, `BudgetCorrect`, `DeadLettersCorrect`, `HandledCorrect`. A verdict on
  the row is not inductive: it is written from an instance in a thread's memory
  that may be older than the row. `AttemptsCounted` says that no row, instance
  or operator's view counts more attempts than were begun; with it, an instance
  at the limit of its budget proves that the budget was used. `FuturesTruthful`
  says that the future a thread waits for is a job of its own message and that
  only a call that returned makes it "ok".
- `EventBusProofs!MessagesKept`. `HeldInv` says that a message that was sent has
  exactly one holder, the queue, one consumer (the wrapper acknowledges nothing) or,
  if it waited for its time to live, `expired`, which nothing comes back from,
  and that a thread on a live connection works on a message that is still its own, so
  that what it puts back is in nobody else's hands.
- `EventBusProofs!CallsCounted`, `DeliveryKept`, for any number of consumers and
  operators. `JobsInv` counts the handler calls that have returned and those still in
  some pool within the attempts begun, and `TakenInv` the attempts begun and the
  messages in a thread's hands within the deliveries: an attempt needs a delivery of its
  own, whoever else works on the event. `DeliveryStep` then maps every step of
  `EventBus` to a step of `EventDelivery` or to a stutter. The constant `Exclusive` of
  the promise is `Alone`: only then may no verdict of success be taken back.
- `EventBusProofs!CompletedStays`, under the assumption `Alone` (`Operators = {}` and at
  most one consumer process; with more of either the rows are overwritten, §5).
  `RowsInv` says that nobody but the thread at work writes its row, which is not
  completed and not ahead of the instance in memory.
- `WorkflowEngineProofs!TypeCorrect`, `OutcomeCorrect`, `FailureCorrect`. The decision is made in
  `Finish` and written in `Commit`, with other requests in between;
  `OutcomeJustified` carries it: a request about to write the whole row has seen
  every task but its own two finished, and what has been finished stays in the
  history although rows may be overwritten. The rows staff have read were true when they
  were read, so that saving them again adds nothing that was not so before.
- `WorkflowEngineProofs!SuccessorsActivated`. `SuccessorInv` adds to the property what a
  request has in memory between `Finish` and `Commit` (a result that ends its task
  and the status its successor is about to be given) and the rows staff have read: a
  task read as finished has an activated successor. The save of an old row of the
  successor itself is the step that breaks this; it puts the successor in `undone`, and
  only a request that acts on it or activates it anew takes it out.
- `ProviderRegistryProofs!TypeCorrect`, `OpeningCorrect`, `RecoveryRespected`, for any
  number of threads inside the methods of a breaker. `BreakerConsistent` says that the
  counter never runs ahead of the failures reported (a reset or a lost increment puts it
  behind), the stored time not behind the last undisturbed failure, and that a half-open
  breaker has rested. `ThreadConsistent` carries these over the gaps between the accesses:
  a count that was read and is still to be stored is not ahead either, a thread about
  to open or wake a breaker has seen its failures, and a call that has overlapped nothing
  finds the attributes as it left them. The last part is what lets an undisturbed success
  clear `streak` and an undisturbed failure clear `rest`.
- `RateLimitProofs!TypeCorrect`, `SlidingWindowHolds`, `TokenBucketHolds`,
  `FixedWindowHolds`. That a bucket never holds less than no tokens is part of the
  type and needs `Timely`: what a check has read is not later than its own clock. The
  bound of the sliding window rests on `Recorded`: a request let through within the
  window less `MaxDelay` is still in the set, because a check that trims it would have
  a clock later than `Sliding` allows. The set held at most `limit` of them before the
  last. For the token bucket, `TokenRule` says that a check under way has the bucket as
  it is (or found none, because it was over at the instant the check counts with), and
  `Paid` that, since any instant of the last window, the requests let through and
  the tokens left are paid for by one bucket and the refill. For the fixed window,
  `FixedRule` says that one check at most has decided and not yet counted, that
  it still finds room, and that a counter lives to the end of its window; that two
  windows of the clock do not overlap is `OneWindow`.
- `RedisLockProofs!TypeCorrect`, `LockExcludes`, `DeletesOwn`. `Backed` says that the
  key outlives no lease of its owner and no lease the key, to the tick; `Watched` that
  a transaction that will run was begun on the client's own key, which can since only
  have expired; `Wrote` and `Apart` tie identifiers to the clients that drew them.
- `RedisLockProofs!LeaseKept`. The owner is the client whose SET wrote the key, as long
  as the key's identifier is in nobody else's hands; a claim is a lease under such an
  identifier. `Backed` makes claim and key end together, `Watched` and `Wrote` make EXEC
  a step of the owner, and `Expiring` (a key never lacks an expiry) makes every key one
  that time frees. A call that begins and draws the key's identifier again is the step
  `Ask` with `Void`: from then on the key and the lease count for nothing. No other step
  may void the lock (`AskingMoves` says which steps change who asks).
- `TieredCacheProofs!TypeCorrect`, `DictionaryBounded`, `LastWriteSettles`,
  `StaleValuesDoNotSpread`, `DeletersForget`. `Lone` and `Open` say that a write that is
  alone has no rival and that nothing is settled of a key being written; `Normal` that a
  value from Redis survives a second round trip, so that a promotion adds nothing stale;
  `Forgotten` that a deletion that is alone has left its keys in no entry of its process.
- `TaggedCacheProofs!TypeCorrect`, `InvalidationComplete`. `Covered` says that the tag set
  holds the tracked keys as long as they live, `Pending` that an invalidation under way
  still has them to delete, `Overdue` that an old one has such an invalidation;
  `Undisturbed` and `Right` are the same for a read that is not finished.
- `WebhookDeliveryProofs!TypeCorrect`, `PromisesAwaited`, `BudgetHolds`, `SuccessStays`.
  `Awaited` extends `NoneStranded` to rows that a transaction is about to open; it holds
  because the row lock keeps a task from ending before the request commits
  (`RowLocked`). `Solo` says that without a race one thing at a time is in progress and
  every copy has the row's count; from it follow the budget and final success.

Every safety property of the passing runs, refinements included, is proved.
`HandledCorrect`, `DeadLettersCorrect`, `CallsCounted` and `DictionaryBounded` state
invariants no run needs to check besides: the first three follow from the steps
`EventDelivery` allows. Only model-checked are the liveness properties (fairness and
ENABLED are beyond the prover): `ProcessingResolves`, `EveryEventAttempted`,
`OpenIsProbed`, `HalfOpenResolves`, `KeyExpires`, `CallsReturn`, `Converges`, `Settles`.
Of `CompletedIsFinal` nothing is claimed for more than one consumer.

## 5. Other disagreements met while modelling

These follow from the models and have no run of their own. Each can be
reproduced by adding the formula to its module, or, where it is named, the
property to a configuration with the constants given.

| Says | Does | Formula |
|---|---|---|
| `events/models.py:175` "Maximum retry attempts" | a redelivery attempts an event that was given up (`consumers.py:151` skips only 'completed' and 'skipped') | `\A e \in Events : tries[e] <= MaxRetries + 1` |
| `events/consumers.py:173` "Execute handler with timeout" | the job goes on after the event was given up | no future of an event in `GivenUp` is queued or running |
| `events/consumers.py:151` "Skip if already processed" | two consumers pass the check together | `[][status[e] = "completed" => tries'[e] = tries[e]]_vars` |
| `events/consumers.py:220` "Send to dead letter queue if configured" | the row says 'dead_lettered' when the publish failed | `status[e] = "dead_lettered" => deadLetters[e] > 0` |
| `events/tests/test_publishers.py:122` "Check event was marked as failed" | the write is rolled back by `publishers.py:141` | `publication[e] = "rejected" => eventRow[e] = "failed"` |
| `events/views.py:240` "Can only retry failed or pending processors" | the row may have changed since it was read | `[][RetrySaves(o) => status[view[o].ev] \in {"failed", "pending"}]_vars` |
| `workflows/models.py:294` "Calculate progress percentage" | the merge task is counted once per branch | `wf.done <= Cardinality(Tasks)` |
| `workflows/models.py:261,268` transitions not allowed from 'cancelled' | a stale instance saved whole undoes a cancellation | `[][wf.status = "cancelled" => wf'.status = "cancelled"]_vars` |
| `workflows/views.py:502` "Reassign a task to another user." | the row is saved as it was read: a successor activated in between is 'created' again | `SuccessorActivated` without `\ undone` |
| `workflows/examples.py:145` "Check if legal review is required" | the skipped task is assigned later | `\A t \in InitiallySkipped : task[t] = "skipped"` |
| `workflows/models.py:469` "Check if all dependencies are met" | nobody returns to a task passed over | all predecessors completed and `CanStart(t)` imply `task[t] # "created"` |
| `workflows/views.py:564` "Check for circular dependencies" | only direct ones are seen | no `x, y, z` with `<<x,y>>, <<y,z>>, <<z,x>>` in `deps` |
| `integrations/circuit_breaker.py:119` "allow one attempt" | every request before the first outcome goes through | at most one caller running that was let through a breaker not closed |
| `integrations/tests/test_circuit_breaker.py:143` "Test circuit breaker handles concurrent access correctly." (which only records failures) | a thread that has found the breaker open makes it half-open after another's success has closed it; it is then not closed without a failure | `OpenedByFailures` with `streak` cleared by every success |
| `integrations/circuit_breaker.py:25` "OPEN: Service is failing, requests are rejected immediately" | a thread that has compared the time lets itself through after another's failure has set it anew | `NoCallBeforeRecovery` with `age` for `rest` |
| `integrations/registry.py:154` "The result from the first successful provider" | an exception of `cache.set` sends the operation to the next provider | `[][at[c] = "storing" => at'[c] \in {"storing", "idle"}]_vars` |
| `integrations/registry.py:260` "Manually reset a circuit breaker." | `breaker.CircuitState` raises AttributeError; the breaker stays open | `[][ResetBreaker(p) => state'[p] = "closed"]_vars` |
| `events/brokers.py:240` "Add TTL if configured" | a message that waits for the TTL, behind a full prefetch window or without a consumer, is never handled; a row a crash left in 'processing' stays there | `NoMessageLost` without `expired`, `ProcessingResolves` without `\/ e \in expired` |
| `events/brokers.py:285` "For now, this is a placeholder" | with a prefetch count of 1 the second event waits behind a message nobody acknowledges | `EveryEventAttempted` with `Prefetch = 1` in `EventBus_live.cfg` |
| `workflows/base.py:392` "Merge results from parallel tasks" | the first branch that is completed runs the merge task | `MergeAfterAllBranches` with `Successor <- Parallel` (`MCWorkflowEngine`) |
| `integrations/circuit_breaker.py:26` "HALF_OPEN: Testing if service has recovered" | a health query after a failed probe leaves the breaker half-open with no attempt left | `HalfOpenResolves` with `Disturbances = {"query"}` in `ProviderRegistry_recovery.cfg` |
| `security/ratelimit/middleware.py:51` "Check each rule" | an exceeded log_only rule ends the loop, the rules after it are not checked | `skipped = {}` |
| `security/ratelimit/backends.py:88` "Check burst limit" | the sliding window compares before it adds: limit + 1 requests pass, and requests of one instant count once | `SlidingBound` without "+ 1" |
| `security/ratelimit/backends.py:151,240` "Check rate limit using ..." | token bucket and fixed window let more through when checks overlap | `TokenBound`, `FixedBound` for all rules |
| `cache/backends.py:272` "Distributed lock using Redis." | `with` runs its block when `acquire` returned False | `at[c] = "inside" => ident[c] # NoId` |
| `cache/backends.py:272` "Distributed lock using Redis." | the identifier is the time: two calls at one reading of the clock have the same one, and each deletes the other's key | `OwnerDeletes` without `twins` |
| `cache/backends.py:305` "Release lock." | on a connection that does not decode replies the key stays until it expires | `[][at[c] = "compare" /\ at'[c] = "idle" => key.value # ident[c]]_vars` |
| `cache/backends.py:368` "Set in both levels" | a key that is in the dictionary keeps its old value there (`_set_l1`) | `SetInBothLevels` in `TieredCache_tiers.cfg` |
| `cache/decorators.py:403` "Cache timeout in seconds" | an entry of the dictionary has no timeout | `l2[k] = None` and settled implies that no dictionary has `k` |
| `cache/backends.py:475` "Invalidate all keys with a tag." | misses keys cached during the save or before the commit of its transaction, added between SMEMBERS and DEL, or outliving the tag set | `NoneMissed` for all keys |
| `notifications/views.py:102` "Trigger webhook delivery task" | with `ATOMIC_REQUESTS` the task may run before the row is committed; the row stays 'pending' | `NoneStranded` without `~dropped` |
| `notifications/views.py:124` "Only failed deliveries can be retried" | a delivery may be failed for a moment, between two saves of a task that goes on to retry; two requests may both have read 'failed' | `BudgetKept`, `SuccessFinal` without `~raced` |
| `notifications/views.py:130` "Maximum retry attempts exceeded" | a raced task or request saves the old count back, and the delivery can be attempted without end | `row.attempts <= MaxAttempts` |
| `notifications/tasks.py:134` "Schedule retry if attempts remaining" | a response of 400 or more is 'failed' without a retry; a broker that refuses the task leaves 'retrying' for ever | `NoneStranded` without `~dropped` |

Met on the way and outside any model: `cleanup_old_notifications` and
`create_notification` raise NameError and ImportError on `Notification`;
`security/ratelimit/decorators.py` uses `Any` without importing it; `cache_result` with
backend 'tagged' passes an argument the constructor does not take
(`cache/decorators.py:66`); the lock's default connection settings make the pool raise;
`TieredCache.clear` flushes the whole Redis database.

## 6. Plan

Done: the modules of §2 and the theorems of §4. Left, in this order:

1. `ConsumerManager`: several subscriptions, the health view, the management
   command, composed with the queue part of `EventBus`.
2. Workflow schedules: `AutomatedWorkflow` and the SLA tasks over the instances of
   `WorkflowEngine`.
3. Websocket connection rows against crashes without a disconnect.

Runs stay few: a module brings one run for its safety and, where liveness matters,
its liveness.

## 7. Not modelled

`PROJECT.json` gives the reason for each component. In short:

- Alerts: `AlertProcessor` evaluates its rules against a metrics registry of its own
  (`alerts/services.py:24`) that nothing fills, so no rule is ever true outside the
  tests that patch it. The pending window (`:59-70`) lives in the cache for exactly
  `for_duration` seconds, the time after which it should be looked at.
- Module registry: its endpoints call methods it does not define, `load_module` is
  called by nothing but itself.
- Websocket presence: a user who joins again stays 'offline' (`websocket/models.py:501-511`)
  and the consumer never joins a room. There is no working protocol to state.
- Document service: `documents/services/document_service.py:108` reads a variable before it is
  assigned, so locking never gets as far as its race.
- `caching/`: a second cache package that no setting selects and nothing instantiates.
- Redis and Kafka brokers: alternatives to the RabbitMQ broker, which is the one
  modelled; `EVENT_BROKER_TYPE` selects one (default `redis`, `platform_core/settings.py:159`). The event
  routers choose an exchange and keep no state.
- Accounts, files, CDN, monitoring, performance, health, database routing, compliance
  and the business modules are CRUD, I/O or metrics without a protocol of their own;
  encryption and authentication are library calls. They are most of the repository's
  lines, and a model of them would restate assignments.
