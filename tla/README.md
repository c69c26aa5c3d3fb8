# pymidil in TLA+

Models of the parts of pymidil that are hard to test: what happens to a message
between its receipt and its acknowledgement when deliveries interleave, fail, are
cancelled or die; the stores, buses, control planes and telemetry around that path;
the HTTP client's token cache and retries; the web edge, pagination and documents;
the distributed periodic task; the example services put together from these. TLC
checks every property on a small instance (the `.cfg` files), TLAPS proves the main
ones for all values of the constants (the `*_proofs.tla` modules; where a part is small,
one proof module serves several). `PROJECT.json` lists
runs, properties, theorems, findings, hazards and, per definition, the source lines it
stands for.

## 1. Inventory

Paths are relative to `src/pymidil/` unless they start with `examples/`.

| Component | State | Operations | Hard because of | Correct when | Module |
|---|---|---|---|---|---|
| Dispatch lifecycle, `event/consumer/strategies/base.py` | subscribers; per delivery: suspension point, results, outcome; claims in the store | `dispatch`, `subscribe`, `unsubscribe` | every `await` lets other deliveries run; cancellation; errors of store and verbs | one owner per key; a processed message is not run again; a failed one is free to be redelivered | `Dispatch` |
| Acknowledger contract, `event/acknowledgement.py` | none of its own | `ack`, `retry`, `dlq` | the verbs are called after the outcome, possibly much later | removal only after success or diversion | `AtLeastOnce` |
| SQS consumer, `event/consumer/sqs.py`, `strategies/pull.py`, `utils/retry.py` | `_running`, loop task, retry attempts, batch; the queue | `start`, `stop`, `_poll_loop`, `_process_message`, verbs | visibility timeouts, duplicates, task-group cancellation, partial failure of `dlq`, crashes | nothing lost; the loop survives handlers; no delivery outlives its batch; messages settle | `SqsConsumer` |
| Idempotency stores, `event/idempotency/` | key to expiry, or a Redis key | `claim`, `release` | expiry, lazy sweep at capacity | first caller wins until release or expiry; bounded | `ClaimStore`, `InMemoryStore` |
| Webhook consumer, `event/consumer/webhook.py` | the open requests | `_handler`, `stop` | replies race with other POSTs of the event | what was handled and answered is not run again; 400 never shuts out | `Webhook` |
| Subscribers and middleware, `event/subscriber/`, `utils/retry.py` | the chain; a group's tasks; attempts | `__call__` | cancellation, retries around retries, tasks left behind | the handler's error reaches the lifecycle; runs are bounded | `SubscriberChain` |
| Control source and gate, `event/control.py`, `strategies/pull.py` | cached state, time of fetch; where each loop is | `get`, `_control_gate`, `_throttle_pace` | stale and fail-open state, lookups that overtake each other | a pause takes hold in bounded time unless a lookup fails | `ControlGate` |
| Producers and event bus, `event/producer/`, `event/event_bus.py`, `settings.py` | named consumers and producers, their loops | build, `subscribe`, `start`, `stop`, `publish` | half-done fan-out, consumers that raise, publishing while stopping | the caller is told the truth; producers close last | `EventBus` |
| Observability, `event/observability/`, `event/otel.py` | spans, the current context per task | the hooks, `emit` | context carried through queues, retries and replays | one envelope per disposition; lineage follows the consumers | `EventFlow` |
| DLQ redriver, `event/dlq/redriver.py` | the two queues | `redrive` | crash between send and delete | nothing lost; the replay points back | `EventFlow` |
| Kafka consumer, `examples/event/kafka_observer.py` | positions, commits, attempts | the fetch loop | rewind of one partition, commit of all | what is committed was handled | `KafkaLoop` |
| Example services, `examples/sqs_localstack_saga.py`, `examples/event/sqs_fanout/` | queues between services, claims | handle and publish on | a fault between two sends, redelivery | every branch reached; a repeat needs a fault of the service itself | `FanOut` |
| HTTP client, `client/`, `auth/cognito/authenticator.py` | cached token, lock, retry loop | `get_token`, `send_request` | two clocks, fetches in flight, retries | authorized first attempts; one fetch; no double execution | `HttpClient` |
| JWT authorizer, web middleware and handlers, `auth/cognito/jwt_authorizer.py`, `web/` | the shared key client and its lock; the status table | `verify`, the layers of a request | rotation of keys among concurrent requests; two layers that map errors | a good token is refused only if its key was unknown twice; the status fits the error | `WebEdge` |
| Web pagination, `web/pagination/` | cursors with an expiry | `paginate`, the page mappers | inserts and deletes between pages; expiry | no skip, no repetition; links work when handed out | `CursorPages` |
| JSON:API, `jsonapi/`, `web/handlers.py` | none | serialize, validate, sort, error pointers | optional members left out on one side only | what is written can be read; pointers lead back | `Documents` |
| Periodic task, `event/scheduler/repeat.py` | Redis lock, repetitions | `_loop` | a lock nobody releases, crashed holders | no overlap; repetitions kept; bounded gap | `PeriodicTask` |
| EventBridge scheduler, websocket consumer, CLI, logger | little or none | translation, process launching | | | not modelled, see section 5 |

How they interact: a transport (SQS poll loop, webhook route) calls `dispatch`,
which calls the store, the subscribers (through their middleware), the hooks, and
in the end one verb of the transport itself (a consumer is its own Acknowledger).
Replicas meet only in the queue and in the store. The pull loops of a process share
a control source; consumers and producers share the lifetime of one bus, so that a
handler publishes through producers that `stop()` closes. Envelopes of services meet
through the carrier in a message's attributes. The HTTP client's requests meet in the
cached token and its lock, the web application's in the authorizer's key client. The
periodic tasks meet in one Redis key.

## 2. Modules

**`Dispatch`** is the lifecycle all consumers share, for any number of consumer
processes. A delivery is a pair of consumer and message, the coroutine
`_dispatch(m)`; `pc` says at which `await` it is suspended, and a step of the model
is what runs from one `await` to the next: `ClaimKey` (189-199), `Receive`
(203-217), `SubscriberDone`, `Gathered` (217-230), `ReleaseClaim`, `Notify`, the
verb (`VerbReturns`, `VerbRaisesError`), `ReleaseAndRaise` (237-244). Errors:
`ClaimRaises` and `ReleaseRaises` (Redis unreachable, before or after the effect).
From outside come `Subscribe`, `Unsubscribe`, `Begin`, `Abandon` (the caller drops
or cancels deliveries, which releases no claim because `CancelledError` is no
`Exception`), `Halt` (stop) and `Die`. `processed` is a history variable. The module is
not run by itself: its transports extend it, and `DispatchSpec` is the abstract
specification they are checked and proved to implement.

**`SqsConsumer`** extends it with the queue (external: visible, removed,
dead-letter queue, newest receipt), the poll loop with its retry budget, the task
group of a batch, the three verbs, start, stop and crash. A verb is the step that
ends the delivery, except `dlq`, which is two (`SendToDlq`, `FinishDlq`), since a
crash, a stop or a sibling's error may fall between them. **`AtLeastOnce`** states
what the three verbs promise together: process, divert, and remove only after one
of them; `SqsConsumer` implements it with `diverted <- deadQueue`.

**`Webhook`** extends `Dispatch` with the reply of each POST. A POST is a message
and is dispatched once; POSTs of one event share a key, since the id is a hash of
the body.

**`ClaimStore`** is the promise of the `IdempotencyStore` interface, **`InMemoryStore`** the dict
with expiry times, lazy sweep and clock, which implements it under the mapping
`claimed <- LiveKeys`: an expired entry that still lies in the dict is no claim.
`Dispatch` uses the store at the level of `ClaimStore`, without expiry.

**`SubscriberChain`** is what `SubscriberDone` stands for: one `__call__` with filter,
authorization, the handler under a `RetryMiddleware` around a `GroupMiddleware` of
`RetryMiddleware`s, and the hooks. `branch` holds the task of each member. A fail-fast
group cancels the rest without waiting for them (`strays`); `CancelCall` is the
cancellation of the delivery, which a plain chain and `gather` pass on and
`asyncio.wait` does not.

**`ControlGate`**: pull loops that share one `HttpControlSource`. A lookup is three
steps (`Ask`, `PlaneAnswers`, `AnswerArrives`), because `get()` reads the clock before
it awaits and the plane may change meanwhile; `LookupFails` keeps the old state for
another TTL (fail-open). `Cycle` is the receive and the pace of a throttled loop,
`Operate` the operator, `CloseSource` the end of the client.

**`EventBus`**: `Build` from the settings with their case-insensitive lookup,
`SubscribeTo`, `StartBus`, `StopBus` with one step per consumer (`StopConsumer`, and
`LoopAwaited` when a cancelled loop has not ended yet) and per producer
(`CloseProducer`), `LoopEnds` at any time, and `BeginPublish`/`PublishNext` for the
fan-out of `publish()` by tasks that go on meanwhile.

**`EventFlow`**: messages on the queues of a chain of services; publishing opens a span
and writes the carrier (`OpenPublish`, `Send`), consuming reads it (`Enter`), the
handler classifies itself (`Mark`), `Exit` resolves the observation and emits its
envelope, `Settle` is the verb, with `dlq()` writing the consumer's whole message as a
new body (`Buried`). The redriver is `ReceiveDead`, `Resend`, `DeleteDead`,
`RedriveFails`. SQS admits ten attributes, so a carrier may not fit (`Carried`).

**`KafkaLoop`**: `Fetch`, `Through` or `Rewind` per record, `EndBatch` with the manual
commit, `StopLoop`, `Crash`, `Restart`; aiokafka's positions and commits are modelled
from their use. `batch` is the set of fetched records still to come, `lane` the
partition whose records the inner loop is in: the next record is the lowest of that
partition, or of any partition when it has none left, as `batches.values()` gives them. **`FanOut`**: the services of the two SQS examples, whose handlers send
to the next queues one by one (`PublishBranch`, `PublishRaises`) before the message is
acked; each has its own in-memory store, which `RestartService` loses.

**`HttpClient`**: requests that get a token from the cache or fetch one under the
lock, then go through the attempts of `RetryTransport`. The client's and the
issuer's idea of a token's end are separate fields. **`WebEdge`**: a request passes
the layers of Starlette from outside in (`Arrive`, `SigningKey`, `Refresh`, `Verify`,
`Route`) and an error passes them back out (`Unwind`, `Respond`); `Mro` is the class
hierarchy and `Resolve` the lookup the dispatcher does along it. Authentication is a
middleware or a dependency of the route (`style`). **`CursorPages`**: `First` and
`Follow` are requests of one client that walks through pages, `InsertDoc`,
`RemoveDoc` and `SecondPasses` happen in between; `Paginate` is filter, sort (`InOrder`),
limit, trimming and the two links. **`Documents`**: `Compose`, `Write` (the serializers),
`Read` (the models), and as pure operators error pointers and the two ways to read a
sort parameter. **`PeriodicTask`**: one loop per process, the Redis key as its expiry
time, time in ticks finer than a second so that `int(seconds)` can be seen to round.

`MC*` modules give the constants small values. `MCEvents`, `MCApps` and `MCWeb` are
benches: a variable `bench` names the part that moves while the others stay in one
initial state, so a run explores the sum of the parts and not their product.
Operators named `Mut...` are faulty variants of the operator after them, a plausible
bug each; `PROJECT.json` says which property of which run each one violates.

### What is abstracted

- A message is a model value with a key or none. Bodies, headers, logging and wording
  are left out; traces are the subject of `EventFlow` only, elsewhere hooks are steps
  without effect.
- stop() and a task group's failure end all deliveries of `SqsConsumer` in one step; the
  awaits of a cancelled coroutine's cleanup do nothing in this code but release
  connections. `EventBus` keeps the time between the cancellation and the end of a loop.
- The backoff delay of `retry()` is left out: a message made visible may be
  received at once. A delete with an outdated receipt may be ignored by SQS.
- `KeepsPromise` is checked with distinct keys per message. With a shared key a
  duplicate is removed because its *sibling* was handled, which `AtLeastOnce` does
  not express; `sqs_faulty` has shared keys and checks what holds there.
- `Unwire` never removes the last subscriber of a running consumer: the code acks
  a message without subscribers, deliberately and with a warning. `StartUnwired`
  in `sqs_live` covers that branch.
- Subscribers have distinct names (results are collected by name).
- HTTP: an exchange ends within `Timeout`; retries send the headers of the first
  attempt, as the code does. Periodic tasks: the event loop resumes a loop at most
  `Lag` late.
- A token is well signed or not, a cursor genuine or not: cryptography is its verdict.
  A document's members are none, empty or full; MongoDB is a finite set of documents and
  its sort the order in which the i-th document found has i - 1 before it (`InOrder`).
- `FanOut` takes a consumer as what `SqsConsumer` shows of it for handlers that end
  within the visibility timeout.

## 3. Runs

| Run | Shows | Bounds |
|---|---|---|
| `webhook` | `IInv`, `RefusedNotShutOut`, `AnsweredNotRerun`, `DispatchSpec` | 2 replicas, 2 POSTs of one event, 2 subscribers that come and go, stops, crashes |
| `sqs_solo` | `TypeOK`, `ClaimsOwned`, `OnlyPollingKillsLoop`, `KeepsPromise`, `HooksTellTheTruth` | 1 process, own store, 2 messages in a batch, 2 subscribers, every AWS call failing, visibility timeouts, crashes |
| `sqs_slow` | `OneOwner`, `ProcessedNotRerun` | 2 replicas on Redis, 2 messages, handlers slower than the visibility timeout, stops, crashes |
| `sqs_faulty` | `NoDeliveryOutlivesItsBatch`, `KeylessKept` | 1 process, 3 messages (two with one key, one without), an unparsable one, 2 subscribers that change, errors of verbs, store and polls, stops |
| `sqs_live` | `EveryMessageSettles` | 1 process, 2 messages, fair scheduling, all verdicts, start without subscribers |
| `events` | gate: `PauseTakesHold`; Kafka: `OnePartitionAtLeastOnce`, `RepeatsNeedRestart`; flow: `EnvelopesTellTheTruth`, `RedriveLosesNothing`; `EventsTypeOK` | 2 loops, TTL 3, lookup 2, clock to 7; 2 partitions of 2 records, one poisoned, 2 attempts, 1 crash; 2 hops, 6 spans, 3 messages, 10 attributes of which 7 are taken |
| `apps` | bus: `ToldMeansSent`, `CloseAfterLoops`; chain: `OutcomeIsTrue`, `RunsAccounted`; services: `EveryBranchReached`, `RepeatsNeedOwnFault`; store: `ImplementsClaimStore`, `SweepIsExact`; task: `NoOverlap`, `TaskGoesOn`; `AppsTypeOK` | 5 names of which two differ in case only, 2 loops per consumer, 1 publication; 2 members, 2 by 2 attempts; 1 order, 2 branches, 2 copies, 1 fault; 2 callers, 3 keys, room for 2, TTLs none/0/2, clock to 4; 2 processes, period 2.5 s, 3 repetitions, runs of 0 or 1 s, lag half a second, crashes, clock to 30 half seconds |
| `web` | client: `FirstAttemptAuthorized`, `ExecutedOnce`; edge: `RefusalNeedsTwoFailures`, `StatusFitsError`; pages: `WalksReachAll`, `LinksKeepTheirWord`; documents: `RoundTrip`, `ReadersAgree`; `WebTypeOK` | 2 tasks, one with a retried method, 2 attempts, timeout 1, buffer 2, lifetimes 3 and 5, clock to 6; 2 requests, 2 key ids, 1 rotation, 3 kinds of route errors, both styles; 4 ids at 3 times (0: field missing), pages of 2, cursor life 1, 1 write; names of up to 2 of 3 characters, up to 2 items |

Two replicas, two messages and two subscribers suffice for every pairwise race; a
third message appears where keyed and keyless ones must meet a poison sibling in
one group. `sqs_faulty` identifies states that differ by swapping the two subscribers,
which nothing in the model tells apart. Two attempts distinguish first, last and
earlier. The clock bounds let a token expire in the cache and be fetched again, the
control state go stale twice, and the periodic lock run out several times. Two hops
are a first and a later service, three messages a dead letter, its replay and the
message after it. Four documents are two full pages; two loops per consumer are a stop
and a second start. `GapBounded`, a part of `TaskGoesOn`, is tight: with a tick less
TLC finds a violation. Deadlock is checked except where the system really stops: a
stopped or dead consumer in `sqs_faulty` and `sqs_live`, and in the benches the ends of
finished repetitions, calls, walks and bounded clocks.

Properties that combine a few related facts are conjunctions of named parts: each
part is defined and commented in its module.

Four runs are expected to fail, each on one property that a comment or docstring
states and the code does not keep (`findings` in `PROJECT.json`):

- `stop_leaks_claim`: stop() cancels a delivery, and `except Exception` (base.py:237)
  does not see the `CancelledError`; the claim stays, and the redelivery is acked
  as a duplicate of a message nobody processed.
- `slow_duplicate_loses`: a duplicate is acked (deleted) while the first delivery
  is still running (base.py:198); when that one asks for a retry the message is gone.
- `stale_response`: after a last attempt that raised, the retry loop returns an earlier,
  closed response, or None (transport.py:112).
- `replay_is_another_step`: redrive() drops the idempotency key attribute and wraps the
  body (redriver.py:79-93), so a replay counts as another logical step, which
  envelope.py:50 says it is not.

Other disagreements were met while modelling and are noted under `hazards`:

- a webhook answers 200 to an event whose handlers failed or asked for a retry
  (webhook.py:64, 83-84), so the sender does not send it again;
- with several partitions the Kafka example commits past records that a rewind of
  another partition skipped (kafka_observer.py:159 against the comment at :106);
- where the auth middleware stands outside the dispatcher, a subclass of
  `AuthorizationError` that the application mapped to a status is answered 401 all
  the same (auth.py:114-115 against handlers.py:181-182);
- a body `ConsumerMessage` rejects ends the poll loop although the log says it is
  skipped; a subscriber that ends in `CancelledError` counts as a success; the handler
  of an error may drop another delivery's claim, since `release` has no owner token.

### Fairness

Safety runs assume none. `FairSpec` of `SqsConsumer` (used by `sqs_live`) assumes weak
fairness of each delivery's next step, of the verbs, of `Start`, `Wire`, `BatchDone`
and of visibility timeouts: the asyncio loop runs what is ready, subscribers and AWS calls end, SQS
timers run out. Receiving a given message has strong fairness, because a message is
visible again and again but not continuously, and SQS does not pass over one message
for ever. Failures (client errors, stops, crashes) are never fair: they may happen or not.
There is no fairness on subscriber verdicts, so a message that is retried for ever is an
allowed end, which `EveryMessageSettles` names. That the periodic task goes on and that
a pause takes hold are stated with explicit time bounds, hence as safety.

## 4. Proofs

- `Dispatch_proofs`. `DispatchTypeCorrect` holds without assumptions. `OneOwnerHolds`
  and `ProcessedNotRerunHolds` assume `Calm`, that neither verbs nor store raise;
  without it `OneOwner` is false, because `release` has no owner token (base.py:239).
  `OneOwner` is not inductive: it needs that an owner's key is in the store
  (`OwnersClaim`), that outcomes are known only from `gather` on and that a release
  is for a failed outcome (`OutcomePending`), and that only keyed deliveries claim
  (`KeyedPoints`); together `IInv`. `ProcessedNotRerun` needs besides one store and
  stable subscriptions (`Steady`, which is `Tame` with the shared store), and as invariants `WiringKept` (results belong to the
  present subscribers) and `ProcessedKept` (the key of a processed message stays
  claimed, by an owner past its release or by nobody).
- `SqsConsumer_proofs` proves `ImplementsDispatch`, step by step, and inherits both.
  `KeylessKeptHolds` is about the faulty world: verbs and store may raise, siblings and
  stop() cancel, processes die. It assumes only `Wired`: subscribers before start() and
  none that ends in `CancelledError`. The invariant `EarnedInv` says which deliveries
  may come to a delete: a keyless one at `ack` has been processed (`Kept`, which follows
  it from `gather` with a non-empty set of results), one that diverts has its copy in
  the dead-letter queue, and only a running consumer with subscribers has deliveries.
  `NoDeliveryOutlivesItsBatchHolds` assumes nothing: by `BatchInv`, deliveries, broken
  tasks and diversions are there only while the process's loop is at work on a batch,
  and the task group is left only when the last of them has ended or been cancelled.
  `OnlyPollingKillsLoopHolds` is about the calm world (`Tamed`: verbs and store raise
  nothing, subscriptions are stable, every body parses): no task raises (`NeverRaises`,
  which needs `WiringKept`), so what is left to end a running loop is the retry policy
  of the polls (`LoopInv`).
  `EarnedInv` gives `CompleteMeansHandledHolds` too (`Wired`) and, together with the
  calm world's, `HooksTellTheTruthHolds` (`Tamed` and `Wired`).
  `ClaimsOwnedHolds` and `KeepsPromiseHolds` are true of fewer worlds, and the
  assumptions are the two violation runs: `ClaimsOwned` assumes `Orderly`, the calm world
  without stop() and with stores that die with their process, else `stop_leaks_claim`
  shows a claim nobody owns; `KeepsPromise` assumes moreover `Apart`, one store per process and a key of its
  own for each message, else a duplicate that found the key claimed deletes what
  another delivery has not handled (`slow_duplicate_loses`). `SqsTypeCorrect` has no
  assumption.
- `Webhook_proofs` proves the same refinement of the webhook and two properties of its own.
  `AnsweredNotRerunHolds` assumes `Calm` and a shared store but no stable
  subscriptions: a 200 is sent only after a success, and `AnsweredKept` says that
  then the claim stays and no owner is at a point where subscribers run. It rests on
  `PostedOnce` (a POST is dispatched once and open meanwhile) and `HandledEnds` (a
  delivery all subscribers handled ends in success or in an error).
  `RefusedNotShutOutHolds` assumes `Calm` only.
- `Events_proofs`. `ControlGate`: `PauseTakesHoldHolds` rests on the age of the news: once
  the operator has paused and no lookup has failed since, a cached or answered "pull"
  dates from before the pause (`OldNews`), and a lookup under way is within its timeout
  (`Timely`).
  `KafkaLoop`: the records the loop is through with lie before those still in the batch
  (`ThroughBehind`), so that none of them can be the next, which is
  `RepeatsNeedRestartHolds`; with one partition every record before the position is
  handled, in the batch, or will be fetched again (`NothingSkipped`), so that a commit
  of the position skips none, which is `OnePartitionAtLeastOnceHolds`.
  `EventFlow`: `EnvelopesTellTheTruthHolds` assumes that the handlers' publishes are
  observed or go to SQS (the Redis producer injects the context of its own span, and
  the next delivery is then a child of a producer span). The invariant `FlowInv` follows
  a message's context through its whole life: a message is born below the delivery
  that published it or below a replay that names another trace (`Born`), a dead letter
  has kept its carrier if there was room for it (`Kept`), a task is in the span of its
  delivery or of the publish in it, which knows what to restore (`Handles`,
  `Publishes`), and nothing was said of a span still open (`Untold`), so that a second
  envelope for a span cannot be. `RedriveLosesNothingHolds` needs only that the letter
  to be deleted has been sent, with any transport.
- `Apps_proofs`, the parts of an application. `EventBus`: `CloseAfterLoopsHolds` needs
  that every loop that has not ended is the one its consumer knows, that the consumer
  is running or being waited for (`LoopKnown`), and that the consumers stop() has still to come to hold all that
  run (`StillToStop`). Configurations are finite (`BusAssumption`). `ToldMeansSentHolds`
  keeps for each publication how far it has come: its first k producers have the event
  and the others are still to do, unless one has raised (`SentBy`).
  `SubscriberChain`: `ChainInv` says for each place of the call what
  the members' tasks can have done: `OutcomeIsTrueHolds` is what it says of the end.
  `RunsAccountedHolds` is a count over a finite set of members, for which the runs are
  split into those of earlier rounds and those of this one (`RunsKept`, `Made`,
  `PerRound`). `FanOut`: a message being handled is where it was (`BusyKept`), what a
  service holds of it accounts for every next service (`HeldKept`), and a service
  handles an order again only with a claim that a fault of its own has cost it
  (`BudgetKept`).
  `InMemoryStore`: `ImplementsClaimStoreHolds` is the refinement: the key lemma
  `GrantAdds` says that a granted claim adds one live key and, sweep or not, changes no
  other; a TTL of zero is the promise's `GrantSpent`. `SweepIsExactHolds` uses the same
  lemma, and that the dict is finite for the comparison with its capacity.
  `PeriodicTask`: `NoOverlapHolds` assumes that the task has a longest run. A run
  ends, lag included, before the key that its process has set is gone (`RunsWithinKey`),
  so whoever finds the key gone finds nobody running. `TaskGoesOnHolds` is the other
  side: a loop that finds the key set knows that it was set by a run (`GapKept` bounds
  its age), and every repetition a loop has counted was a run, its own or another's
  (`RepetitionsRun`).
- `Web_proofs`. `HttpClient`: `FirstAttemptAuthorizedHolds` needs the assumption that the buffer is
  at least two timeouts (5 minutes against 60 seconds) and lifetimes exceed two
  timeouts. The invariant `TokensFresh`: the client's expiry is at most one timeout later
  than the issuer's, for a cached token and for one on the wire, and a request's
  deadline lies before its token's end. `OneFetchHolds`, which no run checks, is inductive
  as it stands; `ExecutedOnceHolds` needs that a request that is not retried has not been
  executed before its one exchange ends (`SentOnce`).
  `WebEdge`: `RefusalNeedsTwoFailuresHolds` counts. `LookupsCounted` says that a request
  is past its second lookup only with two failures noted; since requests replace each
  other's key client, what a request finds is never assumed. It assumes that routes do
  not raise `CognitoAuthorizationError` themselves, which no route of the package does.
  `StatusFitsErrorHolds` is mostly about the class hierarchy: a class's method
  resolution order is a chain from the class up (`MroIsChain`), so the first registered
  class of it is the nearest (`ResolveIsNearest`), in both layers, and an error's
  class and status survive the way out (`ErrorCarried`). It assumes that nobody maps
  `HTTPException` itself, which would give every `HTTPException` that one status
  instead of its own.
- `Pages_proofs`. `CursorPages`, for any finite collection, page size and lifetime of a
  cursor. The sort is proved from the number of documents before each: every number
  below the size is taken (`EveryRank`), so `InOrder` is the collection in order
  (`InOrderSorts`) and a page is a run of it without holes (`IsPage`). The invariant says
  of a page what its links point at (`Sound`), of a walk that what is still ahead lies
  behind its last document and is announced by a link (`OnTheWalk`), and of the way back
  that exactly what is not after the last page lies before this one (`WayBack`).
  `WalksReachAllHolds` follows, whatever is inserted and removed meanwhile;
  `LinksKeepTheirWordHolds` needs besides that two descending sequences of the same
  documents are equal (`OnlyOneDescends`), for the page found going back.
- `Documents_proofs`. `RoundTripHolds` follows a document through `Travelled`: what was
  written is the dump of a valid document, and reading a dump (`DocumentRead`) gives the
  document with its empty members gone. `ReadersAgreeHolds` is about text of any length:
  escaping is injective, because what it makes has no slash and a tilde only before a
  digit, and a letter is known by what is made of it at the end (`EscapeInjective`); the
  last slash of a pointer is where its last part begins (`LastSlash`), so a pointer has
  only one list of parts (`PointerInjective`).

What a recursive function or a fold computes along a sequence is proved in these two
modules by the least index at which it would fail (`NatLessThanWellFounded`), since the
library's induction theorems take an operator as a parameter.

The type invariants of the benches are theorems too: `EventsTypeCorrect`,
`AppsTypeCorrect` and `WebTypeCorrect`. A step of a bench is a step of one part and a
stutter of the others, so a behaviour of the bench is one of each part
(`BenchesArePlayed`), and each part has its own theorem (`GateTypeCorrect`,
`FanOutTypeCorrect` and so on). The properties' invariants know no upper bounds, so each
part has a second one: `GateNow`, `KafkaNow`, `FlowNow`, `BusNow`, `StraysKept`,
`FanNow`, `HoldersNow`, `TickNow`, `EdgeNow`. Some say more than a type: a record is
delivered to a process at most `MaxAttempts` times and once more, since only those not
through are tried again (`KafkaNow`); a span's parent is an earlier span and a message's context has
begun (`FlowNow`); what a group leaves behind are rounds that are over, one run per
member (`StraysKept`); the fan-out's copies and receives stay within what its faults
allow, counted per service (`FitsBounds`, `FaultsToSpare`); the authorizer's lock is
held exactly from the refresh to the end of the second lookup, and every answer has a
status of HTTP (`EdgeNow`). These proofs made three assumptions explicit that every
instance meets: the value that stands for "nobody holds the lock" is no request
(`EdgeAssumption`), the clock of the gate goes as far as one TTL (`GateAssumption`), and
a collection is finite (`PagesInit`).

Apart from these type invariants, whose subject they are, no proof uses a clock bound or
the bound on loops, records, spans or publications as an upper limit of what happens.
Where two arms of a `CASE` overlapped, an `EXCEPT` hid a field that mattered, or a sort
was a library operator whose definition says nothing to the provers, the attempt to
prove failed for that reason and the definition was rewritten to say one thing.

Every invariant and action property of a passing run is thus stated by a theorem. Only
model-checked is `EveryMessageSettles`, a liveness property under fairness, which is out
of the prover's reach, and the counterexamples of the four runs that expect one.

## 5. Not modelled

- `event/scheduler/eventbridge.py`: one AWS call per method with formatted arguments.
- `event/consumer/websocket.py`: not reachable from the consumer factory, and its
  handler passes a dict where dispatch() needs a `Message`, so that no delivery of it
  gets as far as the lifecycle.
- `cli/`, `logger/`: process launching, formatting of log records.
- The sinks of the observability package beyond "shipped or not"; the synchronous retry
  loop (the asynchronous one without interleaving); `send_paginated_request`; Redis TTL
  conversions (`idempotency/redis.py:33`); include and filter parsing of JSON:API queries.

## 6. What is left

The gate is not composed with `SqsConsumer`: between the two there is only the receive,
which `ControlGate` has as `Cycle`. Liveness is checked on one instance only
(`sqs_live`).
