# eventbus-rs in TLA+

`eventbus-rs` publishes typed events to NATS JetStream and runs handlers for
them "effectively once": deliveries are at least once, an idempotency store
keeps a handler from running twice for one message id, and failures that cannot
be retried go to a dead-letter stream (DLQ). These modules model it from
the derive that gives an event its subject to the outcome of its handler, with
the set-up of a process, check it with TLC on small instances, and prove the
safety properties with TLAPS for every instance.

Paths below are relative to `src/crates/`; `subscriber.rs` is
`bus-nats/src/subscriber.rs`.

## 1. Inventory

| component | state | operations | interacts with |
|---|---|---|---|
| workers (`subscriber.rs:352-605`, `ack.rs`, `handler.rs`) | one task per delivery: the message, the delivery number, the claim it holds | `process_message`, `handle_terminal_failure`, `mark_done_and_term`, `release_and_nak` | store, DLQ, handler, JetStream |
| subscription loop (`subscriber.rs:152-350`, `:60-101`) | permits, `JoinSet`, message stream, reconnect backoff, watch channel | pull, spawn, join, reconnect; `drain`, `Drop` | workers (spawn, abort), JetStream |
| consumer configuration (`consumer.rs`) | none; on the server: status and delivery count of each message | `get_or_create_consumer` | JetStream |
| idempotency stores (`inbox/redis.rs`, `inbox/nats_kv.rs`, trait in `bus-core/src/idempotency.rs`) | key -> pending / done, with a TTL | `try_claim`, `mark_done`, `release` | workers of all subscriptions |
| DLQ (`dlq.rs`) | one stream per stream and durable | `ensure_dlq_stream`, `publish_to_dlq` | workers |
| publisher (`publisher.rs`, trait in `bus-core`) | receipts of a batch; on the server: the stream and its deduplication window | `publish`, `publish_batch` | JetStream |
| stream and client set-up (`stream.rs`, `client.rs`) | none; on the server: the stream | `connect`, `ensure_stream` | JetStream |
| bus facade (`event-bus/src/bus.rs`, `builder.rs`) | the client and one shared store | `build`, `publish`, `subscribe` | all of the above |
| advisory logger (`advisory.rs`) | a task, backoff, its handle | subscribe, log, reconnect, abort | NATS |
| derive macro (`bus-macros/src/event.rs`) | the rest of the template, the format string, its arguments | `build_subject_expression` | rustc, publisher |
| ids, errors | none | parsing | |

What is hard here: several workers, on one or several durables, work on copies
of one message (redeliveries, and duplicates published outside the deduplication
window) while the server's ack timers run; every await of a worker can fail with
or without its effect, and the task can be dropped at each of them; the server
counts deliveries that the worker only NAKs; entries expire; a subscription is
drained or dropped while its loop waits for a permit, sleeps before a
reconnection, or joins; a publish that failed may have stored its event, and its
request may still be under way when the event is published again; replicas ask
for a stream, a durable or a bucket and create it while others do the same, and
end half way.

What makes each part correct:

- workers: one handler per message id at a time; no rerun after an outcome;
  nothing is acked without an outcome; retries end, and end in the DLQ;
- loop: as many handlers as permits; `drain` returning true means that nothing
  runs; a timeout or a drop stops every worker; a lost connection loses nothing;
- stores: `try_claim` is atomic, `done` is final, even when callers give up
  waiting for calls that are executed later;
- publisher: one copy per id within the window, batches in their order, receipts
  that are true, although an error does not mean that nothing was stored;
- derive: a template that is accepted gives the subject that it means, stray
  braces included;
- set-up: a subscription that runs has its streams, its durable with a limit that
  its processes agreed on, its bucket and a place for its dead letters, and where
  the code leaves a gap in that, nothing worse than the gap;
- advisory logger: it subscribes again for ever, and ends with its handle.

The individual hazards, with their lines, are in `PROJECT.json`.

## 2. Modules

| module | what it is |
|---|---|
| `JetStreamConsumer` | server side of the durable pull consumers (external): status and delivery count of each slot `<<durable, sequence>>` |
| `Subscriber` | all workers of a bus with the store they share; extends `JetStreamConsumer` |
| `EffectivelyOnce` | abstract: executors begin, complete, leave or reject message ids |
| `SubscriberRefinement` | `Subscriber` implements `EffectivelyOnce`, and uses the store as `IdempotencyStore` allows |
| `MCSubscriber` | instances of `Subscriber` for TLC |
| `SubscriptionLoop` | the spawned loop of one subscription, its workers as tasks, and the handle |
| `IdempotencyStore` | abstract: the contract of the trait |
| `Inbox` | the Redis and the key-value store as requests and answers; implements `IdempotencyStore`, except for one answer of the bucket |
| `EventLog` | abstract: a log of events that only grows, and the events that are confirmed |
| `Publisher` | callers of `publish` and `publish_batch`, the stream and its window; implements `EventLog` |
| `DeriveEvent` | the derive's scanner of subject templates, and what its format string yields |
| `Publishing` | derive and publisher together: a program compiled from a template, and its events; extends `Publisher` and `DeriveEvent` |
| `MCPublishing` | its instance for TLC |
| `AdvisoryLogger` | the task of the advisory logger and its handle |
| `BusSetup` | processes from start to running subscription, and what that leaves on the server; extends `AdvisoryLogger` |
| `MCBusSetup` | its instance for TLC |
| `SubscriberProofs`, `SubscriberRefinementProofs`, `SubscriptionLoopProofs`, `InboxProofs`, `PublisherProofs`, `DeriveEventProofs`, `PublishingProofs`, `BusSetupProofs` | theorems |

The modules are layered. `Inbox` shows what a store does with calls that fail or
execute late, and that this is `IdempotencyStore`, the contract; `Subscriber` uses a
store that takes one atomic step per call, and seen from there its workers are callers
of that contract (`KeepsStoreContract`); `EffectivelyOnce` is what users are promised.
`SubscriptionLoop` is
beside `Subscriber`: it knows that a worker runs and ends, `Subscriber` knows
what happens in between. What they share is that the loop may abort a worker at
any await: `Cancelled` and `WorkerAborted` there, `Abort` here. `Publishing` ends at
the stream. It says nothing of handlers: a message on the stream need not be handled,
as the violated runs of `Subscriber` show, and what does become of it is stated there.

### Subscriber

`process_message` is cut at its awaits. `pc[w]` is the await worker `w` is at,
and each action is the answer to that await with the code up to the next one:

| `pc` | await | actions |
|---|---|---|
| `received` | `store.try_claim` (399) | `Claimed`, `AlreadyPending`, `AlreadyDone`, `ClaimError`; `InfoError` returns before it (362-371) |
| `handling` | `handler.handle` (457) | `HandlerOk`, `HandlerTransient`, `HandlerPermanent` |
| `dlq` | `publish_to_dlq` (551) | `DeadLettered`, `DlqError` |
| `mark_ok`, `mark_term` | `mark_done` (463, 582) | `MarkDone` |
| `release` | `release` (592) | `Release` |
| `ack`, `term` | double ack, TERM | `Acknowledge` |
| `nak` | NAK with a delay | `Nak` |

A payload that does not deserialize goes from the claim straight to
`handle_terminal_failure` (`GiveUp`), which publishes to the DLQ if the durable has
one and otherwise marks the message done and terms it. A failed `mark_done` or
`release` does not change the way of the message. A failed DLQ publish is logged, the
claim released and the message NAKed; at the last delivery the error in the log is all
that is left, and the history variable `dlqFailed` remembers it (`LogDlqError`). `Key`
is the header, or a slot that stands for the UUIDv5 over stream, durable and sequence;
the store is shared by all durables as in `bus.rs:87`.

Failures are switched on one by one by the constant `Faults` (see the head of
the module). A store call that fails may have had its effect; a dead letter may
be stored and its ack lost; acks, NAKs and TERMs may be lost; a worker may die at
any await; with `"slow"`, ack timers end while a worker has the message.

Abstracted: time (an ack timer or a NAK delay may end in any later state, so
`compute_backoff` and the consumer's `backoff` list are covered as arbitrary
delays), payloads, header wording, logging. A store effect that lands after its
caller gave up is in `Inbox`, not here. `deadLetters` is keyed by message and
delivery number as the deduplication id is; the DLQ's window is taken to be long
enough. `MaxDeliver = 0` stands for the "no limit" of values <= 0.

### SubscriptionLoop

`loop` is the await the loop is at: `acquire` and `open` (225-243, 265),
`backoff` (254-257, 273-276, 309-312), `poll` (the biased select, 284-339),
`permit` (325-329), `join` (343). The bias is in the guards: `Join` needs
`~shutdown`, `Take` and `StreamEnds` need `~shutdown` and no exited task.
`acquire_owned` is outside the select, so `Spawn` has no such guard. `shutdown`
says that the watch channel wakes the loop: a value was sent, or the sender was
dropped with the handle. `Cancelled` is the moment the runtime drops the loop's
task after `abort`; the `JoinSet` goes with it and its tasks are dropped one by
one (`WorkerAborted`). `DrainCancelled` is a `drain` whose own future is dropped:
it took the `JoinHandle`, so nothing is aborted and the loop ends on its own.
A message buffered by the client is redelivered when its stream is dropped.
A panic of a worker is one of the ways of `WorkerEnds`. Stream items that are
errors are skipped by the loop (317-323) and change nothing.

### Inbox

A call is a request which the server executes later. `Answered`: executed, and
the caller gets the answer. `Failed`: the caller gets an error; the request was
never sent, was executed, or is under way (`stale`) and executes at any later
moment (`Late`). `Die`: the task is dropped inside the call. For Redis,
`try_claim` is one script. For the bucket it is `create` and then, on any error,
`get`; finding nothing there is answered `Claimed` (`nats_kv.rs:87`). That step is
`ClaimedWithoutEntry`, and `GapFreeSpec` is the specification without it: everything
else, releases, failures, late requests and deaths, is in it.

### Publisher

`pc[c]` is the await a call is at: `send` (`publish_with_headers`,
`publisher.rs:34-39`, after the id, the subject and the payload were taken from
the event) and `wait` (the ack future, 41-43). `publish_batch` is the sequential
loop of the trait (`bus-core/src/publisher.rs:26-34`), so `publish` is a batch of
one, and `?` drops the receipts of the events that are stored already.

| step | code |
|---|---|
| `SerdeError`, `SendFails` | an error before anything was sent |
| `Send` | the request is sent; `Arrives` or `Refused` is the server's answer |
| `Acknowledged` | the receipt, with the server's sequence and `duplicate` |
| `AckFails` | the ack or the request is lost, or the request is under way (`late`) |

`LateArrives` executes a request that nobody waits for, at any later time. A
caller may publish its batch again after an error, or not (`GiveUp`). `window[id]`
is the entry of the server's deduplication window, 0 when there is none.
`WindowEnds` may happen at any time for ids outside `Covered`; ids in `Covered` are
those whose retries, late requests included, end within the window. That is the
reading of `duplicate_window` which a user has to arrange for, so it is a
parameter and not a property.

### DeriveEvent and Publishing

A template is a sequence of atoms: braces, blanks, the prefix `self.`, names, other
text. One turn of the loop of `build_subject_expression` is one action: `Unclosed`,
`Interpolate` (which rejects anything in braces that is no field), and `Finish`. The
text outside placeholders goes into the format string as it stands (`event.rs:216`),
and a format string has its own rules about braces, which `BracesEscaped`, `Collapsed`
and `Subject` translate: in a row of `}` every second one is dropped, a row of an odd
number is a compile error, and neither if the template has no placeholder, because the
string is then not a format string. `Meaning` is the reference: a definition on the
template alone, by its placeholders and the braces that close none of them
(`StrayBraces`), without scanner or format string. `AtomsAssumption` says that an atom
which stands for text or a name is none of the braces, blanks and prefixes that the
scanner looks for.

`Publishing` builds a program from any template whose subjects are in the
instance and publishes its events.

### BusSetup and AdvisoryLogger

`Main(p)` is the sequence of server calls of the examples' `main` with the
options of process `p`: connect, advisory logger, bucket, build, the DLQ stream if
the bus has one, `get_stream`, durable, the DLQ stream of the options. `at[p]` is
the place in it; 0 is a process that does not run. get-or-create calls are two
requests, `Info` and `CreateStream`, `CreateDlq` or `CreateConsumer`; any error ends
the process (`Exit`), and so may a crash at any call (`Fail`); `Start` starts it
again from the beginning. The server keeps what was created, and an existing
stream, durable or bucket is used as it is, updated, or refused, where the server
may do either. `dlqs` maps the name of a DLQ stream (`dlq.rs:105-107`, parts
joined by `_`) to the subscription whose subject it captures. A newer release is a
process with other options.

`AdvisoryLogger` is the spawned task: it logs, sleeps with a doubled backoff after
the subscription ends or cannot be made, subscribes again, and is aborted at any
of these awaits when the handle is dropped or main ends.

## 3. Runs

| run | instance | question | result |
|---|---|---|---|
| `subscriber_faults` | 2 workers, 1 durable, 2 sequences with one id, one of them undecodable, every fault but expiry, one recreation | is a finished message ever handled again, or both handled and given up; is a handled message ever dead-lettered afterwards; do workers implement `EffectivelyOnce`, and do they use the store as its contract allows | holds |
| `subscriber_expiry` | 3 workers on 2 durables, one without a DLQ, expiry of abandoned claims and of done entries | do handlers exclude each other; is anything settled without an outcome; do retries end | holds |
| `subscriber_retries` | 2 workers, a duplicate, a poison message, lost acks, failing dead letters, claims that expire under their owners | is every claim ended; does every message get an outcome, or at worst the logged failure of its last dead letter | holds |
| `subscription_loop` | 3 messages, 2 permits, prefetch 2, up to 8 connection failures | do permits balance; does every drain, in time, too late or cancelled, end with nothing running; do aborts reach the workers; is every message handled across reconnections | holds |
| `inbox_redis` | 3 callers, 2 keys, all failures | is the Redis store the contract | holds |
| `inbox_kv` | 3 callers, 2 keys, releases and all failures, `GapFreeSpec` | is the bucket the contract, apart from the one answer | holds |
| `publishing` | 2 callers with batches of the same events, one event that does not serialize, one whose field has a dot, one id outside `Covered`, all templates of up to five atoms and some longer ones | derive and publisher together: copies, order, receipts, retries, subjects; does `Publisher` implement `EventLog` | holds |
| `bus_setup` | 2 processes in six deployments: replicas with a logger, a bus that subscribes to another one's stream, colliding DLQ names, a release that changes `max_deliver`, one that changes `max_age`, a builder without a store | does set-up end with everything that a subscription needs; does the logger recover and stop | holds |
| `subscriber_slow` | a handler slower than `ack_wait` | `NoSilentLoss` | violated |
| `subscriber_abort` | a worker dies | `RedeliverySeesFinalState` | violated |
| `subscriber_fan_out` | 2 durables, one header | `EveryDurableHandles` | violated |
| `inbox_kv_releases` | 3 callers, 1 key, releases | `OneOwner` | violated |

Bounds. Two workers are enough for every pair of workers to be at any two awaits; the
third one in `subscriber_expiry` gives a durable two workers of its own beside the
other durable's. `MaxDeliver` is 2: a first delivery that is not final and a last one
that is; in `subscriber_retries` it is 3, so that a dead letter can fail, be retried
and fail again, and a claim can expire twice; `DeliveryCap` bounds nothing more, it
equals `MaxDeliver`. `MaxRecreations` bounds recreations of the durable, `MaxFailures
= 8` is the number of failures in a row after which the reconnect backoff passes its
cap (200 ms doubled eight times). With 3 messages and 2 permits a message waits for a
permit, and with prefetch 2 another one waits in the buffer at that time.
`subscriber_faults` checks safety only and treats its two workers as interchangeable
(`MCSymmetry`). Its states leave out `dlqFailed` (`MCView`): no action reads that
variable, and of this run's properties only `TypeOK` names it, for its type. Deadlock is not checked where the
system comes to rest: messages settled and no timer left, a loop that ended or was
cancelled.

In `publishing`, `MaxLog = 4` lets the log hold every event and one more copy of the
id outside `Covered`; `MaxFailures = 2` lets both callers fail, or one of them twice,
with a late request of each left behind. Five atoms are a text, a whole placeholder of
four atoms or two stray braces beside others; the longer templates have two
placeholders, blanks, doubled braces, an unknown field, and a brace inside a
placeholder. In `bus_setup` two processes make every race of two requests;
`MaxFailures = 2` ends both once, or one of them twice, and `MaxLoggerFailures = 8`
takes the logger's backoff past its cap. Deadlock is checked there: a process may
always be started or stopped.

Fairness. In `Subscriber`: a worker that waits at an await gets some answer
(`WF(Step(w))`: the runtime polls it, calls have timeouts, handlers return),
a free worker takes what can be delivered to it, ack timers end and exhausted
messages are dropped. Faults and expiry are never forced to happen, and a handler
may fail every time. In `SubscriptionLoop`: the loop is polled, an aborted task
is cancelled, the server delivers. Nothing forces a user to drain, a timeout to
fire or a connection to fail. That handlers return is not part of that
specification: it is the premise `HandlersReturn` of `DrainEnds` and
`EverythingHandled`, and `AbortReachesWorkers` holds without it. In `Publisher`
every await of a publish ends, with an answer or the client's timeout; that
callers retry is the premise `CallersRetry` of `RetriesSucceed`. `Publishing` adds
that the compiler goes on. In `BusSetup` the calls of a process end, and a
process that ended is started again: `SetupSucceeds` is about a supervised
process. The logger's sleeps and requests end.

### What the violated runs show

- `subscriber_slow`: a redelivery that finds the claim pending is NAKed and uses
  one delivery. If the handler outlasts `ack_wait` often enough, the limit is
  used up while attempt 1 runs; it then fails with `Transient`, is not
  final by its own number, and is neither retried nor dead-lettered.
- `subscriber_abort`: with two deliveries, the worker of the first one claims and
  dies, and its ack timer brings the second and last one. That one finds the claim
  pending and is NAKed, for a later redelivery that does not come; nobody ends the
  claim before the TTL.
- `subscriber_fan_out`: the key does not name the durable, so the second durable
  of a bus acks a message with a header without handling it.
- `inbox_kv_releases`: a release between `create` and `get` makes the bucket
  answer `Claimed` although nothing was written; the next caller's `create` then
  succeeds as well.

## 4. Theorems

All are proved by TLAPS for any sets of workers, durables, messages, callers and
keys, any assignment of headers, any limits, and any templates. The assumptions of the
second column are conditions on constants, defined before the theorems that need
them. Besides, each module names what its constants are (`ASSUME`).

| theorem | assumption | says |
|---|---|---|
| `SubscriberProofs!TypeCorrect` | | `[]TypeOK` |
| `SettledAccounted` | none: under every fault | what is acked or termed has an outcome |
| `OneHandlerAtATime` | `NoEarlyExpiry` | `HandlerExclusion` |
| `FinishedNeverReruns`, `OutcomesExclude`, `DoneStays`, `DeadLettersAreUnhandled` | `NoExpiry` | `NoRerun`, `OneOutcome`, `DoneIsPermanent`, `HandledIsNotDeadLettered` |
| `ClaimsAreEnded`, `RedeliveriesSeeTheEnd` | `ClaimsSurvive` | `PendingHasOwner`, `RedeliverySeesFinalState` |
| `NothingIsLost` | `NoneDies` | `NoSilentLoss` |
| `DurablesHandle` | `KeysAreLocal`, under every fault | `EveryDurableHandles` |
| `SubscriberRefinementProofs!EffectivelyOnceDelivery` | `NoExpiry` | `Subscriber` implements `EffectivelyOnce` |
| `EffectivelyOnceMeans` | | what `EffectivelyOnce` promises: one executor per id, none once it is finished, and finished for good |
| `WorkersRunUnfinished` | `NoExpiry` | so the workers keep that |
| `WorkersKeepContract` | `NoExpiry` | `KeepsStoreContract` |
| `SubscriptionLoopProofs!LoopIsSafe`, `PermitsNeverLeak`, `DrainTrueIsQuiet`, `OneLateStart` | | safety of the loop |
| `LoopTypes` | | `[]TypeOK` of the loop |
| `ZeroPermitsBlock` | `Concurrency = 0` | no worker ever starts; a loop with a message in hand stays at its permit until it is cancelled |
| `InboxProofs!InboxTypes` | | `[]TypeOK` of either store |
| `GapFreeOneOwner`, `GapFreeDoneIsFinal`, `GapFreeContract` | either store, `GapFreeSpec` | `OneOwner`, `DoneIsFinal`, the contract: `ClaimedWithoutEntry` is the only step that breaks them |
| `RedisHasNoGap` | Redis | it has no such step: `Spec` implies `GapFreeSpec` |
| `RedisOneOwner`, `RedisDoneIsFinal`, `RedisImplementsContract` | Redis | so the Redis store keeps the contract |
| `ContractPromises` | | what the contract promises: one owner per key, whose entry is pending, and done for good |
| `PublisherProofs!PublisherIsSafe`, `OneCopy`, `OrderedBatches`, `TrueReceipts` | | safety of publishing: `OneCopyPerId`, `BatchIsOrdered`, `ReceiptsAreTrue` |
| `PublisherImplementsLog` | | `Publisher` implements `EventLog` |
| `DeriveEventProofs!DeriveIsRight` | | for templates of any length: `DeriveAcceptsTemplates`, and the generated subject is the template's meaning for all field values |
| `PublishingProofs!PipelineIsPublisher`, `PipelineIsSafe`, `PipelineImplementsLog`, `PipelineTypeCorrect` | | what holds of the publisher holds in the pipeline, and its types |
| `PipelineIsDerive`, `PipelineSubjects` | | the same of the derive (`SubjectsAreFaithful`) |
| `BusSetupProofs!SetupTypes`, `RunningProvisioned` | | `[]TypeOK`, `[]RunningIsProvisioned` |

`NoExpiry` is what the defaults give: the stream keeps messages for 7 days
(`stream.rs:22`) and an entry, written after its message, for 7 days too, so
the entry outlives the message. It does not cover a publisher that sends the same
id again after that. `NoEarlyExpiry` only asks that no entry expires while a
worker that owns it still runs. `ClaimsSurvive` excludes failing store calls and deaths
of workers, and nothing else: claims may expire under their owners. `NoneDies` excludes
in addition slow handlers, unparsable deliveries and recreations; acks may be lost, the
DLQ may fail, and claims may expire. `KeysAreLocal` says that no two durables have a key
in common: one durable per bus, or publishers without a `Nats-Msg-Id`.

Each violated run has a theorem beside it that says what the violation comes from:

| run | without its fault | theorem |
|---|---|---|
| `subscriber_slow` | handlers faster than the ack timer, no deaths, no store failures | `NothingIsLost` |
| `subscriber_abort` | no deaths, no store failures | `RedeliveriesSeeTheEnd` |
| `subscriber_fan_out` | no key shared by durables | `DurablesHandle` |
| `inbox_kv_releases` | no `Claimed` from a get that finds nothing | `GapFreeOneOwner` |

How the arguments go:

- Claims (`ClaimInv`). `HandlerExclusion` is not inductive. Its strengthening says
  that the key of an owner (a worker between `Claimed` and the call that ends the
  claim) is pending and has no other owner. A claim needs an absent entry, so nobody
  owns it; and only owners reach `mark_done` and `release`.
- Settled messages (`AccountInv`). An ack may follow from a `done` entry alone, so a
  `done` entry must have an outcome behind it, and so must a worker that is past its
  outcome.
- Finished messages (`FinishInv`). `NoRerun` needs in addition that the entry of a
  finished message is never absent, and that a worker that still owns it is about to
  mark it, not to release it.
- Loss (`LossInv`). A message without an outcome has, under one of its sequences, a
  delivery left on the server or a worker that has not decided yet (`Hopeful`). The
  NAK that answers a pending claim spends a delivery, but `PendingHasOwner` gives the
  claim an owner, who is hopeful for the same key. `PendingHasOwner` is inductive by
  itself, also when a claim expires under its owner and has two: whoever ends it first
  leaves no pending entry. A dead letter that fails either leaves a delivery or is in
  `dlqFailed`.
- Loop (`LoopInvariant`). A message is in one place (`Apart`), so a worker's permit is
  its own and the cardinalities add up (`FS_AddElement`, `FS_RemoveElement`); after
  the channel was used nothing can be taken, so a message in hand is the last one.
- Stores (`InboxProofs!Inv`). The entry of an owned key is pending; so is that of a
  key whose end is stale (sent, and nobody waits for it), which nobody owns and which
  has no other stale end (`StaleEndIsLast`): a late `mark_done` or `release` acts on
  the claim it was meant for. Every claim must have written its entry for that, which
  is just what `ClaimedWithoutEntry` does not. With Redis no caller is ever at the get
  (`RedisHasNoGap`), so all of it carries over.
- Redeliveries, durables. `RedeliverySeesFinalState` follows from `PendingHasOwner`.
  `FinishedBehind` follows an outcome from the worker that has it through the entry to
  the settled message, by whatever durable; with `KeysAreLocal` it is the same one.
- Store contract. Owners in the contract are the workers of `Owns`. A claim is
  `Claim`, an end is `End`, a worker that dies, or whose claim was answered with an
  error, leaves an entry behind that nobody owns (`ClaimUnseen`, `Abandon`).
- Zero permits. `SubscriptionLoop` has no assumption that `Concurrency` is positive,
  as `subscribe` checks nothing. With 0 no permit is ever free and no run could fire
  the rest of the loop, so this is a theorem and no run.
- Derive (`DeriveInv`). While the scanner runs (`Scanned`), what it has left is the
  rest of the template, no placeholder lies across the place it is at (`WholeUpTo`),
  and the format string has as many holes as arguments were collected. The pieces that
  the format string gives for what was scanned, put together, are those that the
  template means up to there (`Agree`), for every function from fields to texts; at
  the end that is the whole template (`Compiled`). Rows of stray braces agree too: a
  placeholder ends a row on either side (`RunsAlike`), so that a brace is the second
  of a pair in the template when it is in the format string (`TextPaired`). The two
  sides have one piece for each place of different texts, so the lemmas say how
  `FlattenSeq` treats an appended sequence and pieces that are empty. What would be
  induction over the length of a text is done by contradiction: the lengths at which a
  lemma fails have a least one (`LeastNat`, from the well-foundedness of < on Nat),
  and the one before it is then a good one.
- Publisher (`PublisherProofs!Inv`). What a call knows is its receipts and the ack on
  its way (`Known`), so that an ack's arrival changes nothing: each entry names a copy
  of its event, and a copy is new to one of them. `OneCopyPerId` needs that a covered
  event which somebody may still publish, or which is under way, is in the window if
  it is stored (`CoverInv`). `BatchIsOrdered` needs that whatever comes before a late
  event is stored already (`LateInv`), and of a call that what it has receipts for is
  stored. For `EventLog`, an event that arrives is a `Store` or, a duplicate, a
  stutter; a call that returns Ok is a `Confirm`.
- Pipeline. Every step of it is a step of `Publisher` or leaves its variables alone.
- Set-up (`BusSetupProofs!Inv`). `Past(p, call)` says that the process has this call
  behind it, `Provisioned` what each call leaves, and nothing on the server goes away
  (`Monotone`). A process that runs is past every call of its program (`MainCalls`).
  `Owned` says that a limit or a DLQ stream on the server comes from some process; a
  DLQ name tells its stream and its durable once the number of parts of the stream's
  name is known (`NameDecodes`). What is left without that is in the property: the
  limit is one of `Limits(s)`, the DLQ stream that of one of `Namesakes(s)`. A create
  request of `build` was preceded by the validation (`BuildIsChecked`).

Only model-checked: liveness (`ComesToRest`, `EventuallyAccounted`, `DrainEnds`,
`AbortReachesWorkers`, `EverythingHandled`, `CallsReturn`, `RetriesSucceed`,
`SetupSucceeds`, `LoggerRecovers`, `LoggerStops`), which the
prover does not do, and the four violations. Every safety property of a passing run
is a theorem.

## 5. Not modelled

- Derive: parsing of attributes and the checks of the struct's shape. Each is one
  condition that ends in a compile error.
- Message ids: parsing and generation. Ids are values, and the fallback id is
  `Key`.
- Wording: log texts, headers, the payload fields that the advisory logger
  extracts and cuts off.
- Stream options that no property depends on: replicas, storage, age. Streams of
  events with one name have one configuration in `BusSetup`.
- Server-side deletion of streams, and set-up requests executed after their
  caller gave up. Recreation of a durable is in `Subscriber`.
- Persistence and clustering of the servers, and restarts of the idempotency
  server that lose data.
- Composition of `SubscriptionLoop` with `Subscriber`: a buffered message of an ended loop
  is in `Subscriber` a delivery that nobody took. A product of the two adds states
  and no step that either of them lacks.
- A concurrency of 0 is in no run; `ZeroPermitsBlock` says what it does.
