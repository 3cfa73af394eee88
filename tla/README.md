# TLA+ verification of the social network services

This directory holds TLA+ models of the services in this repository, the TLC
configurations that check them on small instances and theorems, checked by
TLAPS, that hold for every value of their constants.

## 1. Inventory

The system is five small services over three databases and a broker. Everything
else in the repository is the vendored userver framework, set-up scripts and the
service template. Of userver, two parts are modelled because every handler of the
C++ services waits in them: the connection pool of its PostgreSQL driver and, below
it, the semaphore of its task engine.

| component | state it keeps | operations | interacts with |
|---|---|---|---|
| event-service/producer.py | how far its script is | connect, declare exchange, five `publish_event`, close | RabbitMQ |
| RabbitMQ (external) | exchange, bindings, durable queue `read-model.events`, unacknowledged deliveries | route, deliver, requeue, stop, start | producers, consumers |
| event-service/consumer.py | the message its callback handles | connect, bind, consume, `process_event`, ack, nack | RabbitMQ, MongoDB |
| MongoDB read model | `processed_events`, `user_activity_view`, `post_activity_view` | `find_one`, `insert_one`, `update_one` | consumer |
| user-service | PostgreSQL `users`, `profiles` | POST /users, GET /users | PostgreSQL |
| chat-service | PostgreSQL `chats`, `chat_members`, `messages` | POST /messages, GET /messages | PostgreSQL |
| wall-service | PostgreSQL `posts` | POST /posts, GET /posts | PostgreSQL |
| auth-service | none | POST /auth answers a constant token | - |
| mongo-api | MongoDB `users`, `posts`, `messages`; Redis cache and rate-limit counters | CRUD handlers, cache-aside reads, `check_rate_limit` | MongoDB, Redis |
| userver `ConnectionPool` | idle connections, units of `size_semaphore_`, `wait_count_`, settings, connect and close tasks | acquire, release, maintain, change settings, destroy | handlers of the C++ services, PostgreSQL, semaphore |
| userver `CancellableSemaphore`, `TaskContext` | `acquired_locks_`, `capacity_`, wait list; per task flags and epoch of its sleep | lock, unlock, set capacity; sleep, wake up, cancel, time out | pool, task processor, timers |

What is hard here:

* **Concurrency.** userver runs one coroutine per request, FastAPI runs the
  synchronous handlers in a thread pool, and both issue several database calls
  per request without a transaction. Several consumers may share the queue.
* **Failure between two calls.** No handler of more than one statement is
  atomic: registration (two INSERTs), a first message (SELECT and three
  INSERTs), `process_event` (`find_one`, `insert_one`, `update_one`, ack),
  `check_rate_limit` (clock, INCR, EXPIRE), cached reads and invalidations.
* **Redelivery.** RabbitMQ redelivers what was nacked, or whose connection
  ended, perhaps while the first callback still runs.
* **Ordering.** The read model's documents are complete only if `UserCreated`
  is projected before the events that upsert the same document.
* **Waiting.** A pool request sleeps for a connection that somebody else pushes;
  unlocks, deadlines and cancellations wake the same sleep at once, and a
  destructor waits for all the tasks of its pool.
* **Time.** Rate-limit windows and cache entries end while requests are on
  their way.

What makes each component correct:

* event-service: no message leaves the queue unrecorded; a redelivered event
  counts once; events are applied in queue order; the queue drains.
* user-service: a registration answered 201 is complete; an incomplete user has
  an explanation.
* chat-service: both parties of a message find it, nobody else does; two users
  have one private chat.
* rate limiter: at most `RATE_LIMIT` requests pass per window; nobody is
  rejected below the limit; no counter stays for ever.
* mongo-api cache: a page is not older than the last finished write, unless a
  race or a failure explains it, and then only for a bounded time.
* mongo-api answers: who is refused has changed nothing; a message that was
  accepted stays until it is deleted; one request deletes a document.
* connection pool: one user per connection; units and counters agree with the
  connections; a waiting request is offered what becomes idle; the destructor ends
  and leaves nothing behind.
* semaphore and tasks: no lost wakeup; a task is scheduled once per sleep; a
  cancellation or a timeout ends the sleep it is meant for.

## 2. Modules

| module | models |
|---|---|
| `EventCatalog` | the events of `producer.py` and what each does to the documents of the read model (the branches of `process_event`) |
| `ReadModel` | abstract specification: an event is recorded, a recorded event is projected at most once |
| `EventPipeline` | producer.py, RabbitMQ, consumer.py and MongoDB; every call of the two scripts to broker or database is an action |
| `EventPipelineProofs` | theorems about `EventPipeline` |
| `UserService`, `UserServiceProofs` | user-service, users.cpp |
| `ChatService`, `ChatServiceProofs` | chat-service, messages.cpp |
| `RateLimiter`, `RateLimiterProofs` | `check_rate_limit` of api.py |
| `MongoApi`, `MongoApiProofs` | the users, posts and statistics handlers of api.py and their Redis cache |
| `MongoAnswers`, `MongoAnswersProofs` | the users and messages handlers of api.py: what they store and what they answer |
| `TaskContext` | sleeping and waking of userver tasks: the flags and epoch of task_context.cpp |
| `WaitList` | `WaitList::Remove` of wait_list.cpp, for the two modules whose tasks sleep in a list |
| `EngineSemaphore`, `EngineSemaphoreProofs` | semaphore.cpp and wait_list.cpp on top of `TaskContext` |
| `PgPool`, `PgPoolProofs` | pool.cpp of userver's PostgreSQL driver, over the semaphores' contract |
| `MCEventPipeline`, `MCUserService`, `MCChatService`, `MCRateLimiter`, `MCMongoApi`, `MCMongoAnswers`, `MCEngineSemaphore`, `MCPgPool` | constants of the TLC instances and their symmetry |

Definitions named `Mut...` are not part of any specification. Each stands right
before the definition it is a wrong version of and documents a plausible bug
that a property has been seen to catch.

### EventPipeline

`prodPc`, `sent` and `wire` are the producers: a published message is first in
the socket (`wire`), because nothing in `publish_event` waits for the broker.
`bindings`, `log` and `ready` are the durable queue: `log` is every message ever
routed, `ready` the positions that wait for delivery. A message goes back to its
old position when it is requeued, so delivery takes the smallest position.
`consPc` and `held` say where each consumer's callback is, `conn` whether its
connection is open; a callback that blocks in MongoDB keeps running when the
connection ends, and notices at its ack. `processed`, `userView` and `postView`
are MongoDB. `projected` is history: the events whose `update_one` was executed.

| action | code |
|---|---|
| `ProducerConnect`, `PublishEvent`, `ProducerClose` | `connect`, `publish_event`, end of `main` in producer.py |
| `ConsumerConnect`, `ConsumerBind`, `StartConsuming` | `connect_rabbitmq` and `main` in consumer.py |
| `FindProcessed`, `InsertProcessed`, `UpdateView` | the three MongoDB calls of `process_event` |
| `Ack`, `Nack` | `callback` |
| `MongoFails`, `ConnectionLost`, `ConsumerCrash`, `ConsumerExit`, `ProducerDies`, `BrokerStop` | faults, and how the code takes them |
| `ProducerStart`, `ConsumerStart`, `BrokerStart` | the operator; docker-compose.yaml restarts nothing by itself |
| `BrokerRoute`, `Deliver` | RabbitMQ |

`MongoFails` fails a call before or after the server executed it. Faults are
bounded by `MaxFaults`. With `Runbook = TRUE` producers are started only after
the queue is bound, as README.md of the repository tells the operator to.

### UserService

A username stands for its row's id (it is UNIQUE and no row is ever deleted).
`Post` is everything before the first statement, `InsertUser` and
`InsertProfile` are the two autocommit statements with the constraints of
schema.sql, `StatementFails` fails either of them before or after it was
executed, `Get` is GET /users, which throws for a selected row without profile.

### ChatService

`chats` is the table chats with its members, the position is the id. One action
per statement of POST /messages: `SelectChat` (any row, LIMIT 1 has no ORDER
BY), `InsertChat`, `InsertMembers` (foreign key and primary key), `InsertMessage`
(CHECK on the text). `GetMessages(u)` is what GET /messages selects. Message
field `to` is history: the table stores only the sender. So are `alone` (the
requests no other request has overlapped) and `raced` (the chats whose members a
request that was not alone inserted). Requests that end
before the first statement (401, 400, a malformed body) change nothing and are
not represented.

A message to oneself (`from` = `to`) is where the SELECT does something the services'
documents do not mention: both joins match one membership row, so it goes into any
private chat of the sender, and a new chat for it is refused by the primary key of
chat_members. `SelfMessageShared` says what that amounts to.

### RateLimiter

`win` and `sec` are the clock in windows and ticks. `Arrive` computes `window`,
`Incr` is INCR, `Expire` is EXPIRE; `Decide` is the rest of the function. Keys
of different addresses are independent, so one address is modelled. History:
`admitted`, `arrived`, `rejected` per window, and `late`, the windows whose
counter was incremented after their end. `Orphans` are the counters nobody will give a
time to live any more: they stay in Redis, but no later window uses their key.

### MongoApi

`users` and `posts` are the collections: of a user only what PATCH can change and
GET /users can filter by (a trait), of a post its author, whether its content is
empty, its likes and the number of its comments. `Answer(k)` is what MongoDB
answers to the query behind cache key `k`; for the statistics it is the whole
aggregation, whose `$lookup` and `$unwind` make it depend on the users too.
`cached`, `timed` and `page` are Redis: the keys, those with a time to live, and
their values.

| action | code |
|---|---|
| `CacheMiss`, `Query`, `Fill` | `cache_get`, the query and `cache_set` of `get_users`, `get_posts`, `posts_by_users` |
| `CreateUser`, `UpdateUser`, `DeleteUser`, `LikePost`, `UnlikePost`, `AddComment` | the MongoDB call of the handler of that name; it ends in the list of prefixes the handler invalidates |
| `FindAuthor`, `InsertPost` | the two MongoDB calls of `create_post` |
| `Scan`, `DeleteKey`, `ScanEnds` | the loop of `cache_delete_prefix`; SCAN promises only the keys that exist all the time |
| `GetFails`, `SetFails`, `InvalidationFails` | errors of Redis, swallowed by the three cache functions |
| `MongoFails` | a query or an insert raises, or a write raises after the server made it |
| `Expire`, `ApiCrash` | Redis removes a key; the process stops and comes back |

History: `overtaken` marks a read whose query was followed by some write;
`excused` is the keys that such a read filled or that a failed invalidation left.
Neither looks at the contents of a page, so `StaleIsExplained` really compares
each handler's prefixes with what its write changes.

### MongoAnswers

`users` is the ids of the stored users, `messages` the stored messages. Each thread
handles one request of any kind. `FindUser` is either look-up of `create_message`,
`Written` a write that finds its document, `NotFound` one that does not, `Invalid`
one that the validator of mongo-init.js refuses, `Reread` the `find_one` before the
answer (`to_json(None)` raises). `MongoFails` lets a call raise, before or after the
server carried it out. Requests that are refused for their body or a malformed id
before any call (400) have no effect and are not represented. Cache invalidation and the posts handlers are in `MongoApi`.
History: `effect`, `failed`, `raced`, `removed`.

### TaskContext and EngineSemaphore

`flags` and `epoch` are the two halves of `sleep_state_`, one atomic word per task.
`runs` counts how often a task is in the task processor's queue, so that scheduling it
twice is visible. `RequestCancel`, `GetEpoch` and `CancelWakeup` are the three
accesses of `RequestCancel`; `Suspend` is what `DoStep` does after the coroutine has
yielded, `Resume` what it does when the task is taken from the queue.

| label of a task | code |
|---|---|
| `out`, `in`, `notify` | before a lock, between lock and unlock, in `unlock_shared` after the subtraction |
| `sleep`, `again` | at the top of `Sleep`, for the first time and after a wakeup by the wait list |
| `setup`, `recheck` | `SetupWakeups`: before the attempt under the list's lock, and between it and `Append` |
| `yield`, `asleep` | the coroutine yields; `kSleeping` is set |
| `awake`, `exchange` | before `DisableWakeups`, and before the flags are exchanged |

A lock is for one unit, as in every use of the pool. Atomic accesses are sequentially
consistent. Two steps of the model are several accesses of the code, and their merging hides no
outcome the properties tell apart. `DoTryLock` loads `capacity_` and then changes
`acquired_locks_`: if the capacity changes in between, a success by the old value is one
that came before the change, and a failure is followed by another attempt or by a sleep in
the list, which `SetCapacity` wakes after its store. `AppendWaiter` loads
`acquired_locks_` and `capacity_` one after the other, appends, and arms the timer when
the list is unlocked again: who frees a unit or adds one between the loads takes the
list's lock after the append, and no one but the task touches a timer that is not armed.
`swallowed` is history.

### PgPool

`stage` says where each connection is: its connect task waits for a unit (`lock`), has
one and waits for its turn (`slot`), connects (`handshake`), or waits in
`CloseWithError` for the end of `Close()` with the connecting lock still held
(`failing`); then the connection is `idle` in the queue, `held` by a request, in a
`cleanup` task, `pinged` by maintenance, or `closing` in the task of
`PGConnectionWrapper::Close`, which holds the unit to its end. A failure that throws
without `CloseWithError` (a timeout, a socket that cannot be polled) ends the connect task
at once and leaves the closing to a detached task (`ConnectFails`).

| action | code |
|---|---|
| `GetSizeLock`, `GetConnectingLock`, `Connected`, `ConnectFails`, `CloseWithError`, `ErrorThrown`, `ConnectingTimeout` | `Connect` and `DoConnect`, in a task of their own |
| `Acquire`, `PopNoblock`, `EnterQueue`, `QueueFull`, `Create`, `PopBlocking` | `Acquire` and `Pop` |
| `ReleaseHeld`, `CleanupConnection`, `CloseEnds` | `Release`, `CleanupConnection`, `Close` |
| `MaintainConnections`, `AcquireImmediate`, `Maintain`, `Dropped`, `Pinged`, `CheckMinPoolSizeUnderflow` | the periodic task; `mver` is the version `AcquireImmediate` reads once before its loop |
| `SetSettings`, `SetConnectionSettings`, `SetMaxConnectionsCc` | the same; `settings` stands for the capacities of both semaphores too, and a `connecting_limit` of 0 is no limit |
| `Destroy`, `StopMaintainTask`, `StopConnectTasks`, `Drain`, `CloseTasksEnd` | `~ConnectionPool` |

`pc` follows a request, `mpc` the maintenance task, `phase` the destructor. A `Push` is
atomic with its wakeup and a `Pop` with the counters around it: `EngineSemaphore` is
about what happens inside. `ErrorThrown` takes the end of `Close()` and the return of the
connect task together: in between the task only counts its error. Failures of PostgreSQL,
expired connections, deadlines and cancellations are bounded by `MaxFaults`. A task that
is detached into a storage while the storage is being waited for is waited for too.

History: `unlucky`, the requests that, while they waited, saw an attempt to connect fail
or time out, a connection go, or an attempt refused for recent errors; `swallowed`;
`late`. A refusal because enough connect tasks are pending makes nobody unlucky:
`WaitEnds` says that a request refused in this way is served all the same.

## 3. Runs

| run | checks | bounds |
|---|---|---|
| `pipeline_faults` | `AcknowledgedIsRecorded`, `RecordedInOrder`, refinement `ReadModelSpec`, liveness `QueueDrains`, `ReadModelCatchesUp` | 1 producer, 1 consumer, 3 faults, any start-up order |
| `pipeline_runs` | `CountersExact`, `ViewComplete` | 2 producers, 1 consumer, 1 fault, README.md's order of start-up |
| `users_register` | `RegisteredIsComplete`, `HalfRegisteredIsExplained`, `BrokenIsPermanent` | 2 requests at once, 2 logins, 2 emails, 2 failing statements |
| `chat_concurrent` | `PartiesSee`, `NobodyElseSees`, `SelfMessageShared`, `OneChatPerPair` | 3 requests, 2 at once, 3 users and 1 unknown id, seeded chats, 1 failing statement |
| `rate_windows` | `LimitUnlessLate`, `NoLockout`, `OrphansFromFailures` | 3 threads, limit 2, 3 windows of 2 ticks, 3 requests per window, 2 failing calls |
| `api_cache` | `StaleIsExplained`, liveness `StaleEnds` | 2 threads, 1 user, 1 post, 2 traits, one page of each kind, 2 writes, 1 fault |
| `api_messages` | `TypeOK`, `RefusedHasNoEffect`, `ErrorIsExplained`, `DeletedOnce`, `SentIsKept`, `PartiesExisted` | 3 requests of any kind at once, 1 stored user, 1 stored message, 1 failing call |
| `engine_semaphore` | `TypeOK`, `AcquiredExact`, `ScheduledOnce`, `NoLostWakeup`, `AsleepIsListed`, `CancelDelivered`, `TimeoutIsOwn`, liveness `LockEnds` | 3 tasks, capacity 1 and one change to 0 or 2, 1 cancellation, one task with a deadline and one that blocks cancellation |
| `pg_pool` | `TypeOK`, `OneOwner`, `AccountsExact`, `IdleIsOffered`, `LeakIsLatePush`, liveness `WaitEnds`, `DestroyEnds` | 2 requests, pool of 1 connection that connects one at a time, or of 2 without that limit after an update, 1 update, 1 fault, maintenance that drops 1 connection per turn |

Why the bounds are enough: a lost update, a double count or a requeue takes one
message, one redelivery and at most one fault per attempt; three faults allow a
fault, one during the redelivery and one more. One producer run already sends
an event of every type. Two requests are needed for every race between
statements of the chat and user services, since at most one other request
separates two statements in the properties; a third user distinguishes
"nobody else". In the rate limiter three requests exceed the limit of two in one
window, by three threads of which one may lag behind, and three windows let a counter
outlive its window and expire; the two failing calls may hit the same counter or
different ones. In `api_cache` one thread reads while the other
writes, a second write falls into the invalidation of the first, and one page of
each kind is enough because pages of one kind depend on each other in nothing.
In `api_messages` three requests are a write, its race and a witness: a message
needs two look-ups, each of which a delete may follow. In `engine_semaphore` a lost
wakeup takes a holder, a woken task and a sleeper; one change of the capacity adds or
removes the unit they compete for. In `pg_pool` two requests compete for one
connection, the update makes room for a second and brings in the minimum that
maintenance restores; the fault is any one of a failed connect, a broken or expired
connection, a clean-up, a deadline and a cancellation. The number of kept connect tasks
(`PendingConnectsMax`) is 0 instead of 1, which reaches the refusal with one task less.

The inductive invariants of section 5, and with them the type invariants of the modules
whose runs do not name one, are not checked by a run: they are proved for every instance.

Two consumers on one queue are not a run: `SingleDelivery` and
`AcknowledgedIsRecorded` are proved for any number of them, and what the read model
promises needs a single one.

Deadlock is not checked where the bounds on requests, writes or the clock end
the run.

### Disagreements between documents and code

Each has a run that TLC ends with a counterexample.

| run | what happens |
|---|---|
| `violation_lost_update` | README.md promises at-least-once delivery. A crash or MongoDB error after `insert_one` into `processed_events` and before `update_one` makes the redelivery skip the event: its view update is lost. |
| `violation_get_users` | openapi.yaml lists 200 for GET /users. Between the two INSERTs of a registration the listing is answered 500. |
| `violation_cache` | performance_design.md says invalidation avoids outdated data. A read stores the page it queried before a write after that write's invalidation; nothing fails, and the stale page stays until its time to live ends. |

Others show as the exceptions that a passing property names:

* event_driven_design.md:220 says `event_id` avoids processing an event again.
  `CountersExact` holds with the one consumer of docker-compose.yaml; two consumers
  that hold the same message (the first lost its connection and still runs) both pass
  `find_one`, and the counter is incremented twice.
* performance_design.md:79 promises 10 requests per minute. A request that takes its
  window number before the window ends and increments after the counter expired starts
  the count again (`late` in `LimitUnlessLate`).
* mongo-api answers 500 to a write that succeeded, when the document is deleted before
  it is read again (`raced` in `ErrorIsExplained`), and 400 to POST /users when
  `insert_one` raises after the user was stored (`RefusedHasNoEffect`). A user without
  `age` is refused always: api.py stores `None`, the validator wants an int.
* semaphore.hpp:83 says an unlock wakes up a waiting user. A woken task that is
  cancelled before it tries again returns without waking the next one (`swallowed` in
  `NoLostWakeup`); the sleeper goes on sleeping beside a free unit until the next
  unlock.
* semaphore.hpp:79 says that a lock throws if the capacity is 0. A task that finds the
  capacity 0 at its second attempt, under the lock of the wait list, sleeps first, in no
  wait list, until its deadline or a cancellation (`AsleepIsListed`).
* pool.cpp:599 means to empty the queue after the close tasks; the loop that deletes
  connections stands before them, and `queue_.reset()` deletes none. A connection pushed
  by a clean-up task in between is leaked with its unit (`late` in `LeakIsLatePush`).
* A request that waits in the pool asked for a connection once. If that attempt is
  refused because of recent errors, or fails, nobody repeats it: maintenance does nothing while requests wait, and
  only another request or a returned connection ends the wait before its deadline
  (`unlucky` in `WaitEnds`).
* `SetSettings` returns early when the settings are those in force, also if the limit of
  the congestion control has changed (pool.cpp:375); it takes effect with the next
  different settings.

Not a disagreement, but worth knowing: the events of a producer that runs before
the queue is bound are dropped by the broker. `ReadModelCatchesUp`
says what holds when README.md's order of start-up is kept.

## 4. Fairness

`FairSpec` assumes weak fairness of the broker (it starts, routes, delivers) and
of a running consumer's own steps: `connect_rabbitmq` retries for ever, every
call of `callback` returns or raises, and `start_consuming` is a loop. Nothing is
assumed of the operator: the liveness properties say what follows if some
consumer process stays up. No fault is fair. In `MongoApi`, `FairSpec` assumes
that Redis removes a key whose time to live is over, and nothing else: no handler
need ever finish for `StaleEnds`. The safety runs use no fairness.

In `EngineSemaphore`, `FairSpec` assumes that threads run: a running task takes its
next step, a queued one is resumed, an armed timer fires, a cancellation that began is
finished and who holds a unit gives it back. Nobody has to lock, cancel or resize. In
`PgPool`, `FairSpec` assumes that tasks run and PostgreSQL answers, well or not, so
connecting, closing, cleaning up and the use of a connection end (all of them have
timeouts in the code); no request, update, maintenance or deadline has to come, and an
error need never be forgotten.

## 5. Proofs

Each theorem holds for every value of the constants that satisfies the named
assumptions of its module: bounds are naturals, sets of names do not overlap, a seeded
private chat has two members or none, the tasks of a semaphore and the requests of a
pool are finitely many, the settings a pool is given over time have a largest
`max_size`, `NoDoc` is no id and no message.

| module | theorems | inductive invariant and what it adds to the properties |
|---|---|---|
| `EventPipelineProofs` | `DeliveryInvariant`, `TypeCorrect`, `NoUnrecordedAck`, `OneDelivery` | `DeliveryInv`: a callback runs exactly while a message is held, and reaches update and ack only with the event recorded |
| | with one consumer: `ReadModelInvariant`, `RecordsFollowTheQueue`, `CountersAreExact`, `ViewsAreComplete`, `ImplementsReadModel` | `ReadModelInv`: see below |
| `UserServiceProofs` | `UserInvariant`, `RegistrationComplete`, `HalfRegistrations`, `BrokenForGood` | `UserInv`: a profile has a user, and the request between its two INSERTs is the only one that owns its row |
| `ChatServiceProofs` | `ChatInvariant`, `PartiesSeeMessages`, `MessagesStayPrivate`, `SelfMessagesAreShared`, `SecondChatIsRaced` | `ChatInv`: private chats have two members or none, a request about to insert has its chat ready, a message is in a chat of its two users; `PairInv`: what a request that runs alone may rely on |
| `RateLimiterProofs` | `RateInvariant`, `WindowLimit` | `RateInv`: the counter of a window that is not late covers all that was admitted and all that is on the way to a decision |
| | `LockoutInvariant`, `NoWindowLockedOut`, `FailuresLeaveOrphans` | `LockoutInv`: a counter plus the requests that have not incremented it yet is at most the number of arrivals in its window |
| `MongoApiProofs` | `CacheInvariant`, `StalePagesExplained` | `CacheInv`: a read that was not overtaken holds what MongoDB would answer, and a running invalidation still has a prefix |
| `MongoAnswersProofs` | `AnswersInvariant`, `TypeCorrect`, `RefusalsHaveNoEffect`, `ErrorsAreExplained`, `DeletesAreUnique`, `MessagesAreKept`, `MessagesHaveParties` | `AnswersInv`: where a handler that has written can be, that deleted documents are those with a request that deleted them, and that a thread is overtaken exactly if its document is gone before it reads again |
| `EngineSemaphoreProofs` | `SemaphoreInvariant`, `TypeCorrect`, `UnitsAreCounted`, `SleepsAreScheduledOnce`, `NoWakeupIsLost`, `SleepersAreListed`, `CancellationsAreDelivered`, `TimeoutsAreOwn` | `SemaphoreInv`: see below |
| `PgPoolProofs` | `PoolInvariant`, `TypeCorrect`, `ConnectionsHaveOneOwner`, `AccountsAreExact`, `IdleConnectionsAreOffered`, `LeaksAreLatePushes`, `ConnectionsSuffice` | `PoolInv`: see below |

The invariants are needed because none of the properties is inductive: each speaks of
stored state, and whether a step keeps it depends on what the running requests hold.
TLC checked each inductive invariant on the bounds of its component's runs before it was
proved.

**The read model** (`ReadModelInv`). The theorems assume `SingleConsumer`;
docker-compose.yaml gives event_consumer a `container_name`, so there is one. The
events of one producer run are in transit and in the queue in script order
(`PublishedInOrder`), hence no event is routed twice and a newly routed one has not been
recorded. An idle consumer has nothing unacknowledged, so what is before the first
waiting message has been acknowledged, hence recorded (`AcknowledgedIsRecorded`): the
callback works on the first unrecorded event or on a recorded one (`CallbackInOrder`).
Between `find_one` and `update_one` its event stays new, which makes `update_one` a
first projection: that is the refinement of `ReadModel`, and the counters follow by
counting. When the `UserCreated` of a run is projected no other event of that run has
been, so a document that existed before owes its existence to a run whose own
`UserCreated` never comes (`ViewComplete`).

**The semaphore** (`SemaphoreInv`). For each task `Fits` ties together the flags and
epoch of `sleep_state_`, the task processor's queue, the wait list, the timer and a
running cancellation: a suspended task is queued exactly once as soon as an effective
wakeup source is set, an armed timer is of this sleep or an earlier one, a cancellation
past the task's look at `ShouldCancel` carries the epoch of the sleep that follows.
`UnitsCovered` is `NoLostWakeup` for everybody in the list, asleep or about to be.
Counting the tasks on the way to a unit (`Coming`) shows that every step which frees a
unit or consumes a wakeup leaves somebody in charge.

**The pool** (`PoolInv`). Every account is the number of connections or requests at a
set of stages, and a step moves one of them from one stage to another. `Owned` says
whose a connection in use is; `PhaseFits` what each step of the destructor may rely on, in
particular that what is idle after `Clear` is what was pushed late. `Bounded` yields
`ConnectionsSuffice`, which is about the model: connections are numbered, and the
numbers never run out where the code would create a connection.

Only model-checked: the liveness properties `QueueDrains`, `ReadModelCatchesUp`,
`StaleEnds`, `LockEnds`, `WaitEnds` and `DestroyEnds`; liveness under fairness is out of
the prover's reach. Every safety property of a passing run is a theorem.

## 6. Not modelled

* wall-service: one statement per request, nothing can come between. auth-service: no
  state.
* The other MongoDB scripts (validation.js, queries.js, data.js): nothing runs them.
* Entry points and the files of the service template.
* The rest of userver, about 310 000 lines of third-party code: its HTTP server,
  formats, utilities and the drivers of databases that no service uses. Of the
  engine: start and end of tasks, other wait strategies, the task processor's queue;
  locks of several units at once; memory orders weaker than sequential consistency. Of
  the pool: synchronous initialisation, a queue that refuses a push, the protocol on the
  wire.
* Data loss inside RabbitMQ, PostgreSQL, MongoDB and Redis.

## 7. Plan

1. An abstract counting semaphore, as `PgPool` uses it, and `EngineSemaphore` shown to
   implement it.
2. The safety half of the liveness properties as theorems: in every state in which a
   sleeper or the destructor waits, some step of a task that fairness covers is due.
3. The properties behind the remaining exceptions, each stated for the behaviours in
   which its exception does not occur.
