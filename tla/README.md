# A TLA+ model of the embedding platform

TLA+ modules for the parts of the platform whose correctness rests on
concurrency, ordering or failure, TLC configurations that check them on small
instances, and theorems that TLAPS proves for every value of the constants.
Paths below are relative to the repository root; `orch/` stands for
`services/control-plane/task-orchestrator/src/embedding_task_orchestrator/`.

Contents: [1 The system](#1-the-system), [2 Modules](#2-modules),
[3 Runs](#3-runs), [4 Fairness](#4-fairness), [5 Proofs](#5-proofs),
[6 Disagreements](#6-where-code-and-documents-disagree),
[7 Not modelled](#7-not-modelled), [8 Plan](#8-plan).

## 1 The system

Clients talk to the **gateway**. It authenticates them, limits their rate, and
forwards requests through a circuit breaker per downstream service. Documents
to be embedded become *tasks* of the **task orchestrator**, which answers 202 at
once and does the work in the background: one worker loop per process takes a
message from a **task queue** and calls **preprocess**, the **embedding runtime**
and the **vector store proxy** in turn, keeping the task's status in a
**repository** that clients poll. **Retrieval** answers queries from the runtime and
the vector store.

| component | state | operations | what makes it hard | what makes it correct |
|---|---|---|---|---|
| task state machine (`orch/state_machine.py`) | none | `can_transition`, `public_status` | the worker rewrites statuses it read a while ago | terminal statuses are final; clients see a legal life of the task |
| create handler (`orch/app.py`) | one row, one message per request | create, mark queued, enqueue | three writes to two systems | a queued task has a message |
| worker and executor (`orch/internal/worker.py`, `executor.py`) | the message in hand, the status read, the error | dequeue, load, start, three stages, retry or dead-letter, acknowledge | crash or cancellation between any two writes; repository and queue calls that raise, with their write made or not; calls that time out and are applied later; two deliveries of one message | no accepted task is forgotten; no success without vectors; every failed task is dead-lettered; every task is settled |
| repositories (`store.py`, `sqlite_repository.py`, `postgres_repository.py`) | rows of tasks, the state history, row locks | `create`, `get`, `transition` | read-check-write in several statements; connections lost before, in or after a commit | the history is a legal walk that ends in the status; an answered call is committed |
| queues (`queue.py`, `redis_stream_queue.py`, `kafka_queue.py`) | waiting and claimed messages, dead letters; for SQLite claimed rows, for Redis a stream and its pending list, for Kafka offsets and partition owners | `enqueue`, `dequeue`, `task_done`, `add_dead_letter`, `qsize` | who gets the message of a dead consumer; commits that cover earlier records; partitions that move; calls executed but not answered | each backend delivers what it can: Kafka at least once, the others at most once (SQLite with one process on its file) |
| rate limiter (`gateway/.../rate_limit.py`) | a bucket per key | `allow` | lazy refill at odd times | never too much, never too little |
| circuit breaker (`gateway/.../circuit_breaker.py`, `proxy.py`) | failure count and opening time per service | `before_request`, `record_success`, `record_failure` | outcomes of concurrent requests arrive late | opens only on a streak, always closes again |
| vector store (`vector-store-proxy/.../store.py`) | tables of indexes and items, an open transaction | `upsert`, `search` | a batch that is refused half way; a restart | one dimension per index; what was acknowledged is durable |
| preprocess (`preprocess/.../app.py`, `domain/chunking.py`) | loop variables of one request | split texts into overlapping windows | boundary values of size and overlap | terminates, loses no word, repeats no chunk |
| retrieval service (`retrieval/.../app.py`) and embedding runtime (`embedding-runtime/.../app.py`, `domain/providers.py`) | none; a request is in flight between the runtime and the store | search: validate, embed the query, search the store | upserts, refused batches and restarts between the calls; vectors of another dimension; upstream failures | what was acknowledged before the search began is found |
| common package | none | error envelopes, ids, logging | -- | -- |
| cost-quota, index-manager, model-registry, tenant-auth, cache, ingestion | -- | READMEs only, no code | -- | -- |

They interact in three ways: HTTP calls (gateway → everything, orchestrator →
preprocess, runtime, vector store; retrieval → runtime, vector store), the queue
(create handler → worker, worker → worker on a retry), and the shared repository
(handlers and workers of all processes).

## 2 Modules

| module | models | abstract state → code |
|---|---|---|
| `TaskStateMachine` | the transition table, the guard of `transition`, the public view of a status | `AllowedTransitions`, `MayMove`, `PublicStatus` |
| `TaskOrchestrator` | create handlers, repository, queue as workers see it, worker loops, lifespan, faults | see below |
| `TaskLifecycle` | what a client that polls a task is promised | `view` = `public_status`, `attempts` = `attempt_count` |
| `TaskRepository` | `create` and `transition` of the SQLite and PostgreSQL repositories, statement by statement | `status`, `history` the committed rows, `rowLock` the lock of `FOR UPDATE` (or of the process), `call`, `seen` the transaction's |
| `InMemoryTaskRepository` | `create` and `transition` of the in-memory repository: what callers of any repository see | `status` the dictionary, `answered` an observer |
| `TaskQueue` | the abstract queue: what a worker may rely on | `waiting`, `holds`; `promise` says what a backend redelivers and what survives |
| `QueueWorkers` | the worker loop as the SQLite, Redis and in-memory queue see it | `loop`, `taken` |
| `InMemoryTaskQueue`, `SqliteTaskQueue`, `RedisStreamTaskQueue` | these three backends | `fifo` the `asyncio.Queue`; `unclaimed`, `claimed` the rows by `claimed_at`; `entries`, `delivered`, `pending` the stream, the group's last id and its pending list |
| `KafkaTaskQueue` | offsets, commits and partition owners under the Kafka backend | `end`, `committed`, `owner`, `position` are the broker's; `pc`, `held` the worker's |
| `TaskQueues` | `create_task_queue`: one of the four, and each a `TaskQueue` | `backend` = `settings.queue_backend` |
| `InMemoryVectorStore`, `SqliteVectorStore` | the two stores behind the vector API, the second with its open transaction | `dimension`, `items` the tables as the connection sees them, `diskDimension`, `diskItems` as last committed |
| `Retrieval` | a search through retrieval service, runtime and store | `stage` where the request is, `vector` the dimension of its query vector; `promised` belongs to an observer |
| `Preprocess` | the loops of the handler and of `chunk_words` | `item`, `start`, `chunks` |
| `RateLimiter` | `TokenBucketRateLimiter.allow` | `tokens`, `updatedAt`; `watchedFrom`, `granted` belong to an observer |
| `CircuitBreaker` | the breakers and the requests in flight | `failures`, `openFor` (time left until `opened_until`), `calling`; `lately` belongs to an observer |
| `MC*` | TLC instances: symmetry sets, constants that need an expression | -- |
| `*Proofs` | inductive invariants and theorems | -- |

`TaskOrchestrator` extends `TaskStateMachine` and instantiates `TaskLifecycle`
under the mapping `view <- PublicStatus(status)`; `TaskRepository` extends
`TaskStateMachine`, too, and instantiates `InMemoryTaskRepository`.
`SqliteVectorStore` instantiates `InMemoryVectorStore`, and `Retrieval` extends
`SqliteVectorStore`: searches and upserts interleave. `TaskQueues` composes the
four backends, of which a deployment uses one, and instantiates `TaskQueue`
under a mapping for each.

**TaskOrchestrator.** One action has at most one durable effect, because a process
can die, or another act, between any two: `CreateTask`, `MarkQueued`,
`EnqueueTask` are the statements of the create handler; `Dequeue`, `Load`,
`Start`, `Begin`, `PreprocessOk`, `EmbedOk`, `UpsertOk`, `CallUnavailable`,
`CallRejected`, `HandleError`, `BackoffEnds`, `Requeue`, `Bury`, `Ack` those of the
worker, and `pc[p]` says which of them comes next. Abstractions:

- Contents, progress and timestamps are left out; the history table is in
  `TaskRepository`. Error codes are "unavailable" (the retryable ones),
  "rejected", and "conflict" (the 409 of `transition`).
- `Redelivers` stands for the backend. Kafka (TRUE) hands the message of a
  consumer that is gone to another one. SQLite and Redis Streams (FALSE) never
  reclaim a claimed entry: it goes to `stranded`. The in-memory backend is the
  model without faults. Order is first-in-first-out except on Kafka, whose topic
  may have several partitions.
- An upsert travels: it is put in `sent` when the worker makes the call and
  applied by `StoreApplies` at any later time, also after the caller has timed
  out. `vectors` records `<<task, execution>>` pairs, because chunk ids are
  generated afresh by each execution. Batches of one task have one dimension, so
  an upsert the store refuses is not applied in part.
- The repository is durable and `transition` is atomic, which `TaskRepository`
  justifies; `store.get` finds the task. A SQLite file has one process.
- A repository call can raise, and a `transition` that raises may have been
  committed (`MayHaveMoved`). In the create handler the client gets a 500 and no
  message is sent (`CreateRepositoryError`). Inside the `try` of the execution
  `except Exception` makes it a failure that is not retried (`StageError`); both are
  faults of kind "caught". `store.get` and `transition` outside that `try`
  (`worker.py:43`, `47`, `99`, `101`, `119`, `143`) end the worker task, and the `finally` at
  `worker.py:32` acknowledges: `WorkerRepositoryError`, kind "uncaught".
- `Shutdown` cancels the worker at an `await`; inside `process_queue_message` the
  `finally` clause then acknowledges the message.
- The commit for a partition that has moved raises, which ends the worker task,
  or goes through when the partition has come back (`Ack`).

**TaskRepository.** A call is a transaction of up to three statements: read and check
(`SelectForUpdate`, or nothing for `create`), `UpdateRow`, `RecordMove`, then `Commit`.
On PostgreSQL any number of processes take part and `SELECT ... FOR UPDATE` locks
the row; on SQLite it is one process, under its lock. `Fail` loses the connection
or the process at any point: the transaction is rolled back, or has just been
committed and only the answer is lost. Refused calls raise at once and change
nothing. A SQLite process that survives a failed statement does not roll back:
its next call commits the row, too, which `Fail` takes as committed at once.
Nobody else knows the id of a new task yet, so `Create` owns its row.

**The task queues.** `TaskQueue` is the contract behind the protocol class of
`queue.py`: `Claim`, `End`, `Done`, `Leave`, with two parameters that differ between
backends. `redelivers` is TRUE for Kafka and, without meaning to, for a SQLite
file that several processes have opened: a claim reads a row and updates it
under a lock of its own process, and does not look at the row count of the
update. `survives` is what is left when a consumer goes: everything on Kafka,
the unclaimed messages on SQLite and Redis, nothing in memory. The other actions
are those of the drivers: `Select` and `Claim`, `Dequeue` (XREADGROUP with ">"),
`Ack` and `Delete` (XACK, then XDEL), `Disconnect` (a call that raises, executed by
the server or not), `Locked` (a SQLite file that stays locked). An exception in
any of them ends the worker task (`"dead"`); the process serves requests on.
Restarted Redis workers keep their consumer name and never ask for what is
pending for them.

**KafkaTaskQueue.** The record of `worker.py` is handled in one step here (`Handle`);
what is modelled in full is the offset arithmetic that `TaskOrchestrator`
abstracts. A rebalance resets every owner's position to the committed offset.
Members that are dead or no longer poll are removed from the group. A commit
may rewind the committed offset (after two rebalances an old owner commits less
than the interim one did): this redelivers, and loses nothing. The Kafka group
itself is modelled from how the client uses it.

**SqliteVectorStore.** The connection opens a transaction with its first write and
only an upsert that gets through commits; a batch refused at item *k* leaves its
first *k* - 1 items in the open transaction. `Upsert` is one action because it is
synchronous code under a lock.

**Retrieval.** The actions are the handler's refusals (`Refuse`), the call to the
runtime (`EmbedQuery`, `EmbedFails`), and the call to the store (`SearchStore`,
`SearchFails`); a request that brings its vector skips the first. Vectors are
dimensions. The hashing provider answers in the dimension asked for; of an
external provider only the number of vectors is checked, so any dimension may
come back. A search reads one snapshot, as the store's connection sees it, and
returns the best `top_k` rows of the index for any ranking (`Best`). One search
at a time is enough: searches change nothing. A call that is not answered is a
500, an answer that is not JSON a 502 (`CallErrors`).

**Preprocess.** Texts are word counts, `chunks` is the list of windows
`[start, end)` in the order the response has them. Two different defaulting rules
(`or`, `is not None`) are kept apart.

**RateLimiter.** Time and tokens are integers (a request costs `Minute` tokens, a
key regains `Limit` per unit of time), where the code has floats.

## 3 Runs

| run | instance | shows |
|---|---|---|
| `Orchestrator` | 2 tasks, one malformed, 2 processes, 3 attempts, no faults | `QueuedIsDelivered`, `OneCarrier`, `NeverFailsByConflict`, `DeadLetteredOnce`, `AttemptsNeverRewind`, `DeadLetterBeforeAck`, `WorkersAlive`, and the refinement `ImplementsLifecycle` |
| `CrashLiveness` | 2 tasks, one malformed, 1 process, 2 attempts, up to 2 crashes or caught repository errors | `EventuallySettled` |
| `AllFaults` | 1 task, 2 processes, 2 attempts, one fault of any of six kinds, redelivering queue | `TypeOK`, `SucceededIsStored`, `SettledForever`, and, unless the fault cut a handling short, `NoTaskForgotten`, `AckAfterHandling` |
| `TaskQueues` | Kafka: 2 partitions of 2 records, 2 consumers, 2 rebalances, 1 crash; the others: 3 messages, 1 or 2 processes, 2 losses | `TypeOK`, `CommittedIsHandled`, `EventuallyHandled`, `DepthErrsByLosses`, `EventuallyTaken`, and the refinement `ImplementsTaskQueue` |
| `TaskRepository` | 1 task, 2 processes (PostgreSQL) or 1 (SQLite), 4 committed calls, 1 failure | `TypeOK`, `HistoryExplainsStatus`, `AnsweredIsCommitted`, and the refinement `ActsAtOnce` |
| `VectorStore` | 2 indexes, 2 ids, 2 dimensions and the empty vector, batches of 2, restarts; searches by query or vector, an external provider | `UniformDimension`, `AcknowledgedIsDurable`, `CommittedDimensionIsStable`, `BehavesLikeInMemory`, `AcknowledgedIsFound` |
| `Preprocess` | up to 2 items of up to 7 words, size and overlap from -1 to 4 or absent | `EveryWordChunked`, `NoRedundantChunk`, `ChunksAreWindows`, `Terminates` |
| `RateLimiter` | three keys: a limit of its own, 0 (the default), negative; a "minute" of 4, 7 units of time | `TypeOK`, `BurstBound`, `NeverStarved` |
| `CircuitBreaker` | 3 requests in flight, 2 services, threshold 2 | `TypeOK`, `OpensOnlyOnStreak`, `Recovers` |
| `SqliteCrash`, `KafkaDeadLetter`, `RetryDuplicates` | 1 task, 1 process | counterexamples, section 6 |

`NoTaskForgotten` and `AckAfterHandling` are conditional (`NothingCutShort`): the
cancellation of a worker, an exception of the broker and an uncaught exception
of the repository end a handling half way, and the `finally` clause of the loop
acknowledges it all the same. A crash that follows a rebalance can take the
worker that got further and leave the other one a row that refuses it. These
are the faults `CutsShort` names, and section 6 shows each of them at work.

Why the bounds are enough:

- *Tasks* interact only through the queue and the workers: two tasks show
  everything two messages can do to each other. `AllFaults` keeps one,
  because a fault concerns one message; `CrashLiveness` has two, because a fault that
  ends a loop leaves the next message to nobody.
- *Processes*: two show every race between a handler, a worker and another
  worker.
- *Attempts*: two give a first, a retried and a last attempt; three add a retry of
  a retry.
- *Queues*: three messages let two workers hold one each while another waits; two
  losses a worker that is lost twice, or both; two records per partition give a
  commit that covers an earlier record, two rebalances a partition that returns to
  its old owner.
- *Repository*: a transition locks one row, so one task shows every conflict; four
  calls cover a creation and a chain of moves with two writers at each.
- *Faults*: one fault at a time in the run with two processes; two exceed five
  minutes of checking. In particular a crash and a rebalance do not meet there,
  although on Kafka the one may well cause the other. What two faults do that
  one does not is a matter of the theorems: `AtLeastOnce` and `AckedWhenHandled`
  take any number of all six kinds in any order, and find one order, a crash
  after a rebalance, that they must exempt.
- *Store*: two items suffice for a batch that fits, does not fit, overwrites itself
  or fails at its second item; two indexes because a good upsert of one commits
  what a bad one left in the other.
- *Preprocess*: sizes up to 4 and texts of up to 7 words give every relation of
  text, size, overlap and last window.

`CHECK_DEADLOCK FALSE` is set where the system really comes to rest: all tasks
settled and the queue empty, the request answered, or the bounds on records
reached. Each property has a mutant of the code that breaks it (marked
"Mutant" in the modules): a dropped guard, a reset too many, an offset off by one.

## 4 Fairness

- `TaskOrchestrator`: weak fairness of each worker's step and of the two steps a
  create handler still owes. An event loop runs its tasks, and every call has a
  timeout (`httpx` timeouts in `executor.py`), so a worker never waits for ever.
  Nothing is promised about the vector store applying a request it has lost
  sight of, about restarts (`deploy/` defines no restart policy) or new requests.
  `EventuallySettled` therefore ends in "settled, or no process has a worker loop
  left".
- `TaskQueues`: weak fairness of each worker's step, on whichever backend, and of
  Kafka's `TakeOver`, which is the broker's session timeout. Workers poll (with a
  sleep on SQLite, a blocking read elsewhere) and a handling ends because its calls
  have timeouts. `EventuallyHandled` allows for a group without members,
  `EventuallyTaken` for messages lost with a worker and for no worker left.
- `CircuitBreaker`: weak fairness of the clock alone.
- `Preprocess`: weak fairness of the handler, which is sequential code.

`EventuallySettled` is checked with crashes and with repository errors that the
execution catches. Other faults can end the worker tasks of all processes: an
uncaught error of the repository or the broker does so directly, a rebalance by
a refused `transition` and a refused commit. Nothing in the code starts a
worker task again: a process then goes on accepting tasks it will not run;
`/healthz` says "ok", only the text of `/readyz` tells. `EventuallySettled` promises
nothing once the last loop has ended; `WorkersAlive` says when none does.

## 5 Proofs

| module | theorems |
|---|---|
| `TaskOrchestratorProofs` | `TypeCorrect`, `InductiveInv`, `SettledTasksStay`, `SucceededTasksStored`, `AtLeastOnce`, `AckedWhenHandled`, `QueuedTasksDelivered` |
| `ExecutionProofs` | `OneExecution`, `NoConflicts`, `OneDeadLetter`, `LifecycleImplemented`, `AttemptsOnlyGrow`, `BuriedBeforeAck`, `WorkersSurvive` |
| `TaskRepositoryProofs` | `Invariance`, `RepositoryTypes`, `HistoryCorrect`, `AnswersHold`, `CallsAreAtomic` |
| `TaskQueuesProofs` | `QueueInvariant`, `CommitsSkipNothing`, `OffsetsInLog` (Kafka); `QueuesRefine`, `DeliveredAtLeastOnce`, `DeliveredAtMostOnce`, `DepthBounded` |
| `VectorStoreProofs` | `StoreInvariant`, `DimensionsUniform`, `AcknowledgedSurvives`, `CommittedDimensionStays`, `StoresAgree`, `StoreRefinement`; `StoreUnderSearch`, `SearchInvariant`, `AcknowledgedFound` (searches) |
| `PreprocessProofs` | `LoopInvariant`, `NoWordLost`, `NoChunkRedundant`, `WindowsExact` |
| `CircuitBreakerProofs` | `BreakerInvariant`, `BreakerTypes`, `OpensOnStreaks` |
| `RateLimiterProofs` | `BucketInvariant`, `LimiterTypes`, `BurstsBounded`, `NobodyStarved` |

Every invariant, action property and refinement that a passing run checks is
stated by one of these theorems. Assumptions are the named `ASSUME`s of the
modules (positive limits and bounds), which TLC evaluates on every run, and on
some theorems about the orchestrator a condition on the faults:

| condition | meaning | theorems |
|---|---|---|
| `SurvivableFaults` | crashes only on a queue that redelivers; any other faults, in any order | `AtLeastOnce`, `AckedWhenHandled` (which exempt what `CutsShort` names) |
| `Faults \subseteq {"rebalance"}` | partitions may move | `QueuedTasksDelivered` |
| `SingleDelivery` | the queue redelivers nothing (SQLite, Redis Streams: any faults), or no consumer leaves and no partition moves (Kafka: errors only) | all of `ExecutionProofs` |
| no `CutsShortKinds` | no shutdown, no broker error, no uncaught repository error | `BuriedBeforeAck`, on top of `SingleDelivery` |
| no `Raising` | no call to the queue or the repository raises | `WorkersSurvive`, on top of `SingleDelivery` |

Section 6 shows what goes wrong with other faults. How many faults there are is
not limited by any of this, where the runs allow one or two.

- **Orchestrator.** `TypeInv` adds to `TypeOK` that a busy worker holds a message,
  and one with an attempt left while it retries: without it `attemptCount` could
  pass `MaxAttempts`. `LifeInv` ties repository, handlers and messages together:
  every message, waiting or held, is of a task whose handler got as far as
  the queue, and such a task has one of the statuses `Handed`. From there:
  terminal statuses only map to themselves in the table (`SettledTasksStay`);
  `succeeded` is written only when the worker's upsert is in `vectors`, which only
  grows (`SucceededTasksStored`); and a task is carried by a waiting message or
  by a worker that will settle it, which each action preserves
  (`AtLeastOnce`), until a fault that `CutsShort` names: until then a message is
  revoked only by a rebalance, and after one nothing crashes, so the worker that
  got further is still there. `AckedWhenHandled` needs besides that every message is of a task
  that was answered with 202 (`AcceptedInv`), so that forgetting it would count.
  `QueuedTasksDelivered` adds that no creation breaks off half way (`HandlersEnd`).
- **Executions.** `ExecInv`: a task has one carrier, a waiting message or a
  worker (`AloneInv`), and the status and the attempt of its row are those the
  carrier's place in the code implies (`Fresh`, `OnStage`). Neither is inductive
  without the other: a second carrier would move the row under the first, and a
  row that has moved is what `transition` refuses. `OneExecution`, `NoConflicts`
  and `OneDeadLetter` are read off it. Under it each step is a step of
  `TaskLifecycle` or invisible to clients (`LifecycleImplemented`). `DoneInv`:
  whatever carries on the task of a message that is being acknowledged is a
  later attempt, and if the attempt of the message itself failed the task, the
  dead letter is written (`BuriedBeforeAck`). `WorkersSurvive` adds that no error is
  handled after the success of its task (`NoneLate`), which takes a `transition`
  whose commit went through and whose answer was lost: then no `transition` is
  refused, and a refusal outside the `try` is what would end a loop.
- **Kafka.** A busy consumer has everything below its record handled (`HeldInv`),
  an owner fetches past nothing but handled records and the one in its hands
  (`FetchInv`), a new owner starts from a committed offset (`CommitInv`). None of
  the three is inductive alone: a commit needs the first, a fetch the second, a
  rebalance the third.
- **Repository.** `Exclusive`: between its first statement and its commit a
  transaction owns its row, what it has read is still there, and its move is
  legal. The properties alone are not inductive: a commit appends to the history
  what it read three statements ago. Under it a commit, also one whose answer is
  lost, is a call of the in-memory repository, and every other statement is
  invisible (`CallsAreAtomic`). This is what allows `TaskOrchestrator` to take
  `transition` as one step.
- **Task queues.** `ImplementsTaskQueue` needs an invariant for each backend
  (`AllInv`). In memory: the numbers in the queue are increasing, so a message
  that is taken is no longer there. SQLite: a worker has only claimed rows, and
  the only process on a file claims an unclaimed one. Redis: what a worker has
  was delivered, so deleting it leaves what is fresh alone. Kafka: `Inv`, as
  above, and an owner is not down; a crash maps to a `Leave` that
  loses nothing because of `FetchInv`. A step of the drivers then is a step of
  `TaskQueue` or invisible. `DeliveredAtLeastOnce` follows from the invariant,
  `DeliveredAtMostOnce` from a second one on the abstract queue (`Apart`).
- **Depth of the Redis queue.** `GroupInv`: what a worker has in hand is pending
  until it acknowledges it, then in the stream until it deletes it, and no two
  workers have the same entry. So `Balanced` can count: each entry that is
  acknowledged and still in the stream is paid for by a worker about to delete
  it or by a loss (`DepthBounded`).
- **Vector store.** `SeesDisk`: what searches see agrees with the disk wherever
  the disk has anything. The rows of an upsert all have the dimension of its
  first item, which is the index's.
- **Searches.** To the store they are stuttering steps (`StoreUnderSearch`), so its
  invariant holds while they run; with `SearchInv`, what was promised when the
  search began stays acknowledged, the index exists with the dimension on disk,
  and every snapshot has the promised rows.
- **Preprocess.** Finished items are covered, the current one up to `start +
  overlap`; all earlier chunks of the item start and end before, so the list stays
  in the order of the text (`InTextOrder`). `WindowInv`, for `WindowsExact`: the chunks so far are the windows whose start is a
  multiple of the step below `start`, so `start` is one, too, and the loop
  leaves an item at the first window that reaches its end.
- **Circuit breaker.** `StreakInv`: the last `failures[s]` outcomes the observer
  has seen of a service are failures, which a late outcome extends or ends.
  Opening resets the count, so a breaker opens again only after a full streak.
- **Rate limiter.** `Balance`: tokens granted while one watches plus tokens in the
  bucket lie between the refill (capped) and a full bucket plus the refill.

Only model-checked is liveness: `EventuallySettled`, `EventuallyHandled`,
`EventuallyTaken`, `Recovers` and `Terminates`. The prover does not support `ENABLED`,
which fairness rests on. Induction over data and recursive operators would also
be out of reach; no module needs them.

## 6 Where code and documents disagree

Three runs show a documented property that the code does not have:

- `SqliteCrash`: `orch/internal/queue.py:55` promises at-least-once delivery. The
  SQLite queue never selects a claimed row again, the Redis queue reads only new
  entries: a process that dies with a message strands its task.
- `KafkaDeadLetter`: `docs/architecture/08_queue_backend_spec.md:34` wants the
  dead-letter record before `failed`. The code sets `failed` first; after a crash in
  between, the redelivered message is skipped as terminal and acknowledged.
- `RetryDuplicates`: `docs/api/event_model.md:239` wants idempotent vector writes. A
  retry numbers its chunks afresh, so an upsert that timed out and was applied
  after all leaves the vectors of two executions.

Further ones come out of the same modules by changing constants:

- `AllCarried` with `Faults = {"shutdown"}`, `{"broker"}` or `{"uncaught"}` (that is,
  `NoTaskForgotten` and `AckAfterHandling` without their condition): the `finally` of
  `worker.py:32` acknowledges unfinished work when the worker is cancelled or a
  call to the queue or the repository raises (`kafka_queue.py:21` says commits
  follow handling).
- `DeadLetterBeforeAck` with the same faults: cancelled in `add_dead_letter`
  (`worker.py:151`; at `redis_stream_queue.py:127` on Redis), or ended by a call that
  raises in between, the worker acknowledges a failed task without a record of it.
- `WorkersAlive` with `"broker"`, `"caught"` or `"uncaught"`: the loop ends, and the
  process stays up. A caught error does it when `succeeded` was committed and its
  answer lost: the error handler wants to mark the task failed, and is refused.
- `EventuallySettled` with `"broker"` or `"uncaught"` and two processes: one loop ends,
  having acknowledged its task, which the other one never sees.
- `QueuedIsDelivered` with `"crash"` or `"broker"`: `queued` is written before the
  message is sent (`06_task_state_machine.md:113` has it the other way round).
- `NeverFailsByConflict` with `"crash"` and `Redelivers = TRUE`: a task redelivered in
  `embedding` or `persisting` starts over, is refused `preprocessing` and fails.
- `AllCarried` with `{"crash", "rebalance"}` and `MaxFaults = 2`: of two workers with one
  message the second is refused its stale status, dies outside the `try` and
  acknowledges, after the first has crashed. On Kafka a crash makes the group
  rebalance: a crash, the rebalance, and a second crash suffice.
- `redis_stream_queue.py:138` reports the length of the stream as the exact depth
  (`08_queue_backend_spec.md:99`); it also counts entries that are acknowledged but
  not deleted, and a crash between the two calls leaves one for good.
  `DepthErrsByLosses` bounds the error.
- Searches see the rows of a refused batch while its transaction is open; a restart
  removes them. `AcknowledgedIsFound` is about acknowledged rows only.
- A dimension that searches have used, but only from the transaction a refused
  first batch left open, can change after a restart of the vector store.

## 7 Not modelled

- Cosine similarity and metadata filters: pure floating-point functions.
- Credentials, tenant checks and routing of the gateway: stateless plumbing.
- Floating-point rounding of tokens; the reset of buckets and breakers by a restart
  of the gateway.
- The hash function and token counts of the embedding runtime: pure functions. Its
  answers and failures are outcomes in `TaskOrchestrator` and `Retrieval`.
- Queue depth of the backends other than Redis and dead-letter counters: counts of
  what waits, or approximate by declaration (Kafka).
- The columns of a task row other than its status; a SQLite *repository* file
  shared by several processes (a queue file shared by several is in
  `SqliteTaskQueue`).
- Repeated create requests: there is no idempotency key, each is a new task.
- The moments in which a SQLite connection whose statement or commit has raised
  shows its own process a row that a crash would undo (there is no rollback in
  `sqlite_repository.py`); `Fail` and `MayHaveMoved` take the row as committed or not.
- Planned services (READMEs only), deployment files, scripts.

## 8 Plan

Done, in this order: `TaskStateMachine`, `TaskOrchestrator` with its faults,
`TaskLifecycle`; `SqliteVectorStore` against `InMemoryVectorStore`; `Preprocess`;
`RateLimiter`; `CircuitBreaker`; `KafkaTaskQueue`; `TaskRepository`, which justifies the
atomic `transition`; `TaskQueue` and the other three backends, composed in
`TaskQueues`; `Retrieval` over the store that is being written; the proofs of
section 5.

To extend: the gateway as a whole (limiter, breaker and forwarded requests
composed), once it has behaviour that its parts do not show: today a request
passes them one after the other and each keeps its own state.

To prove: what is left is liveness, out of the prover's reach. The step lemmas of a
progress argument (which step brings a task closer to being settled) could be
stated and proved, as a measure that decreases.
