----------------------------- MODULE TaskQueues -----------------------------
(***************************************************************************)
(* create_task_queue: a deployment uses one of four backends, and each of  *)
(* them is a TaskQueue. What it promises depends on the backend, and for   *)
(* SQLite on how many processes have opened the file.                      *)
(***************************************************************************)
EXTENDS KafkaTaskQueue, Sequences, FiniteSets

CONSTANTS MaxMessages, MaxLosses

VARIABLES
  backend,                         \* settings.queue_backend
  last, loop, taken, handled, losses, \* the worker loops on the other backends
  fifo,                            \* in memory
  unclaimed, claimed,              \* SQLite
  entries, delivered, pending      \* Redis Streams

Memory == INSTANCE InMemoryTaskQueue
Sqlite == INSTANCE SqliteTaskQueue
Redis  == INSTANCE RedisStreamTaskQueue

kafka   == vars
workers == <<last, loop, taken, handled, losses>>
table   == <<unclaimed, claimed>>
stream  == <<entries, delivered, pending>>
queues  == <<backend, kafka, workers, fifo, table, stream>>

Backends == {"inmemory", "sqlite", "redis_stream", "kafka"}

QueuesInit ==
  /\ backend \in Backends
  /\ Init
  /\ Memory!WorkersInit /\ Memory!Empty /\ Sqlite!Empty /\ Redis!Empty
  /\ CASE backend = "kafka"        -> Memory!Deployed = {}
       [] backend = "inmemory"     -> Memory!Init
       [] backend = "sqlite"       -> Sqlite!Init
       [] backend = "redis_stream" -> Redis!Init
-----------------------------------------------------------------------------
\* A step of a backend that is in use leaves the others where they are.
OnKafka  == backend = "kafka" /\ UNCHANGED <<backend, workers, fifo, table, stream>>
OnMemory == backend = "inmemory" /\ UNCHANGED <<backend, kafka, table, stream>>
OnSqlite == backend = "sqlite" /\ UNCHANGED <<backend, kafka, fifo, stream>>
OnRedis  == backend = "redis_stream" /\ UNCHANGED <<backend, kafka, fifo, table>>

QueuesNext ==
  \/ OnKafka  /\ Next
  \/ OnMemory /\ Memory!Next
  \/ OnSqlite /\ Sqlite!Next
  \/ OnRedis  /\ Redis!Next

QueuesSpec == QueuesInit /\ [][QueuesNext]_queues

WorkStep(c) ==
  \/ OnKafka  /\ Work(c)
  \/ OnMemory /\ Memory!Work(c)
  \/ OnSqlite /\ Sqlite!Work(c)
  \/ OnRedis  /\ Redis!Work(c)

\* As in KafkaTaskQueue: a worker loop runs on, and the group notices who left.
FairQueues ==
  /\ QueuesSpec
  /\ WF_queues(OnKafka /\ TakeOver)
  /\ \A c \in Consumers : WF_queues(WorkStep(c))
-----------------------------------------------------------------------------
\* What KafkaTaskQueue looks like to a user of the queue: the records the
\* group still has to fetch, from the owner's position or, without a live
\* owner, from the committed offset.
KafkaFrom(p) == IF owner[p] \in Members THEN position[p] ELSE committed[p]

KafkaRecords(from) ==
  UNION {{[partition |-> p, offset |-> o] : o \in from[p]..(end[p] - 1)} : p \in Partitions}

KafkaHolding == [c \in Consumers |-> IF pc[c] \in {"handling", "ack"} THEN {held[c]} ELSE {}]

\* Only Kafka gives a message of a lost consumer to another one. A SQLite file
\* with several processes hands out messages twice without meaning to.
BackendPromise ==
  [redelivers |-> backend = "kafka" \/ (backend = "sqlite" /\ Sqlite!Shared),
   survives   |-> CASE backend = "kafka"    -> "all"
                    [] backend = "inmemory" -> "nothing"
                    [] OTHER                -> "unclaimed"]

AllPut ==
  IF backend = "kafka" THEN KafkaRecords([p \in Partitions |-> 0]) ELSE 1..last

AllWaiting ==
  CASE backend = "kafka"        -> KafkaRecords([p \in Partitions |-> KafkaFrom(p)])
    [] backend = "inmemory"     -> {fifo[i] : i \in DOMAIN fifo}
    [] backend = "sqlite"       -> unclaimed
    [] backend = "redis_stream" -> Redis!Fresh

Queue == INSTANCE TaskQueue WITH
  promise <- BackendPromise,
  put     <- AllPut,
  waiting <- AllWaiting,
  holds   <- IF backend = "kafka" THEN KafkaHolding ELSE Memory!Holding,
  ended   <- IF backend = "kafka" THEN ended ELSE handled

\* Every backend keeps the promise of a task queue: on Kafka every message is
\* delivered at least once, whatever crashes and rebalances do; on SQLite and
\* Redis Streams only the message of a lost worker or connection is lost, and
\* with one process on the file or with Redis no message is delivered twice.
ImplementsTaskQueue == Queue!Spec

\* The qsize() of the Redis queue is XLEN. It counts every message that is not
\* acknowledged, and over-counts by what the workers are about to delete and by
\* one entry at most for each process or connection lost between XACK and XDEL
\* ("current live stream length after acknowledged deletions").
DepthErrsByLosses ==
  /\ Redis!Unacknowledged \subseteq entries
  /\ Cardinality(entries \ Redis!Unacknowledged)
       <= losses + Cardinality({c \in Consumers : loop[c] = "deleting"})

\* On the other three backends a message that waits gets handled, or is lost
\* with a consumer, as long as some worker is left.
EventuallyTaken ==
  \A m \in 1..MaxMessages :
    m <= last ~>
      \/ m \in handled
      \/ m \in Queue!Lost
      \/ \A c \in Consumers : loop[c] \in {"absent", "down", "dead"}
=============================================================================
