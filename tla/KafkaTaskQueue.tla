--------------------------- MODULE KafkaTaskQueue ---------------------------
(***************************************************************************)
(* The Kafka task queue (internal/kafka_queue.py) and the consumer group   *)
(* behind it. Each orchestrator process runs one consumer, takes one       *)
(* record at a time and commits its offset when the handling is over,      *)
(* which tells the broker that every earlier record of the partition is    *)
(* done as well. The group may move the partitions at any time: to the     *)
(* broker, a busy consumer looks like any other.                           *)
(***************************************************************************)
EXTENDS Naturals

CONSTANTS
  Partitions,    \* of the task topic
  Consumers,     \* one in every process
  Nobody,        \* the owner of a partition without a live consumer
  MaxRecords,    \* bound on the records of a partition
  MaxRebalances, \* bound on rebalances nobody's death called for
  MaxCrashes     \* bound on crashes

ASSUME KafkaAssumption ==
  /\ Nobody \notin Consumers
  /\ MaxRecords \in Nat /\ MaxRebalances \in Nat /\ MaxCrashes \in Nat

VARIABLES
  \* the broker
  end,        \* records produced to a partition: offsets 0 to end - 1
  committed,  \* committed offset of the group: where a new owner starts
  owner,      \* the consumer a partition is assigned to
  rebalances, crashes,
  \* the consumers
  position,   \* the offset the owner of a partition fetches next
  pc,         \* "down", "polling", "handling", "ack" (in task_done) or "dead"
  held,       \* the record being handled
  \* observer
  ended       \* records whose handling has come to its end in some process

broker == <<end, committed, owner, rebalances, crashes>>
vars   == <<broker, position, pc, held, ended>>

Records  == [partition : Partitions, offset : Nat]
NoRecord == [offset |-> 0]

\* A consumer whose worker task has ended is no longer polled and, like one
\* whose process is gone, is taken out of the group.
Members == {c \in Consumers : pc[c] \in {"polling", "handling", "ack"}}

TypeOK ==
  /\ end \in [Partitions -> 0..MaxRecords]
  /\ committed \in [Partitions -> Nat]
  /\ \A p \in Partitions : committed[p] <= end[p] /\ position[p] <= end[p]
  /\ owner \in [Partitions -> Consumers \cup {Nobody}]
  /\ rebalances \in 0..MaxRebalances
  /\ crashes \in 0..MaxCrashes
  /\ position \in [Partitions -> Nat]
  /\ pc \in [Consumers -> {"down", "polling", "handling", "ack", "dead"}]
  /\ held \in [Consumers -> Records \cup {NoRecord}]
  /\ ended \subseteq Records

Init ==
  /\ end = [p \in Partitions |-> 0]
  /\ committed = [p \in Partitions |-> 0]
  /\ owner = [p \in Partitions |-> Nobody]
  /\ rebalances = 0
  /\ crashes = 0
  /\ position = [p \in Partitions |-> 0]
  /\ pc = [c \in Consumers |-> "polling"]
  /\ held = [c \in Consumers |-> NoRecord]
  /\ ended = {}
-----------------------------------------------------------------------------
\* enqueue: the producer waits for the broker.
Enqueue(p) ==
  /\ end[p] < MaxRecords
  /\ end' = [end EXCEPT ![p] = @ + 1]
  /\ UNCHANGED <<committed, owner, rebalances, crashes, position, pc, held, ended>>

\* Mutant: getmany may return two records, of which only the first is used.
DequeueOfTwo(c) ==
  /\ pc[c] = "polling"
  /\ \E p \in Partitions :
       /\ owner[p] = c
       /\ position[p] < end[p]
       /\ held' = [held EXCEPT ![c] = [partition |-> p, offset |-> position[p]]]
       /\ position' = [position EXCEPT ![p] = IF @ + 2 <= end[p] THEN @ + 2 ELSE @ + 1]
  /\ pc' = [pc EXCEPT ![c] = "handling"]
  /\ UNCHANGED <<broker, ended>>

\* Mutant: the offset is committed when the record is fetched (auto commit).
DequeueAutoCommits(c) ==
  /\ pc[c] = "polling"
  /\ \E p \in Partitions :
       /\ owner[p] = c
       /\ position[p] < end[p]
       /\ held' = [held EXCEPT ![c] = [partition |-> p, offset |-> position[p]]]
       /\ position' = [position EXCEPT ![p] = @ + 1]
       /\ committed' = [committed EXCEPT ![p] = position[p] + 1]
  /\ pc' = [pc EXCEPT ![c] = "handling"]
  /\ UNCHANGED <<end, owner, rebalances, crashes, ended>>

\* getmany with max_records = 1: the position moves past the record, the
\* committed offset does not.
Dequeue(c) ==
  /\ pc[c] = "polling"
  /\ \E p \in Partitions :
       /\ owner[p] = c
       /\ position[p] < end[p]
       /\ held' = [held EXCEPT ![c] = [partition |-> p, offset |-> position[p]]]
       /\ position' = [position EXCEPT ![p] = @ + 1]
  /\ pc' = [pc EXCEPT ![c] = "handling"]
  /\ UNCHANGED <<broker, ended>>

\* process_queue_message has returned or raised.
Handle(c) ==
  /\ pc[c] = "handling"
  /\ ended' = ended \cup {held[c]}
  /\ pc' = [pc EXCEPT ![c] = "ack"]
  /\ UNCHANGED <<broker, position, held>>

\* Mutant: off by one, the record after the one that was handled is passed over.
CommitOneTooFar(c) ==
  /\ pc[c] = "ack"
  /\ committed' = [committed EXCEPT ![held[c].partition] = held[c].offset + 2]
  /\ pc' = [pc EXCEPT ![c] = "polling"]
  /\ held' = [held EXCEPT ![c] = NoRecord]
  /\ UNCHANGED <<end, owner, rebalances, crashes, position, ended>>

\* task_done commits offset + 1. The broker refuses the commit of a partition
\* that belongs to another consumer by now, which ends the worker task; so
\* does an exception that had ended the handling.
TaskDone(c) ==
  /\ pc[c] = "ack"
  /\ \/ /\ owner[held[c].partition] = c
        /\ committed' = [committed EXCEPT ![held[c].partition] = held[c].offset + 1]
        /\ \E next \in {"polling", "dead"} : pc' = [pc EXCEPT ![c] = next]
     \/ /\ owner[held[c].partition] # c
        /\ pc' = [pc EXCEPT ![c] = "dead"]
        /\ UNCHANGED committed
  /\ held' = [held EXCEPT ![c] = NoRecord]
  /\ UNCHANGED <<end, owner, rebalances, crashes, position, ended>>
-----------------------------------------------------------------------------
\* The group gets a new assignment. Every owner, the old one of a partition
\* included, starts again from the committed offset.
Join ==
  /\ Members # {}
  /\ owner' \in [Partitions -> Members]
  /\ position' = committed

\* Partitions move although all their owners are well: a consumer has joined,
\* or a heartbeat came late.
Rebalance ==
  /\ rebalances < MaxRebalances
  /\ rebalances' = rebalances + 1
  /\ Join
  /\ UNCHANGED <<end, committed, crashes, pc, held, ended>>

\* The broker notices that an owner is gone.
TakeOver ==
  /\ \E p \in Partitions : owner[p] \notin Members
  /\ Join
  /\ UNCHANGED <<end, committed, rebalances, crashes, pc, held, ended>>

Crash(c) ==
  /\ pc[c] # "down"
  /\ crashes < MaxCrashes
  /\ crashes' = crashes + 1
  /\ pc' = [pc EXCEPT ![c] = "down"]
  /\ held' = [held EXCEPT ![c] = NoRecord]
  /\ owner' = [p \in Partitions |-> IF owner[p] = c THEN Nobody ELSE owner[p]]
  /\ UNCHANGED <<end, committed, rebalances, position, ended>>

\* startup: a new consumer, and a new member of the group.
Restart(c) ==
  /\ pc[c] = "down"
  /\ pc' = [pc EXCEPT ![c] = "polling"]
  /\ UNCHANGED <<broker, position, held, ended>>

Work(c) == Dequeue(c) \/ Handle(c) \/ TaskDone(c)

Next ==
  \/ \E p \in Partitions : Enqueue(p)
  \/ \E c \in Consumers : Work(c) \/ Crash(c) \/ Restart(c)
  \/ Rebalance
  \/ TakeOver

Spec == Init /\ [][Next]_vars

\* The handling of a message ends (every call it makes has a timeout), workers
\* poll, and the broker's session timeout removes members that do not.
Fairness == WF_vars(TakeOver) /\ \A c \in Consumers : WF_vars(Work(c))

FairSpec == Spec /\ Fairness
-----------------------------------------------------------------------------
\* No commit skips a record: every record below the committed offset, which no
\* consumer will ever be given after a restart, has been handled to its end
\* ("worker commits offsets only after ... handling", kafka_queue.py), however
\* often the partition moved while workers were busy.
CommittedIsHandled ==
  \A p \in Partitions : \A o \in 0..(committed[p] - 1) :
    [partition |-> p, offset |-> o] \in ended

\* Every record is handled in the end, as long as some worker is left.
EventuallyHandled ==
  \A p \in Partitions : \A o \in 0..(MaxRecords - 1) :
    o < end[p] ~> ([partition |-> p, offset |-> o] \in ended \/ Members = {})
=============================================================================
