-------------------------- MODULE TaskQueuesProofs --------------------------
(***************************************************************************)
(* Theorems about the task queues, for any number of consumers, messages,  *)
(* partitions, rebalances, crashes and lost connections: first those about *)
(* the commits of Kafka, then that every backend implements TaskQueue, and *)
(* what the depth of the Redis stream counts.                              *)
(*                                                                         *)
(* On Kafka no commit skips a record. A busy consumer has everything below *)
(* its record handled (HeldInv), an owner fetches past nothing that is not *)
(* handled or in its own hands (FetchInv), and a new owner starts from a   *)
(* committed offset, below which everything is handled already.            *)
(***************************************************************************)
EXTENDS TaskQueues, FiniteSetTheorems, TLAPS

Busy == {"handling", "ack"}

Rec(p, o) == [partition |-> p, offset |-> o]

\* A busy consumer holds a record that exists.
BusyInv ==
  \A c \in Consumers :
    pc[c] \in Busy => held[c] \in Records /\ held[c].offset < end[held[c].partition]

TypeInv == TypeOK /\ BusyInv

HeldInv ==
  \A c \in Consumers :
    /\ pc[c] \in Busy =>
         \A o \in Nat : o < held[c].offset => Rec(held[c].partition, o) \in ended
    /\ pc[c] = "ack" => held[c] \in ended

FetchInv ==
  \A p \in Partitions, c \in Consumers : owner[p] = c =>
    \A o \in Nat : o < position[p] =>
      Rec(p, o) \in ended \/ (pc[c] = "handling" /\ held[c] = Rec(p, o))

CommitInv == \A p \in Partitions : \A o \in Nat : o < committed[p] => Rec(p, o) \in ended

Inv == TypeInv /\ HeldInv /\ FetchInv /\ CommitInv
-----------------------------------------------------------------------------
\* A new topic and an idle group satisfy the invariant.
LEMMA InitInv == Init => Inv
  BY KafkaAssumption
     DEF Init, Inv, TypeInv, TypeOK, BusyInv, Busy, HeldInv, FetchInv, CommitInv

\* The fields of a busy consumer's record.
LEMMA HeldFields ==
  ASSUME TypeInv, NEW c \in Consumers, pc[c] \in Busy
  PROVE  /\ held[c] \in Records
         /\ held[c].partition \in Partitions
         /\ held[c].offset \in Nat
         /\ held[c].offset < end[held[c].partition]
         /\ held[c] = Rec(held[c].partition, held[c].offset)
  BY DEF TypeInv, BusyInv, Records, Rec

\* What TypeOK says of each variable.
LEMMA TypeParts ==
  ASSUME TypeInv
  PROVE  /\ end \in [Partitions -> 0..MaxRecords]
         /\ committed \in [Partitions -> Nat]
         /\ position \in [Partitions -> Nat]
         /\ \A p \in Partitions : committed[p] <= end[p] /\ position[p] <= end[p]
         /\ owner \in [Partitions -> Consumers \cup {Nobody}]
         /\ pc \in [Consumers -> {"down", "polling", "handling", "ack", "dead"}]
         /\ held \in [Consumers -> Records \cup {NoRecord}]
         /\ ended \subseteq Records
         /\ rebalances \in 0..MaxRebalances /\ crashes \in 0..MaxCrashes
         /\ BusyInv
  BY DEF TypeInv, TypeOK

\* A new record disturbs nobody.
LEMMA EnqueueInv == ASSUME Inv, NEW p \in Partitions, Enqueue(p) PROVE Inv'
  <1>1. TypeInv
    BY DEF Inv
  <1>2. TypeOK' /\ BusyInv'
    <2>1. end' \in [Partitions -> 0..MaxRecords] /\ \A q \in Partitions : end[q] <= end'[q]
      BY <1>1, TypeParts, KafkaAssumption DEF Enqueue
    <2>2. TypeOK'
      BY <1>1, <2>1, TypeParts, KafkaAssumption DEF Enqueue, TypeOK
    <2>3. BusyInv'
      BY <1>1, <2>1, TypeParts, HeldFields, KafkaAssumption DEF Enqueue, BusyInv
    <2> QED  BY <2>2, <2>3
  <1>3. HeldInv' /\ FetchInv' /\ CommitInv'
    BY DEF Enqueue, Inv, HeldInv, FetchInv, CommitInv
  <1> QED  BY <1>2, <1>3 DEF Inv, TypeInv

\* The owner, idle until now, has handled all it has fetched before.
LEMMA DequeueInv == ASSUME Inv, NEW c \in Consumers, Dequeue(c) PROVE Inv'
  <1>1. TypeInv /\ HeldInv /\ FetchInv /\ CommitInv
    BY DEF Inv
  <1>2. PICK p \in Partitions :
          /\ owner[p] = c
          /\ position[p] < end[p]
          /\ held' = [held EXCEPT ![c] = Rec(p, position[p])]
          /\ position' = [position EXCEPT ![p] = @ + 1]
    BY DEF Dequeue, Rec
  <1>3. /\ pc[c] = "polling" /\ pc' = [pc EXCEPT ![c] = "handling"]
        /\ UNCHANGED <<end, committed, owner, rebalances, crashes, ended>>
    BY DEF Dequeue, broker
  <1>4. Rec(p, position[p]) \in Records /\ held'[c] = Rec(p, position[p]) /\ pc'[c] = "handling"
    BY <1>1, <1>2, <1>3, TypeParts DEF Records, Rec
  <1>5. \A d \in Consumers \ {c} : held'[d] = held[d] /\ pc'[d] = pc[d]
    BY <1>1, <1>2, <1>3, TypeParts
  <1>6. \A q \in Partitions : \A o \in Nat : owner[q] = c /\ o < position[q] => Rec(q, o) \in ended
    BY <1>1, <1>3 DEF FetchInv
  <1>7. TypeOK'
    BY <1>1, <1>2, <1>3, <1>4, TypeParts DEF TypeOK
  <1>8. BusyInv'
    <2>1. Rec(p, position[p]).partition = p /\ Rec(p, position[p]).offset = position[p]
      BY DEF Rec
    <2> QED  BY <1>1, <1>2, <1>3, <1>4, <1>5, <2>1, TypeParts DEF BusyInv
  <1>9. HeldInv'
    BY <1>1, <1>2, <1>3, <1>4, <1>5, <1>6 DEF HeldInv, Busy, Rec
  <1>10. FetchInv'
    <2> SUFFICES ASSUME NEW q \in Partitions, NEW d \in Consumers, owner[q] = d,
                        NEW o \in Nat, o < position'[q]
                 PROVE  Rec(q, o) \in ended \/ (pc'[d] = "handling" /\ held'[d] = Rec(q, o))
      BY <1>3 DEF FetchInv
    <2>1. CASE d # c
      <3>1. q # p /\ position'[q] = position[q]
        BY <1>1, <1>2, <2>1, TypeParts
      <3> QED  BY <1>1, <1>5, <2>1, <3>1 DEF FetchInv
    <2>2. CASE d = c /\ q # p
      <3>1. position'[q] = position[q]
        BY <1>1, <1>2, <2>2, TypeParts
      <3> QED  BY <1>6, <2>2, <3>1
    <2>3. CASE d = c /\ q = p
      <3>1. position'[p] = position[p] + 1 /\ position[p] \in Nat
        BY <1>1, <1>2, TypeParts
      <3>2. CASE o = position[p]
        BY <1>4, <2>3, <3>2
      <3>3. CASE o < position[p]
        BY <1>6, <2>3, <3>3
      <3> QED  BY <2>3, <3>1, <3>2, <3>3
    <2> QED  BY <2>1, <2>2, <2>3
  <1>11. CommitInv'
    BY <1>1, <1>3 DEF CommitInv
  <1> QED  BY <1>7, <1>8, <1>9, <1>10, <1>11 DEF Inv, TypeInv

\* The record of the consumer becomes a handled one.
LEMMA HandleInv == ASSUME Inv, NEW c \in Consumers, Handle(c) PROVE Inv'
  <1>1. TypeInv /\ HeldInv /\ FetchInv /\ CommitInv
    BY DEF Inv
  <1>2. /\ pc[c] = "handling" /\ ended' = ended \cup {held[c]}
        /\ pc' = [pc EXCEPT ![c] = "ack"]
        /\ UNCHANGED <<end, committed, owner, rebalances, crashes, position, held>>
    BY DEF Handle, broker
  <1>3. held[c] \in Records
    BY <1>1, <1>2, HeldFields DEF Busy
  <1>4. pc'[c] = "ack" /\ \A d \in Consumers \ {c} : pc'[d] = pc[d]
    BY <1>1, <1>2, TypeParts
  <1>5. TypeOK' /\ BusyInv'
    BY <1>1, <1>2, <1>3, <1>4, TypeParts DEF TypeOK, BusyInv, Busy
  <1>6. HeldInv'
    BY <1>1, <1>2, <1>4 DEF HeldInv, Busy
  <1>7. FetchInv'
    BY <1>1, <1>2, <1>4 DEF FetchInv
  <1>8. CommitInv'
    BY <1>1, <1>2 DEF CommitInv
  <1> QED  BY <1>5, <1>6, <1>7, <1>8 DEF Inv, TypeInv

\* A commit covers the record of the consumer and what lies below it.
LEMMA TaskDoneInv == ASSUME Inv, NEW c \in Consumers, TaskDone(c) PROVE Inv'
  <1>1. TypeInv /\ HeldInv /\ FetchInv /\ CommitInv
    BY DEF Inv
  <1> DEFINE q == held[c].partition
             k == held[c].offset
  <1>2. /\ pc[c] = "ack" /\ held' = [held EXCEPT ![c] = NoRecord]
        /\ UNCHANGED <<end, owner, rebalances, crashes, position, ended>>
        /\ \E next \in {"polling", "dead"} : pc' = [pc EXCEPT ![c] = next]
        /\ committed' \in {committed, [committed EXCEPT ![q] = k + 1]}
    BY DEF TaskDone
  <1>3. q \in Partitions /\ k \in Nat /\ k < end[q] /\ held[c] = Rec(q, k)
    BY <1>1, <1>2, HeldFields DEF Busy
  <1>4. /\ pc'[c] \in {"polling", "dead"}
        /\ \A d \in Consumers \ {c} : pc'[d] = pc[d] /\ held'[d] = held[d]
    BY <1>1, <1>2, TypeParts
  <1>5. /\ committed' \in [Partitions -> Nat]
        /\ \A p \in Partitions : committed'[p] <= end[p]
    BY <1>1, <1>2, <1>3, TypeParts
  <1>6. TypeOK' /\ BusyInv'
    BY <1>1, <1>2, <1>4, <1>5, TypeParts DEF TypeOK, BusyInv, Busy
  <1>7. HeldInv'
    BY <1>1, <1>2, <1>4 DEF HeldInv, Busy
  <1>8. FetchInv'
    BY <1>1, <1>2, <1>4 DEF FetchInv
  <1>9. CommitInv'
    <2>1. \A o \in Nat : o < k + 1 => Rec(q, o) \in ended
      <3>1. \A o \in Nat : o < k => Rec(q, o) \in ended
        BY <1>1, <1>2 DEF HeldInv, Busy
      <3>2. Rec(q, k) \in ended
        BY <1>1, <1>2, <1>3 DEF HeldInv
      <3> QED  BY <1>3, <3>1, <3>2
    <2>2. \A p \in Partitions : committed'[p] = committed[p] \/ (p = q /\ committed'[p] = k + 1)
      BY <1>1, <1>2, <1>3, TypeParts
    <2> QED  BY <1>1, <1>2, <2>1, <2>2 DEF CommitInv
  <1> QED  BY <1>6, <1>7, <1>8, <1>9 DEF Inv, TypeInv

\* A new assignment: every owner starts from a committed offset.
LEMMA JoinInv == ASSUME Inv, Rebalance \/ TakeOver PROVE Inv'
  <1>1. TypeInv /\ HeldInv /\ FetchInv /\ CommitInv
    BY DEF Inv
  <1>2. /\ owner' \in [Partitions -> Consumers] /\ position' = committed
        /\ UNCHANGED <<end, committed, crashes, pc, held, ended>>
        /\ rebalances' \in 0..MaxRebalances
    BY <1>1, TypeParts, KafkaAssumption DEF Rebalance, TakeOver, Join, Members
  <1>3. TypeOK' /\ BusyInv'
    BY <1>1, <1>2, TypeParts DEF TypeOK, BusyInv
  <1>4. HeldInv' /\ FetchInv' /\ CommitInv'
    BY <1>1, <1>2 DEF HeldInv, FetchInv, CommitInv
  <1> QED  BY <1>3, <1>4 DEF Inv, TypeInv

\* A dead consumer owns nothing, and a new one holds nothing.
LEMMA LifeInv == ASSUME Inv, NEW c \in Consumers, Crash(c) \/ Restart(c) PROVE Inv'
  <1>1. TypeInv /\ HeldInv /\ FetchInv /\ CommitInv
    BY DEF Inv
  <1>2. /\ UNCHANGED <<end, committed, rebalances, position, ended>>
        /\ crashes' \in 0..MaxCrashes
        /\ pc' \in [Consumers -> {"down", "polling", "handling", "ack", "dead"}]
        /\ pc'[c] \in {"down", "polling"}
        /\ \A d \in Consumers \ {c} : pc'[d] = pc[d] /\ held'[d] = held[d]
        /\ held' \in [Consumers -> Records \cup {NoRecord}]
    BY <1>1, TypeParts, KafkaAssumption DEF Crash, Restart, broker
  <1>3. /\ owner' \in [Partitions -> Consumers \cup {Nobody}]
        /\ \A p \in Partitions : owner'[p] \in {owner[p], Nobody}
        /\ pc[c] = "down" \/ \A p \in Partitions : owner'[p] # c
    BY <1>1, TypeParts, KafkaAssumption DEF Crash, Restart, broker
  <1>4. TypeOK' /\ BusyInv'
    BY <1>1, <1>2, <1>3, TypeParts DEF TypeOK, BusyInv, Busy
  <1>5. HeldInv'
    BY <1>1, <1>2 DEF HeldInv, Busy
  <1>6. FetchInv'
    <2> SUFFICES ASSUME NEW p \in Partitions, NEW d \in Consumers, owner'[p] = d,
                        NEW o \in Nat, o < position[p]
                 PROVE  Rec(p, o) \in ended \/ (pc'[d] = "handling" /\ held'[d] = Rec(p, o))
      BY <1>2 DEF FetchInv
    <2>1. owner[p] = d
      BY <1>3, KafkaAssumption
    <2>2. Rec(p, o) \in ended \/ (pc[d] = "handling" /\ held[d] = Rec(p, o))
      BY <1>1, <2>1 DEF FetchInv
    <2> QED  BY <1>2, <1>3, <2>2
  <1>7. CommitInv'
    BY <1>1, <1>2 DEF CommitInv
  <1> QED  BY <1>4, <1>5, <1>6, <1>7 DEF Inv, TypeInv

\* Inv holds in every reachable state of the queue.
THEOREM QueueInvariant == Spec => []Inv
  <1>1. Inv /\ [Next]_vars => Inv'
    <2>1. ASSUME Inv, UNCHANGED vars PROVE Inv'
      BY <2>1 DEF vars, broker, Inv, TypeInv, TypeOK, BusyInv, HeldInv, FetchInv, CommitInv, Members
    <2> QED  BY <2>1, EnqueueInv, DequeueInv, HandleInv, TaskDoneInv, JoinInv, LifeInv
             DEF Next, Work
  <1> QED  BY <1>1, InitInv, PTL DEF Spec

\* Every record below a committed offset has been handled: commits lose
\* nothing, for any number of rebalances and crashes.
THEOREM CommitsSkipNothing == Spec => []CommittedIsHandled
  <1>1. Inv => CommittedIsHandled
    <2> SUFFICES ASSUME Inv, NEW p \in Partitions, NEW o \in 0..(committed[p] - 1)
                 PROVE  Rec(p, o) \in ended
      BY DEF CommittedIsHandled, Rec
    <2>1. committed[p] \in Nat
      BY TypeParts DEF Inv
    <2>2. o \in Nat /\ o < committed[p]
      BY <2>1
    <2> QED  BY <2>2 DEF Inv, CommitInv
  <1> QED  BY <1>1, QueueInvariant, PTL

\* Offsets stay within the log, for any number of records.
THEOREM OffsetsInLog == Spec => []TypeOK
  <1>1. Inv => TypeOK
    BY DEF Inv, TypeInv
  <1> QED  BY <1>1, QueueInvariant, PTL
-----------------------------------------------------------------------------
\* What the abstract queue is mapped to.
Holds    == IF backend = "kafka" THEN KafkaHolding ELSE Memory!Holding
AllEnded == IF backend = "kafka" THEN ended ELSE handled
AllHeld  == UNION {Holds[c] : c \in Consumers}
Lost     == AllPut \ (AllWaiting \cup AllHeld \cup AllEnded)

Shown == <<BackendPromise, AllPut, AllWaiting, Holds, AllEnded>>

\* The steps of the abstract queue in these terms.
LEMMA Enqueues ==
  ASSUME NEW m, m \notin AllPut, AllPut' = AllPut \cup {m}, AllWaiting' = AllWaiting \cup {m},
         UNCHANGED <<BackendPromise, Holds, AllEnded>>
  PROVE  Queue!Next
  BY DEF Queue!Next, Queue!Enqueue, Holds, AllEnded

\* A message that waits, or may be redelivered, goes to a consumer without one.
LEMMA Claims ==
  ASSUME NEW c \in Consumers, NEW m, Holds[c] = {}, m \in AllPut,
         m \in AllWaiting \/ BackendPromise.redelivers,
         Holds' = [Holds EXCEPT ![c] = {m}], AllWaiting' = AllWaiting \ {m},
         UNCHANGED <<BackendPromise, AllPut, AllEnded>>
  PROVE  Queue!Next
  BY DEF Queue!Next, Queue!Claim, Holds, AllEnded

\* The handling of a consumer's message ends.
LEMMA Ends ==
  ASSUME NEW c \in Consumers, Holds[c] # {}, AllEnded' = AllEnded \cup Holds[c],
         UNCHANGED <<BackendPromise, AllPut, AllWaiting, Holds>>
  PROVE  Queue!Next
  BY DEF Queue!Next, Queue!End, Holds, AllEnded

Rearranges == AllWaiting \ AllEnded \subseteq AllWaiting' /\ AllWaiting' \subseteq AllPut

\* Messages wait again while nobody's hands change.
LEMMA Redelivers ==
  ASSUME BackendPromise.redelivers, Rearranges,
         UNCHANGED <<BackendPromise, AllPut, Holds, AllEnded>>
  PROVE  Queue!Next
  BY DEF Queue!Next, Queue!Redeliver, Queue!Rearrange, Rearranges, Holds, AllEnded

\* A consumer gives up a message whose handling has ended.
LEMMA Finishes ==
  ASSUME NEW c \in Consumers, Holds[c] # {}, Holds[c] \subseteq AllEnded,
         Holds' = [Holds EXCEPT ![c] = {}],
         UNCHANGED AllWaiting \/ (BackendPromise.redelivers /\ Rearranges),
         UNCHANGED <<BackendPromise, AllPut, AllEnded>>
  PROVE  Queue!Next
  BY DEF Queue!Next, Queue!Done, Queue!LetGo, Queue!Rearrange, Rearranges, Holds, AllEnded

\* A consumer is gone, with what its backend does not keep.
LEMMA Leaves ==
  ASSUME NEW c \in Consumers, Holds' = [Holds EXCEPT ![c] = {}],
         \/ BackendPromise.survives = "all" /\ Rearranges /\ Lost' = {}
         \/ /\ BackendPromise.survives = "unclaimed"
            /\ UNCHANGED AllWaiting \/ \E m \in AllWaiting : AllWaiting' = AllWaiting \ {m}
         \/ BackendPromise.survives = "nothing" /\ AllWaiting' = {},
         UNCHANGED <<BackendPromise, AllPut, AllEnded>>
  PROVE  Queue!Next
<1>1. Queue!LetGo(c) /\ UNCHANGED <<BackendPromise, AllPut, AllEnded>>
  BY DEF Queue!LetGo, Holds
<1>2. Rearranges => Queue!Rearrange
  BY DEF Queue!Rearrange, Rearranges, AllEnded
<1>3. Queue!Lost' = Lost'
  BY DEF Queue!Lost, Queue!Held, Lost, AllHeld, Holds, AllEnded
<1> QED  BY <1>1, <1>2, <1>3 DEF Queue!Next, Queue!Leave, AllEnded
-----------------------------------------------------------------------------
\* On Kafka, the queue in terms of offsets.
KafkaPut     == {r \in Records : r.offset < end[r.partition]}
KafkaWaiting == {r \in KafkaPut : KafkaFrom(r.partition) <= r.offset}

KafkaView ==
  /\ AllPut = KafkaPut
  /\ AllWaiting = KafkaWaiting
  /\ Holds = KafkaHolding
  /\ AllEnded = ended

\* The abstract queue, read off the offsets.
LEMMA KafkaShows == Inv /\ backend = "kafka" => KafkaView
<1> SUFFICES ASSUME Inv, backend = "kafka" PROVE KafkaView
  OBVIOUS
<1>1. /\ end \in [Partitions -> 0..MaxRecords] /\ committed \in [Partitions -> Nat]
      /\ position \in [Partitions -> Nat]
  BY TypeParts DEF Inv
<1>2. \A p \in Partitions : end[p] \in Nat /\ KafkaFrom(p) \in Nat
  BY <1>1, KafkaAssumption DEF KafkaFrom
<1>3. ASSUME NEW from, \A p \in Partitions : from[p] \in Nat
      PROVE  KafkaRecords(from) =
               {r \in Records : from[r.partition] <= r.offset /\ r.offset < end[r.partition]}
  <2>1. ASSUME NEW r \in KafkaRecords(from)
        PROVE  r \in Records /\ from[r.partition] <= r.offset /\ r.offset < end[r.partition]
    BY <1>2, <1>3, <2>1 DEF KafkaRecords, Records
  <2>2. ASSUME NEW r \in Records, from[r.partition] <= r.offset, r.offset < end[r.partition]
        PROVE  r \in KafkaRecords(from)
    <3>1. r = [partition |-> r.partition, offset |-> r.offset] /\ r.partition \in Partitions
          /\ r.offset \in Nat
      BY DEF Records
    <3>2. r.offset \in from[r.partition]..(end[r.partition] - 1)
      BY <1>2, <1>3, <2>2, <3>1
    <3> QED  BY <3>1, <3>2 DEF KafkaRecords
  <2> QED  BY <2>1, <2>2
<1>4. AllPut = KafkaPut
  <2>1. KafkaRecords([p \in Partitions |-> 0]) = KafkaPut
    BY <1>2, <1>3 DEF KafkaPut, Records
  <2> QED  BY <2>1 DEF AllPut
<1>5. AllWaiting = KafkaWaiting
  <2>1. KafkaRecords([p \in Partitions |-> KafkaFrom(p)]) = KafkaWaiting
    BY <1>2, <1>3 DEF KafkaPut, KafkaWaiting, Records
  <2> QED  BY <2>1 DEF AllWaiting
<1> QED  BY <1>4, <1>5 DEF KafkaView, Holds, AllEnded

\* The same after a step.
LEMMA KafkaShowsNext == (Inv /\ backend = "kafka")' => KafkaView'
<1>1. Inv /\ backend = "kafka" => KafkaView
  BY KafkaShows
<1> QED  BY <1>1, PTL

\* Kafka redelivers and keeps everything.
LEMMA KafkaPromises ==
  backend = "kafka" => BackendPromise.redelivers /\ BackendPromise.survives = "all"
  BY DEF BackendPromise

\* A promise of Kafka depends on nothing that changes.
LEMMA KafkaKeepsPromise ==
  ASSUME backend = "kafka", backend' = backend PROVE BackendPromise' = BackendPromise
  BY DEF BackendPromise

\* The fields of a record,
LEMMA RecordIs ==
  ASSUME NEW r \in Records
  PROVE  r.partition \in Partitions /\ r.offset \in Nat /\ r = Rec(r.partition, r.offset)
  BY DEF Records, Rec

\* and a record by its fields.
LEMMA RecIs ==
  ASSUME NEW p \in Partitions, NEW o \in Nat
  PROVE  Rec(p, o) \in Records /\ Rec(p, o).partition = p /\ Rec(p, o).offset = o
  BY DEF Records, Rec

\* A consumer that has not come back owns nothing.
DownInv == \A p \in Partitions : owner[p] \in Consumers => pc[owner[p]] # "down"

\* A crash takes a consumer's partitions away; only members get any.
LEMMA DownInvStep == ASSUME Inv, DownInv, [Next]_vars PROVE DownInv'
<1> owner \in [Partitions -> Consumers \cup {Nobody}]
    /\ pc \in [Consumers -> {"down", "polling", "handling", "ack", "dead"}]
  BY TypeParts DEF Inv
<1>1. ASSUME NEW p \in Partitions, Enqueue(p) PROVE DownInv'
  BY <1>1 DEF Enqueue, DownInv
<1>2. ASSUME NEW c \in Consumers, Dequeue(c) \/ Handle(c) \/ TaskDone(c) \/ Restart(c)
      PROVE  DownInv'
  <2>1. UNCHANGED owner /\ \E place \in {"handling", "ack", "polling", "dead"} :
                             pc' = [pc EXCEPT ![c] = place]
    BY <1>2 DEF Dequeue, Handle, TaskDone, Restart, broker
  <2> QED  BY <2>1 DEF DownInv
<1>3. ASSUME NEW c \in Consumers, Crash(c) PROVE DownInv'
  BY <1>3, KafkaAssumption DEF Crash, DownInv
<1>4. CASE Rebalance \/ TakeOver
  BY <1>4 DEF Rebalance, TakeOver, Join, Members, DownInv
<1>5. CASE UNCHANGED vars
  BY <1>5 DEF vars, broker, DownInv
<1> QED  BY <1>1, <1>2, <1>3, <1>4, <1>5 DEF Next, Work

\* Nothing that is not handled is waiting and forgotten at the next assignment.
LEMMA KafkaLosesNothing ==
  Inv => KafkaPut \subseteq KafkaWaiting \cup ended \cup UNION {KafkaHolding[c] : c \in Consumers}
<1> SUFFICES ASSUME Inv, NEW r \in KafkaPut, r \notin KafkaWaiting, r \notin ended
             PROVE  \E c \in Consumers : r \in KafkaHolding[c]
  OBVIOUS
<1> DEFINE p == r.partition
<1>1. /\ p \in Partitions /\ r.offset \in Nat /\ r = Rec(p, r.offset)
      /\ ~(KafkaFrom(p) <= r.offset)
  BY RecordIs DEF KafkaPut, KafkaWaiting
<1>2. /\ committed[p] \in Nat /\ position[p] \in Nat
      /\ owner[p] \in Consumers \cup {Nobody}
  BY <1>1, TypeParts DEF Inv
<1>3. r.offset < KafkaFrom(p)
  BY <1>1, <1>2 DEF KafkaFrom
<1>4. ~(r.offset < committed[p])
  BY <1>1 DEF Inv, CommitInv
<1>5. owner[p] \in Members /\ r.offset < position[p]
  BY <1>3, <1>4 DEF KafkaFrom
<1>6. owner[p] \in Consumers /\ pc[owner[p]] = "handling" /\ held[owner[p]] = r
  BY <1>1, <1>5 DEF Inv, FetchInv, Members
<1> QED  BY <1>6 DEF KafkaHolding

\* So no message is lost on Kafka.
LEMMA KafkaKeepsAll == Inv /\ backend = "kafka" => Lost = {}
  BY KafkaShows, KafkaLosesNothing DEF Lost, AllHeld, KafkaView

\* The same after a step.
LEMMA KafkaKeepsAllNext == (Inv /\ backend = "kafka")' => (Lost = {})'
<1>1. Inv /\ backend = "kafka" => Lost = {}
  BY KafkaKeepsAll
<1> QED  BY <1>1, PTL

\* The facts every step of the Kafka queue starts from.
KafkaAt ==
  /\ Inv /\ DownInv
  /\ KafkaView
  /\ BackendPromise.redelivers /\ BackendPromise.survives = "all"

\* A produced record is a new message that waits.
LEMMA KafkaEnqueues ==
  ASSUME KafkaAt, KafkaView', Inv', UNCHANGED BackendPromise, NEW p \in Partitions, Enqueue(p)
  PROVE  Queue!Next
<1> DEFINE m == Rec(p, end[p])
<1>1. /\ end \in [Partitions -> 0..MaxRecords] /\ end[p] \in Nat
      /\ position[p] <= end[p] /\ committed[p] <= end[p]
      /\ position[p] \in Nat /\ committed[p] \in Nat
  BY TypeParts, KafkaAssumption DEF KafkaAt, Inv
<1>2. /\ end' = [end EXCEPT ![p] = @ + 1]
      /\ UNCHANGED <<committed, owner, position, pc, held, ended>>
  BY DEF Enqueue
<1>3. m \in Records /\ m.partition = p /\ m.offset = end[p]
  BY <1>1, RecIs
<1>4. \A r \in Records : r.offset < end'[r.partition] <=> r.offset < end[r.partition] \/ r = m
  <2> TAKE r \in Records
  <2>1. CASE r.partition = p
    BY <1>1, <1>2, <1>3, <2>1, RecordIs
  <2>2. CASE r.partition # p
    BY <1>1, <1>2, <1>3, <2>2, RecordIs
  <2> QED  BY <2>1, <2>2
<1>5. KafkaPut' = KafkaPut \cup {m} /\ m \notin KafkaPut
  BY <1>1, <1>3, <1>4 DEF KafkaPut
<1>6. \A q \in Partitions : KafkaFrom(q)' = KafkaFrom(q)
  BY <1>2 DEF KafkaFrom, Members
<1>7. KafkaFrom(p) <= end[p]
  BY <1>1 DEF KafkaFrom
<1>8. KafkaWaiting' = KafkaWaiting \cup {m}
  BY <1>3, <1>5, <1>6, <1>7, RecordIs DEF KafkaWaiting, KafkaPut
<1>9. KafkaHolding' = KafkaHolding /\ ended' = ended
  BY <1>2 DEF KafkaHolding
<1> HIDE DEF m
<1> QED  BY <1>5, <1>8, <1>9, Enqueues DEF KafkaAt, KafkaView

\* A fetch is a claim: it moves the position of the owner past the record.
LEMMA KafkaClaims ==
  ASSUME KafkaAt, KafkaView', UNCHANGED BackendPromise, NEW c \in Consumers, Dequeue(c)
  PROVE  Queue!Next
<1>1. PICK p \in Partitions :
        /\ owner[p] = c
        /\ position[p] < end[p]
        /\ held' = [held EXCEPT ![c] = Rec(p, position[p])]
        /\ position' = [position EXCEPT ![p] = @ + 1]
  BY DEF Dequeue, Rec
<1> DEFINE m == Rec(p, position[p])
<1>2. /\ position \in [Partitions -> Nat] /\ position[p] \in Nat
      /\ pc \in [Consumers -> {"down", "polling", "handling", "ack", "dead"}]
      /\ held \in [Consumers -> Records \cup {NoRecord}]
  BY TypeParts DEF KafkaAt, Inv
<1>3. /\ pc[c] = "polling" /\ pc' = [pc EXCEPT ![c] = "handling"]
      /\ UNCHANGED <<end, committed, owner, ended>>
  BY DEF Dequeue, broker
<1>4. m \in Records /\ m.partition = p /\ m.offset = position[p]
  BY <1>2, RecIs
<1>5. KafkaPut' = KafkaPut /\ m \in KafkaPut
  BY <1>1, <1>3, <1>4 DEF KafkaPut
<1>6. Members' = Members /\ c \in Members
  BY <1>2, <1>3 DEF Members
<1>7. /\ KafkaFrom(p) = position[p] /\ KafkaFrom(p)' = position[p] + 1
      /\ \A q \in Partitions \ {p} : KafkaFrom(q)' = KafkaFrom(q)
  BY <1>1, <1>2, <1>3, <1>6 DEF KafkaFrom
<1>8. \A r \in Records : KafkaFrom(r.partition)' <= r.offset
                           <=> KafkaFrom(r.partition) <= r.offset /\ r # m
  <2> TAKE r \in Records
  <2>1. CASE r.partition = p
    BY <1>2, <1>4, <1>7, <2>1, RecordIs
  <2>2. CASE r.partition # p
    BY <1>4, <1>7, <2>2, RecordIs
  <2> QED  BY <2>1, <2>2
<1>9. KafkaWaiting' = KafkaWaiting \ {m}
  BY <1>5, <1>8 DEF KafkaWaiting, KafkaPut
<1>10. KafkaHolding[c] = {} /\ KafkaHolding' = [KafkaHolding EXCEPT ![c] = {m}]
  BY <1>1, <1>2, <1>3 DEF KafkaHolding
<1> HIDE DEF m
<1> QED  BY <1>3, <1>5, <1>9, <1>10, Claims DEF KafkaAt, KafkaView

\* The handling of a record ends.
LEMMA KafkaEnds ==
  ASSUME KafkaAt, KafkaView', UNCHANGED BackendPromise, NEW c \in Consumers, Handle(c)
  PROVE  Queue!Next
<1>1. /\ pc[c] = "handling" /\ pc' = [pc EXCEPT ![c] = "ack"]
      /\ ended' = ended \cup {held[c]}
      /\ UNCHANGED <<end, committed, owner, position, held>>
  BY DEF Handle, broker
<1>2. pc \in [Consumers -> {"down", "polling", "handling", "ack", "dead"}]
  BY TypeParts DEF KafkaAt, Inv
<1>3. KafkaHolding' = KafkaHolding /\ KafkaHolding[c] = {held[c]}
  BY <1>1, <1>2 DEF KafkaHolding
<1>4. Members' = Members
  BY <1>1, <1>2 DEF Members
<1>5. KafkaPut' = KafkaPut /\ KafkaWaiting' = KafkaWaiting
  BY <1>1, <1>4 DEF KafkaPut, KafkaWaiting, KafkaFrom
<1> QED  BY <1>1, <1>3, <1>5, Ends DEF KafkaAt, KafkaView

\* The messages of an unchanged log that wait after the partitions have moved,
\* or an owner is gone.
LEMMA KafkaRearranges ==
  ASSUME KafkaAt, KafkaView', Inv', UNCHANGED <<end, ended>>,
         \A p \in Partitions : KafkaFrom(p)' \in {KafkaFrom(p), committed'[p]}
  PROVE  Rearranges /\ UNCHANGED <<AllPut, AllEnded>>
<1>1. KafkaPut' = KafkaPut
  BY DEF KafkaPut
<1>2. ASSUME NEW r \in KafkaWaiting, r \notin ended PROVE r \in KafkaWaiting'
  <2>1. /\ r \in KafkaPut /\ r.partition \in Partitions /\ r.offset \in Nat
        /\ r = Rec(r.partition, r.offset)
        /\ KafkaFrom(r.partition) <= r.offset
    BY RecordIs DEF KafkaWaiting, KafkaPut
  <2>2. committed'[r.partition] \in Nat
    <3>1. (TypeInv)'
      BY DEF Inv
    <3> QED  BY <2>1, <3>1 DEF TypeInv, TypeOK
  <2>3. ~(r.offset < committed'[r.partition])
    BY <1>2, <2>1 DEF Inv, CommitInv
  <2>4. KafkaFrom(r.partition)' <= r.offset
    BY <2>1, <2>2, <2>3
  <2> QED  BY <1>1, <2>1, <2>4 DEF KafkaWaiting
<1>3. KafkaWaiting' \subseteq KafkaPut
  BY <1>1 DEF KafkaWaiting
<1> QED  BY <1>1, <1>2, <1>3 DEF KafkaAt, KafkaView, Rearranges

\* A commit, refused or not, ends the claim; one that rewinds the offset redelivers.
LEMMA KafkaFinishes ==
  ASSUME KafkaAt, KafkaView', Inv', UNCHANGED BackendPromise, NEW c \in Consumers, TaskDone(c)
  PROVE  Queue!Next
<1>1. /\ pc[c] = "ack" /\ pc' \in {[pc EXCEPT ![c] = "polling"], [pc EXCEPT ![c] = "dead"]}
      /\ held' = [held EXCEPT ![c] = NoRecord]
      /\ UNCHANGED <<end, owner, position, ended>>
      /\ \/ /\ owner[held[c].partition] = c
            /\ committed' = [committed EXCEPT ![held[c].partition] = held[c].offset + 1]
         \/ UNCHANGED committed
  BY DEF TaskDone
<1>2. /\ pc \in [Consumers -> {"down", "polling", "handling", "ack", "dead"}]
      /\ held \in [Consumers -> Records \cup {NoRecord}]
      /\ committed \in [Partitions -> Nat]
  BY TypeParts DEF KafkaAt, Inv
<1>3. KafkaHolding[c] = {held[c]} /\ held[c] \in ended
  BY <1>1, <1>2 DEF KafkaHolding, KafkaAt, Inv, HeldInv
<1>4. KafkaHolding' = [KafkaHolding EXCEPT ![c] = {}]
  BY <1>1, <1>2 DEF KafkaHolding
<1>5. Members \ {c} \subseteq Members' /\ Members' \subseteq Members /\ c \in Members
  BY <1>1, <1>2 DEF Members
<1>6. ASSUME NEW p \in Partitions PROVE KafkaFrom(p)' \in {KafkaFrom(p), committed'[p]}
  <2>1. CASE owner[p] \in Members'
    BY <1>1, <1>5, <2>1 DEF KafkaFrom
  <2>2. CASE owner[p] \notin Members'
    BY <1>1, <2>2 DEF KafkaFrom
  <2> QED  BY <2>1, <2>2
<1>7. Rearranges /\ UNCHANGED <<AllPut, AllEnded>>
  BY <1>1, <1>6, KafkaRearranges
<1> QED  BY <1>3, <1>4, <1>7, Finishes DEF KafkaAt, KafkaView

\* A new assignment redelivers.
LEMMA KafkaRedelivers ==
  ASSUME KafkaAt, KafkaView', Inv', UNCHANGED BackendPromise, Rebalance \/ TakeOver
  PROVE  Queue!Next
<1>1. UNCHANGED <<end, committed, pc, held, ended>> /\ position' = committed
  BY DEF Rebalance, TakeOver, Join
<1>2. \A p \in Partitions : KafkaFrom(p)' \in {KafkaFrom(p), committed'[p]}
  BY <1>1 DEF KafkaFrom
<1>3. Rearranges /\ UNCHANGED <<AllPut, AllEnded>>
  BY <1>1, <1>2, KafkaRearranges
<1>4. KafkaHolding' = KafkaHolding
  BY <1>1 DEF KafkaHolding
<1> QED  BY <1>3, <1>4, Redelivers DEF KafkaAt, KafkaView

\* A crash leaves its partitions to be read again from the committed offset.
LEMMA KafkaLeaves ==
  ASSUME KafkaAt, KafkaView', Inv', Lost' = {}, UNCHANGED BackendPromise,
         NEW c \in Consumers, Crash(c)
  PROVE  Queue!Next
<1>1. /\ pc' = [pc EXCEPT ![c] = "down"] /\ held' = [held EXCEPT ![c] = NoRecord]
      /\ owner' = [p \in Partitions |-> IF owner[p] = c THEN Nobody ELSE owner[p]]
      /\ UNCHANGED <<end, committed, position, ended>>
  BY DEF Crash
<1>2. /\ pc \in [Consumers -> {"down", "polling", "handling", "ack", "dead"}]
      /\ held \in [Consumers -> Records \cup {NoRecord}]
  BY TypeParts DEF KafkaAt, Inv
<1>3. KafkaHolding' = [KafkaHolding EXCEPT ![c] = {}]
  BY <1>1, <1>2 DEF KafkaHolding
<1>4. Members' = Members \ {c}
  BY <1>1, <1>2 DEF Members
<1>5. ASSUME NEW p \in Partitions PROVE KafkaFrom(p)' \in {KafkaFrom(p), committed'[p]}
  BY <1>1, <1>4, KafkaAssumption DEF KafkaFrom, Members
<1>6. Rearranges /\ UNCHANGED <<AllPut, AllEnded>>
  BY <1>1, <1>5, KafkaRearranges
<1> QED  BY <1>3, <1>6, Leaves DEF KafkaAt, KafkaView

\* A new process has no records and no partitions yet.
LEMMA KafkaRestarts ==
  ASSUME KafkaAt, KafkaView', UNCHANGED BackendPromise, NEW c \in Consumers, Restart(c)
  PROVE  UNCHANGED Shown
<1>1. /\ pc[c] = "down" /\ pc' = [pc EXCEPT ![c] = "polling"]
      /\ UNCHANGED <<end, committed, owner, position, held, ended>>
  BY DEF Restart, broker
<1>2. pc \in [Consumers -> {"down", "polling", "handling", "ack", "dead"}]
  BY TypeParts DEF KafkaAt, Inv
<1>3. KafkaHolding' = KafkaHolding
  BY <1>1, <1>2 DEF KafkaHolding
<1>4. \A p \in Partitions : owner[p] # c
  BY <1>1 DEF KafkaAt, DownInv
<1>5. Members' = Members \cup {c}
  BY <1>1, <1>2 DEF Members
<1>6. \A p \in Partitions : KafkaFrom(p)' = KafkaFrom(p)
  BY <1>1, <1>4, <1>5 DEF KafkaFrom
<1>7. KafkaPut' = KafkaPut /\ KafkaWaiting' = KafkaWaiting
  BY <1>1, <1>6, RecordIs DEF KafkaPut, KafkaWaiting
<1> QED  BY <1>1, <1>3, <1>7 DEF KafkaAt, KafkaView, Shown

\* Every step of the Kafka queue is a step of the abstract one, or invisible.
LEMMA KafkaStep ==
  ASSUME Inv, Inv', DownInv, backend = "kafka", backend' = "kafka", Next
  PROVE  Queue!Next \/ UNCHANGED Shown
<1>1. UNCHANGED BackendPromise
  BY KafkaKeepsPromise
<1>2. KafkaAt
  BY KafkaShows, KafkaPromises DEF KafkaAt
<1>3. KafkaView' /\ (Lost = {})'
  BY KafkaShowsNext, KafkaKeepsAllNext
<1>4. ASSUME NEW p \in Partitions, Enqueue(p) PROVE Queue!Next
  BY <1>1, <1>2, <1>3, <1>4, KafkaEnqueues
<1>5. ASSUME NEW c \in Consumers, Work(c) PROVE Queue!Next
  BY <1>1, <1>2, <1>3, <1>5, KafkaClaims, KafkaEnds, KafkaFinishes DEF Work
<1>6. ASSUME NEW c \in Consumers, Crash(c) PROVE Queue!Next
  BY <1>1, <1>2, <1>3, <1>6, KafkaLeaves
<1>7. ASSUME NEW c \in Consumers, Restart(c) PROVE UNCHANGED Shown
  BY <1>1, <1>2, <1>3, <1>7, KafkaRestarts
<1>8. CASE Rebalance \/ TakeOver
  BY <1>1, <1>2, <1>3, <1>8, KafkaRedelivers
<1> QED  BY <1>4, <1>5, <1>6, <1>7, <1>8 DEF Next
-----------------------------------------------------------------------------
\* The worker loops of the other backends.
Places == {"absent", "down", "polling", "claiming", "handling", "ack", "deleting", "dead"}
Having == {"handling", "ack", "deleting"}
Acking == {"ack", "deleting"}

\* A worker has a message that was put in the queue, and finishes what it has
\* handled.
WorkersInv ==
  /\ last \in Nat
  /\ loop \in [Consumers -> Places]
  /\ taken \in [Consumers -> Nat]
  /\ \A c \in Consumers :
       /\ loop[c] \in Having \cup {"claiming"} => taken[c] \in 1..last
       /\ loop[c] \in Acking => taken[c] \in handled

WorkersView == AllPut = 1..last /\ Holds = Memory!Holding /\ AllEnded = handled

Others == {"inmemory", "sqlite", "redis_stream"}

\* The abstract queue, read off the worker loops.
LEMMA WorkersShow == backend \in Others => WorkersView
  BY DEF Others, WorkersView, AllPut, Holds, AllEnded

\* The same after a step.
LEMMA WorkersShowNext == (backend \in Others)' => WorkersView'
<1>1. backend \in Others => WorkersView
  BY WorkersShow
<1> QED  BY <1>1, PTL

\* One worker moves on, with message m in hand.
Moves(c, m, place) ==
  /\ taken' = [taken EXCEPT ![c] = m]
  /\ loop' = [loop EXCEPT ![c] = place]
  /\ last' = last

\* What is known of the message it has in hand then.
Allowed(m, place) ==
  /\ place \in Places /\ m \in Nat
  /\ place \in Having \cup {"claiming"} => m \in 1..last
  /\ place \in Acking => m \in handled'

\* A move with an allowed message keeps WorkersInv,
LEMMA MovesInv ==
  ASSUME WorkersInv, NEW c \in Consumers, NEW m, NEW place,
         Moves(c, m, place), Allowed(m, place), handled \subseteq handled'
  PROVE  WorkersInv'
<1>1. /\ last' = last /\ taken' \in [Consumers -> Nat] /\ loop' \in [Consumers -> Places]
      /\ taken'[c] = m /\ loop'[c] = place
      /\ \A d \in Consumers \ {c} : taken'[d] = taken[d] /\ loop'[d] = loop[d]
  BY DEF WorkersInv, Moves, Allowed
<1> QED  BY <1>1 DEF WorkersInv, Allowed

\* and changes what that worker holds, and nothing else.
LEMMA MovesHold ==
  ASSUME WorkersInv, NEW c \in Consumers, NEW m, NEW place, Moves(c, m, place)
  PROVE  Memory!Holding' = [Memory!Holding EXCEPT ![c] = IF place \in Having THEN {m} ELSE {}]
<1>1. /\ taken'[c] = m /\ loop'[c] = place
      /\ \A d \in Consumers \ {c} : taken'[d] = taken[d] /\ loop'[d] = loop[d]
  BY DEF WorkersInv, Moves
<1> QED  BY <1>1 DEF Memory!Holding, Having

\* A worker that does not change its message moves, too.
LEMMA MovesOn ==
  ASSUME WorkersInv, NEW c \in Consumers, NEW place,
         loop' = [loop EXCEPT ![c] = place], UNCHANGED <<taken, last>>
  PROVE  Moves(c, taken[c], place)
  BY DEF WorkersInv, Moves

\* A new message gets a number that is not in use.
LEMMA PutInv ==
  ASSUME WorkersInv, last' = last + 1, UNCHANGED <<loop, taken, handled>>
  PROVE  WorkersInv' /\ Memory!Holding' = Memory!Holding /\ last' \notin 1..last
         /\ 1..last' = (1..last) \cup {last'}
  BY DEF WorkersInv, Memory!Holding

\* The three lemmas that follow serve each backend: a message is claimed,
\* handled, finished.
LEMMA WorkerClaims ==
  ASSUME WorkersInv, WorkersView, WorkersView', UNCHANGED <<BackendPromise, handled>>,
         NEW c \in Consumers, NEW m \in 1..last, loop[c] \notin Having, Moves(c, m, "handling"),
         m \in AllWaiting \/ BackendPromise.redelivers, AllWaiting' = AllWaiting \ {m}
  PROVE  Queue!Next /\ WorkersInv'
<1>1. Holds[c] = {} /\ Holds' = [Holds EXCEPT ![c] = {m}]
  BY MovesHold DEF WorkersView, Memory!Holding, Having
<1>2. Queue!Next
  BY <1>1, Claims DEF WorkersView, Moves
<1>3. Allowed(m, "handling")
  BY DEF Allowed, Having, Acking, Places, WorkersInv
<1> QED  BY <1>2, <1>3, MovesInv

\* The handling ends, in whatever way.
LEMMA WorkerEnds ==
  ASSUME WorkersInv, WorkersView, WorkersView', UNCHANGED <<BackendPromise, AllWaiting>>,
         NEW c \in Consumers, loop[c] = "handling", handled' = handled \cup {taken[c]},
         loop' = [loop EXCEPT ![c] = "ack"], UNCHANGED <<last, taken>>
  PROVE  Queue!Next /\ WorkersInv'
<1>1. Moves(c, taken[c], "ack")
  BY MovesOn
<1>2. Holds[c] = {taken[c]}
  BY DEF WorkersView, Memory!Holding
<1>3. Holds' = Holds
  BY <1>2, MovesHold, <1>1 DEF WorkersView, Having, Memory!Holding
<1>4. Queue!Next
  BY <1>2, <1>3, Ends DEF WorkersView
<1>5. Allowed(taken[c], "ack")
  BY DEF WorkersInv, Allowed, Places, Having, Acking
<1> QED  BY <1>1, <1>4, <1>5, MovesInv

\* task_done is over.
LEMMA WorkerFinishes ==
  ASSUME WorkersInv, WorkersView, WorkersView', UNCHANGED <<BackendPromise, AllWaiting, handled>>,
         NEW c \in Consumers, loop[c] \in Acking,
         NEW place \in {"polling", "dead"}, Moves(c, 0, place)
  PROVE  Queue!Next /\ WorkersInv'
<1>1. Holds[c] = {taken[c]} /\ taken[c] \in handled
  BY DEF WorkersInv, WorkersView, Memory!Holding, Acking
<1>2. Holds' = [Holds EXCEPT ![c] = {}]
  BY MovesHold DEF WorkersView, Having
<1>3. Queue!Next
  BY <1>1, <1>2, Finishes DEF WorkersView, Moves
<1>4. Allowed(0, place)
  BY DEF Allowed, Places, Having, Acking
<1> QED  BY <1>3, <1>4, MovesInv

\* A worker is gone, and with it what its backend does not keep.
LEMMA WorkerLeaves ==
  ASSUME WorkersInv, WorkersView, WorkersView', UNCHANGED <<BackendPromise, handled>>,
         NEW c \in Consumers, NEW place \in {"down", "dead"}, Moves(c, 0, place),
         \/ /\ BackendPromise.survives = "unclaimed"
            /\ UNCHANGED AllWaiting \/ \E m \in AllWaiting : AllWaiting' = AllWaiting \ {m}
         \/ BackendPromise.survives = "nothing" /\ AllWaiting' = {}
  PROVE  Queue!Next /\ WorkersInv'
<1>1. Holds' = [Holds EXCEPT ![c] = {}]
  BY MovesHold DEF WorkersView, Having
<1>2. Queue!Next
  BY <1>1, Leaves DEF WorkersView, Moves
<1>3. Allowed(0, place)
  BY DEF Allowed, Places, Having, Acking
<1> QED  BY <1>2, <1>3, MovesInv

\* A worker moves, unseen by the others.
LEMMA WorkerStutters ==
  ASSUME WorkersInv, WorkersView, WorkersView',
         UNCHANGED <<BackendPromise, AllWaiting, handled>>,
         NEW c \in Consumers, NEW m, NEW place, Moves(c, m, place), Allowed(m, place),
         Memory!Holding[c] = IF place \in Having THEN {m} ELSE {}
  PROVE  UNCHANGED Shown /\ WorkersInv'
<1>1. Memory!Holding' = Memory!Holding
  BY MovesHold DEF Memory!Holding
<1> QED  BY <1>1, MovesInv DEF WorkersView, Shown, Moves
-----------------------------------------------------------------------------
\* In memory: messages in the order of their numbers, each once.
MemoryInv ==
  /\ WorkersInv
  /\ fifo \in Seq(Nat)
  /\ \A i \in 1..Len(fifo) : fifo[i] \in 1..last
  /\ \A i, j \in 1..Len(fifo) : i < j => fifo[i] < fifo[j]

\* What waits in memory is what the asyncio.Queue has.
LEMMA MemoryWaits == backend = "inmemory" => AllWaiting = {fifo[i] : i \in DOMAIN fifo}
  BY DEF AllWaiting

\* The same after a step.
LEMMA MemoryWaitsNext == (backend = "inmemory")' => (AllWaiting = {fifo[i] : i \in DOMAIN fifo})'
<1>1. backend = "inmemory" => AllWaiting = {fifo[i] : i \in DOMAIN fifo}
  BY MemoryWaits
<1> QED  BY <1>1, PTL

\* In memory nothing is redelivered, and nothing survives.
LEMMA MemoryPromises ==
  backend = "inmemory" => ~BackendPromise.redelivers /\ BackendPromise.survives = "nothing"
  BY DEF BackendPromise

\* Every step of the in-memory queue is a step of the abstract one, or invisible.
LEMMA MemoryStep ==
  ASSUME MemoryInv, backend = "inmemory", backend' = backend, Memory!Next
  PROVE  MemoryInv' /\ (Queue!Next \/ UNCHANGED Shown)
<1>1. WorkersInv /\ WorkersView /\ WorkersView'
  BY WorkersShow, WorkersShowNext DEF MemoryInv, Others
<1>2. /\ AllWaiting = {fifo[i] : i \in DOMAIN fifo}
      /\ AllWaiting' = {fifo'[i] : i \in DOMAIN fifo'}
  BY MemoryWaits, MemoryWaitsNext
<1>3. /\ UNCHANGED BackendPromise
      /\ ~BackendPromise.redelivers /\ BackendPromise.survives = "nothing"
  BY MemoryPromises DEF BackendPromise
<1>4. /\ last \in Nat /\ fifo \in Seq(Nat) /\ Len(fifo) \in Nat /\ DOMAIN fifo = 1..Len(fifo)
      /\ \A i \in 1..Len(fifo) : fifo[i] \in Nat /\ fifo[i] \in 1..last
      /\ \A i, j \in 1..Len(fifo) : i < j => fifo[i] < fifo[j]
  BY DEF MemoryInv, WorkersInv
<1>5. CASE Memory!Enqueue
  <2>1. /\ last' = last + 1 /\ fifo' = Append(fifo, last + 1)
        /\ UNCHANGED <<loop, taken, handled>>
    BY <1>5 DEF Memory!Enqueue, Memory!Put, Memory!workers
  <2>2. /\ fifo' \in Seq(Nat) /\ Len(fifo') = Len(fifo) + 1 /\ DOMAIN fifo' = 1..(Len(fifo) + 1)
        /\ fifo'[Len(fifo) + 1] = last + 1
        /\ \A i \in 1..Len(fifo) : fifo'[i] = fifo[i]
    BY <1>4, <2>1
  <2>3. WorkersInv' /\ Memory!Holding' = Memory!Holding /\ last' \notin 1..last
        /\ 1..last' = (1..last) \cup {last'}
    BY <1>1, <2>1, PutInv
  <2>4. AllWaiting' = AllWaiting \cup {last'}
    BY <1>2, <1>4, <2>1, <2>2
  <2>5. Queue!Next
    BY <1>1, <1>3, <2>1, <2>3, <2>4, Enqueues DEF WorkersView
  <2>6. MemoryInv'
    <3>1. \A i \in 1..Len(fifo') : fifo'[i] \in 1..last'
      BY <1>4, <2>1, <2>2
    <3>2. \A i, j \in 1..Len(fifo') : i < j => fifo'[i] < fifo'[j]
      BY <1>4, <2>1, <2>2
    <3> QED  BY <2>2, <2>3, <3>1, <3>2 DEF MemoryInv
  <2> QED  BY <2>5, <2>6
<1>6. ASSUME NEW c \in Consumers, Memory!Dequeue(c)
      PROVE  MemoryInv' /\ Queue!Next
  <2> DEFINE m == fifo[1]
  <2>1. /\ loop[c] = "polling" /\ Len(fifo) > 0 /\ fifo' = Tail(fifo)
        /\ UNCHANGED handled
        /\ Moves(c, m, "handling")
    BY <1>4, <1>6 DEF Memory!Dequeue, Memory!Take, Memory!Goto, Moves
  <2>2. /\ fifo' \in Seq(Nat) /\ Len(fifo') = Len(fifo) - 1 /\ DOMAIN fifo' = 1..(Len(fifo) - 1)
        /\ \A i \in 1..(Len(fifo) - 1) : fifo'[i] = fifo[i + 1]
    BY <1>4, <2>1
  <2>3. m \in AllWaiting /\ m \in 1..last
    BY <1>2, <1>4, <2>1
  <2>4. AllWaiting' = AllWaiting \ {m}
    <3>1. ASSUME NEW n \in AllWaiting' PROVE n \in AllWaiting \ {m}
      <4>1. PICK i \in 1..(Len(fifo) - 1) : n = fifo[i + 1]
        BY <1>2, <2>2
      <4>2. i + 1 \in 1..Len(fifo) /\ 1 < i + 1 /\ 1 \in 1..Len(fifo)
        BY <1>4, <2>1
      <4> QED  BY <1>2, <1>4, <4>1, <4>2
    <3>2. ASSUME NEW n \in AllWaiting, n # m PROVE n \in AllWaiting'
      <4>1. PICK i \in 1..Len(fifo) : n = fifo[i]
        BY <1>2, <1>4
      <4>2. i - 1 \in 1..(Len(fifo) - 1)
        BY <1>4, <3>2, <4>1
      <4>3. fifo'[i - 1] = n
        BY <2>2, <4>1, <4>2
      <4> QED  BY <1>2, <2>2, <4>2, <4>3
    <3> QED  BY <3>1, <3>2
  <2>5. Queue!Next /\ WorkersInv'
    BY <1>1, <1>3, <2>1, <2>3, <2>4, WorkerClaims DEF Having
  <2>6. MemoryInv'
    <3>1. \A i \in 1..Len(fifo') : fifo'[i] \in 1..last'
      BY <1>4, <2>1, <2>2 DEF Moves
    <3>2. \A i, j \in 1..Len(fifo') : i < j => fifo'[i] < fifo'[j]
      BY <1>4, <2>1, <2>2
    <3> QED  BY <2>2, <2>5, <3>1, <3>2 DEF MemoryInv
  <2> QED  BY <2>5, <2>6
<1>7. ASSUME NEW c \in Consumers, Memory!Handle(c), UNCHANGED fifo
      PROVE  MemoryInv' /\ Queue!Next
  <2>1. /\ loop[c] = "handling" /\ handled' = handled \cup {taken[c]}
        /\ loop' = [loop EXCEPT ![c] = "ack"] /\ UNCHANGED <<last, taken>>
        /\ UNCHANGED AllWaiting
    BY <1>2, <1>7 DEF Memory!Handle, Memory!Goto
  <2>2. Queue!Next /\ WorkersInv'
    BY <1>1, <1>3, <2>1, WorkerEnds
  <2> QED  BY <1>7, <2>1, <2>2 DEF MemoryInv
<1>8. ASSUME NEW c \in Consumers, Memory!TaskDone(c)
      PROVE  MemoryInv' /\ Queue!Next
  <2>1. PICK place \in {"polling", "dead"} :
          loop[c] = "ack" /\ Moves(c, 0, place) /\ UNCHANGED <<handled, fifo>>
    BY <1>8 DEF Memory!TaskDone, Memory!Finish, Memory!Goto, Moves
  <2>2. Queue!Next /\ WorkersInv'
    BY <1>1, <1>2, <1>3, <2>1, WorkerFinishes DEF Acking
  <2> QED  BY <2>1, <2>2 DEF MemoryInv, Moves
<1>9. ASSUME NEW c \in Consumers, Memory!Crash(c)
      PROVE  MemoryInv' /\ Queue!Next
  <2>1. Moves(c, 0, "down") /\ UNCHANGED handled /\ fifo' = <<>>
    BY <1>9 DEF Memory!Crash, Memory!Lose, Memory!Goto, Moves
  <2>2. AllWaiting' = {}
    BY <1>2, <2>1
  <2>3. Queue!Next /\ WorkersInv'
    BY <1>1, <1>3, <2>1, <2>2, WorkerLeaves
  <2> QED  BY <2>1, <2>3 DEF MemoryInv
<1>10. ASSUME NEW c \in Consumers, Memory!Restart(c), UNCHANGED fifo
       PROVE  MemoryInv' /\ UNCHANGED Shown
  <2>1. /\ loop[c] = "down" /\ Moves(c, taken[c], "polling")
        /\ UNCHANGED <<handled, AllWaiting>>
    BY <1>1, <1>2, <1>10, MovesOn DEF Memory!Restart, Memory!Goto
  <2>2. Allowed(taken[c], "polling") /\ Memory!Holding[c] = {}
    BY <1>1, <2>1 DEF Allowed, WorkersInv, Places, Having, Acking, Memory!Holding
  <2>3. UNCHANGED Shown /\ WorkersInv'
    BY <1>1, <1>3, <2>1, <2>2, WorkerStutters DEF Having
  <2> QED  BY <1>10, <2>1, <2>3 DEF MemoryInv, Moves
<1> QED
  BY <1>5, <1>6, <1>7, <1>8, <1>9, <1>10 DEF Memory!Next, Memory!Work
-----------------------------------------------------------------------------
\* SQLite: a row that a worker has been given is claimed. With one process on
\* the file, the row it is about to claim is not.
SqliteInv ==
  /\ WorkersInv
  /\ unclaimed \subseteq 1..last
  /\ \A c \in Consumers : loop[c] \in Having => taken[c] \notin unclaimed
  /\ ~Sqlite!Shared => \A c \in Consumers : loop[c] = "claiming" => taken[c] \in unclaimed

\* What waits in SQLite are the unclaimed rows.
LEMMA SqliteWaits == backend = "sqlite" => AllWaiting = unclaimed
  BY DEF AllWaiting

\* The same after a step.
LEMMA SqliteWaitsNext == (backend = "sqlite")' => (AllWaiting = unclaimed)'
<1>1. backend = "sqlite" => AllWaiting = unclaimed
  BY SqliteWaits
<1> QED  BY <1>1, PTL

\* Only a shared file redelivers; what survives a process are unclaimed rows.
LEMMA SqlitePromises ==
  backend = "sqlite" =>
    (Sqlite!Shared => BackendPromise.redelivers) /\ BackendPromise.survives = "unclaimed"
  BY DEF BackendPromise

\* A deployed process stays deployed, and no other one joins.
LEMMA SqliteDeployed ==
  ASSUME WorkersInv, NEW c \in Consumers, loop[c] # "absent",
         NEW m, NEW place, place # "absent", Moves(c, m, place)
  PROVE  Sqlite!Shared' = Sqlite!Shared
<1>1. \A d \in Consumers : loop'[d] = "absent" <=> loop[d] = "absent"
  BY DEF WorkersInv, Moves
<1>2. Sqlite!Deployed' = Sqlite!Deployed
  BY <1>1 DEF Sqlite!Deployed
<1> QED  BY <1>2 DEF Sqlite!Shared

\* The promise of SQLite changes only with the number of processes.
LEMMA SqliteKeepsPromise ==
  ASSUME backend = "sqlite", backend' = backend, Sqlite!Shared' = Sqlite!Shared
  PROVE  BackendPromise' = BackendPromise
  BY DEF BackendPromise

\* What a step of worker c preserves, if it leaves c with an allowed message.
LEMMA SqliteMoves ==
  ASSUME SqliteInv, NEW c \in Consumers, NEW m, NEW place, Moves(c, m, place), WorkersInv',
         Sqlite!Shared' = Sqlite!Shared, unclaimed' \subseteq unclaimed,
         place \in Having => m \notin unclaimed',
         place = "claiming" => m \in unclaimed',
         ~Sqlite!Shared => \A d \in Consumers \ {c} : loop[d] = "absent"
  PROVE  SqliteInv'
<1>1. /\ taken'[c] = m /\ loop'[c] = place /\ last' = last
      /\ \A d \in Consumers \ {c} : taken'[d] = taken[d] /\ loop'[d] = loop[d]
  BY DEF SqliteInv, WorkersInv, Moves
<1>2. \A d \in Consumers : loop'[d] \in Having => taken'[d] \notin unclaimed'
  BY <1>1 DEF SqliteInv
<1>3. ~Sqlite!Shared' => \A d \in Consumers : loop'[d] = "claiming" => taken'[d] \in unclaimed'
  BY <1>1
<1> QED  BY <1>1, <1>2, <1>3 DEF SqliteInv

\* Every step of the SQLite queue is a step of the abstract one, or invisible.
LEMMA SqliteStep ==
  ASSUME SqliteInv, backend = "sqlite", backend' = backend, Sqlite!Next
  PROVE  SqliteInv' /\ (Queue!Next \/ UNCHANGED Shown)
<1>1. WorkersInv /\ WorkersView /\ WorkersView'
  BY WorkersShow, WorkersShowNext DEF SqliteInv, Others
<1>2. AllWaiting = unclaimed /\ AllWaiting' = unclaimed'
  BY SqliteWaits, SqliteWaitsNext
<1>3. ASSUME NEW c \in Consumers, loop[c] # "absent", ~Sqlite!Shared
      PROVE  \A d \in Consumers \ {c} : loop[d] = "absent"
  BY <1>3 DEF Sqlite!Shared, Sqlite!Deployed
<1>4. CASE Sqlite!Enqueue
  <2>1. /\ last' = last + 1 /\ unclaimed' = unclaimed \cup {last'}
        /\ UNCHANGED <<loop, taken, handled>>
    BY <1>4 DEF Sqlite!Enqueue, Sqlite!Put, Sqlite!workers
  <2>2. WorkersInv' /\ Memory!Holding' = Memory!Holding /\ last' \notin 1..last
        /\ 1..last' = (1..last) \cup {last'}
    BY <1>1, <2>1, PutInv
  <2>3. Sqlite!Shared' = Sqlite!Shared
    BY <2>1 DEF Sqlite!Shared, Sqlite!Deployed
  <2>4. Queue!Next
    BY <1>1, <1>2, <2>1, <2>2, <2>3, SqliteKeepsPromise, Enqueues DEF WorkersView
  <2>5. \A c \in Consumers : loop[c] \in Having => taken[c] # last'
    BY <2>2 DEF SqliteInv, WorkersInv
  <2> QED  BY <2>1, <2>2, <2>3, <2>4, <2>5 DEF SqliteInv
<1>5. ASSUME NEW c \in Consumers, Sqlite!Select(c)
      PROVE  SqliteInv' /\ UNCHANGED Shown
  <2>1. PICK m \in unclaimed :
          loop[c] = "polling" /\ Moves(c, m, "claiming") /\ UNCHANGED <<handled, unclaimed>>
    BY <1>5 DEF Sqlite!Select, Sqlite!Take, Sqlite!Goto, Sqlite!table, Moves
  <2>2. Sqlite!Shared' = Sqlite!Shared
    BY <1>1, <2>1, SqliteDeployed
  <2>3. Allowed(m, "claiming") /\ Memory!Holding[c] = {}
    BY <1>1, <2>1
       DEF Allowed, SqliteInv, WorkersInv, Places, Having, Acking, Memory!Holding
  <2>4. UNCHANGED Shown /\ WorkersInv'
    BY <1>1, <1>2, <2>1, <2>2, <2>3, SqliteKeepsPromise, WorkerStutters DEF Having
  <2> QED  BY <1>3, <2>1, <2>2, <2>4, SqliteMoves DEF Having
<1>6. ASSUME NEW c \in Consumers, Sqlite!Claim(c)
      PROVE  SqliteInv' /\ Queue!Next
  <2> DEFINE m == taken[c]
  <2>1. /\ loop[c] = "claiming" /\ Moves(c, m, "handling") /\ UNCHANGED handled
        /\ unclaimed' = unclaimed \ {m}
    BY <1>6 DEF Sqlite!Claim, Sqlite!Take, Sqlite!Goto, Moves
  <2>2. Sqlite!Shared' = Sqlite!Shared
    BY <1>1, <2>1, SqliteDeployed
  <2>3. m \in 1..last /\ (m \in unclaimed \/ BackendPromise.redelivers)
    BY <2>1, SqlitePromises DEF SqliteInv, WorkersInv
  <2>4. Queue!Next /\ WorkersInv'
    BY <1>1, <1>2, <2>1, <2>2, <2>3, SqliteKeepsPromise, WorkerClaims DEF Having
  <2> QED  BY <1>3, <2>1, <2>2, <2>4, SqliteMoves DEF Having
<1>7. ASSUME NEW c \in Consumers, Sqlite!Handle(c), UNCHANGED <<unclaimed, claimed>>
      PROVE  SqliteInv' /\ Queue!Next
  <2>1. /\ loop[c] = "handling" /\ handled' = handled \cup {taken[c]}
        /\ loop' = [loop EXCEPT ![c] = "ack"] /\ UNCHANGED <<last, taken>>
        /\ Moves(c, taken[c], "ack")
    BY <1>1, <1>7, MovesOn DEF Sqlite!Handle, Sqlite!Goto
  <2>2. Sqlite!Shared' = Sqlite!Shared
    BY <1>1, <2>1, SqliteDeployed
  <2>3. Queue!Next /\ WorkersInv'
    BY <1>1, <1>2, <1>7, <2>1, <2>2, SqliteKeepsPromise, WorkerEnds
  <2>4. taken[c] \notin unclaimed
    BY <2>1 DEF SqliteInv, Having
  <2> QED  BY <1>3, <1>7, <2>1, <2>2, <2>3, <2>4, SqliteMoves DEF Having
<1>8. ASSUME NEW c \in Consumers, Sqlite!TaskDone(c)
      PROVE  SqliteInv' /\ Queue!Next
  <2>1. PICK place \in {"polling", "dead"} :
          /\ loop[c] = "ack" /\ Moves(c, 0, place) /\ UNCHANGED handled
          /\ unclaimed' = unclaimed \ {taken[c]}
    BY <1>8 DEF Sqlite!TaskDone, Sqlite!Finish, Sqlite!Goto, Moves
  <2>2. Sqlite!Shared' = Sqlite!Shared
    BY <1>1, <2>1, SqliteDeployed
  <2>3. unclaimed' = unclaimed
    BY <2>1 DEF SqliteInv, Having
  <2>4. Queue!Next /\ WorkersInv'
    BY <1>1, <1>2, <2>1, <2>2, <2>3, SqliteKeepsPromise, WorkerFinishes DEF Acking
  <2> QED  BY <1>3, <2>1, <2>2, <2>3, <2>4, SqliteMoves DEF Having
<1>9. ASSUME NEW c \in Consumers, Sqlite!Locked(c) \/ Sqlite!Crash(c)
      PROVE  SqliteInv' /\ Queue!Next
  <2>1. PICK place \in {"down", "dead"} :
          /\ loop[c] # "absent" /\ Moves(c, 0, place) /\ UNCHANGED <<handled, unclaimed>>
    BY <1>9 DEF Sqlite!Locked, Sqlite!Crash, Sqlite!Alive, Sqlite!Lose, Sqlite!Goto,
                Sqlite!table, Moves
  <2>2. Sqlite!Shared' = Sqlite!Shared
    BY <1>1, <2>1, SqliteDeployed
  <2>3. Queue!Next /\ WorkersInv'
    BY <1>1, <1>2, <2>1, <2>2, SqlitePromises, SqliteKeepsPromise, WorkerLeaves
  <2> QED  BY <1>3, <2>1, <2>2, <2>3, SqliteMoves DEF Having
<1>10. ASSUME NEW c \in Consumers, Sqlite!Restart(c), UNCHANGED <<unclaimed, claimed>>
       PROVE  SqliteInv' /\ UNCHANGED Shown
  <2>1. loop[c] = "down" /\ Moves(c, taken[c], "polling") /\ UNCHANGED <<handled, unclaimed>>
    BY <1>1, <1>10, MovesOn DEF Sqlite!Restart, Sqlite!Goto
  <2>2. Sqlite!Shared' = Sqlite!Shared
    BY <1>1, <2>1, SqliteDeployed
  <2>3. Allowed(taken[c], "polling") /\ Memory!Holding[c] = {}
    BY <1>1, <2>1 DEF Allowed, WorkersInv, Places, Having, Acking, Memory!Holding
  <2>4. UNCHANGED Shown /\ WorkersInv'
    BY <1>1, <1>2, <2>1, <2>2, <2>3, SqliteKeepsPromise, WorkerStutters DEF Having
  <2> QED  BY <1>3, <2>1, <2>2, <2>4, SqliteMoves DEF Having
<1> QED
  BY <1>4, <1>5, <1>6, <1>7, <1>8, <1>9, <1>10 DEF Sqlite!Next, Sqlite!Work, Sqlite!table
-----------------------------------------------------------------------------
\* Redis: no worker has an entry that was not delivered yet.
RedisInv ==
  /\ WorkersInv
  /\ entries \subseteq 1..last
  /\ delivered \in 0..last
  /\ \A c \in Consumers : loop[c] \in Having => taken[c] <= delivered

Fresh == {m \in entries : m > delivered}

\* What waits in Redis are the entries after the last delivered one.
LEMMA RedisWaits == backend = "redis_stream" => AllWaiting = Fresh
  BY DEF AllWaiting, Redis!Fresh, Fresh

\* The same after a step.
LEMMA RedisWaitsNext == (backend = "redis_stream")' => (AllWaiting = Fresh)'
<1>1. backend = "redis_stream" => AllWaiting = Fresh
  BY RedisWaits
<1> QED  BY <1>1, PTL

\* What survives a worker of a stream are the entries not yet delivered.
LEMMA RedisPromises == backend = "redis_stream" => BackendPromise.survives = "unclaimed"
  BY DEF BackendPromise

\* What a step of worker c preserves, if it leaves c with an allowed entry.
LEMMA RedisMoves ==
  ASSUME RedisInv, NEW c \in Consumers, NEW m, NEW place, Moves(c, m, place), WorkersInv',
         entries' \subseteq entries, delivered' \in delivered..last,
         place \in Having => m <= delivered'
  PROVE  RedisInv'
<1>1. /\ taken'[c] = m /\ loop'[c] = place /\ last' = last
      /\ \A d \in Consumers \ {c} : taken'[d] = taken[d] /\ loop'[d] = loop[d]
  BY DEF RedisInv, WorkersInv, Moves
<1>2. \A d \in Consumers : taken[d] \in Nat
  BY DEF RedisInv, WorkersInv
<1>3. /\ last \in Nat /\ delivered \in Nat /\ delivered' \in Nat
      /\ delivered <= delivered' /\ delivered' <= last
  BY DEF RedisInv, WorkersInv
<1>4. ASSUME NEW d \in Consumers, loop'[d] \in Having PROVE taken'[d] <= delivered'
  <2>1. CASE d = c
    BY <1>1, <1>4, <2>1
  <2>2. CASE d # c
    BY <1>1, <1>2, <1>3, <1>4, <2>2 DEF RedisInv
  <2> QED  BY <2>1, <2>2
<1> QED  BY <1>1, <1>3, <1>4 DEF RedisInv

\* The first fresh entry, and only that one, is given away.
LEMMA RedisDelivers ==
  ASSUME RedisInv, NEW m \in Redis!Fresh, Redis!Deliver(m)
  PROVE  /\ m \in 1..last /\ m \in Fresh /\ Fresh' = Fresh \ {m}
         /\ entries' = entries /\ delivered' = m /\ m \in delivered..last
<1>1. /\ last \in Nat /\ delivered \in Nat /\ entries \subseteq 1..last
      /\ \A n \in entries : n \in Nat
  BY DEF RedisInv, WorkersInv
<1>2. /\ m \in entries /\ m > delivered /\ \A n \in entries : n > delivered => m <= n
      /\ delivered' = m /\ entries' = entries
  BY DEF Redis!Deliver, Redis!Fresh
<1>3. m \in 1..last /\ m \in delivered..last
  BY <1>1, <1>2
<1>4. Fresh' = {n \in entries : n > m}
  BY <1>2 DEF Fresh
<1>5. \A n \in entries : n > m <=> n > delivered /\ n # m
  BY <1>1, <1>2, <1>3
<1> QED  BY <1>2, <1>3, <1>4, <1>5 DEF Fresh

\* Every step of the Redis Stream queue is a step of the abstract one, or
\* invisible.
LEMMA RedisStep ==
  ASSUME RedisInv, backend = "redis_stream", backend' = backend, Redis!Next
  PROVE  RedisInv' /\ (Queue!Next \/ UNCHANGED Shown)
<1>1. WorkersInv /\ WorkersView /\ WorkersView'
  BY WorkersShow, WorkersShowNext DEF RedisInv, Others
<1>2. AllWaiting = Fresh /\ AllWaiting' = Fresh'
  BY RedisWaits, RedisWaitsNext
<1>3. UNCHANGED BackendPromise /\ BackendPromise.survives = "unclaimed"
  BY RedisPromises DEF BackendPromise
<1>4. last \in Nat /\ delivered \in Nat /\ delivered <= last /\ delivered \in delivered..last
  BY DEF RedisInv, WorkersInv
<1>5. CASE Redis!Enqueue
  <2>1. /\ last' = last + 1 /\ entries' = entries \cup {last'} /\ delivered' = delivered
        /\ UNCHANGED <<loop, taken, handled>>
    BY <1>5 DEF Redis!Enqueue, Redis!Put, Redis!workers
  <2>2. WorkersInv' /\ Memory!Holding' = Memory!Holding /\ last' \notin 1..last
        /\ 1..last' = (1..last) \cup {last'}
    BY <1>1, <2>1, PutInv
  <2>3. Fresh' = Fresh \cup {last'}
    BY <1>4, <2>1 DEF Fresh
  <2>4. Queue!Next
    BY <1>1, <1>2, <1>3, <2>1, <2>2, <2>3, Enqueues DEF WorkersView
  <2>5. delivered' \in 0..last' /\ entries' \subseteq 1..last'
    BY <1>4, <2>1, <2>2 DEF RedisInv
  <2> QED  BY <2>1, <2>2, <2>4, <2>5 DEF RedisInv
<1>6. ASSUME NEW c \in Consumers, Redis!Dequeue(c)
      PROVE  RedisInv' /\ Queue!Next
  <2>1. PICK m \in Redis!Fresh :
          /\ Redis!Deliver(m) /\ loop[c] = "polling" /\ Moves(c, m, "handling")
          /\ UNCHANGED handled
    BY <1>6 DEF Redis!Dequeue, Redis!Take, Redis!Goto, Moves
  <2>2. /\ m \in 1..last /\ m \in Fresh /\ Fresh' = Fresh \ {m}
        /\ entries' = entries /\ delivered' = m /\ m \in delivered..last
    BY <2>1, RedisDelivers
  <2>3. Queue!Next /\ WorkersInv'
    BY <1>1, <1>2, <1>3, <2>1, <2>2, WorkerClaims DEF Having
  <2>4. entries' \subseteq entries /\ delivered' \in delivered..last /\ m <= delivered'
    BY <1>4, <2>2
  <2> QED  BY <2>1, <2>3, <2>4, RedisMoves
<1>7. ASSUME NEW c \in Consumers, Redis!Handle(c), UNCHANGED Redis!stream
      PROVE  RedisInv' /\ Queue!Next
  <2>1. /\ loop[c] = "handling" /\ handled' = handled \cup {taken[c]}
        /\ loop' = [loop EXCEPT ![c] = "ack"] /\ UNCHANGED <<last, taken>>
        /\ Moves(c, taken[c], "ack") /\ UNCHANGED <<entries, delivered>>
    BY <1>1, <1>7, MovesOn DEF Redis!Handle, Redis!Goto, Redis!stream
  <2>2. Fresh' = Fresh
    BY <2>1 DEF Fresh
  <2>3. Queue!Next /\ WorkersInv'
    BY <1>1, <1>2, <1>3, <2>1, <2>2, WorkerEnds
  <2>4. taken[c] <= delivered
    BY <2>1 DEF RedisInv, Having
  <2> QED  BY <1>4, <2>1, <2>3, <2>4, RedisMoves
<1>8. ASSUME NEW c \in Consumers, Redis!Ack(c)
      PROVE  RedisInv' /\ UNCHANGED Shown
  <2>1. /\ loop[c] = "ack" /\ Moves(c, taken[c], "deleting")
        /\ UNCHANGED <<handled, entries, delivered>>
    BY <1>8 DEF Redis!Ack, Redis!XAck, Redis!Take, Redis!Goto, Moves
  <2>2. Fresh' = Fresh
    BY <2>1 DEF Fresh
  <2>3. Allowed(taken[c], "deleting") /\ Memory!Holding[c] = {taken[c]}
    BY <1>1, <2>1 DEF Allowed, WorkersInv, Places, Having, Acking, Memory!Holding
  <2>4. UNCHANGED Shown /\ WorkersInv'
    BY <1>1, <1>2, <1>3, <2>1, <2>2, <2>3, WorkerStutters DEF Having
  <2>5. taken[c] <= delivered
    BY <2>1 DEF RedisInv, Having
  <2> QED  BY <1>4, <2>1, <2>4, <2>5, RedisMoves
<1>9. ASSUME NEW c \in Consumers, Redis!Delete(c)
      PROVE  RedisInv' /\ Queue!Next
  <2>1. PICK place \in {"polling", "dead"} :
          /\ loop[c] = "deleting" /\ Moves(c, 0, place) /\ UNCHANGED <<handled, delivered>>
          /\ entries' = entries \ {taken[c]}
    BY <1>9 DEF Redis!Delete, Redis!XDel, Redis!Finish, Redis!Goto, Moves
  <2>2. taken[c] \in Nat /\ taken[c] <= delivered
    BY <1>1, <2>1 DEF RedisInv, WorkersInv, Having
  <2>3. Fresh' = Fresh
    BY <1>4, <2>1, <2>2 DEF Fresh, RedisInv
  <2>4. Queue!Next /\ WorkersInv'
    BY <1>1, <1>2, <1>3, <2>1, <2>3, WorkerFinishes DEF Acking
  <2> QED  BY <1>4, <2>1, <2>4, RedisMoves DEF Having
<1>10. ASSUME NEW c \in Consumers, Redis!Disconnect(c) \/ Redis!Crash(c)
       PROVE  RedisInv' /\ Queue!Next
  <2>1. PICK place \in {"down", "dead"} : Moves(c, 0, place) /\ UNCHANGED handled
    BY <1>10 DEF Redis!Disconnect, Redis!Crash, Redis!Lose, Redis!Goto, Moves
  <2>2. /\ entries' \subseteq entries /\ delivered' \in delivered..last
        /\ Fresh' = Fresh \/ \E m \in Fresh : Fresh' = Fresh \ {m}
    <3>1. CASE UNCHANGED <<entries, delivered>>
      BY <1>4, <3>1 DEF Fresh
    <3>2. CASE \E m \in Redis!Fresh : Redis!Deliver(m)
      <4>1. PICK m \in Redis!Fresh : Redis!Deliver(m)
        BY <3>2
      <4> QED  BY <4>1, RedisDelivers
    <3>3. CASE loop[c] = "deleting" /\ entries' = entries \ {taken[c]} /\ delivered' = delivered
      <4>1. taken[c] \in Nat /\ taken[c] <= delivered
        BY <1>1, <3>3 DEF RedisInv, WorkersInv, Having
      <4> QED  BY <1>4, <3>3, <4>1 DEF Fresh, RedisInv
    <3> QED
      BY <1>10, <3>1, <3>2, <3>3
         DEF Redis!Disconnect, Redis!Crash, Redis!XAck, Redis!XDel, Redis!stream
  <2>3. Queue!Next /\ WorkersInv'
    BY <1>1, <1>2, <1>3, <2>1, <2>2, WorkerLeaves
  <2> QED  BY <2>1, <2>2, <2>3, RedisMoves DEF Having
<1>11. ASSUME NEW c \in Consumers, Redis!Restart(c), UNCHANGED Redis!stream
       PROVE  RedisInv' /\ UNCHANGED Shown
  <2>1. /\ loop[c] = "down" /\ Moves(c, taken[c], "polling")
        /\ UNCHANGED <<handled, entries, delivered>>
    BY <1>1, <1>11, MovesOn DEF Redis!Restart, Redis!Goto, Redis!stream
  <2>2. Fresh' = Fresh
    BY <2>1 DEF Fresh
  <2>3. Allowed(taken[c], "polling") /\ Memory!Holding[c] = {}
    BY <1>1, <2>1 DEF Allowed, WorkersInv, Places, Having, Acking, Memory!Holding
  <2>4. UNCHANGED Shown /\ WorkersInv'
    BY <1>1, <1>2, <1>3, <2>1, <2>2, <2>3, WorkerStutters DEF Having
  <2> QED  BY <1>4, <2>1, <2>4, RedisMoves DEF Having
<1> QED
  BY <1>5, <1>6, <1>7, <1>8, <1>9, <1>10, <1>11 DEF Redis!Next, Redis!Work
-----------------------------------------------------------------------------
\* The inductive invariant: the one of the backend in use, and of Kafka and
\* the worker loops also while they rest.
AllInv ==
  /\ backend \in Backends
  /\ Inv /\ DownInv
  /\ backend = "inmemory" => MemoryInv
  /\ backend = "sqlite" => SqliteInv
  /\ backend = "redis_stream" => RedisInv

\* A deployment starts with the invariant,
LEMMA QueuesInitInv == QueuesInit => AllInv
<1> SUFFICES ASSUME QueuesInit PROVE AllInv
  OBVIOUS
<1>1. /\ backend \in Backends /\ Inv
      /\ DownInv
  BY InitInv, KafkaAssumption DEF QueuesInit, DownInv, Init
<1>2. /\ last = 0 /\ loop \in [Consumers -> {"absent", "polling"}]
      /\ taken = [c \in Consumers |-> 0] /\ handled = {}
      /\ fifo = <<>> /\ unclaimed = {} /\ entries = {} /\ delivered = 0
  BY DEF QueuesInit, Memory!WorkersInit, Memory!Empty, Sqlite!Empty, Redis!Empty
<1>3. WorkersInv
  BY <1>2 DEF WorkersInv, Places, Having, Acking
<1>4. MemoryInv
  BY <1>2, <1>3 DEF MemoryInv
<1>5. SqliteInv
  BY <1>2, <1>3 DEF SqliteInv, Having
<1>6. RedisInv
  BY <1>2, <1>3 DEF RedisInv, Having
<1> QED  BY <1>1, <1>4, <1>5, <1>6 DEF AllInv

\* and with an empty abstract queue.
LEMMA QueuesInitMaps == QueuesInit => Queue!Init
<1> SUFFICES ASSUME QueuesInit PROVE Queue!Init
  OBVIOUS
<1>1. BackendPromise \in Queue!Promises
  BY DEF BackendPromise, Queue!Promises
<1>2. CASE backend = "kafka"
  <2>1. Inv /\ KafkaView
    BY <1>2, InitInv, KafkaShows DEF QueuesInit
  <2>2. /\ \A p \in Partitions : end[p] = 0
        /\ \A c \in Consumers : pc[c] = "polling"
        /\ ended = {}
    BY DEF QueuesInit, Init
  <2>3. AllPut = {} /\ AllWaiting = {}
    BY <2>1, <2>2, RecordIs DEF KafkaView, KafkaPut, KafkaWaiting
  <2>4. KafkaHolding = [c \in Consumers |-> {}]
    BY <2>2 DEF KafkaHolding
  <2> QED  BY <1>1, <1>2, <2>2, <2>3, <2>4 DEF Queue!Init
<1>3. CASE backend # "kafka"
  <2>1. /\ last = 0 /\ loop \in [Consumers -> {"absent", "polling"}] /\ handled = {}
        /\ fifo = <<>> /\ unclaimed = {} /\ entries = {}
    BY DEF QueuesInit, Memory!WorkersInit, Memory!Empty, Sqlite!Empty, Redis!Empty
  <2>2. AllPut = {}
    BY <1>3, <2>1 DEF AllPut
  <2>3. AllWaiting = {}
    BY <1>3, <2>1 DEF AllWaiting, Redis!Fresh, QueuesInit, Backends
  <2>4. Memory!Holding = [c \in Consumers |-> {}]
    BY <2>1 DEF Memory!Holding
  <2> QED  BY <1>1, <1>3, <2>1, <2>2, <2>3, <2>4 DEF Queue!Init
<1> QED  BY <1>2, <1>3

\* Nothing moves when no queue does.
LEMMA QueuesRest == ASSUME AllInv, UNCHANGED queues PROVE AllInv' /\ UNCHANGED Shown
<1>1. /\ UNCHANGED <<backend, vars, last, loop, taken, handled, fifo>>
      /\ UNCHANGED <<unclaimed, entries, delivered>>
  BY DEF queues, kafka, workers, table, stream
<1>2. UNCHANGED Shown
  BY <1>1
     DEF Shown, BackendPromise, Sqlite!Shared, Sqlite!Deployed, AllPut, KafkaRecords, AllWaiting,
         KafkaFrom, Members, Redis!Fresh, Holds, KafkaHolding, Memory!Holding, AllEnded, vars,
         broker
<1>3. AllInv'
  BY <1>1
     DEF AllInv, Inv, TypeInv, TypeOK, BusyInv, HeldInv, FetchInv, CommitInv, Members, DownInv,
         MemoryInv, SqliteInv, RedisInv, WorkersInv, Sqlite!Shared, Sqlite!Deployed, vars, broker
<1> QED  BY <1>2, <1>3

\* Every step of a deployment keeps the invariant, and is a step of the abstract
\* queue or invisible.
LEMMA QueuesStep ==
  ASSUME AllInv, Inv', [QueuesNext]_queues
  PROVE  AllInv' /\ (Queue!Next \/ UNCHANGED Shown)
<1>1. CASE OnKafka /\ Next
  <2>1. Queue!Next \/ UNCHANGED Shown
    BY <1>1, KafkaStep DEF OnKafka, AllInv
  <2>2. DownInv'
    BY <1>1, DownInvStep DEF AllInv
  <2> QED  BY <1>1, <2>1, <2>2 DEF AllInv, OnKafka
<1>2. CASE OnMemory /\ Memory!Next
  <2>1. MemoryInv' /\ (Queue!Next \/ UNCHANGED Shown)
    BY <1>2, MemoryStep DEF OnMemory, AllInv
  <2>2. DownInv'
    BY <1>2 DEF OnMemory, AllInv, DownInv, kafka, vars, broker
  <2> QED  BY <1>2, <2>1, <2>2 DEF AllInv, OnMemory
<1>3. CASE OnSqlite /\ Sqlite!Next
  <2>1. SqliteInv' /\ (Queue!Next \/ UNCHANGED Shown)
    BY <1>3, SqliteStep DEF OnSqlite, AllInv
  <2>2. DownInv'
    BY <1>3 DEF OnSqlite, AllInv, DownInv, kafka, vars, broker
  <2> QED  BY <1>3, <2>1, <2>2 DEF AllInv, OnSqlite
<1>4. CASE OnRedis /\ Redis!Next
  <2>1. RedisInv' /\ (Queue!Next \/ UNCHANGED Shown)
    BY <1>4, RedisStep DEF OnRedis, AllInv
  <2>2. DownInv'
    BY <1>4 DEF OnRedis, AllInv, DownInv, kafka, vars, broker
  <2> QED  BY <1>4, <2>1, <2>2 DEF AllInv, OnRedis
<1>5. CASE UNCHANGED queues
  BY <1>5, QueuesRest
<1> QED  BY <1>1, <1>2, <1>3, <1>4, <1>5 DEF QueuesNext

\* The Kafka queue, in use or at rest, is a Kafka queue.
LEMMA KafkaUnderneath == QueuesSpec => Spec
<1>1. QueuesInit => Init
  BY DEF QueuesInit
<1>2. [QueuesNext]_queues => [Next]_vars
  BY DEF QueuesNext, OnKafka, OnMemory, OnSqlite, OnRedis, queues, kafka
<1> QED  BY <1>1, <1>2, PTL DEF QueuesSpec, Spec

\* The invariant holds throughout.
LEMMA QueuesInvariant == QueuesSpec => [](AllInv /\ Inv)
<1>1. AllInv /\ Inv' /\ [QueuesNext]_queues => AllInv'
  BY QueuesStep
<1> QED  BY <1>1, QueuesInitInv, KafkaUnderneath, QueueInvariant, PTL DEF QueuesSpec

\* Whichever backend a deployment uses, create_task_queue returns a queue that
\* keeps the promises of TaskQueue, for any number of processes, messages,
\* crashes, rebalances and lost connections.
THEOREM QueuesRefine == QueuesSpec => ImplementsTaskQueue
<1>1. AllInv /\ Inv' /\ [QueuesNext]_queues => [Queue!Next]_Queue!vars
  <2>1. UNCHANGED Shown => UNCHANGED Queue!vars
    BY DEF Shown, Queue!vars, Holds, AllEnded
  <2> QED  BY <2>1, QueuesStep
<1> QED
  BY <1>1, QueuesInitMaps, QueuesInvariant, PTL DEF QueuesSpec, ImplementsTaskQueue, Queue!Spec

\* On Kafka every message that was put in the queue waits, is being handled or
\* has been handled, whatever crashes and rebalances do.
THEOREM DeliveredAtLeastOnce == QueuesSpec => []Queue!AtLeastOnce
<1>1. AllInv => Queue!AtLeastOnce
  <2> SUFFICES ASSUME AllInv, BackendPromise.survives = "all" PROVE Queue!Lost = {}
    BY DEF Queue!AtLeastOnce
  <2>1. backend = "kafka"
    BY DEF BackendPromise
  <2>2. Lost = {}
    BY <2>1, KafkaKeepsAll DEF AllInv
  <2> QED  BY <2>2 DEF Queue!Lost, Queue!Held, Lost, AllHeld, Holds, AllEnded
<1> QED  BY <1>1, QueuesInvariant, PTL

\* What a queue that does not redeliver keeps apart.
Apart ==
  ~BackendPromise.redelivers =>
    /\ AllWaiting \subseteq AllPut /\ AllEnded \subseteq AllPut
    /\ Holds \in [Consumers -> SUBSET AllPut]
    /\ AllWaiting \cap AllEnded = {}
    /\ \A c \in Consumers : Holds[c] \cap AllWaiting = {}
    /\ \A c, d \in Consumers : Holds[c] \cap Holds[d] # {} => c = d

\* Every step of the abstract queue keeps them apart.
LEMMA ApartStep == ASSUME Apart, Queue!Next PROVE Apart'
<1> SUFFICES ASSUME ~BackendPromise.redelivers PROVE Apart'
  BY DEF Queue!Next, Queue!Enqueue, Queue!Redeliver, Queue!Claim, Queue!End, Queue!Done,
         Queue!Leave, Apart
<1>1. CASE Queue!Enqueue
  <2>1. PICK m \in AllPut' \ AllPut :
          /\ AllPut' = AllPut \cup {m} /\ AllWaiting' = AllWaiting \cup {m}
          /\ UNCHANGED <<BackendPromise, Holds, AllEnded>>
    BY <1>1 DEF Queue!Enqueue, Holds, AllEnded
  <2> QED  BY <2>1 DEF Apart
<1>2. ASSUME NEW c \in Consumers, Queue!Claim(c) PROVE Apart'
  <2>1. PICK m \in AllPut :
          /\ Holds[c] = {} /\ m \in AllWaiting /\ AllWaiting' = AllWaiting \ {m}
          /\ Holds' = [Holds EXCEPT ![c] = {m}]
          /\ UNCHANGED <<BackendPromise, AllPut, AllEnded>>
    BY <1>2 DEF Queue!Claim, Holds, AllEnded
  <2>2. /\ Holds' \in [Consumers -> SUBSET AllPut] /\ Holds'[c] = {m}
        /\ \A d \in Consumers \ {c} : Holds'[d] = Holds[d]
    BY <2>1 DEF Apart
  <2> QED  BY <2>1, <2>2 DEF Apart
<1>3. ASSUME NEW c \in Consumers, Queue!End(c) PROVE Apart'
  <2>1. /\ AllEnded' = AllEnded \cup Holds[c]
        /\ UNCHANGED <<BackendPromise, AllPut, AllWaiting, Holds>>
    BY <1>3 DEF Queue!End, Holds, AllEnded
  <2> QED  BY <2>1 DEF Apart
<1>4. ASSUME NEW c \in Consumers, Queue!Done(c) \/ Queue!Leave(c) PROVE Apart'
  <2>1. /\ Holds' = [Holds EXCEPT ![c] = {}]
        /\ UNCHANGED <<BackendPromise, AllPut, AllEnded>>
    BY <1>4 DEF Queue!Done, Queue!Leave, Queue!LetGo, Holds, AllEnded
  <2>2. BackendPromise.survives # "all"
    BY DEF BackendPromise
  <2>3. AllWaiting' \subseteq AllWaiting
    BY <1>4, <2>2 DEF Queue!Done, Queue!Leave
  <2>4. /\ Holds' \in [Consumers -> SUBSET AllPut] /\ Holds'[c] = {}
        /\ \A d \in Consumers \ {c} : Holds'[d] = Holds[d]
    BY <2>1 DEF Apart
  <2> QED  BY <2>1, <2>3, <2>4 DEF Apart
<1> QED  BY <1>1, <1>2, <1>3, <1>4 DEF Queue!Next, Queue!Redeliver

\* With Redis Streams, in memory, and with one process on the SQLite file,
\* nobody is given a message that another worker has or that was handled.
THEOREM DeliveredAtMostOnce == QueuesSpec => []Queue!AtMostOnce
<1>1. Queue!Init => Apart
  BY DEF Queue!Init, Apart, Holds, AllEnded
<1>2. AllInv /\ Inv' /\ Apart /\ [QueuesNext]_queues => Apart'
  <2>1. Apart /\ UNCHANGED Shown => Apart'
    BY DEF Apart, Shown
  <2> QED  BY <2>1, ApartStep, QueuesStep
<1>3. Apart => Queue!AtMostOnce
  BY DEF Apart, Queue!AtMostOnce, Queue!Held, Holds, AllEnded
<1> QED  BY <1>1, <1>2, <1>3, QueuesInitMaps, QueuesInvariant, PTL DEF QueuesSpec
-----------------------------------------------------------------------------
\* The depth of the Redis stream. What it counts too many are the entries that
\* are acknowledged and not deleted yet; each of them is in the hands of the
\* worker that is about to delete it, or was when that worker was lost.
Deleting == {c \in Consumers : loop[c] = "deleting"}

Acked == {m \in entries : m <= delivered /\ m \notin pending}

\* What a worker has in hand is pending until it acknowledges it, and then in
\* the stream until it deletes it; no two workers have the same entry.
GroupInv ==
  /\ pending \subseteq entries
  /\ \A m \in pending : m <= delivered
  /\ \A c \in Consumers :
       /\ loop[c] \in {"handling", "ack"} => taken[c] \in pending
       /\ loop[c] = "deleting" => taken[c] \in Acked
  /\ \A c, d \in Consumers :
       loop[c] \in Having /\ loop[d] \in Having /\ taken[c] = taken[d] => c = d

Balanced ==
  /\ losses \in Nat
  /\ IsFiniteSet(Deleting)
  /\ IsFiniteSet(Acked)
  /\ Cardinality(Acked) <= losses + Cardinality(Deleting)

\* One element more or less in a finite set.
LEMMA OneMore ==
  ASSUME NEW S, NEW x, IsFiniteSet(S)
  PROVE  /\ IsFiniteSet(S \cup {x}) /\ Cardinality(S) \in Nat /\ Cardinality(S \cup {x}) \in Nat
         /\ Cardinality(S \cup {x}) <= Cardinality(S) + 1
         /\ x \notin S => Cardinality(S \cup {x}) = Cardinality(S) + 1
<1>1. /\ IsFiniteSet(S \cup {x})
      /\ Cardinality(S \cup {x}) = IF x \in S THEN Cardinality(S) ELSE Cardinality(S) + 1
  BY FS_AddElement
<1>2. Cardinality(S) \in Nat
  BY FS_CardinalityType
<1>3. Cardinality(S \cup {x}) \in Nat
  BY <1>1, FS_CardinalityType
<1> QED  BY <1>1, <1>2, <1>3

\* The same for one element less.
LEMMA OneLess ==
  ASSUME NEW S, NEW x, IsFiniteSet(S)
  PROVE  /\ IsFiniteSet(S \ {x}) /\ Cardinality(S) \in Nat /\ Cardinality(S \ {x}) \in Nat
         /\ Cardinality(S \ {x}) >= Cardinality(S) - 1
         /\ x \in S => Cardinality(S \ {x}) = Cardinality(S) - 1
<1>1. /\ IsFiniteSet(S \ {x})
      /\ Cardinality(S \ {x}) = IF x \in S THEN Cardinality(S) - 1 ELSE Cardinality(S)
  BY FS_RemoveElement
<1>2. Cardinality(S) \in Nat
  BY FS_CardinalityType
<1>3. Cardinality(S \ {x}) \in Nat
  BY <1>1, FS_CardinalityType
<1> QED  BY <1>1, <1>2, <1>3

\* A move puts a worker among those about to delete, or takes it away.
LEMMA DeletingMoves ==
  ASSUME WorkersInv, NEW c \in Consumers, NEW m, NEW place, Moves(c, m, place)
  PROVE  /\ place = "deleting" => Deleting' = Deleting \cup {c}
         /\ place # "deleting" => Deleting' = Deleting \ {c}
  BY DEF WorkersInv, Moves, Deleting

\* GroupInv, read off what worker c and the stream become.
LEMMA GroupMoves ==
  ASSUME WorkersInv, GroupInv, NEW c \in Consumers, NEW m, NEW place, Moves(c, m, place),
         pending' \subseteq entries', \A n \in pending' : n <= delivered',
         \A d \in Consumers \ {c} :
           /\ loop[d] \in {"handling", "ack"} => taken[d] \in pending'
           /\ loop[d] = "deleting" => taken[d] \in Acked'
           /\ place \in Having /\ loop[d] \in Having => taken[d] # m,
         place \in {"handling", "ack"} => m \in pending',
         place = "deleting" => m \in Acked'
  PROVE  GroupInv'
<1>1. /\ taken'[c] = m /\ loop'[c] = place
      /\ \A d \in Consumers \ {c} : taken'[d] = taken[d] /\ loop'[d] = loop[d]
  BY DEF WorkersInv, Moves
<1>2. ASSUME NEW d \in Consumers
      PROVE  /\ loop'[d] \in {"handling", "ack"} => taken'[d] \in pending'
             /\ loop'[d] = "deleting" => taken'[d] \in Acked'
  BY <1>1
<1>3. ASSUME NEW d \in Consumers, NEW e \in Consumers,
             loop'[d] \in Having, loop'[e] \in Having, taken'[d] = taken'[e]
      PROVE  d = e
  BY <1>1, <1>3 DEF GroupInv
<1> QED  BY <1>2, <1>3 DEF GroupInv

\* The four things a call does to the stream.
StreamRests   == UNCHANGED <<entries, delivered, pending>>
Delivers(n)   == /\ n \in Fresh /\ \A o \in Fresh : n <= o
                 /\ delivered' = n /\ pending' = pending \cup {n} /\ entries' = entries
Acks(n)       == pending' = pending \ {n} /\ UNCHANGED <<entries, delivered>>
Deletes(n)    == entries' = entries \ {n} /\ UNCHANGED <<pending, delivered>>

\* What each of them does to the entries that are acknowledged.
LEMMA AckedChanges ==
  ASSUME RedisInv, GroupInv, NEW n
  PROVE  /\ StreamRests => Acked' = Acked
         /\ Delivers(n) => Acked' = Acked /\ n \notin pending
         /\ Acks(n) /\ n \in pending => Acked' = Acked \cup {n}
         /\ Deletes(n) => Acked' = Acked \ {n}
<1>1. /\ last \in Nat /\ delivered \in Nat /\ entries \subseteq 1..last
      /\ \A o \in entries : o \in Nat
      /\ pending \subseteq entries /\ \A o \in pending : o <= delivered
  BY DEF RedisInv, WorkersInv, GroupInv
<1>2. StreamRests => Acked' = Acked
  BY DEF StreamRests, Acked
<1>3. ASSUME Delivers(n) PROVE Acked' = Acked /\ n \notin pending
  <2>1. n \in entries /\ n > delivered /\ \A o \in entries : o > delivered => n <= o
    BY <1>3 DEF Delivers, Fresh
  <2>2. \A o \in entries :
          o <= n /\ o \notin pending \cup {n} <=> o <= delivered /\ o \notin pending
    BY <1>1, <2>1
  <2>3. Acked' = {o \in entries : o <= n /\ o \notin pending \cup {n}}
    BY <1>3 DEF Delivers, Acked
  <2>4. n \notin pending
    BY <1>1, <2>1
  <2> QED  BY <2>2, <2>3, <2>4 DEF Acked
<1>4. ASSUME Acks(n), n \in pending PROVE Acked' = Acked \cup {n}
  <2>1. Acked' = {o \in entries : o <= delivered /\ o \notin pending \ {n}}
    BY <1>4 DEF Acks, Acked
  <2>2. n \in entries /\ n <= delivered
    BY <1>1, <1>4
  <2> QED  BY <2>1, <2>2 DEF Acked
<1>5. Deletes(n) => Acked' = Acked \ {n}
  BY DEF Deletes, Acked
<1> QED  BY <1>2, <1>3, <1>4, <1>5

\* The balance after a move of worker c, by what the move does to entry n: an
\* entry more is paid for by a worker more or by a loss; a worker less takes
\* its entry along, or is a loss.
LEMMA BalanceMoves ==
  ASSUME Balanced, NEW c, NEW n, losses' \in Nat,
         \/ Acked' = Acked /\ Deleting' = Deleting /\ losses' >= losses
         \/ /\ Acked' = Acked \cup {n} /\ Deleting' = Deleting \cup {c}
            /\ c \notin Deleting /\ losses' = losses
         \/ Acked' = Acked \cup {n} /\ Deleting' = Deleting /\ losses' = losses + 1
         \/ Acked' = Acked \ {n} /\ n \in Acked /\ Deleting' = Deleting \ {c} /\ losses' >= losses
         \/ Acked' = Acked /\ Deleting' = Deleting \ {c} /\ losses' = losses + 1
  PROVE  Balanced'
<1>1. /\ IsFiniteSet(Acked) /\ IsFiniteSet(Deleting) /\ losses \in Nat
      /\ Cardinality(Acked) <= losses + Cardinality(Deleting)
      /\ Cardinality(Acked) \in Nat /\ Cardinality(Deleting) \in Nat
  BY FS_CardinalityType DEF Balanced
<1>2. /\ IsFiniteSet(Acked \cup {n}) /\ Cardinality(Acked \cup {n}) \in Nat
      /\ Cardinality(Acked \cup {n}) <= Cardinality(Acked) + 1
  BY <1>1, OneMore
<1>3. /\ IsFiniteSet(Acked \ {n}) /\ Cardinality(Acked \ {n}) \in Nat
      /\ n \in Acked => Cardinality(Acked \ {n}) = Cardinality(Acked) - 1
  BY <1>1, OneLess
<1>4. /\ IsFiniteSet(Deleting \cup {c}) /\ Cardinality(Deleting \cup {c}) \in Nat
      /\ c \notin Deleting => Cardinality(Deleting \cup {c}) = Cardinality(Deleting) + 1
  BY <1>1, OneMore
<1>5. /\ IsFiniteSet(Deleting \ {c}) /\ Cardinality(Deleting \ {c}) \in Nat
      /\ Cardinality(Deleting \ {c}) >= Cardinality(Deleting) - 1
  BY <1>1, OneLess
<1>6. /\ IsFiniteSet(Acked') /\ IsFiniteSet(Deleting')
      /\ Cardinality(Acked') <= losses' + Cardinality(Deleting')
  <2>1. CASE Acked' = Acked /\ Deleting' = Deleting /\ losses' >= losses
    BY <1>1, <2>1
  <2>2. CASE /\ Acked' = Acked \cup {n} /\ Deleting' = Deleting \cup {c}
             /\ c \notin Deleting /\ losses' = losses
    BY <1>1, <1>2, <1>4, <2>2
  <2>3. CASE Acked' = Acked \cup {n} /\ Deleting' = Deleting /\ losses' = losses + 1
    BY <1>1, <1>2, <2>3
  <2>4. CASE /\ Acked' = Acked \ {n} /\ n \in Acked
             /\ Deleting' = Deleting \ {c} /\ losses' >= losses
    BY <1>1, <1>3, <1>5, <2>4
  <2>5. CASE Acked' = Acked /\ Deleting' = Deleting \ {c} /\ losses' = losses + 1
    BY <1>1, <1>5, <2>5
  <2> QED  BY <2>1, <2>2, <2>3, <2>4, <2>5
<1> QED  BY <1>6 DEF Balanced

\* What the four of them leave the other workers with: each keeps its entry,
\* unless it is the one that is acknowledged or deleted.
LEMMA OthersKeep ==
  ASSUME RedisInv, GroupInv, NEW n,
         \/ StreamRests
         \/ Delivers(n)
         \/ Acks(n) /\ n \in pending
         \/ Deletes(n) /\ n \in Acked
  PROVE  /\ pending' \subseteq entries' /\ \A o \in pending' : o <= delivered'
         /\ \A d \in Consumers :
              /\ loop[d] \in {"handling", "ack"} /\ (Acks(n) => taken[d] # n)
                   => taken[d] \in pending'
              /\ loop[d] = "deleting" /\ (Deletes(n) => taken[d] # n) => taken[d] \in Acked'
<1>1. /\ last \in Nat /\ delivered \in Nat /\ entries \subseteq 1..last
      /\ \A o \in entries : o \in Nat
      /\ pending \subseteq entries /\ \A o \in pending : o <= delivered
  BY DEF RedisInv, WorkersInv, GroupInv
<1>2. \A d \in Consumers :
        /\ loop[d] \in {"handling", "ack"} => taken[d] \in pending
        /\ loop[d] = "deleting" => taken[d] \in Acked
  BY DEF GroupInv
<1>3. CASE StreamRests
  BY <1>1, <1>2, <1>3, AckedChanges DEF StreamRests
<1>4. CASE Delivers(n)
  <2>1. n \in entries /\ n > delivered /\ Acked' = Acked
    BY <1>4, AckedChanges DEF Delivers, Fresh
  <2>2. delivered' = n /\ pending' = pending \cup {n} /\ entries' = entries
    BY <1>4 DEF Delivers
  <2>3. \A o \in pending' : o <= delivered'
    BY <1>1, <2>1, <2>2
  <2> QED  BY <1>1, <1>2, <2>1, <2>2, <2>3
<1>5. CASE Acks(n) /\ n \in pending
  <2>1. Acked' = Acked \cup {n}
    BY <1>5, AckedChanges
  <2> QED  BY <1>1, <1>2, <1>5, <2>1 DEF Acks
<1>6. CASE Deletes(n) /\ n \in Acked
  <2>1. Acked' = Acked \ {n} /\ n \notin pending
    BY <1>6, AckedChanges DEF Acked
  <2> QED  BY <1>1, <1>2, <1>6, <2>1 DEF Deletes
<1> QED  BY <1>3, <1>4, <1>5, <1>6

\* Each step of the Redis queue keeps both.
LEMMA DepthStep ==
  ASSUME RedisInv, GroupInv, Balanced, Redis!Next
  PROVE  GroupInv' /\ Balanced'
<1>1. WorkersInv /\ losses \in Nat /\ last \in Nat /\ delivered \in Nat /\ delivered <= last
      /\ \A c \in Consumers : taken[c] \in Nat
  BY DEF RedisInv, WorkersInv, Balanced
<1>2. CASE Redis!Enqueue
  <2>1. /\ last' = last + 1 /\ entries' = entries \cup {last'}
        /\ UNCHANGED <<delivered, pending, loop, taken, losses>>
    BY <1>2 DEF Redis!Enqueue, Redis!Put, Redis!workers
  <2>2. Acked' = Acked /\ Deleting' = Deleting
    BY <1>1, <2>1 DEF Acked, Deleting
  <2>3. Balanced'
    BY <2>1, <2>2 DEF Balanced
  <2>4. GroupInv'
    BY <2>1, <2>2 DEF GroupInv
  <2> QED  BY <2>3, <2>4
<1>3. ASSUME NEW c \in Consumers, Redis!Dequeue(c)
      PROVE  GroupInv' /\ Balanced'
  <2>1. PICK m \in Redis!Fresh : Redis!Deliver(m) /\ Redis!Take(c, m, "handling")
    BY <1>3 DEF Redis!Dequeue
  <2>2. /\ Delivers(m) /\ Moves(c, m, "handling") /\ losses' = losses /\ loop[c] = "polling"
    BY <1>3, <2>1
       DEF Redis!Dequeue, Redis!Deliver, Redis!Take, Redis!Goto, Moves, Delivers, Fresh,
           Redis!Fresh
  <2>3. Acked' = Acked /\ Deleting' = Deleting
    BY <1>1, <2>2, AckedChanges, DeletingMoves DEF Deleting
  <2>4. m \in pending' /\ m > delivered
    BY <2>2 DEF Delivers, Fresh
  <2>5. \A d \in Consumers : loop[d] \in Having => taken[d] # m
    BY <1>1, <2>4 DEF RedisInv
  <2>6. /\ pending' \subseteq entries' /\ \A o \in pending' : o <= delivered'
        /\ \A d \in Consumers :
             /\ loop[d] \in {"handling", "ack"} => taken[d] \in pending'
             /\ loop[d] = "deleting" => taken[d] \in Acked'
    BY <2>2, <2>5, OthersKeep DEF Having
  <2>7. GroupInv'
    BY <1>1, <2>2, <2>4, <2>5, <2>6, GroupMoves
  <2> QED  BY <1>1, <2>2, <2>3, <2>7, BalanceMoves
<1>4. ASSUME NEW c \in Consumers, Redis!Handle(c), UNCHANGED Redis!stream
      PROVE  GroupInv' /\ Balanced'
  <2>1. /\ loop[c] = "handling" /\ Moves(c, taken[c], "ack")
        /\ StreamRests /\ losses' = losses
    BY <1>1, <1>4, MovesOn DEF Redis!Handle, Redis!Goto, Redis!stream, StreamRests
  <2>2. Acked' = Acked /\ Deleting' = Deleting
    BY <1>1, <2>1, AckedChanges, DeletingMoves DEF Deleting
  <2>3. pending' = pending /\ entries' = entries /\ delivered' = delivered
    BY <2>1 DEF StreamRests
  <2>4. \A d \in Consumers \ {c} : loop[d] \in Having => taken[d] # taken[c]
    BY <2>1 DEF GroupInv, Having
  <2>5. GroupInv'
    BY <1>1, <2>1, <2>2, <2>3, <2>4, GroupMoves DEF GroupInv
  <2> QED  BY <1>1, <2>1, <2>2, <2>5, BalanceMoves
<1>5. ASSUME NEW c \in Consumers, Redis!Ack(c)
      PROVE  GroupInv' /\ Balanced'
  <2>1. /\ loop[c] = "ack" /\ Moves(c, taken[c], "deleting")
        /\ Acks(taken[c]) /\ losses' = losses /\ taken[c] \in pending
    BY <1>5 DEF Redis!Ack, Redis!XAck, Redis!Take, Redis!Goto, Moves, Acks, GroupInv
  <2>2. /\ Acked' = Acked \cup {taken[c]} /\ Deleting' = Deleting \cup {c}
        /\ c \notin Deleting
    BY <1>1, <2>1, AckedChanges, DeletingMoves DEF Deleting
  <2>3. \A d \in Consumers \ {c} : loop[d] \in Having => taken[d] # taken[c]
    BY <2>1 DEF GroupInv, Having
  <2>4. /\ pending' \subseteq entries' /\ \A o \in pending' : o <= delivered'
        /\ \A d \in Consumers \ {c} :
             /\ loop[d] \in {"handling", "ack"} => taken[d] \in pending'
             /\ loop[d] = "deleting" => taken[d] \in Acked'
    BY <2>1, <2>2, <2>3, OthersKeep DEF Having
  <2>5. GroupInv'
    BY <1>1, <2>1, <2>2, <2>3, <2>4, GroupMoves
  <2> QED  BY <1>1, <2>1, <2>2, <2>5, BalanceMoves
<1>6. ASSUME NEW c \in Consumers, Redis!Delete(c)
      PROVE  GroupInv' /\ Balanced'
  <2>1. PICK place \in {"polling", "dead"} :
          /\ loop[c] = "deleting" /\ Moves(c, 0, place) /\ losses' = losses
          /\ Deletes(taken[c]) /\ taken[c] \in Acked
    BY <1>6 DEF Redis!Delete, Redis!XDel, Redis!Finish, Redis!Goto, Moves, Deletes, GroupInv
  <2>2. Acked' = Acked \ {taken[c]} /\ Deleting' = Deleting \ {c}
    BY <1>1, <2>1, AckedChanges, DeletingMoves
  <2>3. \A d \in Consumers \ {c} : loop[d] \in Having => taken[d] # taken[c]
    BY <2>1 DEF GroupInv, Having
  <2>4. /\ pending' \subseteq entries' /\ \A o \in pending' : o <= delivered'
        /\ \A d \in Consumers \ {c} :
             /\ loop[d] \in {"handling", "ack"} => taken[d] \in pending'
             /\ loop[d] = "deleting" => taken[d] \in Acked'
    BY <2>1, <2>3, OthersKeep DEF Having
  <2>5. GroupInv'
    BY <1>1, <2>1, <2>4, GroupMoves DEF Having
  <2> QED  BY <1>1, <2>1, <2>2, <2>5, BalanceMoves
<1>7. ASSUME NEW c \in Consumers, Redis!Disconnect(c) \/ Redis!Crash(c)
      PROVE  GroupInv' /\ Balanced'
  <2>1. PICK place \in {"down", "dead"} : Moves(c, 0, place) /\ losses' = losses + 1
    BY <1>7 DEF Redis!Disconnect, Redis!Crash, Redis!Lose, Redis!Goto, Moves
  <2>2. PICK n :
          \/ StreamRests
          \/ Delivers(n)
          \/ loop[c] = "ack" /\ n = taken[c] /\ Acks(n) /\ n \in pending
          \/ loop[c] = "deleting" /\ n = taken[c] /\ Deletes(n) /\ n \in Acked
    BY <1>7
       DEF Redis!Disconnect, Redis!Crash, Redis!XAck, Redis!XDel, Redis!stream, Redis!Deliver,
           Redis!Fresh, Fresh, StreamRests, Delivers, Acks, Deletes, GroupInv
  <2>3. Deleting' = Deleting \ {c}
    BY <1>1, <2>1, DeletingMoves
  <2>4. \/ Acked' = Acked
        \/ Acked' = Acked \cup {n} /\ Deleting' = Deleting
        \/ Acked' = Acked \ {n} /\ n \in Acked
    BY <2>2, <2>3, AckedChanges DEF Deleting
  <2>5. Balanced'
    <3>1. losses' \in Nat /\ losses' >= losses
      BY <1>1, <2>1
    <3> QED  BY <2>1, <2>3, <2>4, <3>1, BalanceMoves
  <2>6. /\ pending' \subseteq entries' /\ \A o \in pending' : o <= delivered'
        /\ \A d \in Consumers \ {c} :
             /\ loop[d] \in {"handling", "ack"} => taken[d] \in pending'
             /\ loop[d] = "deleting" => taken[d] \in Acked'
    <3>1. CASE StreamRests \/ Delivers(n)
      <4>1. ASSUME NEW d \in Consumers
            PROVE  /\ Acks(n) => taken[d] # n \/ loop[d] \notin {"handling", "ack"}
                   /\ Deletes(n) => taken[d] # n \/ loop[d] # "deleting"
        BY <3>1 DEF StreamRests, Delivers, Acks, Deletes, Acked, GroupInv
      <4> QED  BY <3>1, <4>1, OthersKeep
    <3>2. CASE loop[c] \in Acking /\ n = taken[c]
      <4>1. \A d \in Consumers \ {c} : loop[d] \in Having => taken[d] # n
        BY <3>2 DEF GroupInv, Having, Acking
      <4> QED  BY <2>2, <4>1, OthersKeep DEF Having
    <3> QED  BY <2>2, <3>1, <3>2 DEF Acking
  <2>7. GroupInv'
    BY <1>1, <2>1, <2>6, GroupMoves DEF Having
  <2> QED  BY <2>5, <2>7
<1>8. ASSUME NEW c \in Consumers, Redis!Restart(c), UNCHANGED Redis!stream
      PROVE  GroupInv' /\ Balanced'
  <2>1. /\ loop[c] = "down" /\ Moves(c, taken[c], "polling")
        /\ StreamRests /\ losses' = losses
    BY <1>1, <1>8, MovesOn DEF Redis!Restart, Redis!Goto, Redis!stream, StreamRests
  <2>2. Acked' = Acked /\ Deleting' = Deleting
    BY <1>1, <2>1, AckedChanges, DeletingMoves DEF Deleting
  <2>3. pending' = pending /\ entries' = entries /\ delivered' = delivered
    BY <2>1 DEF StreamRests
  <2>4. GroupInv'
    BY <1>1, <2>1, <2>2, <2>3, GroupMoves DEF GroupInv, Having
  <2> QED  BY <1>1, <2>1, <2>2, <2>4, BalanceMoves
<1> QED
  BY <1>2, <1>3, <1>4, <1>5, <1>6, <1>7, <1>8 DEF Redis!Next, Redis!Work

\* On the other backends the stream stays empty, and no worker ever deletes.
Unused ==
  /\ losses \in Nat
  /\ loop \in [Consumers -> Places \ {"deleting"}]
  /\ entries = {} /\ pending = {}

DepthInv == IF backend = "redis_stream" THEN GroupInv /\ Balanced ELSE Unused

\* A deployment starts with it, whatever the backend.
LEMMA DepthInit == QueuesInit => DepthInv
<1> SUFFICES ASSUME QueuesInit PROVE DepthInv
  OBVIOUS
<1>1. /\ loop \in [Consumers -> {"absent", "polling"}] /\ losses = 0
      /\ entries = {} /\ pending = {}
  BY DEF QueuesInit, Memory!WorkersInit, Redis!Empty
<1>2. Acked = {} /\ Deleting = {}
  BY <1>1 DEF Acked, Deleting
<1>3. Balanced
  BY <1>1, <1>2, FS_EmptySet DEF Balanced
<1>4. GroupInv /\ Unused
  BY <1>1 DEF GroupInv, Unused, Places, Having
<1> QED  BY <1>3, <1>4 DEF DepthInv

\* Every step of the deployment keeps it.
LEMMA DepthNext == ASSUME AllInv, DepthInv, [QueuesNext]_queues PROVE DepthInv'
<1>1. CASE OnRedis /\ Redis!Next
  BY <1>1, DepthStep DEF OnRedis, DepthInv, AllInv
<1>2. CASE UNCHANGED <<backend, entries, delivered, pending, loop, taken, losses>>
  <2>1. Acked' = Acked /\ Deleting' = Deleting
    BY <1>2 DEF Acked, Deleting
  <2> QED  BY <1>2, <2>1 DEF DepthInv, GroupInv, Balanced, Unused
<1>3. CASE OnMemory /\ Memory!Next
  <2>1. /\ losses' \in {losses, losses + 1} /\ UNCHANGED <<backend, entries, pending>>
        /\ \/ loop' = loop
           \/ \E c \in Consumers, place \in Places \ {"deleting"} :
                loop' = [loop EXCEPT ![c] = place]
    BY <1>3
       DEF OnMemory, stream, Memory!Next, Memory!Enqueue, Memory!Put, Memory!workers, Memory!Work,
           Memory!Dequeue, Memory!Take, Memory!Handle, Memory!TaskDone, Memory!Finish,
           Memory!Crash, Memory!Lose, Memory!Restart, Memory!Goto, Places
  <2> QED  BY <1>3, <2>1 DEF DepthInv, Unused, OnMemory
<1>4. CASE OnSqlite /\ Sqlite!Next
  <2>1. /\ losses' \in {losses, losses + 1} /\ UNCHANGED <<backend, entries, pending>>
        /\ \/ loop' = loop
           \/ \E c \in Consumers, place \in Places \ {"deleting"} :
                loop' = [loop EXCEPT ![c] = place]
    BY <1>4
       DEF OnSqlite, stream, Sqlite!Next, Sqlite!Enqueue, Sqlite!Put, Sqlite!workers, Sqlite!Work,
           Sqlite!Select, Sqlite!Claim, Sqlite!Take, Sqlite!Handle, Sqlite!TaskDone,
           Sqlite!Finish, Sqlite!Locked, Sqlite!Crash, Sqlite!Lose, Sqlite!Restart,
           Sqlite!Goto, Places
  <2> QED  BY <1>4, <2>1 DEF DepthInv, Unused, OnSqlite
<1>5. CASE (OnKafka /\ Next) \/ UNCHANGED queues
  BY <1>2, <1>5 DEF OnKafka, queues, workers, stream
<1> QED  BY <1>1, <1>3, <1>4, <1>5 DEF QueuesNext

\* The depth the Redis queue reports counts every message that is not
\* acknowledged, and exceeds them by at most the entries being deleted and one
\* entry for each process or connection ever lost, for any number of them.
THEOREM DepthBounded == QueuesSpec => []DepthErrsByLosses
<1>1. AllInv /\ DepthInv => DepthErrsByLosses
  <2> SUFFICES ASSUME AllInv, DepthInv PROVE DepthErrsByLosses
    OBVIOUS
  <2>1. CASE backend = "redis_stream"
    <3>1. delivered \in Nat /\ pending \subseteq entries /\ \A m \in entries : m \in Nat
      BY <2>1 DEF AllInv, RedisInv, WorkersInv, DepthInv, GroupInv
    <3>2. \A m \in entries : m <= delivered <=> ~(m > delivered)
      BY <3>1
    <3>3. /\ Redis!Unacknowledged \subseteq entries
          /\ entries \ Redis!Unacknowledged = Acked
      BY <3>1, <3>2 DEF Redis!Unacknowledged, Redis!Fresh, Acked
    <3>4. Cardinality(entries \ Redis!Unacknowledged) <= losses + Cardinality(Deleting)
      BY <2>1, <3>3 DEF DepthInv, Balanced
    <3> QED  BY <3>3, <3>4 DEF Deleting, DepthErrsByLosses
  <2>2. CASE backend # "redis_stream"
    <3>1. entries = {} /\ pending = {} /\ Redis!Unacknowledged = {} /\ Deleting = {}
      BY <2>2 DEF DepthInv, Unused, Redis!Unacknowledged, Redis!Fresh, Deleting
    <3>2. losses \in Nat /\ Cardinality(Deleting) = 0 /\ Cardinality({}) = 0
      BY <2>2, <3>1, FS_EmptySet DEF DepthInv, Unused
    <3>3. entries \ Redis!Unacknowledged = {}
      BY <3>1
    <3>4. Cardinality(entries \ Redis!Unacknowledged) = 0
      BY <3>2, <3>3
    <3>5. Cardinality(entries \ Redis!Unacknowledged) <= losses + Cardinality(Deleting)
      BY <3>2, <3>4
    <3> QED  BY <3>1, <3>5 DEF Deleting, DepthErrsByLosses
  <2> QED  BY <2>1, <2>2
<1>2. AllInv /\ DepthInv /\ [QueuesNext]_queues => DepthInv'
  BY DepthNext
<1> QED  BY <1>1, <1>2, DepthInit, QueuesInvariant, PTL DEF QueuesSpec
=============================================================================
