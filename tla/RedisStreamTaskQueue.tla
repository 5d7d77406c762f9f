------------------------ MODULE RedisStreamTaskQueue ------------------------
(***************************************************************************)
(* The Redis Streams queue (internal/redis_stream_queue.py): one stream    *)
(* read by one consumer group. The group remembers the last entry it has   *)
(* delivered and the delivered entries that are not acknowledged. The code *)
(* only ever asks for new entries, and acknowledges and deletes an entry   *)
(* in two calls.                                                           *)
(***************************************************************************)
EXTENDS QueueWorkers

VARIABLES
  entries,    \* of the stream
  delivered,  \* the group's last-delivered-id
  pending     \* the group's pending entries list

stream == <<entries, delivered, pending>>
vars   == <<last, workers, stream>>

TypeOK ==
  /\ WorkersTypeOK
  /\ entries \subseteq 1..MaxMessages
  /\ delivered \in 0..MaxMessages
  /\ pending \subseteq 1..MaxMessages

Empty == entries = {} /\ delivered = 0 /\ pending = {}

Init == WorkersInit /\ Empty /\ Deployed # {}

Fresh == {m \in entries : m > delivered}
-----------------------------------------------------------------------------
\* XADD.
Enqueue ==
  /\ Put
  /\ entries' = entries \cup {last'}
  /\ UNCHANGED <<delivered, pending>>

\* XREADGROUP with COUNT 1 and ">": the first entry after the last one
\* delivered to anybody.
Deliver(m) ==
  /\ m \in Fresh
  /\ \A n \in Fresh : m <= n
  /\ delivered' = m
  /\ pending' = pending \cup {m}
  /\ UNCHANGED entries

Dequeue(c) ==
  /\ loop[c] = "polling"
  /\ \E m \in Fresh : Deliver(m) /\ Take(c, m, "handling")

XAck(m) == pending' = pending \ {m} /\ UNCHANGED <<entries, delivered>>

XDel(m) == entries' = entries \ {m} /\ UNCHANGED <<delivered, pending>>

\* Mutant: the acknowledged entry is left in the stream.
AckOnly(c) ==
  /\ loop[c] = "ack"
  /\ XAck(taken[c])
  /\ Finish(c)

\* task_done, the first call.
Ack(c) ==
  /\ loop[c] = "ack"
  /\ XAck(taken[c])
  /\ Take(c, taken[c], "deleting")

\* task_done, the second call.
Delete(c) ==
  /\ loop[c] = "deleting"
  /\ XDel(taken[c])
  /\ Finish(c)

\* A call raises, before or after the server has executed it; nothing catches
\* that in the worker loop.
Disconnect(c) ==
  /\ loop[c] \in {"polling", "ack", "deleting"}
  /\ \/ UNCHANGED stream
     \/ loop[c] = "polling" /\ \E m \in Fresh : Deliver(m)
     \/ loop[c] = "ack" /\ XAck(taken[c])
     \/ loop[c] = "deleting" /\ XDel(taken[c])
  /\ Lose(c, "dead")

Crash(c) ==
  /\ Alive(c)
  /\ Lose(c, "down")
  /\ UNCHANGED stream

Work(c) == Dequeue(c) \/ (Handle(c) /\ UNCHANGED stream) \/ Ack(c) \/ Delete(c)

Next ==
  \/ Enqueue
  \/ \E c \in Consumers :
       Work(c) \/ Disconnect(c) \/ Crash(c) \/ (Restart(c) /\ UNCHANGED stream)

Spec == Init /\ [][Next]_vars
-----------------------------------------------------------------------------
\* The messages of the stream that no worker has acknowledged yet.
Unacknowledged == Fresh \cup pending
=============================================================================
