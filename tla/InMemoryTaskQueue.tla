------------------------- MODULE InMemoryTaskQueue -------------------------
(***************************************************************************)
(* The ephemeral queue (internal/queue.py): an asyncio.Queue in the memory *)
(* of the only process, gone with it.                                      *)
(***************************************************************************)
EXTENDS QueueWorkers, Sequences

VARIABLE fifo

vars == <<last, workers, fifo>>

TypeOK == WorkersTypeOK /\ fifo \in Seq(1..MaxMessages)

Empty == fifo = <<>>

Init == WorkersInit /\ Empty /\ \E c \in Consumers : Deployed = {c}
-----------------------------------------------------------------------------
Enqueue == Put /\ fifo' = Append(fifo, last')

Dequeue(c) ==
  /\ loop[c] = "polling"
  /\ fifo # <<>>
  /\ fifo' = Tail(fifo)
  /\ Take(c, Head(fifo), "handling")

TaskDone(c) ==
  /\ loop[c] = "ack"
  /\ Finish(c)
  /\ UNCHANGED fifo

Crash(c) ==
  /\ Alive(c)
  /\ Lose(c, "down")
  /\ fifo' = <<>>

Work(c) == Dequeue(c) \/ (Handle(c) /\ UNCHANGED fifo) \/ TaskDone(c)

Next ==
  \/ Enqueue
  \/ \E c \in Consumers : Work(c) \/ Crash(c) \/ (Restart(c) /\ UNCHANGED fifo)

Spec == Init /\ [][Next]_vars
=============================================================================
