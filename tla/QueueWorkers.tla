---------------------------- MODULE QueueWorkers ----------------------------
(***************************************************************************)
(* The worker loop (run_worker_loop, worker.py) as a task queue sees it,   *)
(* shared by the in-memory, the SQLite and the Redis Stream queue. A       *)
(* message is the number the queue gives it.                               *)
(***************************************************************************)
EXTENDS Naturals

CONSTANTS
  Consumers,   \* orchestrator processes, one worker loop in each
  MaxMessages, \* bound on the messages ever put in the queue
  MaxLosses    \* bound on the processes and connections lost

VARIABLES
  last,     \* the number of the message put in last
  loop,     \* where the worker loop is; "absent" for a process not deployed
  taken,    \* the message a worker has in hand, 0 for none
  handled,  \* observer: messages whose handling has come to its end
  losses

workers == <<loop, taken, handled, losses>>

Deployed == {c \in Consumers : loop[c] # "absent"}

WorkersTypeOK ==
  /\ last \in 0..MaxMessages
  /\ loop \in [Consumers -> {"absent", "down", "polling", "claiming", "handling", "ack",
                             "deleting", "dead"}]
  /\ taken \in [Consumers -> 0..MaxMessages]
  /\ handled \subseteq 1..MaxMessages
  /\ losses \in 0..MaxLosses

WorkersInit ==
  /\ last = 0
  /\ loop \in [Consumers -> {"absent", "polling"}]
  /\ taken = [c \in Consumers |-> 0]
  /\ handled = {}
  /\ losses = 0

Goto(c, place) == loop' = [loop EXCEPT ![c] = place]

\* Some process serves requests and puts a new message in the queue.
Put ==
  /\ last < MaxMessages
  /\ \E c \in Consumers : loop[c] \notin {"absent", "down"}
  /\ last' = last + 1
  /\ UNCHANGED workers

Take(c, m, place) ==
  /\ taken' = [taken EXCEPT ![c] = m]
  /\ Goto(c, place)
  /\ UNCHANGED <<last, handled, losses>>

\* process_queue_message has returned, raised, or was cancelled.
Handle(c) ==
  /\ loop[c] = "handling"
  /\ handled' = handled \cup {taken[c]}
  /\ Goto(c, "ack")
  /\ UNCHANGED <<last, taken, losses>>

\* task_done has returned; an exception that ended the handling goes on.
Finish(c) ==
  /\ taken' = [taken EXCEPT ![c] = 0]
  /\ \E place \in {"polling", "dead"} : Goto(c, place)
  /\ UNCHANGED <<last, handled, losses>>

\* The process ends ("down"), or an exception ends its worker task ("dead").
Lose(c, place) ==
  /\ losses < MaxLosses
  /\ losses' = losses + 1
  /\ taken' = [taken EXCEPT ![c] = 0]
  /\ Goto(c, place)
  /\ UNCHANGED <<last, handled>>

Alive(c) == loop[c] \notin {"absent", "down"}

Restart(c) ==
  /\ loop[c] = "down"
  /\ Goto(c, "polling")
  /\ UNCHANGED <<last, taken, handled, losses>>

\* The message of each worker as the others see it.
Holding ==
  [c \in Consumers |->
     IF loop[c] \in {"handling", "ack", "deleting"} THEN {taken[c]} ELSE {}]
=============================================================================
