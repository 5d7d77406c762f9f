----------------------------- MODULE TaskQueue -----------------------------
(***************************************************************************)
(* What the workers may rely on, whichever TaskQueue backend is configured *)
(* (the protocol of internal/queue.py): dequeue() claims a message,        *)
(* task_done() gives up a message whose handling has ended. Backends       *)
(* differ in whether a message may be handed out twice and in what is left *)
(* when a consumer goes away.                                              *)
(***************************************************************************)
CONSTANT Consumers

VARIABLES
  promise,  \* of the configured backend, see Promises; never changes
  put,      \* the messages ever put in the queue
  waiting,  \* the messages a consumer may be given
  holds,    \* the message a consumer has, as a set
  ended     \* the messages whose handling has come to its end

vars == <<promise, put, waiting, holds, ended>>

\* redelivers: a message may be handed out again;
\* survives:   what is left when a consumer goes away, "all" messages that are
\*             not handled, the "unclaimed" ones, or "nothing".
Promises == [redelivers : BOOLEAN, survives : {"all", "unclaimed", "nothing"}]

Held == UNION {holds[c] : c \in Consumers}

\* The messages that nobody will ever handle.
Lost == put \ (waiting \cup Held \cup ended)

Init ==
  /\ promise \in Promises
  /\ put = {}
  /\ waiting = {}
  /\ holds = [c \in Consumers |-> {}]
  /\ ended = {}
-----------------------------------------------------------------------------
\* The new message is any that has not been there before.
Enqueue ==
  /\ \E m \in put' \ put : put' = put \cup {m} /\ waiting' = waiting \cup {m}
  /\ UNCHANGED <<promise, holds, ended>>

Claim(c) ==
  /\ holds[c] = {}
  /\ \E m \in put :
       /\ m \in waiting \/ promise.redelivers
       /\ holds' = [holds EXCEPT ![c] = {m}]
       /\ waiting' = waiting \ {m}
  /\ UNCHANGED <<promise, put, ended>>

End(c) ==
  /\ holds[c] # {}
  /\ ended' = ended \cup holds[c]
  /\ UNCHANGED <<promise, put, waiting, holds>>

\* Any message may wait again; the ones that are not handled do not stop.
Rearrange ==
  /\ waiting \ ended \subseteq waiting'
  /\ waiting' \subseteq put

Redeliver ==
  /\ promise.redelivers
  /\ Rearrange
  /\ UNCHANGED <<promise, put, holds, ended>>

LetGo(c) == holds' = [holds EXCEPT ![c] = {}]

Done(c) ==
  /\ holds[c] # {}
  /\ holds[c] \subseteq ended
  /\ LetGo(c)
  /\ UNCHANGED waiting \/ (promise.redelivers /\ Rearrange)
  /\ UNCHANGED <<promise, put, ended>>

\* The consumer is gone. Where only unclaimed messages survive, the one that
\* was on its way to the consumer may be lost as well.
Leave(c) ==
  /\ LetGo(c)
  /\ \/ promise.survives = "all" /\ Rearrange /\ Lost' = {}
     \/ /\ promise.survives = "unclaimed"
        /\ UNCHANGED waiting \/ \E m \in waiting : waiting' = waiting \ {m}
     \/ promise.survives = "nothing" /\ waiting' = {}
  /\ UNCHANGED <<promise, put, ended>>

Next ==
  \/ Enqueue \/ Redeliver
  \/ \E c \in Consumers : Claim(c) \/ End(c) \/ Done(c) \/ Leave(c)

Spec == Init /\ [][Next]_vars
-----------------------------------------------------------------------------
\* At-least-once delivery, where all messages survive: a message that was put
\* in the queue waits, is being handled, or has been.
AtLeastOnce == promise.survives = "all" => Lost = {}

\* Where nothing is redelivered, nobody is given a message that another
\* consumer has, or that has been handled.
AtMostOnce ==
  ~promise.redelivers =>
    /\ waiting \cap (Held \cup ended) = {}
    /\ \A c, d \in Consumers : holds[c] \cap holds[d] # {} => c = d
=============================================================================
