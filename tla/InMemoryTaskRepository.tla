------------------------ MODULE InMemoryTaskRepository ------------------------
(***************************************************************************)
(* The task repository the orchestrator is written against (store.py): a   *)
(* dictionary under one lock, whose calls take effect at once. A caller    *)
(* may still be left without an answer, which only a database does to it.  *)
(***************************************************************************)
EXTENDS Naturals, TaskStateMachine

CONSTANT Tasks

VARIABLES
  status,   \* of the records, "absent" without one
  answered  \* observer: the calls that returned, per task

vars == <<status, answered>>

Init ==
  /\ status = [t \in Tasks |-> "absent"]
  /\ answered = [t \in Tasks |-> 0]

Store(t, next) ==
  /\ status' = [status EXCEPT ![t] = next]
  /\ answered' \in {answered, [answered EXCEPT ![t] = @ + 1]}

\* create() of a fresh task id.
Create(t) == status[t] = "absent" /\ Store(t, "accepted")

\* transition(); a move the table refuses raises and changes nothing.
Transition(t, next) ==
  /\ status[t] # "absent"
  /\ MayMove(status[t], next)
  /\ Store(t, next)

Next == \E t \in Tasks : Create(t) \/ \E next \in Statuses : Transition(t, next)

Spec == Init /\ [][Next]_vars
=============================================================================
