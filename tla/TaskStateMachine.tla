-------------------------- MODULE TaskStateMachine --------------------------
(***************************************************************************)
(* The status graph of an embedding task (task-orchestrator,               *)
(* state_machine.py): the table every repository consults before it writes *)
(* a status, and the projection of a status that clients are shown.        *)
(***************************************************************************)

TerminalStates == {"succeeded", "failed", "cancelled"}

ActiveStates == {"accepted", "queued", "preprocessing", "embedding",
                 "persisting", "running", "retrying", "cancelling"}

Statuses == ActiveStates \cup TerminalStates

\* Statuses with no entry in the table have no successor.
AllowedTransitions ==
  [accepted      |-> {"queued", "failed", "cancelling"},
   queued        |-> {"preprocessing", "running", "retrying", "failed", "cancelling"},
   preprocessing |-> {"embedding", "running", "retrying", "failed", "cancelling"},
   embedding     |-> {"persisting", "running", "retrying", "failed", "cancelling"},
   persisting    |-> {"succeeded", "running", "retrying", "failed", "cancelling"},
   running       |-> {"preprocessing", "embedding", "persisting", "retrying",
                      "failed", "cancelling", "succeeded"},
   retrying      |-> {"queued", "failed"},
   cancelling    |-> {"cancelled"}]

\* Mutant: a table that forgets which statuses are final.
TransitionFromAnywhere(current, next) ==
  current \in TerminalStates \/ next \in AllowedTransitions[current]

CanTransition(current, next) ==
  current \in ActiveStates /\ next \in AllowedTransitions[current]

\* What a repository's transition() accepts: rewriting the same status is
\* never refused, any other change must be in the table.
MayMove(current, next) == current = next \/ CanTransition(current, next)

PublicStatus(status) ==
  IF status \in {"preprocessing", "embedding", "persisting", "retrying"}
  THEN "running" ELSE status
=============================================================================
