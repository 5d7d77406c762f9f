---------------------------- MODULE TaskLifecycle ----------------------------
(***************************************************************************)
(* What the orchestrator promises a client that polls GET /internal/tasks: *)
(* a task it submitted is queued, each attempt counts up by one and either *)
(* settles the task or puts it back in the queue while attempts are left,  *)
(* and a settled task never changes again.                                 *)
(***************************************************************************)
EXTENDS Naturals

CONSTANTS
  Tasks,
  MaxAttempts  \* a positive number: TaskOrchestrator, which instantiates this,
               \* assumes it

VARIABLES
  view,      \* the status the client is shown
  attempts   \* the attempt_count the client is shown

lvars == <<view, attempts>>

Settled == {"succeeded", "failed"}

Init ==
  /\ view = [t \in Tasks |-> "absent"]
  /\ attempts = [t \in Tasks |-> 0]

Show(t, from, to) ==
  /\ view[t] \in from
  /\ view' = [view EXCEPT ![t] = to]

Submit(t) == Show(t, {"absent"}, "accepted") /\ UNCHANGED attempts

Queue(t) == Show(t, {"accepted"}, "queued") /\ UNCHANGED attempts

BeginAttempt(t) ==
  /\ view[t] = "queued"
  /\ attempts[t] < MaxAttempts
  /\ attempts' = [attempts EXCEPT ![t] = @ + 1]
  /\ UNCHANGED view

Run(t) == attempts[t] > 0 /\ Show(t, {"queued"}, "running") /\ UNCHANGED attempts

Retry(t) ==
  /\ attempts[t] \in 1..(MaxAttempts - 1)
  /\ Show(t, {"running"}, "queued")
  /\ UNCHANGED attempts

Settle(t) ==
  /\ attempts[t] > 0
  /\ \/ Show(t, {"running"}, "succeeded")
     \/ Show(t, {"queued", "running"}, "failed")
  /\ UNCHANGED attempts

Next ==
  \E t \in Tasks : \/ Submit(t) \/ Queue(t) \/ BeginAttempt(t)
                   \/ Run(t) \/ Retry(t) \/ Settle(t)

Spec == Init /\ [][Next]_lvars
=============================================================================
