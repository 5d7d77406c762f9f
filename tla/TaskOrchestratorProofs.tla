----------------------- MODULE TaskOrchestratorProofs -----------------------
(***************************************************************************)
(* Theorems about TaskOrchestrator, for any set of tasks and processes and *)
(* any number of attempts and faults.                                      *)
(*                                                                         *)
(* TypeInv    the type invariant, with what a busy worker holds;           *)
(* LifeInv    how the repository, the create handlers and the messages in  *)
(*            the queue and with the workers agree on the life of a task;  *)
(* the rest   safety properties that follow from both along each step.     *)
(***************************************************************************)
EXTENDS TaskOrchestrator, TLAPS

Busy == {"load", "start", "begin", "preprocess", "embed", "upsert", "handle",
         "backoff", "requeue", "bury", "ack"}

\* A busy worker holds a message, and has an attempt left when it is retrying.
HeldInv ==
  \A p \in Procs :
    /\ pc[p] \in Busy => msg[p] \in Messages
    /\ pc[p] \in {"backoff", "requeue"} => msg[p].attempt < MaxAttempts

TypeInv == TypeOK /\ HeldInv

\* The initial state satisfies the strengthened type invariant.
LEMMA TypeInit == Init => TypeInv
  BY ConstantsAssumption
     DEF Init, TypeInv, TypeOK, RepositoryOK, HandlersOK, QueueOK, WorkerOK, DataPlaneOK, FaultsOK,
         HeldInv, Busy, Statuses, ActiveStates, Locations, ErrorCodes

\* What the steps below use of TypeInv about the worker that acts.
LEMMA TypeParts ==
  ASSUME TypeInv
  PROVE  /\ RepositoryOK /\ HandlersOK /\ QueueOK /\ WorkerOK /\ DataPlaneOK /\ HeldInv
         /\ FaultsOK
         /\ \A p \in Procs : /\ pc[p] \in Busy => msg[p] \in Messages
                             /\ pc[p] \in {"backoff", "requeue"} => msg[p].attempt < MaxAttempts
  BY DEF TypeInv, TypeOK, HeldInv

\* CreateTask keeps TypeInv.
LEMMA CreateTaskType ==
  ASSUME TypeInv, NEW t \in Tasks, CreateTask(t) PROVE TypeInv'
  <1>1. RepositoryOK'
    BY TypeParts, ConstantsAssumption
       DEF CreateTask, RepositoryOK, SetTask, Statuses, ActiveStates, ErrorCodes
  <1>2. HandlersOK'
    BY TypeParts, ConstantsAssumption DEF CreateTask, HandlersOK
  <1>3. QueueOK' /\ WorkerOK' /\ DataPlaneOK' /\ FaultsOK' /\ HeldInv'
    BY TypeParts
       DEF FaultsOK, CreateTask, QueueOK, WorkerOK, DataPlaneOK, HeldInv, queue, worker, dataplane
  <1> QED  BY <1>1, <1>2, <1>3 DEF TypeInv, TypeOK

\* MarkQueued keeps TypeInv.
LEMMA MarkQueuedType ==
  ASSUME TypeInv, NEW t \in Tasks, MarkQueued(t) PROVE TypeInv'
  <1>1. RepositoryOK'
    BY TypeParts, ConstantsAssumption
       DEF MarkQueued, RepositoryOK, SetTask, Statuses, ActiveStates, ErrorCodes
  <1>2. HandlersOK'
    BY TypeParts, ConstantsAssumption DEF MarkQueued, HandlersOK
  <1>3. QueueOK' /\ WorkerOK' /\ DataPlaneOK' /\ FaultsOK' /\ HeldInv'
    BY TypeParts
       DEF FaultsOK, MarkQueued, QueueOK, WorkerOK, DataPlaneOK, HeldInv, queue, worker, dataplane
  <1> QED  BY <1>1, <1>2, <1>3 DEF TypeInv, TypeOK

\* EnqueueTask keeps TypeInv.
LEMMA EnqueueTaskType ==
  ASSUME TypeInv, NEW t \in Tasks, EnqueueTask(t) PROVE TypeInv'
  <1>1. HandlersOK'
    BY TypeParts, ConstantsAssumption DEF EnqueueTask, HandlersOK
  <1>2. QueueOK'
    BY TypeParts, ConstantsAssumption DEF EnqueueTask, QueueOK, Put, Messages
  <1>3. RepositoryOK' /\ WorkerOK' /\ DataPlaneOK' /\ FaultsOK' /\ HeldInv'
    BY TypeParts
       DEF FaultsOK, EnqueueTask, RepositoryOK, WorkerOK, DataPlaneOK, HeldInv, repository, worker,
           dataplane
  <1> QED  BY <1>1, <1>2, <1>3 DEF TypeInv, TypeOK

\* Dequeue keeps TypeInv.
LEMMA DequeueType ==
  ASSUME TypeInv, NEW p \in Procs, Dequeue(p) PROVE TypeInv'
  <1>1. QueueOK'
    BY TypeParts, ConstantsAssumption DEF Dequeue, QueueOK
  <1>2. WorkerOK'
    BY TypeParts, ConstantsAssumption DEF Dequeue, WorkerOK, Goto, Locations, QueueOK
  <1>3. RepositoryOK' /\ HandlersOK' /\ DataPlaneOK' /\ FaultsOK'
    BY TypeParts
       DEF FaultsOK, Dequeue, RepositoryOK, HandlersOK, DataPlaneOK, repository, handlers, dataplane
  <1>4. HeldInv'
    BY TypeParts DEF Dequeue, HeldInv, Busy, WorkerOK, Goto, QueueOK
  <1> QED  BY <1>1, <1>2, <1>3, <1>4 DEF TypeInv, TypeOK

\* Load keeps TypeInv.
LEMMA LoadType ==
  ASSUME TypeInv, NEW p \in Procs, Load(p) PROVE TypeInv'
  <1>1. WorkerOK'
    BY TypeParts, ConstantsAssumption
       DEF Load, WorkerOK, Goto, Finish, Task, Locations, RepositoryOK, Messages, Busy
  <1>2. RepositoryOK' /\ HandlersOK' /\ QueueOK' /\ DataPlaneOK' /\ FaultsOK'
    BY TypeParts
       DEF FaultsOK, Load, RepositoryOK, HandlersOK, QueueOK, DataPlaneOK, repository, handlers,
           queue,
           dataplane
  <1>3. HeldInv'
    BY TypeParts DEF Load, HeldInv, Busy, WorkerOK, Goto, Finish
  <1> QED  BY <1>1, <1>2, <1>3 DEF TypeInv, TypeOK

\* Start keeps TypeInv.
LEMMA StartType ==
  ASSUME TypeInv, NEW p \in Procs, Start(p) PROVE TypeInv'
  <1>1. RepositoryOK'
    BY TypeParts, ConstantsAssumption
       DEF Start, RepositoryOK, repository, SetTask, Task, Messages, WorkerOK, ErrorCodes, Busy
  <1>2. WorkerOK'
    BY TypeParts, ConstantsAssumption DEF Start, WorkerOK, Goto, Finish, Locations
  <1>3. HandlersOK' /\ QueueOK' /\ DataPlaneOK' /\ FaultsOK'
    BY TypeParts DEF FaultsOK, Start, HandlersOK, QueueOK, DataPlaneOK, handlers, queue, dataplane
  <1>4. HeldInv'
    BY TypeParts DEF Start, HeldInv, Busy, WorkerOK, Goto, Finish
  <1> QED  BY <1>1, <1>2, <1>3, <1>4 DEF TypeInv, TypeOK

\* Begin keeps TypeInv.
LEMMA BeginType ==
  ASSUME TypeInv, NEW p \in Procs, Begin(p) PROVE TypeInv'
  <1>1. RepositoryOK'
    BY TypeParts, ConstantsAssumption
       DEF Begin, RepositoryOK, repository, SetTask, Advance, Raise, Task, Messages, Statuses,
           ActiveStates, ErrorCodes, Busy
  <1>2. WorkerOK'
    BY TypeParts, ConstantsAssumption
       DEF Begin, WorkerOK, Goto, Advance, Raise, Locations, ErrorCodes
  <1>3. HandlersOK' /\ QueueOK' /\ DataPlaneOK' /\ FaultsOK'
    BY TypeParts DEF FaultsOK, Begin, HandlersOK, QueueOK, DataPlaneOK, handlers, queue, dataplane
  <1>4. HeldInv'
    BY TypeParts DEF Begin, HeldInv, Busy, WorkerOK, Goto, Advance, Raise
  <1> QED  BY <1>1, <1>2, <1>3, <1>4 DEF TypeInv, TypeOK

\* PreprocessOk keeps TypeInv.
LEMMA PreprocessOkType ==
  ASSUME TypeInv, NEW p \in Procs, PreprocessOk(p) PROVE TypeInv'
  <1>1. RepositoryOK'
    BY TypeParts, ConstantsAssumption
       DEF PreprocessOk, RepositoryOK, repository, SetTask, Advance, Raise, Task, Messages,
           Statuses, ActiveStates, ErrorCodes, Busy
  <1>2. WorkerOK'
    BY TypeParts, ConstantsAssumption
       DEF PreprocessOk, WorkerOK, Goto, Advance, Raise, Task, Messages, DataPlaneOK, Locations,
           ErrorCodes, Busy
  <1>3. DataPlaneOK'
    BY TypeParts, ConstantsAssumption DEF PreprocessOk, DataPlaneOK, Task, Messages, Busy
  <1>4. HandlersOK' /\ QueueOK' /\ FaultsOK'
    BY TypeParts DEF FaultsOK, PreprocessOk, HandlersOK, QueueOK, handlers, queue
  <1>5. HeldInv'
    BY TypeParts DEF PreprocessOk, HeldInv, Busy, WorkerOK, Goto, Advance, Raise
  <1> QED  BY <1>1, <1>2, <1>3, <1>4, <1>5 DEF TypeInv, TypeOK

\* EmbedOk keeps TypeInv.
LEMMA EmbedOkType ==
  ASSUME TypeInv, NEW p \in Procs, EmbedOk(p) PROVE TypeInv'
  <1>1. RepositoryOK'
    BY TypeParts, ConstantsAssumption
       DEF EmbedOk, RepositoryOK, repository, SetTask, Advance, Raise, Task, Messages, Statuses,
           ActiveStates, ErrorCodes, Busy
  <1>2. WorkerOK'
    BY TypeParts, ConstantsAssumption
       DEF EmbedOk, WorkerOK, Goto, Advance, Raise, Locations, ErrorCodes
  <1>3. DataPlaneOK'
    BY TypeParts, ConstantsAssumption DEF EmbedOk, DataPlaneOK, Task, Messages, WorkerOK, Busy
  <1>4. HandlersOK' /\ QueueOK' /\ FaultsOK'
    BY TypeParts DEF FaultsOK, EmbedOk, HandlersOK, QueueOK, handlers, queue
  <1>5. HeldInv'
    BY TypeParts DEF EmbedOk, HeldInv, Busy, WorkerOK, Goto, Advance, Raise
  <1> QED  BY <1>1, <1>2, <1>3, <1>4, <1>5 DEF TypeInv, TypeOK

\* UpsertOk keeps TypeInv.
LEMMA UpsertOkType ==
  ASSUME TypeInv, NEW p \in Procs, UpsertOk(p) PROVE TypeInv'
  <1>1. RepositoryOK'
    BY TypeParts, ConstantsAssumption
       DEF UpsertOk, RepositoryOK, repository, SetTask, Advance, Raise, Task, Messages,
           Statuses, TerminalStates, ErrorCodes, Busy
  <1>2. WorkerOK'
    BY TypeParts, ConstantsAssumption
       DEF UpsertOk, WorkerOK, Goto, Advance, Raise, Locations, ErrorCodes
  <1>3. HandlersOK' /\ QueueOK' /\ DataPlaneOK' /\ FaultsOK'
    BY TypeParts
       DEF FaultsOK, UpsertOk, HandlersOK, QueueOK, DataPlaneOK, handlers, queue, dataplane
  <1>4. HeldInv'
    BY TypeParts DEF UpsertOk, HeldInv, Busy, WorkerOK, Goto, Advance, Raise
  <1> QED  BY <1>1, <1>2, <1>3, <1>4 DEF TypeInv, TypeOK

\* CallUnavailable keeps TypeInv.
LEMMA CallUnavailableType ==
  ASSUME TypeInv, NEW p \in Procs, CallUnavailable(p) PROVE TypeInv'
  <1>1. WorkerOK'
    BY TypeParts, ConstantsAssumption
       DEF CallUnavailable, WorkerOK, Goto, Raise, Locations, ErrorCodes
  <1>2. RepositoryOK' /\ HandlersOK' /\ QueueOK' /\ DataPlaneOK' /\ FaultsOK'
    BY TypeParts
       DEF FaultsOK, CallUnavailable, RepositoryOK, HandlersOK, QueueOK, DataPlaneOK, repository,
           handlers, queue, dataplane
  <1>3. HeldInv'
    BY TypeParts DEF CallUnavailable, HeldInv, Busy, WorkerOK, Goto, Raise
  <1> QED  BY <1>1, <1>2, <1>3 DEF TypeInv, TypeOK

\* CallRejected keeps TypeInv.
LEMMA CallRejectedType ==
  ASSUME TypeInv, NEW p \in Procs, CallRejected(p) PROVE TypeInv'
  <1>1. WorkerOK'
    BY TypeParts, ConstantsAssumption
       DEF CallRejected, WorkerOK, Goto, Raise, Locations, ErrorCodes
  <1>2. DataPlaneOK'
    BY TypeParts, ConstantsAssumption DEF CallRejected, DataPlaneOK
  <1>3. RepositoryOK' /\ HandlersOK' /\ QueueOK' /\ FaultsOK'
    BY TypeParts
       DEF FaultsOK, CallRejected, RepositoryOK, HandlersOK, QueueOK, repository, handlers, queue
  <1>4. HeldInv'
    BY TypeParts DEF CallRejected, HeldInv, Busy, WorkerOK, Goto, Raise
  <1> QED  BY <1>1, <1>2, <1>3, <1>4 DEF TypeInv, TypeOK

\* HandleError keeps TypeInv.
LEMMA HandleErrorType ==
  ASSUME TypeInv, NEW p \in Procs, HandleError(p) PROVE TypeInv'
  <1>1. RepositoryOK'
    BY TypeParts, ConstantsAssumption
       DEF HandleError, Verdict, RepositoryOK, repository, SetTask, Task, Messages, WorkerOK,
           Statuses, ActiveStates, TerminalStates, Busy
  <1>2. WorkerOK'
    BY TypeParts, ConstantsAssumption DEF HandleError, Verdict, WorkerOK, Goto, Finish, Locations
  <1>3. HandlersOK' /\ QueueOK' /\ DataPlaneOK' /\ FaultsOK'
    BY TypeParts
       DEF FaultsOK, HandleError, HandlersOK, QueueOK, DataPlaneOK, handlers, queue, dataplane
  <1>4. HeldInv'
    BY TypeParts DEF HandleError, Verdict, HeldInv, Busy, WorkerOK, Goto, Finish, WorthRetrying
  <1> QED  BY <1>1, <1>2, <1>3, <1>4 DEF TypeInv, TypeOK

\* BackoffEnds keeps TypeInv.
LEMMA BackoffEndsType ==
  ASSUME TypeInv, NEW p \in Procs, BackoffEnds(p) PROVE TypeInv'
  <1>1. RepositoryOK'
    BY TypeParts, ConstantsAssumption
       DEF BackoffEnds, RepositoryOK, repository, SetTask, Task, Messages, Statuses,
           ActiveStates, ErrorCodes, Busy
  <1>2. WorkerOK'
    BY TypeParts, ConstantsAssumption DEF BackoffEnds, WorkerOK, Goto, Finish, Locations
  <1>3. HandlersOK' /\ QueueOK' /\ DataPlaneOK' /\ FaultsOK'
    BY TypeParts
       DEF FaultsOK, BackoffEnds, HandlersOK, QueueOK, DataPlaneOK, handlers, queue, dataplane
  <1>4. HeldInv'
    BY TypeParts DEF BackoffEnds, HeldInv, Busy, WorkerOK, Goto, Finish
  <1> QED  BY <1>1, <1>2, <1>3, <1>4 DEF TypeInv, TypeOK

\* Requeue keeps TypeInv.
LEMMA RequeueType ==
  ASSUME TypeInv, NEW p \in Procs, Requeue(p) PROVE TypeInv'
  <1>1. QueueOK'
    BY TypeParts, ConstantsAssumption DEF Requeue, QueueOK, Put, Task, Messages, Busy
  <1>2. WorkerOK'
    BY TypeParts, ConstantsAssumption DEF Requeue, WorkerOK, Goto, Finish, Locations
  <1>3. RepositoryOK' /\ HandlersOK' /\ DataPlaneOK' /\ FaultsOK'
    BY TypeParts
       DEF FaultsOK, Requeue, RepositoryOK, HandlersOK, DataPlaneOK, repository, handlers, dataplane
  <1>4. HeldInv'
    BY TypeParts DEF Requeue, HeldInv, Busy, WorkerOK, Goto, Finish
  <1> QED  BY <1>1, <1>2, <1>3, <1>4 DEF TypeInv, TypeOK

\* Bury keeps TypeInv.
LEMMA BuryType ==
  ASSUME TypeInv, NEW p \in Procs, Bury(p) PROVE TypeInv'
  <1>1. QueueOK'
    BY TypeParts, ConstantsAssumption DEF Bury, QueueOK, Task, Messages, Busy
  <1>2. WorkerOK'
    BY TypeParts, ConstantsAssumption DEF Bury, WorkerOK, Goto, Finish, Locations
  <1>3. RepositoryOK' /\ HandlersOK' /\ DataPlaneOK' /\ FaultsOK'
    BY TypeParts
       DEF FaultsOK, Bury, RepositoryOK, HandlersOK, DataPlaneOK, repository, handlers, dataplane
  <1>4. HeldInv'
    BY TypeParts DEF Bury, HeldInv, Busy, WorkerOK, Goto, Finish
  <1> QED  BY <1>1, <1>2, <1>3, <1>4 DEF TypeInv, TypeOK

\* Ack keeps TypeInv.
LEMMA AckType ==
  ASSUME TypeInv, NEW p \in Procs, Ack(p) PROVE TypeInv'
  <1>1. WorkerOK'
    BY TypeParts, ConstantsAssumption
       DEF Ack, WorkerOK, Goto, Forget, Locations, Statuses, ActiveStates, ErrorCodes
  <1>2. RepositoryOK' /\ HandlersOK' /\ QueueOK' /\ DataPlaneOK' /\ FaultsOK'
    BY TypeParts
       DEF FaultsOK, Ack, RepositoryOK, HandlersOK, QueueOK, DataPlaneOK, repository, handlers,
           queue,
           dataplane
  <1>3. HeldInv'
    BY TypeParts DEF Ack, HeldInv, Busy, WorkerOK, Goto, Forget
  <1> QED  BY <1>1, <1>2, <1>3 DEF TypeInv, TypeOK

\* Crash keeps TypeInv.
LEMMA CrashType ==
  ASSUME TypeInv, NEW p \in Procs, Crash(p) PROVE TypeInv'
  <1>1. HandlersOK'
    BY TypeParts, ConstantsAssumption DEF Crash, HandlersOK, BreakHandlers
  <1>2. QueueOK'
    BY TypeParts, ConstantsAssumption DEF Crash, QueueOK, Release, WorkerOK
  <1>3. WorkerOK'
    BY TypeParts, ConstantsAssumption
       DEF Crash, WorkerOK, Goto, Forget, Locations, Statuses, ActiveStates, ErrorCodes
  <1>4. FaultsOK'
    BY TypeParts, ConstantsAssumption DEF FaultsOK, FaultKinds, Crash, Fault
  <1>5. RepositoryOK' /\ DataPlaneOK'
    BY TypeParts DEF Crash, RepositoryOK, DataPlaneOK, repository, dataplane
  <1>6. HeldInv'
    BY TypeParts DEF Crash, HeldInv, Busy, WorkerOK, Goto, Forget
  <1> QED  BY <1>1, <1>2, <1>3, <1>4, <1>5, <1>6 DEF TypeInv, TypeOK

\* Restart keeps TypeInv.
LEMMA RestartType ==
  ASSUME TypeInv, NEW p \in Procs, Restart(p) PROVE TypeInv'
  <1>1. WorkerOK'
    BY TypeParts, ConstantsAssumption DEF Restart, WorkerOK, Goto, Locations
  <1>2. RepositoryOK' /\ HandlersOK' /\ QueueOK' /\ DataPlaneOK' /\ FaultsOK'
    BY TypeParts
       DEF FaultsOK, Restart, RepositoryOK, HandlersOK, QueueOK, DataPlaneOK, repository,
           handlers, queue,
           dataplane
  <1>3. HeldInv'
    BY TypeParts DEF Restart, HeldInv, Busy, WorkerOK, Goto
  <1> QED  BY <1>1, <1>2, <1>3 DEF TypeInv, TypeOK

\* Shutdown keeps TypeInv.
LEMMA ShutdownType ==
  ASSUME TypeInv, NEW p \in Procs, Shutdown(p) PROVE TypeInv'
  <1>1. QueueOK'
    BY TypeParts, ConstantsAssumption DEF Shutdown, QueueOK, Release, WorkerOK, queue
  <1>2. WorkerOK'
    <2>1. CASE Finish(p, "down") /\ UNCHANGED <<msg, snap, err, run, revoked>>
      BY <2>1, TypeParts DEF WorkerOK, Goto, Finish, Locations
    <2>2. CASE Goto(p, "down") /\ Forget(p)
      BY <2>2, TypeParts
         DEF WorkerOK, Goto, Forget, Locations, Statuses, ActiveStates, ErrorCodes
    <2> QED  BY <2>1, <2>2 DEF Shutdown
  <1>3. FaultsOK'
    BY TypeParts, ConstantsAssumption DEF FaultsOK, FaultKinds, Shutdown, Fault
  <1>4. RepositoryOK' /\ HandlersOK' /\ DataPlaneOK'
    BY TypeParts
       DEF Shutdown, RepositoryOK, HandlersOK, DataPlaneOK, repository, handlers, dataplane
  <1>5. HeldInv'
    BY TypeParts DEF Shutdown, HeldInv, Busy, WorkerOK, Goto, Finish, Forget
  <1> QED  BY <1>1, <1>2, <1>3, <1>4, <1>5 DEF TypeInv, TypeOK

\* CreateBrokerError keeps TypeInv.
LEMMA CreateBrokerErrorType ==
  ASSUME TypeInv, NEW t \in Tasks, CreateBrokerError(t) PROVE TypeInv'
  <1>1. HandlersOK'
    BY TypeParts, ConstantsAssumption DEF CreateBrokerError, HandlersOK
  <1>2. QueueOK'
    BY TypeParts, ConstantsAssumption DEF CreateBrokerError, QueueOK, Put, Messages, queue
  <1>3. FaultsOK'
    BY TypeParts, ConstantsAssumption DEF FaultsOK, FaultKinds, CreateBrokerError, Fault
  <1>4. RepositoryOK' /\ WorkerOK' /\ DataPlaneOK' /\ HeldInv'
    BY TypeParts
       DEF CreateBrokerError, RepositoryOK, WorkerOK, DataPlaneOK, HeldInv, repository, worker,
           dataplane
  <1> QED  BY <1>1, <1>2, <1>3, <1>4 DEF TypeInv, TypeOK

\* WorkerBrokerError keeps TypeInv.
LEMMA WorkerBrokerErrorType ==
  ASSUME TypeInv, NEW p \in Procs, WorkerBrokerError(p) PROVE TypeInv'
  <1>1. QueueOK'
    BY TypeParts, ConstantsAssumption
       DEF WorkerBrokerError, QueueOK, Put, Task, Messages, Busy, queue
  <1>2. WorkerOK'
    BY TypeParts, ConstantsAssumption DEF WorkerBrokerError, WorkerOK, Goto, Finish, Locations
  <1>3. FaultsOK'
    BY TypeParts, ConstantsAssumption DEF FaultsOK, FaultKinds, WorkerBrokerError, Fault
  <1>4. RepositoryOK' /\ HandlersOK' /\ DataPlaneOK'
    BY TypeParts
       DEF WorkerBrokerError, RepositoryOK, HandlersOK, DataPlaneOK, repository, handlers,
           dataplane
  <1>5. HeldInv'
    BY TypeParts DEF WorkerBrokerError, HeldInv, Busy, WorkerOK, Goto, Finish
  <1> QED  BY <1>1, <1>2, <1>3, <1>4, <1>5 DEF TypeInv, TypeOK

\* A repository call that raises writes what a transition may write, or nothing.
LEMMA MayHaveMovedType ==
  ASSUME TypeInv, NEW t \in Tasks, NEW s \in Statuses, NEW a \in 0..MaxAttempts,
         NEW c \in ErrorCodes, MayHaveMoved(t, s, a, c)
  PROVE  RepositoryOK'
  BY TypeParts DEF MayHaveMoved, SetTask, RepositoryOK, repository

\* CreateRepositoryError keeps TypeInv.
LEMMA CreateRepositoryErrorType ==
  ASSUME TypeInv, NEW t \in Tasks, CreateRepositoryError(t) PROVE TypeInv'
  <1>1. RepositoryOK'
    <2>1. CASE UNCHANGED repository
      BY <2>1, TypeParts DEF RepositoryOK, repository
    <2>2. CASE SetTask(t, "accepted", 0, "none") \/ SetTask(t, "queued", 0, "none")
      BY <2>2, TypeParts, ConstantsAssumption
         DEF RepositoryOK, SetTask, Statuses, ActiveStates, ErrorCodes
    <2> QED  BY <2>1, <2>2 DEF CreateRepositoryError, MayHaveMoved
  <1>2. HandlersOK'
    BY TypeParts, ConstantsAssumption DEF CreateRepositoryError, HandlersOK
  <1>3. FaultsOK'
    BY TypeParts, ConstantsAssumption DEF FaultsOK, FaultKinds, CreateRepositoryError, Fault
  <1>4. QueueOK' /\ WorkerOK' /\ DataPlaneOK' /\ HeldInv'
    BY TypeParts
       DEF CreateRepositoryError, QueueOK, WorkerOK, DataPlaneOK, HeldInv, queue, worker, dataplane
  <1> QED  BY <1>1, <1>2, <1>3, <1>4 DEF TypeInv, TypeOK

\* StageError keeps TypeInv.
LEMMA StageErrorType ==
  ASSUME TypeInv, NEW p \in Procs, StageError(p) PROVE TypeInv'
  <1>1. pc[p] \in Busy /\ Task(p) \in Tasks
    BY TypeParts DEF StageError, Busy, Task, Messages
  <1>2. attemptCount[Task(p)] \in 0..MaxAttempts /\ "none" \in ErrorCodes
    BY <1>1, TypeParts DEF RepositoryOK, ErrorCodes
  <1>3. PICK s \in {"preprocessing", "embedding", "persisting", "succeeded"} :
          MayHaveMoved(Task(p), s, attemptCount[Task(p)], "none")
    BY DEF StageError
  <1>4. s \in Statuses
    BY DEF Statuses, ActiveStates, TerminalStates
  <1>5. RepositoryOK'
    BY <1>1, <1>2, <1>3, <1>4, MayHaveMovedType
  <1>6. WorkerOK'
    BY TypeParts DEF StageError, Raise, Goto, WorkerOK, Locations, ErrorCodes
  <1>7. FaultsOK'
    BY TypeParts, ConstantsAssumption DEF FaultsOK, FaultKinds, StageError, Fault
  <1>8. HandlersOK' /\ QueueOK' /\ DataPlaneOK'
    BY TypeParts DEF StageError, HandlersOK, QueueOK, DataPlaneOK, handlers, queue, dataplane
  <1>9. HeldInv'
    BY <1>1, TypeParts DEF StageError, HeldInv, Busy, WorkerOK, Goto, Raise
  <1> QED  BY <1>5, <1>6, <1>7, <1>8, <1>9 DEF TypeInv, TypeOK

\* WorkerRepositoryError keeps TypeInv.
LEMMA WorkerRepositoryErrorType ==
  ASSUME TypeInv, NEW p \in Procs, WorkerRepositoryError(p) PROVE TypeInv'
  <1>1. /\ pc[p] \in Busy /\ Task(p) \in Tasks /\ msg[p].attempt \in 0..MaxAttempts
        /\ snap[p] \in Statuses \cup {"absent"} /\ err[p] \in ErrorCodes
    BY TypeParts, ConstantsAssumption
       DEF WorkerRepositoryError, Busy, Task, Messages, WorkerOK
  <1>2. RepositoryOK'
    <2>1. CASE UNCHANGED repository
      BY <2>1, TypeParts DEF RepositoryOK, repository
    <2>2. CASE \E s \in Statuses \cup {"absent"}, c \in ErrorCodes :
                 SetTask(Task(p), s, msg[p].attempt, c)
      BY <1>1, <2>2, TypeParts DEF RepositoryOK, SetTask
    <2>3. Verdict(p) \in Statuses /\ "queued" \in Statuses /\ "none" \in ErrorCodes
      BY DEF Verdict, Statuses, ActiveStates, TerminalStates, ErrorCodes
    <2> QED  BY <1>1, <2>1, <2>2, <2>3 DEF WorkerRepositoryError, MayHaveMoved
  <1>3. WorkerOK'
    BY TypeParts DEF WorkerRepositoryError, Finish, Goto, WorkerOK, Locations
  <1>4. FaultsOK'
    BY TypeParts, ConstantsAssumption DEF FaultsOK, FaultKinds, WorkerRepositoryError, Fault
  <1>5. HandlersOK' /\ QueueOK' /\ DataPlaneOK'
    BY TypeParts
       DEF WorkerRepositoryError, HandlersOK, QueueOK, DataPlaneOK, handlers, queue, dataplane
  <1>6. HeldInv'
    BY <1>1, TypeParts DEF WorkerRepositoryError, HeldInv, Busy, WorkerOK, Goto, Finish
  <1> QED  BY <1>2, <1>3, <1>4, <1>5, <1>6 DEF TypeInv, TypeOK

\* Rebalance keeps TypeInv.
LEMMA RebalanceType ==
  ASSUME TypeInv, NEW p \in Procs, Rebalance(p) PROVE TypeInv'
  <1>1. QueueOK'
    BY TypeParts, ConstantsAssumption DEF Rebalance, QueueOK, WorkerOK
  <1>2. WorkerOK'
    BY TypeParts, ConstantsAssumption DEF Rebalance, WorkerOK
  <1>3. FaultsOK'
    BY TypeParts, ConstantsAssumption DEF FaultsOK, FaultKinds, Rebalance, Fault
  <1>4. RepositoryOK' /\ HandlersOK' /\ DataPlaneOK'
    BY TypeParts
       DEF Rebalance, RepositoryOK, HandlersOK, DataPlaneOK, repository, handlers, dataplane
  <1>5. HeldInv'
    BY TypeParts DEF Rebalance, HeldInv, Busy, WorkerOK
  <1> QED  BY <1>1, <1>2, <1>3, <1>4, <1>5 DEF TypeInv, TypeOK

\* A late upsert keeps TypeInv.
LEMMA StoreAppliesType == ASSUME TypeInv, StoreApplies PROVE TypeInv'
  <1>1. DataPlaneOK'
    BY TypeParts DEF StoreApplies, DataPlaneOK
  <1>2. RepositoryOK' /\ HandlersOK' /\ QueueOK' /\ WorkerOK' /\ FaultsOK' /\ HeldInv'
    BY TypeParts DEF FaultsOK, StoreApplies, RepositoryOK, HandlersOK, QueueOK, WorkerOK, HeldInv,
                     repository, handlers, queue, worker
  <1> QED  BY <1>1, <1>2 DEF TypeInv, TypeOK

\* TypeInv reads nothing but the variables.
LEMMA TypeStutter == ASSUME TypeInv, UNCHANGED vars PROVE TypeInv'
  BY DEF TypeInv, TypeOK, RepositoryOK, HandlersOK, QueueOK, WorkerOK, DataPlaneOK, FaultsOK,
         HeldInv,
         vars, repository, handlers, queue, worker, dataplane

\* Every step keeps TypeInv, one lemma per action.
LEMMA TypeStep == TypeInv /\ [Next]_vars => TypeInv'
  <1> SUFFICES ASSUME TypeInv, [Next]_vars PROVE TypeInv'
    OBVIOUS
  <1>1. ASSUME NEW t \in Tasks, Handler(t) \/ HandlerFault(t) PROVE TypeInv'
    BY <1>1, CreateTaskType, MarkQueuedType, EnqueueTaskType, CreateBrokerErrorType,
       CreateRepositoryErrorType
       DEF Handler, HandlerFault
  <1>2. ASSUME NEW p \in Procs, Work(p) PROVE TypeInv'
    BY <1>2, DequeueType, LoadType, StartType, BeginType, PreprocessOkType, EmbedOkType,
       UpsertOkType, CallUnavailableType, CallRejectedType, HandleErrorType, BackoffEndsType,
       RequeueType, BuryType, AckType
       DEF Work
  <1>3. ASSUME NEW p \in Procs, ProcFault(p) PROVE TypeInv'
    BY <1>3, CrashType, RestartType, ShutdownType, WorkerBrokerErrorType, StageErrorType,
       WorkerRepositoryErrorType, RebalanceType
       DEF ProcFault
  <1> QED  BY <1>1, <1>2, <1>3, StoreAppliesType, TypeStutter DEF Next

\* Every variable of the orchestrator keeps its type, attempts stay within
\* max_attempts and a busy worker always holds the message it is working on.
THEOREM TypeCorrect == Spec => []TypeOK
  <1>1. TypeInv => TypeOK
    BY DEF TypeInv
  <1> QED  BY TypeInit, TypeStep, <1>1, PTL DEF Spec
-----------------------------------------------------------------------------
\* The statuses of a task some message can be about.
Working == {"queued", "preprocessing", "embedding", "persisting", "retrying"}
Handed  == Working \cup {"succeeded", "failed"}

\* The entries of ALLOWED_TRANSITIONS the later proofs use.
LEMMA Table ==
  /\ \A s \in TerminalStates, n \in Statuses : MayMove(s, n) => n = s
  /\ \A s \in Working : MayMove(s, s) /\ MayMove(s, "failed") /\ MayMove(s, "retrying")
  /\ MayMove("retrying", "queued")
  /\ Working \cap TerminalStates = {} /\ Handed \subseteq Statuses
  <1>1. \A s \in TerminalStates, n \in Statuses : MayMove(s, n) => n = s
    BY DEF MayMove, CanTransition, TerminalStates, ActiveStates
  <1>2. \A s \in Working : MayMove(s, s) /\ MayMove(s, "failed") /\ MayMove(s, "retrying")
    BY DEF MayMove, CanTransition, ActiveStates, Working, AllowedTransitions
  <1>3. MayMove("retrying", "queued")
    BY DEF MayMove, CanTransition, ActiveStates, AllowedTransitions
  <1>4. Working \cap TerminalStates = {} /\ Handed \subseteq Statuses
    BY DEF Working, Handed, TerminalStates, ActiveStates, Statuses
  <1> QED  BY <1>1, <1>2, <1>3, <1>4

\* What the create handler of t has told the repository.
PhaseInv ==
  \A t \in Tasks : /\ phase[t] = "none" => status[t] = "absent"
                   /\ phase[t] = "created" => status[t] = "accepted"
                   /\ phase[t] = "queued" => status[t] = "queued"
                   /\ phase[t] = "accepted" => status[t] \in Handed

\* A message is about a task whose handler got as far as the queue.
Live(t) == phase[t] \in {"accepted", "broken"} /\ status[t] \in Handed

LifeInv ==
  /\ PhaseInv
  /\ \A m \in ready : Live(m.task)
  /\ \A p \in Procs : msg[p] # NoMessage => Live(msg[p].task)
  /\ \A p \in Procs : snap[p] \in Working

\* The record that stands for no message is not a message.
LEMMA NoMessageApart == NoMessage \notin Messages
  BY DEF NoMessage, Messages

\* The message of a busy worker is of a task that was handed to the queue.
LEMMA HolderLife ==
  ASSUME TypeInv, LifeInv, NEW p \in Procs, pc[p] \in Busy
  PROVE  Task(p) \in Tasks /\ Live(Task(p)) /\ msg[p] \in Messages
  BY TypeParts, NoMessageApart DEF LifeInv, Task, Messages

\* Moving a live task among the statuses of live tasks.
LEMMA MoveLife ==
  ASSUME TypeInv, LifeInv, NEW t \in Tasks, Live(t), NEW s \in Handed,
         status' = [status EXCEPT ![t] = s], phase' = phase, ready' = ready, msg' = msg,
         \A q \in Procs : snap'[q] \in Working
  PROVE  LifeInv'
  <1>1. \A u \in Tasks : Live(u) => Live(u)'
    BY TypeParts DEF RepositoryOK, Live
  <1>2. PhaseInv'
    BY TypeParts DEF RepositoryOK, Live, LifeInv, PhaseInv
  <1>3. /\ (\A m \in ready : m.task \in Tasks)
        /\ (\A q \in Procs : msg[q] # NoMessage => msg[q].task \in Tasks)
    BY TypeParts DEF QueueOK, WorkerOK, Messages
  <1> QED  BY <1>1, <1>2, <1>3 DEF LifeInv

\* Steps that leave the repository and the handlers alone.
LEMMA QuietLife ==
  ASSUME LifeInv, status' = status, phase' = phase,
         \A m \in ready' : Live(m.task),
         \A q \in Procs : msg'[q] # NoMessage => Live(msg'[q].task),
         \A q \in Procs : snap'[q] \in Working
  PROVE  LifeInv'
  BY DEF LifeInv, PhaseInv, Live

\* Start keeps LifeInv.
LEMMA StartLife == ASSUME TypeInv, LifeInv, NEW p \in Procs, Start(p) PROVE LifeInv'
  <1>1. Task(p) \in Tasks /\ Live(Task(p)) /\ \A q \in Procs : snap[q] \in Working
    BY HolderLife DEF Start, Busy, LifeInv
  <1>2. \/ status' = status
        \/ \E s \in Handed : status' = [status EXCEPT ![Task(p)] = s]
    BY <1>1 DEF Start, Finish, Goto, SetTask, Handed, Working, repository
  <1>3. phase' = phase /\ ready' = ready /\ msg' = msg /\ snap' = snap
    BY DEF Start, handlers, queue
  <1> QED  BY <1>1, <1>2, <1>3, MoveLife, QuietLife DEF LifeInv

\* Begin keeps LifeInv.
LEMMA BeginLife == ASSUME TypeInv, LifeInv, NEW p \in Procs, Begin(p) PROVE LifeInv'
  <1>1. Task(p) \in Tasks /\ Live(Task(p)) /\ \A q \in Procs : snap[q] \in Working
    BY HolderLife DEF Begin, Busy, LifeInv
  <1>2. \/ status' = status
        \/ \E s \in Handed : status' = [status EXCEPT ![Task(p)] = s]
    BY <1>1 DEF Begin, Advance, Raise, SetTask, Handed, Working, repository
  <1>3. phase' = phase /\ ready' = ready /\ msg' = msg /\ snap' = snap
    BY DEF Begin, handlers, queue
  <1> QED  BY <1>1, <1>2, <1>3, MoveLife, QuietLife DEF LifeInv

\* PreprocessOk keeps LifeInv.
LEMMA PreprocessOkLife == ASSUME TypeInv, LifeInv, NEW p \in Procs, PreprocessOk(p) PROVE LifeInv'
  <1>1. Task(p) \in Tasks /\ Live(Task(p)) /\ \A q \in Procs : snap[q] \in Working
    BY HolderLife DEF PreprocessOk, Busy, LifeInv
  <1>2. \/ status' = status
        \/ \E s \in Handed : status' = [status EXCEPT ![Task(p)] = s]
    BY <1>1 DEF PreprocessOk, Advance, Raise, SetTask, Handed, Working, repository
  <1>3. phase' = phase /\ ready' = ready /\ msg' = msg /\ snap' = snap
    BY DEF PreprocessOk, handlers, queue
  <1> QED  BY <1>1, <1>2, <1>3, MoveLife, QuietLife DEF LifeInv

\* EmbedOk keeps LifeInv.
LEMMA EmbedOkLife == ASSUME TypeInv, LifeInv, NEW p \in Procs, EmbedOk(p) PROVE LifeInv'
  <1>1. Task(p) \in Tasks /\ Live(Task(p)) /\ \A q \in Procs : snap[q] \in Working
    BY HolderLife DEF EmbedOk, Busy, LifeInv
  <1>2. \/ status' = status
        \/ \E s \in Handed : status' = [status EXCEPT ![Task(p)] = s]
    BY <1>1 DEF EmbedOk, Advance, Raise, SetTask, Handed, Working, repository
  <1>3. phase' = phase /\ ready' = ready /\ msg' = msg /\ snap' = snap
    BY DEF EmbedOk, handlers, queue
  <1> QED  BY <1>1, <1>2, <1>3, MoveLife, QuietLife DEF LifeInv

\* UpsertOk keeps LifeInv.
LEMMA UpsertOkLife == ASSUME TypeInv, LifeInv, NEW p \in Procs, UpsertOk(p) PROVE LifeInv'
  <1>1. Task(p) \in Tasks /\ Live(Task(p)) /\ \A q \in Procs : snap[q] \in Working
    BY HolderLife DEF UpsertOk, Busy, LifeInv
  <1>2. \/ status' = status
        \/ \E s \in Handed : status' = [status EXCEPT ![Task(p)] = s]
    BY <1>1 DEF UpsertOk, Advance, Raise, SetTask, Handed, Working, repository
  <1>3. phase' = phase /\ ready' = ready /\ msg' = msg /\ snap' = snap
    BY DEF UpsertOk, handlers, queue
  <1> QED  BY <1>1, <1>2, <1>3, MoveLife, QuietLife DEF LifeInv

\* HandleError keeps LifeInv.
LEMMA HandleErrorLife == ASSUME TypeInv, LifeInv, NEW p \in Procs, HandleError(p) PROVE LifeInv'
  <1>1. Task(p) \in Tasks /\ Live(Task(p)) /\ \A q \in Procs : snap[q] \in Working
    BY HolderLife DEF HandleError, Busy, LifeInv
  <1>2. \/ status' = status
        \/ \E s \in Handed : status' = [status EXCEPT ![Task(p)] = s]
    BY <1>1 DEF HandleError, Verdict, Finish, SetTask, Handed, Working, repository
  <1>3. phase' = phase /\ ready' = ready /\ msg' = msg /\ snap' = snap
    BY DEF HandleError, handlers, queue
  <1> QED  BY <1>1, <1>2, <1>3, MoveLife, QuietLife DEF LifeInv

\* StageError keeps LifeInv.
LEMMA StageErrorLife == ASSUME TypeInv, LifeInv, NEW p \in Procs, StageError(p) PROVE LifeInv'
  <1>1. Task(p) \in Tasks /\ Live(Task(p)) /\ \A q \in Procs : snap[q] \in Working
    BY HolderLife DEF StageError, Busy, LifeInv
  <1>2. \/ status' = status
        \/ \E s \in Handed : status' = [status EXCEPT ![Task(p)] = s]
    BY <1>1 DEF StageError, MayHaveMoved, SetTask, Handed, Working, repository
  <1>3. phase' = phase /\ ready' = ready /\ msg' = msg /\ snap' = snap
    BY DEF StageError, handlers, queue
  <1> QED  BY <1>1, <1>2, <1>3, MoveLife, QuietLife DEF LifeInv

\* WorkerRepositoryError keeps LifeInv.
LEMMA WorkerRepositoryErrorLife ==
  ASSUME TypeInv, LifeInv, NEW p \in Procs, WorkerRepositoryError(p)
  PROVE  LifeInv'
  <1>1. Task(p) \in Tasks /\ Live(Task(p)) /\ \A q \in Procs : snap[q] \in Working
    BY HolderLife DEF WorkerRepositoryError, Busy, LifeInv
  <1>2. \/ status' = status
        \/ \E s \in Handed : status' = [status EXCEPT ![Task(p)] = s]
    BY <1>1 DEF WorkerRepositoryError, Verdict, MayHaveMoved, SetTask, Handed, Working, repository
  <1>3. phase' = phase /\ ready' = ready /\ msg' = msg /\ snap' = snap
    BY DEF WorkerRepositoryError, handlers, queue
  <1> QED  BY <1>1, <1>2, <1>3, MoveLife, QuietLife DEF LifeInv

\* BackoffEnds keeps LifeInv.
LEMMA BackoffEndsLife == ASSUME TypeInv, LifeInv, NEW p \in Procs, BackoffEnds(p) PROVE LifeInv'
  <1>1. Task(p) \in Tasks /\ Live(Task(p)) /\ \A q \in Procs : snap[q] \in Working
    BY HolderLife DEF BackoffEnds, Busy, LifeInv
  <1>2. \/ status' = status
        \/ \E s \in Handed : status' = [status EXCEPT ![Task(p)] = s]
    BY <1>1 DEF BackoffEnds, Finish, SetTask, Handed, Working, repository
  <1>3. phase' = phase /\ ready' = ready /\ msg' = msg /\ snap' = snap
    BY DEF BackoffEnds, handlers, queue
  <1> QED  BY <1>1, <1>2, <1>3, MoveLife, QuietLife DEF LifeInv

\* Dequeue keeps LifeInv.
LEMMA DequeueLife == ASSUME TypeInv, LifeInv, NEW p \in Procs, Dequeue(p) PROVE LifeInv'
  <1>1. status' = status /\ phase' = phase
    BY DEF Dequeue, repository, handlers
  <1>2. \A m \in ready' : Live(m.task)
    BY HolderLife, TypeParts DEF LifeInv, Dequeue, Goto
  <1>3. \A q \in Procs : msg'[q] # NoMessage => Live(msg'[q].task)
    BY TypeParts DEF LifeInv, Dequeue, Goto, WorkerOK
  <1>4. \A q \in Procs : snap'[q] \in Working
    BY HolderLife, TypeParts DEF LifeInv, Dequeue, Goto, WorkerOK
  <1> QED  BY <1>1, <1>2, <1>3, <1>4, QuietLife

\* Load keeps LifeInv.
LEMMA LoadLife == ASSUME TypeInv, LifeInv, NEW p \in Procs, Load(p) PROVE LifeInv'
  <1>1. status' = status /\ phase' = phase
    BY DEF Load, repository, handlers
  <1>2. \A m \in ready' : Live(m.task)
    BY HolderLife, TypeParts
       DEF LifeInv, Load, Finish, Goto, handlers, queue, repository, Handed, Working,
           TerminalStates, Live, Busy, WorkerOK
  <1>3. \A q \in Procs : msg'[q] # NoMessage => Live(msg'[q].task)
    BY TypeParts
       DEF LifeInv, Load, Finish, Goto, handlers, queue, repository, Handed, Working,
           TerminalStates, Live, Busy, WorkerOK
  <1>4. \A q \in Procs : snap'[q] \in Working
    BY HolderLife, TypeParts
       DEF LifeInv, Load, Finish, Goto, handlers, queue, repository, Handed, Working,
           TerminalStates, Live, Busy, WorkerOK
  <1> QED  BY <1>1, <1>2, <1>3, <1>4, QuietLife

\* CallUnavailable keeps LifeInv.
LEMMA CallUnavailableLife ==
  ASSUME TypeInv, LifeInv, NEW p \in Procs, CallUnavailable(p)
  PROVE  LifeInv'
  <1>1. status' = status /\ phase' = phase
    BY DEF CallUnavailable, repository, handlers
  <1>2. \A m \in ready' : Live(m.task)
    BY HolderLife, TypeParts DEF LifeInv, CallUnavailable, queue, repository, handlers
  <1>3. \A q \in Procs : msg'[q] # NoMessage => Live(msg'[q].task)
    BY TypeParts DEF LifeInv, CallUnavailable, queue, repository, handlers, WorkerOK
  <1>4. \A q \in Procs : snap'[q] \in Working
    BY HolderLife, TypeParts DEF LifeInv, CallUnavailable, queue, repository, handlers, WorkerOK
  <1> QED  BY <1>1, <1>2, <1>3, <1>4, QuietLife

\* CallRejected keeps LifeInv.
LEMMA CallRejectedLife == ASSUME TypeInv, LifeInv, NEW p \in Procs, CallRejected(p) PROVE LifeInv'
  <1>1. status' = status /\ phase' = phase
    BY DEF CallRejected, repository, handlers
  <1>2. \A m \in ready' : Live(m.task)
    BY HolderLife, TypeParts DEF LifeInv, CallRejected, queue, repository, handlers
  <1>3. \A q \in Procs : msg'[q] # NoMessage => Live(msg'[q].task)
    BY TypeParts DEF LifeInv, CallRejected, queue, repository, handlers, WorkerOK
  <1>4. \A q \in Procs : snap'[q] \in Working
    BY HolderLife, TypeParts DEF LifeInv, CallRejected, queue, repository, handlers, WorkerOK
  <1> QED  BY <1>1, <1>2, <1>3, <1>4, QuietLife

\* Requeue keeps LifeInv.
LEMMA RequeueLife == ASSUME TypeInv, LifeInv, NEW p \in Procs, Requeue(p) PROVE LifeInv'
  <1>1. status' = status /\ phase' = phase
    BY DEF Requeue, repository, handlers
  <1>2. \A m \in ready' : Live(m.task)
    BY HolderLife, TypeParts DEF LifeInv, Requeue, Put, repository, handlers, Busy
  <1>3. \A q \in Procs : msg'[q] # NoMessage => Live(msg'[q].task)
    BY TypeParts DEF LifeInv, Requeue, Put, repository, handlers, Busy, WorkerOK
  <1>4. \A q \in Procs : snap'[q] \in Working
    BY HolderLife, TypeParts DEF LifeInv, Requeue, Put, repository, handlers, Busy, WorkerOK
  <1> QED  BY <1>1, <1>2, <1>3, <1>4, QuietLife

\* Bury keeps LifeInv.
LEMMA BuryLife == ASSUME TypeInv, LifeInv, NEW p \in Procs, Bury(p) PROVE LifeInv'
  <1>1. status' = status /\ phase' = phase
    BY DEF Bury, repository, handlers
  <1>2. \A m \in ready' : Live(m.task)
    BY HolderLife, TypeParts DEF LifeInv, Bury, repository, handlers
  <1>3. \A q \in Procs : msg'[q] # NoMessage => Live(msg'[q].task)
    BY TypeParts DEF LifeInv, Bury, repository, handlers, WorkerOK
  <1>4. \A q \in Procs : snap'[q] \in Working
    BY HolderLife, TypeParts DEF LifeInv, Bury, repository, handlers, WorkerOK
  <1> QED  BY <1>1, <1>2, <1>3, <1>4, QuietLife

\* Ack keeps LifeInv.
LEMMA AckLife == ASSUME TypeInv, LifeInv, NEW p \in Procs, Ack(p) PROVE LifeInv'
  <1>1. status' = status /\ phase' = phase
    BY DEF Ack, repository, handlers
  <1>2. \A m \in ready' : Live(m.task)
    BY HolderLife, TypeParts
       DEF LifeInv, Ack, Forget, queue, repository, handlers, Working, WorkerOK
  <1>3. \A q \in Procs : msg'[q] # NoMessage => Live(msg'[q].task)
    BY TypeParts DEF LifeInv, Ack, Forget, queue, repository, handlers, Working, WorkerOK, WorkerOK
  <1>4. \A q \in Procs : snap'[q] \in Working
    BY HolderLife, TypeParts
       DEF LifeInv, Ack, Forget, queue, repository, handlers, Working, WorkerOK
  <1> QED  BY <1>1, <1>2, <1>3, <1>4, QuietLife

\* Restart keeps LifeInv.
LEMMA RestartLife == ASSUME TypeInv, LifeInv, NEW p \in Procs, Restart(p) PROVE LifeInv'
  <1>1. status' = status /\ phase' = phase
    BY DEF Restart, repository, handlers
  <1>2. \A m \in ready' : Live(m.task)
    BY HolderLife, TypeParts DEF LifeInv, Restart, queue, repository, handlers
  <1>3. \A q \in Procs : msg'[q] # NoMessage => Live(msg'[q].task)
    BY TypeParts DEF LifeInv, Restart, queue, repository, handlers, WorkerOK
  <1>4. \A q \in Procs : snap'[q] \in Working
    BY HolderLife, TypeParts DEF LifeInv, Restart, queue, repository, handlers, WorkerOK
  <1> QED  BY <1>1, <1>2, <1>3, <1>4, QuietLife

\* Shutdown keeps LifeInv.
LEMMA ShutdownLife == ASSUME TypeInv, LifeInv, NEW p \in Procs, Shutdown(p) PROVE LifeInv'
  <1>1. status' = status /\ phase' = phase
    BY DEF Shutdown, repository, handlers
  <1>2. \A m \in ready' : Live(m.task)
    BY HolderLife, TypeParts
       DEF LifeInv, Shutdown, Release, Forget, queue, repository, handlers, Working, WorkerOK
  <1>3. \A q \in Procs : msg'[q] # NoMessage => Live(msg'[q].task)
    BY TypeParts
       DEF LifeInv, Shutdown, Release, Forget, queue, repository, handlers, Working, WorkerOK
  <1>4. \A q \in Procs : snap'[q] \in Working
    BY HolderLife, TypeParts
       DEF LifeInv, Shutdown, Release, Forget, queue, repository, handlers, Working, WorkerOK
  <1> QED  BY <1>1, <1>2, <1>3, <1>4, QuietLife

\* WorkerBrokerError keeps LifeInv.
LEMMA WorkerBrokerErrorLife ==
  ASSUME TypeInv, LifeInv, NEW p \in Procs, WorkerBrokerError(p)
  PROVE  LifeInv'
  <1>1. status' = status /\ phase' = phase
    BY DEF WorkerBrokerError, repository, handlers
  <1>2. \A m \in ready' : Live(m.task)
    BY HolderLife, TypeParts DEF LifeInv, WorkerBrokerError, Put, queue, repository, handlers, Busy
  <1>3. \A q \in Procs : msg'[q] # NoMessage => Live(msg'[q].task)
    BY TypeParts DEF LifeInv, WorkerBrokerError, Put, queue, repository, handlers, Busy, WorkerOK
  <1>4. \A q \in Procs : snap'[q] \in Working
    BY HolderLife, TypeParts
       DEF LifeInv, WorkerBrokerError, Put, queue, repository, handlers, Busy, WorkerOK
  <1> QED  BY <1>1, <1>2, <1>3, <1>4, QuietLife

\* Rebalance keeps LifeInv.
LEMMA RebalanceLife == ASSUME TypeInv, LifeInv, NEW p \in Procs, Rebalance(p) PROVE LifeInv'
  <1>1. status' = status /\ phase' = phase
    BY DEF Rebalance, repository, handlers
  <1>2. \A m \in ready' : Live(m.task)
    BY HolderLife, TypeParts DEF LifeInv, Rebalance, repository, handlers
  <1>3. \A q \in Procs : msg'[q] # NoMessage => Live(msg'[q].task)
    BY TypeParts DEF LifeInv, Rebalance, repository, handlers, WorkerOK
  <1>4. \A q \in Procs : snap'[q] \in Working
    BY HolderLife, TypeParts DEF LifeInv, Rebalance, repository, handlers, WorkerOK
  <1> QED  BY <1>1, <1>2, <1>3, <1>4, QuietLife

\* No task exists and no message does.
LEMMA LifeInit == Init => LifeInv
  BY DEF Init, LifeInv, PhaseInv, Working

\* CreateTask keeps LifeInv.
LEMMA CreateTaskLife == ASSUME TypeInv, LifeInv, NEW t \in Tasks, CreateTask(t) PROVE LifeInv'
  <1>1. PhaseInv'
    BY TypeParts
       DEF LifeInv, PhaseInv, CreateTask, SetTask, queue, worker, RepositoryOK, HandlersOK,
           Handed, Working
  <1>2. \A u \in Tasks : Live(u) => Live(u)'
    BY TypeParts DEF Live, CreateTask, SetTask, queue, worker, RepositoryOK, HandlersOK
  <1>3. \A m \in ready' : Live(m.task)'
    BY <1>2, TypeParts
       DEF LifeInv, PhaseInv, Live, CreateTask, SetTask, queue, worker, QueueOK, HandlersOK,
           Messages, Handed, Working
  <1>4. (\A q \in Procs : msg[q] # NoMessage => Live(msg[q].task))'
    BY <1>2, TypeParts DEF LifeInv, CreateTask, SetTask, queue, worker, WorkerOK, Messages
  <1> QED  BY <1>1, <1>3, <1>4 DEF LifeInv, CreateTask, worker

\* MarkQueued keeps LifeInv.
LEMMA MarkQueuedLife == ASSUME TypeInv, LifeInv, NEW t \in Tasks, MarkQueued(t) PROVE LifeInv'
  <1>1. PhaseInv'
    BY TypeParts
       DEF LifeInv, PhaseInv, MarkQueued, SetTask, queue, worker, RepositoryOK, HandlersOK,
           Handed, Working
  <1>2. \A u \in Tasks : Live(u) => Live(u)'
    BY TypeParts DEF Live, MarkQueued, SetTask, queue, worker, RepositoryOK, HandlersOK
  <1>3. \A m \in ready' : Live(m.task)'
    BY <1>2, TypeParts
       DEF LifeInv, PhaseInv, Live, MarkQueued, SetTask, queue, worker, QueueOK, HandlersOK,
           Messages, Handed, Working
  <1>4. (\A q \in Procs : msg[q] # NoMessage => Live(msg[q].task))'
    BY <1>2, TypeParts DEF LifeInv, MarkQueued, SetTask, queue, worker, WorkerOK, Messages
  <1> QED  BY <1>1, <1>3, <1>4 DEF LifeInv, MarkQueued, worker

\* EnqueueTask keeps LifeInv.
LEMMA EnqueueTaskLife == ASSUME TypeInv, LifeInv, NEW t \in Tasks, EnqueueTask(t) PROVE LifeInv'
  <1>1. PhaseInv'
    BY TypeParts
       DEF LifeInv, PhaseInv, EnqueueTask, Put, repository, worker, RepositoryOK, HandlersOK,
           Handed, Working
  <1>2. \A u \in Tasks : Live(u) => Live(u)'
    BY TypeParts DEF Live, EnqueueTask, Put, repository, worker, RepositoryOK, HandlersOK
  <1>3. \A m \in ready' : Live(m.task)'
    BY <1>2, TypeParts
       DEF LifeInv, PhaseInv, Live, EnqueueTask, Put, repository, worker, QueueOK, HandlersOK,
           Messages, Handed, Working
  <1>4. (\A q \in Procs : msg[q] # NoMessage => Live(msg[q].task))'
    BY <1>2, TypeParts DEF LifeInv, EnqueueTask, Put, repository, worker, WorkerOK, Messages
  <1> QED  BY <1>1, <1>3, <1>4 DEF LifeInv, EnqueueTask, worker

\* CreateBrokerError keeps LifeInv.
LEMMA CreateBrokerErrorLife ==
  ASSUME TypeInv, LifeInv, NEW t \in Tasks, CreateBrokerError(t)
  PROVE  LifeInv'
  <1>1. PhaseInv'
    BY TypeParts
       DEF LifeInv, PhaseInv, CreateBrokerError, Put, queue, repository, worker, RepositoryOK,
           HandlersOK, Handed, Working
  <1>2. \A u \in Tasks : Live(u) => Live(u)'
    BY TypeParts
       DEF Live, CreateBrokerError, Put, queue, repository, worker, RepositoryOK, HandlersOK
  <1>3. \A m \in ready' : Live(m.task)'
    BY <1>2, TypeParts
       DEF LifeInv, PhaseInv, Live, CreateBrokerError, Put, queue, repository, worker, QueueOK,
           HandlersOK, Messages, Handed, Working
  <1>4. (\A q \in Procs : msg[q] # NoMessage => Live(msg[q].task))'
    BY <1>2, TypeParts
       DEF LifeInv, CreateBrokerError, Put, queue, repository, worker, WorkerOK, Messages
  <1> QED  BY <1>1, <1>3, <1>4 DEF LifeInv, CreateBrokerError, worker

\* CreateRepositoryError keeps LifeInv.
LEMMA CreateRepositoryErrorLife ==
  ASSUME TypeInv, LifeInv, NEW t \in Tasks, CreateRepositoryError(t)
  PROVE  LifeInv'
  <1>1. /\ phase[t] \in {"none", "created"} /\ phase' = [phase EXCEPT ![t] = "broken"]
        /\ status' = status \/ \E s \in Statuses : status' = [status EXCEPT ![t] = s]
    BY DEF CreateRepositoryError, MayHaveMoved, SetTask, repository, Statuses, ActiveStates
  <1>2. PhaseInv'
    BY <1>1, TypeParts DEF LifeInv, PhaseInv, RepositoryOK, HandlersOK
  <1>3. \A u \in Tasks : Live(u) => Live(u)'
    BY <1>1, TypeParts DEF Live, RepositoryOK, HandlersOK
  <1>4. (\A m \in ready : Live(m.task))'
    BY <1>3, TypeParts DEF LifeInv, CreateRepositoryError, queue, QueueOK, Messages
  <1>5. (\A q \in Procs : msg[q] # NoMessage => Live(msg[q].task))'
    BY <1>3, TypeParts DEF LifeInv, CreateRepositoryError, worker, WorkerOK, Messages
  <1> QED  BY <1>2, <1>4, <1>5 DEF LifeInv, CreateRepositoryError, worker

\* Crash keeps LifeInv.
LEMMA CrashLife == ASSUME TypeInv, LifeInv, NEW p \in Procs, Crash(p) PROVE LifeInv'
  <1>1. PhaseInv'
    BY TypeParts DEF LifeInv, PhaseInv, Crash, BreakHandlers, repository
  <1>2. \A u \in Tasks : Live(u) => Live(u)'
    BY TypeParts DEF Live, Crash, BreakHandlers, repository
  <1>3. \A m \in ready' : Live(m.task)'
    BY <1>2, TypeParts DEF LifeInv, Crash, Release, QueueOK, WorkerOK, Messages
  <1>4. (\A q \in Procs : /\ msg[q] # NoMessage => Live(msg[q].task)
                          /\ snap[q] \in Working)'
    BY <1>2, TypeParts DEF LifeInv, Crash, Forget, WorkerOK, Messages, Working
  <1> QED  BY <1>1, <1>3, <1>4 DEF LifeInv

\* LifeInv reads nothing but the variables.
LEMMA LifeStutter == ASSUME LifeInv, UNCHANGED vars \/ StoreApplies PROVE LifeInv'
  BY DEF LifeInv, PhaseInv, Live, vars, StoreApplies, repository, handlers, queue, worker

\* Every step keeps LifeInv, one lemma per action.
LEMMA LifeStep == TypeInv /\ LifeInv /\ [Next]_vars => LifeInv'
  <1> SUFFICES ASSUME TypeInv, LifeInv, [Next]_vars PROVE LifeInv'
    OBVIOUS
  <1>1. ASSUME NEW t \in Tasks, Handler(t) \/ HandlerFault(t) PROVE LifeInv'
    BY <1>1, CreateTaskLife, MarkQueuedLife, EnqueueTaskLife, CreateBrokerErrorLife,
       CreateRepositoryErrorLife
       DEF Handler, HandlerFault
  <1>2. ASSUME NEW p \in Procs, Work(p) PROVE LifeInv'
    BY <1>2, DequeueLife, LoadLife, StartLife, BeginLife, PreprocessOkLife, EmbedOkLife,
       UpsertOkLife, CallUnavailableLife, CallRejectedLife, HandleErrorLife, BackoffEndsLife,
       RequeueLife, BuryLife, AckLife
       DEF Work
  <1>3. ASSUME NEW p \in Procs, ProcFault(p) PROVE LifeInv'
    BY <1>3, CrashLife, RestartLife, ShutdownLife, WorkerBrokerErrorLife, StageErrorLife,
       WorkerRepositoryErrorLife, RebalanceLife
       DEF ProcFault
  <1> QED  BY <1>1, <1>2, <1>3, LifeStutter DEF Next

Inv == TypeInv /\ LifeInv

\* The conjunction of TypeInv and LifeInv is inductive, so it holds in every
\* reachable state of the orchestrator.
THEOREM InductiveInv == Spec => []Inv
  <1>1. Init => Inv
    BY TypeInit, LifeInit DEF Inv
  <1>2. Inv /\ [Next]_vars => Inv'
    BY TypeStep, LifeStep DEF Inv
  <1> QED  BY <1>1, <1>2, PTL DEF Spec
-----------------------------------------------------------------------------
\* A step writes the status of at most one task: a handler opens its own task,
\* a worker moves the task of its message to a status the table allows.
LEMMA StatusWrites ==
  ASSUME Inv, [Next]_vars, NEW t \in Tasks, status'[t] # status[t]
  PROVE  \/ status[t] = "absent" /\ status'[t] = "accepted"
         \/ MayMove(status[t], status'[t]) /\ status'[t] \in Handed
  <1>1. TypeInv /\ LifeInv
    BY DEF Inv
  <1>2. ASSUME NEW u \in Tasks, Handler(u) \/ HandlerFault(u)
        PROVE  \/ status[t] = "absent" /\ status'[t] = "accepted"
               \/ MayMove(status[t], status'[t]) /\ status'[t] \in Handed
    <2>1. CASE Handler(u) \/ CreateBrokerError(u)
      BY <1>1, <2>1, TypeParts
         DEF Handler, CreateTask, MarkQueued, EnqueueTask, CreateBrokerError, SetTask, repository,
             RepositoryOK, LifeInv, PhaseInv, Handed, Working
    <2>2. CASE CreateRepositoryError(u)
      BY <1>1, <2>2, TypeParts
         DEF CreateRepositoryError, MayHaveMoved, SetTask, repository,
             RepositoryOK, LifeInv, PhaseInv, Handed, Working
    <2> QED  BY <1>2, <2>1, <2>2 DEF HandlerFault
  <1>3. ASSUME NEW p \in Procs, Work(p)
        PROVE  MayMove(status[t], status'[t]) /\ status'[t] \in Handed
    <2>1. \A q \in Procs : snap[q] \in Handed
      BY <1>1 DEF LifeInv, Handed
    <2>2. CASE Start(p) \/ HandleError(p) \/ BackoffEnds(p)
      BY <2>1, <2>2, <1>1, TypeParts
         DEF Start, HandleError, Verdict, BackoffEnds, Finish, SetTask, repository, RepositoryOK,
             Handed, Working
    <2>3. CASE Begin(p) \/ PreprocessOk(p) \/ EmbedOk(p) \/ UpsertOk(p)
      BY <2>3, <1>1, TypeParts
         DEF Begin, PreprocessOk, EmbedOk, UpsertOk, Advance, Raise, SetTask, repository,
             RepositoryOK, Handed, Working
    <2> QED
      BY <1>3, <2>2, <2>3
         DEF Work, Dequeue, Load, CallUnavailable, CallRejected, Requeue, Bury, Ack, repository
  <1>4. ASSUME NEW p \in Procs, ProcFault(p)
        PROVE  MayMove(status[t], status'[t]) /\ status'[t] \in Handed
    <2>1. \A q \in Procs : snap[q] \in Handed
      BY <1>1 DEF LifeInv, Handed
    <2>2. CASE StageError(p)
      BY <2>2, <1>1, TypeParts
         DEF StageError, MayHaveMoved, SetTask, repository, RepositoryOK, Handed, Working
    <2>3. CASE WorkerRepositoryError(p)
      BY <2>1, <2>3, <1>1, TypeParts
         DEF WorkerRepositoryError, Verdict, MayHaveMoved, SetTask, repository, RepositoryOK,
             Handed, Working
    <2> QED
      BY <1>4, <2>2, <2>3
         DEF ProcFault, Crash, Restart, Shutdown, WorkerBrokerError, Rebalance, repository
  <1> QED
    BY <1>2, <1>3, <1>4 DEF Next, StoreApplies, vars, repository

\* A settled task stays settled: no redelivered message, stale worker or late
\* error moves a terminal status, for all the faults of the model.
THEOREM SettledTasksStay == Spec => SettledForever
  <1>1. Inv /\ [Next]_vars
          => [\A t \in Tasks : status[t] \in TerminalStates => status'[t] = status[t]]_vars
    BY StatusWrites, Table DEF TerminalStates
  <1> QED  BY <1>1, InductiveInv, PTL DEF Spec, SettledForever
-----------------------------------------------------------------------------
\* Only an answered upsert writes "succeeded", and the vector store never
\* gives vectors up.
LEMMA StoredStep == Inv /\ SucceededIsStored /\ [Next]_vars => SucceededIsStored'
  <1> SUFFICES ASSUME Inv, SucceededIsStored, [Next]_vars,
                      NEW t \in Tasks, status'[t] = "succeeded"
               PROVE  \E u \in vectors' : u[1] = t
    BY DEF SucceededIsStored
  <1>1. TypeInv /\ LifeInv
    BY DEF Inv
  <1>2. vectors \subseteq vectors'
    BY DEF Next, vars, dataplane, Handler, CreateTask, MarkQueued, EnqueueTask,
           HandlerFault, CreateBrokerError, CreateRepositoryError, Work, Dequeue, Load, Start,
           Begin, PreprocessOk, EmbedOk, UpsertOk, CallUnavailable, CallRejected, HandleError,
           BackoffEnds, Requeue, Bury, Ack, ProcFault, Crash, Restart, Shutdown,
           WorkerBrokerError, StageError, WorkerRepositoryError, Rebalance, StoreApplies
  <1>3. CASE status[t] = "succeeded"
    BY <1>2, <1>3 DEF SucceededIsStored
  <1>4. CASE status[t] # "succeeded"
    <2>1. PICK p \in Procs :
            (UpsertOk(p) \/ (StageError(p) /\ pc[p] = "upsert")) /\ Task(p) = t
      <3>1. ASSUME NEW u \in Tasks, Handler(u) \/ HandlerFault(u) PROVE FALSE
        BY <1>1, <1>4, <3>1, TypeParts
           DEF Handler, CreateTask, MarkQueued, EnqueueTask, HandlerFault, CreateBrokerError,
               CreateRepositoryError, MayHaveMoved, SetTask, repository, RepositoryOK
      <3>2. ASSUME NEW p \in Procs PROVE snap[p] # "succeeded"
        BY <1>1 DEF LifeInv, Working
      <3>3. ASSUME NEW p \in Procs, Work(p) PROVE UpsertOk(p) /\ Task(p) = t
        <4>1. ~(Start(p) \/ HandleError(p) \/ BackoffEnds(p))
          BY <1>1, <1>4, <3>2, TypeParts
             DEF Start, HandleError, Verdict, BackoffEnds, Finish, SetTask, repository,
                 RepositoryOK
        <4>2. ~(Begin(p) \/ PreprocessOk(p) \/ EmbedOk(p))
          BY <1>1, <1>4, TypeParts
             DEF Begin, PreprocessOk, EmbedOk, Advance, Raise, SetTask, repository, RepositoryOK
        <4>3. UpsertOk(p)
          BY <3>3, <1>4, <4>1, <4>2
             DEF Work, Dequeue, Load, CallUnavailable, CallRejected, Requeue, Bury, Ack, repository
        <4> QED
          BY <4>3, <1>1, <1>4, TypeParts
             DEF UpsertOk, Advance, Raise, SetTask, repository, RepositoryOK
      <3>4. ASSUME NEW p \in Procs, ProcFault(p)
            PROVE  StageError(p) /\ pc[p] = "upsert" /\ Task(p) = t
        <4>1. ~WorkerRepositoryError(p)
          BY <1>1, <1>4, <3>2, TypeParts
             DEF WorkerRepositoryError, Verdict, MayHaveMoved, SetTask, repository, RepositoryOK
        <4>2. StageError(p)
          BY <1>4, <3>4, <4>1
             DEF ProcFault, Crash, Restart, Shutdown, WorkerBrokerError, Rebalance, repository
        <4> QED
          BY <1>1, <1>4, <4>2, TypeParts
             DEF StageError, MayHaveMoved, SetTask, repository, RepositoryOK
      <3>5. \/ \E u \in Tasks : Handler(u) \/ HandlerFault(u)
            \/ \E p \in Procs : Work(p) \/ ProcFault(p)
        BY <1>4 DEF Next, StoreApplies, vars, repository
      <3> QED  BY <3>1, <3>3, <3>4, <3>5
    <2>2. <<Task(p), run[p]>> \in vectors
      BY <2>1 DEF UpsertOk, StageError
    <2> QED  BY <2>1, <2>2, <1>2
  <1> QED  BY <1>3, <1>4

\* A task reported as succeeded has its vectors in the vector store.
THEOREM SucceededTasksStored == Spec => []SucceededIsStored
  <1>1. Init => SucceededIsStored
    BY DEF Init, SucceededIsStored
  <1> QED  BY <1>1, StoredStep, InductiveInv, PTL DEF Spec
-----------------------------------------------------------------------------
\* What the queue has to do for an accepted task to be carried on: deliver a
\* dead consumer's message again, if consumers die. Every kind of fault is
\* allowed; those that end a handling for good make NothingCutShort false.
SurvivableFaults == "crash" \in Faults => Redelivers

\* A held message is taken away by a rebalance only.
RevokedInv ==
  (\E p \in Procs : revoked[p]) => \E k \in DOMAIN faults : faults[k] = "rebalance"

\* The record of the faults grows at its end.
LEMMA FaultRecord ==
  ASSUME TypeInv, NEW kind \in FaultKinds, Fault(kind)
  PROVE  /\ Len(faults) \in Nat
         /\ DOMAIN faults = 1..Len(faults) /\ DOMAIN faults' = 1..(Len(faults) + 1)
         /\ faults'[Len(faults) + 1] = kind
         /\ \A k \in 1..Len(faults) : faults'[k] = faults[k]
  <1>1. faults \in Seq(FaultKinds) /\ faults' = Append(faults, kind)
    BY TypeParts DEF FaultsOK, Fault
  <1> QED  BY <1>1

\* A step records one fault or none.
LEMMA FaultSteps ==
  ASSUME [Next]_vars
  PROVE  faults' = faults \/ \E kind \in FaultKinds : Fault(kind)
  BY DEF Next, vars, Handler, CreateTask, MarkQueued, EnqueueTask, HandlerFault,
         CreateBrokerError, CreateRepositoryError, Work, Dequeue, Load, Start, Begin, PreprocessOk,
         EmbedOk, UpsertOk, CallUnavailable, CallRejected, HandleError, BackoffEnds, Requeue, Bury,
         Ack, ProcFault, Crash, Restart, Shutdown, WorkerBrokerError, StageError,
         WorkerRepositoryError, Rebalance, StoreApplies, FaultKinds

\* Only a rebalance takes a held message away.
LEMMA OnlyRebalanceRevokes ==
  ASSUME TypeInv, [Next]_vars, \A p \in Procs : ~Rebalance(p), NEW q \in Procs, revoked'[q]
  PROVE  revoked[q]
  <1>1. ASSUME NEW t \in Tasks, Handler(t) \/ HandlerFault(t) PROVE revoked' = revoked
    BY <1>1 DEF Handler, CreateTask, MarkQueued, EnqueueTask, HandlerFault, CreateBrokerError,
                CreateRepositoryError, worker
  <1>2. ASSUME NEW p \in Procs, Work(p) PROVE revoked[q]
    BY <1>2, TypeParts
       DEF Work, Dequeue, Load, Start, Begin, PreprocessOk, EmbedOk, UpsertOk, CallUnavailable,
           CallRejected, HandleError, BackoffEnds, Requeue, Bury, Ack, Forget, WorkerOK
  <1>3. ASSUME NEW p \in Procs, ProcFault(p) PROVE revoked[q]
    BY <1>3, TypeParts
       DEF ProcFault, Crash, Restart, Shutdown, WorkerBrokerError, StageError,
           WorkerRepositoryError, Forget, WorkerOK
  <1> QED  BY <1>1, <1>2, <1>3 DEF Next, StoreApplies, vars, worker

\* So whatever is revoked has a rebalance in the record.
LEMMA RevokedStep == TypeInv /\ RevokedInv /\ [Next]_vars => RevokedInv'
  <1> SUFFICES ASSUME TypeInv, RevokedInv, [Next]_vars, NEW q \in Procs, revoked'[q]
               PROVE  \E k \in DOMAIN faults' : faults'[k] = "rebalance"
    BY DEF RevokedInv
  <1>1. CASE \E p \in Procs : Rebalance(p)
    <2>1. Fault("rebalance") /\ "rebalance" \in FaultKinds
      BY <1>1 DEF Rebalance, FaultKinds
    <2>2. /\ Len(faults) \in Nat /\ DOMAIN faults' = 1..(Len(faults) + 1)
          /\ faults'[Len(faults) + 1] = "rebalance"
      BY <2>1, FaultRecord
    <2> QED  BY <2>2
  <1>2. CASE \A p \in Procs : ~Rebalance(p)
    <2>1. revoked[q]
      BY <1>2, OnlyRebalanceRevokes
    <2>2. PICK k \in DOMAIN faults : faults[k] = "rebalance"
      BY <2>1 DEF RevokedInv
    <2>3. CASE faults' = faults
      BY <2>2, <2>3
    <2>4. CASE \E kind \in FaultKinds : Fault(kind)
      <3>1. /\ Len(faults) \in Nat /\ DOMAIN faults = 1..Len(faults)
            /\ DOMAIN faults' = 1..(Len(faults) + 1)
            /\ \A j \in 1..Len(faults) : faults'[j] = faults[j]
        BY <2>4, FaultRecord
      <3> QED  BY <2>2, <3>1
    <2> QED  BY <2>3, <2>4, FaultSteps
  <1> QED  BY <1>1, <1>2

\* A handling that was cut short stays in the record of the faults.
LEMMA CutShortStays ==
  ASSUME TypeInv, RevokedInv, [Next]_vars, NothingCutShort'
  PROVE  /\ NothingCutShort
         /\ \A p \in Procs : /\ ~Shutdown(p) /\ ~WorkerBrokerError(p) /\ ~WorkerRepositoryError(p)
                             /\ Crash(p) => \A q \in Procs : ~revoked[q]
         /\ \A t \in Tasks : ~CreateBrokerError(t)
  <1>1. ASSUME NEW kind \in FaultKinds, Fault(kind)
        PROVE  /\ NothingCutShort
               /\ kind \notin {"shutdown", "broker", "uncaught"}
               /\ kind = "crash" => \A k \in DOMAIN faults : faults[k] # "rebalance"
    <2>1. /\ Len(faults) \in Nat
          /\ DOMAIN faults = 1..Len(faults) /\ DOMAIN faults' = 1..(Len(faults) + 1)
          /\ faults'[Len(faults) + 1] = kind
          /\ \A k \in 1..Len(faults) : faults'[k] = faults[k]
      BY <1>1, FaultRecord
    <2>2. \A k \in 1..(Len(faults) + 1) :
            /\ faults'[k] \notin {"shutdown", "broker", "uncaught"}
            /\ faults'[k] = "crash" => \A j \in 1..(k - 1) : faults'[j] # "rebalance"
      BY <2>1 DEF NothingCutShort, CutsShort
    <2>3. NothingCutShort
      <3> SUFFICES ASSUME NEW k \in DOMAIN faults PROVE ~CutsShort(k)
        BY DEF NothingCutShort
      <3>1. k \in 1..(Len(faults) + 1) /\ faults'[k] = faults[k]
        BY <2>1
      <3>2. \A j \in 1..(k - 1) : faults'[j] = faults[j]
        BY <2>1
      <3> QED  BY <2>2, <3>1, <3>2 DEF CutsShort
    <2>4. kind \notin {"shutdown", "broker", "uncaught"}
      BY <2>1, <2>2
    <2>5. ASSUME kind = "crash", NEW k \in DOMAIN faults PROVE faults[k] # "rebalance"
      <3>1. k \in 1..((Len(faults) + 1) - 1) /\ Len(faults) + 1 \in 1..(Len(faults) + 1)
        BY <2>1
      <3> QED  BY <2>1, <2>2, <2>5, <3>1
    <2> QED  BY <2>3, <2>4, <2>5
  <1>2. \A p \in Procs : ~Shutdown(p) /\ ~WorkerBrokerError(p) /\ ~WorkerRepositoryError(p)
    BY <1>1 DEF Shutdown, WorkerBrokerError, WorkerRepositoryError, FaultKinds
  <1>3. \A t \in Tasks : ~CreateBrokerError(t)
    BY <1>1 DEF CreateBrokerError, FaultKinds
  <1>4. ASSUME NEW p \in Procs, Crash(p) PROVE \A q \in Procs : ~revoked[q]
    BY <1>1, <1>4 DEF Crash, FaultKinds, RevokedInv
  <1>5. NothingCutShort
    BY <1>1, FaultSteps DEF NothingCutShort, CutsShort
  <1> QED  BY <1>2, <1>3, <1>4, <1>5

\* A step of worker p keeps t carried if it loses no message and p, when it
\* was or becomes responsible for t, stays so.
LEMMA Bystanders ==
  ASSUME NEW p \in Procs, NEW t \in Tasks, Carried(t), ready \subseteq ready',
         \A q \in Procs \ {p} : pc'[q] = pc[q] /\ msg'[q] = msg[q] /\ snap'[q] = snap[q],
         (status'[t] = status[t] /\ ~WillSettle(p, t)) \/ WillSettle(p, t)'
  PROVE  Carried(t)'
  <1>1. CASE Waiting(t)
    BY <1>1 DEF Waiting, Carried
  <1>2. ASSUME NEW q \in Procs, WillSettle(q, t) PROVE Carried(t)'
    <2>1. CASE q = p
      BY <1>2, <2>1 DEF Carried
    <2>2. CASE q # p
      BY <1>2, <2>2 DEF WillSettle, Carried
    <2> QED  BY <2>1, <2>2
  <1> QED  BY <1>1, <1>2 DEF Carried

\* A worker step touches no handler and no other worker.
LEMMA Frames ==
  ASSUME TypeInv, NEW p \in Procs, Work(p)
  PROVE  /\ phase' = phase
         /\ \A q \in Procs \ {p} : pc'[q] = pc[q] /\ msg'[q] = msg[q] /\ snap'[q] = snap[q]
  <1>1. CASE Dequeue(p) \/ Load(p) \/ Start(p) \/ HandleError(p) \/ BackoffEnds(p)
    BY <1>1, TypeParts
       DEF Dequeue, Load, Start, HandleError, BackoffEnds, Goto, Finish, handlers, WorkerOK
  <1>2. CASE Begin(p) \/ PreprocessOk(p) \/ EmbedOk(p) \/ UpsertOk(p)
    BY <1>2, TypeParts
       DEF Begin, PreprocessOk, EmbedOk, UpsertOk, Advance, Raise, Goto, handlers, WorkerOK
  <1>3. CASE CallUnavailable(p) \/ CallRejected(p) \/ Requeue(p) \/ Bury(p) \/ Ack(p)
    BY <1>3, TypeParts
       DEF CallUnavailable, CallRejected, Requeue, Bury, Ack, Raise, Goto, Finish, Forget,
           handlers, WorkerOK
  <1> QED  BY <1>1, <1>2, <1>3 DEF Work

\* A worker step leaves every accepted task settled or carried.
LEMMA WorkKeepsCarried ==
  ASSUME Inv, NEW p \in Procs, Work(p), NEW t \in Tasks, Carried(t),
         status[t] \in Working, status'[t] \in Working
  PROVE  Carried(t)'
  <1>1. TypeInv /\ LifeInv
    BY DEF Inv
  <1>2. \A q \in Procs \ {p} : pc'[q] = pc[q] /\ msg'[q] = msg[q] /\ snap'[q] = snap[q]
    BY <1>1, Frames
  <1>3. pc[p] \in Busy => Task(p) \in Tasks /\ msg[p] # NoMessage
    BY <1>1, HolderLife, NoMessageApart
  <1>4. CASE Dequeue(p)
    <2>1. PICK m \in ready : ready' = ready \ {m} /\ msg' = [msg EXCEPT ![p] = m] /\ pc[p] = "idle"
      BY <1>4 DEF Dequeue
    <2>2. CASE m.task = t
      BY <1>1, <1>4, <2>1, <2>2, TypeParts, NoMessageApart
         DEF Dequeue, Goto, Carried, WillSettle, WorkerOK, QueueOK
    <2>3. CASE m.task # t
      <3>1. ~WillSettle(p, t) /\ status' = status
        BY <1>4, <2>1 DEF WillSettle, Dequeue, repository
      <3> QED  BY <1>2, <2>1, <2>3, <3>1 DEF Carried, Waiting, WillSettle
    <2> QED  BY <2>2, <2>3
  <1>5. CASE Load(p)
    BY <1>1, <1>2, <1>3, <1>5, Bystanders, Table, TypeParts
       DEF Load, Goto, Finish, WillSettle, Task, Busy, repository, queue, WorkerOK
  <1>6. CASE Start(p)
    BY <1>1, <1>2, <1>3, <1>6, Bystanders, TypeParts
       DEF Start, Goto, Finish, SetTask, WillSettle, Task, Busy, repository, queue, WorkerOK,
           RepositoryOK
  <1>7. CASE Begin(p)
    BY <1>1, <1>2, <1>3, <1>7, Bystanders, TypeParts
       DEF Begin, Advance, Raise, Goto, SetTask, WillSettle, Task, Busy, repository, queue,
           WorkerOK, RepositoryOK
  <1>8. CASE PreprocessOk(p)
    BY <1>1, <1>2, <1>3, <1>8, Bystanders, TypeParts
       DEF PreprocessOk, Advance, Raise, Goto, SetTask, WillSettle, Task, Busy, repository, queue,
           WorkerOK, RepositoryOK
  <1>9. CASE EmbedOk(p)
    BY <1>1, <1>2, <1>3, <1>9, Bystanders, TypeParts
       DEF EmbedOk, Advance, Raise, Goto, SetTask, WillSettle, Task, Busy, repository, queue,
           WorkerOK, RepositoryOK
  <1>10. CASE UpsertOk(p)
    BY <1>1, <1>2, <1>3, <1>10, Bystanders, TypeParts
       DEF UpsertOk, Advance, Raise, Goto, SetTask, WillSettle, Task, Busy, repository, queue,
           WorkerOK, RepositoryOK, Working
  <1>11. CASE CallUnavailable(p) \/ CallRejected(p)
    BY <1>1, <1>2, <1>3, <1>11, Bystanders, TypeParts
       DEF CallUnavailable, CallRejected, Raise, Goto, WillSettle, Task, Busy, repository, queue,
           WorkerOK
  <1>12. CASE HandleError(p)
    BY <1>1, <1>2, <1>3, <1>12, Bystanders, Table, TypeParts
       DEF HandleError, Verdict, Goto, Finish, SetTask, WillSettle, Task, Busy, repository, queue,
           WorkerOK, RepositoryOK, Working
  <1>13. CASE BackoffEnds(p)
    BY <1>1, <1>2, <1>3, <1>13, Bystanders, TypeParts
       DEF BackoffEnds, Goto, Finish, SetTask, WillSettle, Task, Busy, repository, queue,
           WorkerOK, RepositoryOK
  <1>14. CASE Requeue(p)
    <2>1. CASE Task(p) = t
      <3> DEFINE m == [id |-> nextId, task |-> t, attempt |-> msg[p].attempt + 1]
      <3>1. m \in ready' /\ m.task = t
        BY <1>14, <2>1 DEF Requeue, Put
      <3> QED  BY <3>1 DEF Carried, Waiting
    <2>2. CASE Task(p) # t
      BY <1>1, <1>2, <1>14, <2>2, Bystanders, TypeParts
         DEF Requeue, Put, Goto, Finish, WillSettle, Task, repository, WorkerOK
    <2> QED  BY <2>1, <2>2
  <1>15. CASE Bury(p) \/ Ack(p)
    BY <1>1, <1>2, <1>15, Bystanders, TypeParts
       DEF Bury, Ack, WillSettle, Task, repository, queue, WorkerOK
  <1> QED
    BY <1>4, <1>5, <1>6, <1>7, <1>8, <1>9, <1>10, <1>11, <1>12, <1>13, <1>14, <1>15 DEF Work

\* So does a fault that does not end a handling half way.
LEMMA FaultKeepsCarried ==
  ASSUME Inv, SurvivableFaults, NEW p \in Procs, ProcFault(p),
         ~Shutdown(p), ~WorkerBrokerError(p), ~WorkerRepositoryError(p),
         Crash(p) => ~revoked[p], NEW t \in Tasks, Carried(t)
  PROVE  Carried(t)'
  <1>1. TypeInv /\ LifeInv
    BY DEF Inv
  <1>2. CASE Crash(p)
    <2>1. Redelivers /\ ~revoked[p]
      BY <1>2 DEF Crash, Fault, SurvivableFaults
    <2>2. ready \subseteq ready' /\ (msg[p] # NoMessage => msg[p] \in ready')
      BY <1>2, <2>1 DEF Crash, Release
    <2>3. \A q \in Procs \ {p} : pc'[q] = pc[q] /\ msg'[q] = msg[q] /\ snap'[q] = snap[q]
      BY <1>1, <1>2, TypeParts DEF Crash, Goto, Forget, WorkerOK
    <2>4. CASE WillSettle(p, t)
      BY <2>2, <2>4 DEF WillSettle, Carried, Waiting
    <2>5. CASE ~WillSettle(p, t)
      BY <1>2, <2>2, <2>3, <2>5, Bystanders DEF Crash, repository
    <2> QED  BY <2>4, <2>5
  <1>3. CASE Restart(p)
    <2>1. ready' = ready /\ status' = status /\ msg' = msg /\ snap' = snap
      BY <1>3 DEF Restart, queue, repository
    <2>2. ~WillSettle(p, t) /\ \A q \in Procs \ {p} : pc'[q] = pc[q]
      BY <1>1, <1>3, TypeParts DEF Restart, Goto, WillSettle, WorkerOK
    <2> QED  BY <2>1, <2>2, Bystanders
  <1>4. CASE Rebalance(p)
    BY <1>4 DEF Rebalance, Carried, Waiting, WillSettle, repository
  <1>5. CASE StageError(p)
    <2>1. /\ ready' = ready /\ pc'[p] = "handle" /\ msg' = msg /\ snap' = snap
          /\ \A q \in Procs \ {p} : pc'[q] = pc[q]
          /\ pc[p] \in Busy
      BY <1>1, <1>5, TypeParts DEF StageError, Raise, Goto, queue, WorkerOK, Busy
    <2>2. Task(p) \in Tasks /\ msg[p] # NoMessage
      BY <1>1, <2>1, HolderLife, NoMessageApart
    <2>3. CASE Task(p) = t
      BY <2>1, <2>2, <2>3, Bystanders DEF WillSettle, Task
    <2>4. CASE Task(p) # t
      <3>1. status'[t] = status[t] /\ ~WillSettle(p, t)
        BY <1>1, <1>5, <2>4, TypeParts
           DEF StageError, MayHaveMoved, SetTask, repository, RepositoryOK, WillSettle, Task
      <3> QED  BY <2>1, <3>1, Bystanders
    <2> QED  BY <2>3, <2>4
  <1> QED  BY <1>2, <1>3, <1>4, <1>5 DEF ProcFault

\* Every step keeps NoTaskForgotten, given the invariant and the faults allowed.
LEMMA ForgottenStep ==
  ASSUME SurvivableFaults
  PROVE  Inv /\ RevokedInv /\ NoTaskForgotten /\ [Next]_vars => NoTaskForgotten'
  <1> SUFFICES ASSUME Inv, RevokedInv, NoTaskForgotten, [Next]_vars, NothingCutShort',
                      NEW t \in Tasks, phase'[t] = "accepted", status'[t] \notin TerminalStates
               PROVE  Carried(t)'
    BY DEF NoTaskForgotten, AllCarried
  <1>0. /\ AllCarried
        /\ \A p \in Procs : /\ ~Shutdown(p) /\ ~WorkerBrokerError(p) /\ ~WorkerRepositoryError(p)
                            /\ Crash(p) => ~revoked[p]
    BY CutShortStays DEF Inv, NoTaskForgotten
  <1>1. TypeInv /\ LifeInv /\ TypeInv' /\ LifeInv'
    BY TypeStep, LifeStep DEF Inv
  <1>2. status'[t] \in Working
    BY <1>1 DEF LifeInv, PhaseInv, Handed, TerminalStates
  <1>3. status[t] \notin TerminalStates
    BY <1>2, StatusWrites, Table DEF TerminalStates
  <1>4. CASE phase[t] = "accepted"
    <2>1. Carried(t) /\ status[t] \in Working
      BY <1>0, <1>1, <1>3, <1>4 DEF AllCarried, LifeInv, PhaseInv, Handed, TerminalStates
    <2>2. ASSUME NEW p \in Procs, Work(p) PROVE Carried(t)'
      BY <1>2, <2>1, <2>2, WorkKeepsCarried
    <2>3. ASSUME NEW p \in Procs, ProcFault(p) PROVE Carried(t)'
      BY <1>0, <2>1, <2>3, FaultKeepsCarried
    <2>4. ASSUME ready \subseteq ready', status'[t] = status[t], UNCHANGED <<pc, msg, snap>>
          PROVE  Carried(t)'
      BY <2>1, <2>4 DEF Carried, Waiting, WillSettle
    <2>5. ASSUME NEW u \in Tasks, Handler(u) \/ HandlerFault(u) PROVE Carried(t)'
      BY <1>1, <1>4, <2>4, <2>5, TypeParts
         DEF Handler, CreateTask, MarkQueued, EnqueueTask, HandlerFault, CreateBrokerError,
             CreateRepositoryError, MayHaveMoved, Put, SetTask, queue, repository, worker,
             RepositoryOK
    <2>6. ASSUME StoreApplies \/ UNCHANGED vars PROVE Carried(t)'
      BY <2>4, <2>6 DEF StoreApplies, vars, queue, repository, worker
    <2> QED  BY <2>2, <2>3, <2>5, <2>6 DEF Next
  <1>5. CASE phase[t] # "accepted"
    <2>1. EnqueueTask(t)
      <3>1. ASSUME NEW p \in Procs, Work(p) PROVE FALSE
        BY <1>1, <1>5, <3>1, Frames
      <3>2. ASSUME NEW p \in Procs, ProcFault(p) PROVE FALSE
        BY <1>1, <1>5, <3>2, TypeParts
           DEF ProcFault, Crash, Restart, Shutdown, WorkerBrokerError, StageError,
               WorkerRepositoryError, Rebalance, BreakHandlers, handlers, HandlersOK
      <3>3. ASSUME NEW u \in Tasks, CreateTask(u) \/ MarkQueued(u) \/ HandlerFault(u)
            PROVE  FALSE
        BY <1>1, <1>5, <3>3, TypeParts
           DEF CreateTask, MarkQueued, HandlerFault, CreateBrokerError, CreateRepositoryError,
               HandlersOK
      <3>4. ASSUME NEW u \in Tasks, EnqueueTask(u) PROVE u = t
        BY <1>1, <1>5, <3>4, TypeParts DEF EnqueueTask, HandlersOK
      <3> QED
        BY <1>5, <3>1, <3>2, <3>3, <3>4 DEF Next, Handler, StoreApplies, vars, handlers
    <2> DEFINE m == [id |-> nextId, task |-> t, attempt |-> 1]
    <2>2. m \in ready' /\ m.task = t
      BY <2>1 DEF EnqueueTask, Put
    <2> QED  BY <2>2 DEF Carried, Waiting
  <1> QED  BY <1>4, <1>5

\* An accepted task is never forgotten, for any number of tasks, processes,
\* attempts and faults, in any order: as long as no handling was cut short, so
\* through crashes on a queue that redelivers, rebalances after them, and
\* repository errors that process_queue_message or the handler catches. The
\* faults that cut a handling short, and do lose tasks, are those of CutsShort.
THEOREM AtLeastOnce == ASSUME SurvivableFaults PROVE Spec => []NoTaskForgotten
  <1>1. Init => NoTaskForgotten /\ RevokedInv
    BY DEF Init, NoTaskForgotten, AllCarried, RevokedInv
  <1>2. Inv /\ RevokedInv /\ NoTaskForgotten /\ [Next]_vars
          => NoTaskForgotten' /\ RevokedInv'
    BY ForgottenStep, RevokedStep DEF Inv
  <1> QED  BY <1>1, <1>2, InductiveInv, PTL DEF Spec
-----------------------------------------------------------------------------
\* As long as nothing was cut short, a message is of a task whose creation was
\* answered with 202.
AcceptedInv ==
  NothingCutShort =>
    /\ \A m \in ready : phase[m.task] = "accepted"
    /\ \A p \in Procs : msg[p] # NoMessage => phase[msg[p].task] = "accepted"

\* Every step keeps AcceptedInv, for all the faults of the model.
LEMMA AcceptedStep == Inv /\ RevokedInv /\ AcceptedInv /\ [Next]_vars => AcceptedInv'
  <1> SUFFICES ASSUME Inv, RevokedInv, AcceptedInv, [Next]_vars, NothingCutShort'
               PROVE  /\ \A m \in ready' : phase'[m.task] = "accepted"
                      /\ \A p \in Procs : msg'[p] # NoMessage => phase'[msg'[p].task] = "accepted"
    BY DEF AcceptedInv
  <1> USE DEF Task
  <1>1. TypeInv /\ LifeInv
    BY DEF Inv
  <1>2. /\ \A m \in ready : phase[m.task] = "accepted"
        /\ \A p \in Procs : msg[p] # NoMessage => phase[msg[p].task] = "accepted"
        /\ \A p \in Procs : ~Shutdown(p) /\ ~WorkerBrokerError(p) /\ ~WorkerRepositoryError(p)
        /\ \A t \in Tasks : ~CreateBrokerError(t)
    BY <1>1, CutShortStays DEF AcceptedInv
  <1>3. /\ \A m \in ready : m.task \in Tasks
        /\ \A p \in Procs : msg[p] # NoMessage => msg[p].task \in Tasks
    BY <1>1, TypeParts DEF QueueOK, WorkerOK, Messages
  <1>4. \A t \in Tasks : phase[t] = "accepted" => phase'[t] = "accepted"
    <2>1. ASSUME NEW u \in Tasks, Handler(u) \/ CreateRepositoryError(u)
          PROVE  \A t \in Tasks : phase[t] = "accepted" => phase'[t] = "accepted"
      BY <1>1, <2>1, TypeParts
         DEF Handler, CreateTask, MarkQueued, EnqueueTask, CreateRepositoryError, HandlersOK
    <2>2. ASSUME NEW p \in Procs, Work(p) PROVE phase' = phase
      BY <1>1, <2>2, Frames
    <2>3. ASSUME NEW p \in Procs, ProcFault(p)
          PROVE  \A t \in Tasks : phase[t] = "accepted" => phase'[t] = "accepted"
      BY <1>2, <2>3 DEF ProcFault, Crash, BreakHandlers, Restart, StageError, Rebalance, handlers
    <2> QED  BY <1>2, <2>1, <2>2, <2>3 DEF Next, HandlerFault, StoreApplies, vars, handlers
  <1>5. \A p \in Procs : msg'[p] # NoMessage => msg'[p] = msg[p] \/ msg'[p] \in ready
    <2>1. ASSUME NEW p \in Procs, Work(p)
          PROVE  \A q \in Procs : msg'[q] # NoMessage => msg'[q] = msg[q] \/ msg'[q] \in ready
      BY <1>1, <2>1, TypeParts
         DEF Work, Dequeue, Load, Start, Begin, PreprocessOk, EmbedOk, UpsertOk, CallUnavailable,
             CallRejected, HandleError, BackoffEnds, Requeue, Bury, Ack, Forget, WorkerOK
    <2>2. ASSUME NEW p \in Procs, ProcFault(p)
          PROVE  \A q \in Procs : msg'[q] # NoMessage => msg'[q] = msg[q]
      BY <1>1, <1>2, <2>2, TypeParts
         DEF ProcFault, Crash, Restart, StageError, Rebalance, Forget, WorkerOK
    <2>3. ASSUME NEW u \in Tasks, Handler(u) \/ CreateRepositoryError(u) PROVE msg' = msg
      BY <2>3 DEF Handler, CreateTask, MarkQueued, EnqueueTask, CreateRepositoryError, worker
    <2> QED  BY <1>2, <2>1, <2>2, <2>3 DEF Next, HandlerFault, StoreApplies, vars, worker
  <1>6. \A m \in ready' : \/ m \in ready
                          \/ \E p \in Procs : msg[p] # NoMessage /\ m.task = msg[p].task
                          \/ phase'[m.task] = "accepted"
    <2>1. ASSUME NEW p \in Procs, Work(p), NEW m \in ready' \ ready
          PROVE  msg[p] # NoMessage /\ m.task = msg[p].task
      <3>1. Requeue(p)
        BY <2>1
           DEF Work, Dequeue, Load, Start, Begin, PreprocessOk, EmbedOk, UpsertOk, queue,
               CallUnavailable, CallRejected, HandleError, BackoffEnds, Bury, Ack
      <3> QED  BY <1>1, <2>1, <3>1, HolderLife, NoMessageApart DEF Requeue, Put, Busy
    <2>2. ASSUME NEW p \in Procs, ProcFault(p), NEW m \in ready' \ ready
          PROVE  msg[p] # NoMessage /\ m = msg[p]
      BY <1>2, <2>2 DEF ProcFault, Crash, Release, Restart, StageError, Rebalance, queue
    <2>3. ASSUME NEW u \in Tasks, Handler(u) \/ CreateRepositoryError(u), NEW m \in ready' \ ready
          PROVE  phase'[m.task] = "accepted"
      BY <1>1, <2>3, TypeParts
         DEF Handler, CreateTask, MarkQueued, EnqueueTask, CreateRepositoryError, Put, queue,
             HandlersOK
    <2> QED  BY <1>2, <2>1, <2>2, <2>3 DEF Next, HandlerFault, StoreApplies, vars, queue
  <1>7. \A m \in ready' : phase'[m.task] = "accepted"
    BY <1>2, <1>3, <1>4, <1>6
  <1>8. \A p \in Procs : msg'[p] # NoMessage => phase'[msg'[p].task] = "accepted"
    BY <1>2, <1>3, <1>4, <1>5
  <1> QED  BY <1>7, <1>8

\* Whenever a message is acknowledged, its task is settled or carried on,
\* under the same faults and with the same exceptions as AtLeastOnce.
THEOREM AckedWhenHandled == ASSUME SurvivableFaults PROVE Spec => AckAfterHandling
  <1>1. Spec => []AcceptedInv
    <2>1. Init => AcceptedInv /\ RevokedInv
      BY DEF Init, AcceptedInv, RevokedInv
    <2>2. Inv /\ RevokedInv /\ AcceptedInv /\ [Next]_vars => AcceptedInv' /\ RevokedInv'
      BY AcceptedStep, RevokedStep DEF Inv
    <2> QED  BY <2>1, <2>2, InductiveInv, PTL DEF Spec
  <1>2. Inv /\ AcceptedInv /\ NoTaskForgotten
          => \A p \in Procs : NothingCutShort /\ pc[p] = "ack"
               => status[Task(p)] \in TerminalStates \/ Carried(Task(p))
    <2> SUFFICES ASSUME Inv, AcceptedInv, NoTaskForgotten, NEW p \in Procs,
                        NothingCutShort, pc[p] = "ack"
                 PROVE  status[Task(p)] \in TerminalStates \/ Carried(Task(p))
      OBVIOUS
    <2>1. Task(p) \in Tasks /\ msg[p] # NoMessage
      BY HolderLife, NoMessageApart DEF Inv, Busy
    <2>2. phase[Task(p)] = "accepted"
      BY <2>1 DEF AcceptedInv, Task
    <2> QED  BY <2>1, <2>2 DEF NoTaskForgotten, AllCarried
  <1>3. Inv /\ AcceptedInv /\ NoTaskForgotten /\ [Next]_vars
          => [\A p \in Procs :
                NothingCutShort /\ Acknowledges(p)
                  => status[Task(p)] \in TerminalStates \/ Carried(Task(p))]_vars
    BY <1>2 DEF Acknowledges
  <1> QED  BY <1>1, <1>3, AtLeastOnce, InductiveInv, PTL DEF Spec, AckAfterHandling
-----------------------------------------------------------------------------
\* Without crashes and errors every creation that began ends.
HandlersEnd ==
  /\ NothingCutShort
  /\ \A t \in Tasks : phase[t] # "broken"

\* Every step keeps HandlersEnd, when partitions move at most.
LEMMA HandlersEndStep ==
  ASSUME Faults \subseteq {"rebalance"}
  PROVE  Inv /\ HandlersEnd /\ [Next]_vars => HandlersEnd'
  <1> SUFFICES ASSUME Inv, HandlersEnd, [Next]_vars PROVE HandlersEnd'
    OBVIOUS
  <1>1. TypeInv
    BY DEF Inv
  <1>2. /\ \A p \in Procs : /\ ~Crash(p) /\ ~Shutdown(p) /\ ~WorkerBrokerError(p)
                            /\ ~StageError(p) /\ ~WorkerRepositoryError(p)
        /\ \A t \in Tasks : ~HandlerFault(t)
    BY DEF Crash, Shutdown, WorkerBrokerError, StageError, WorkerRepositoryError, HandlerFault,
           CreateBrokerError, CreateRepositoryError, Fault
  <1>3. NothingCutShort'
    <2>1. faults' = faults \/ faults' = Append(faults, "rebalance")
      BY <1>2
         DEF Next, vars, Handler, CreateTask, MarkQueued, EnqueueTask, Work, Dequeue, Load, Start,
             Begin, PreprocessOk, EmbedOk, UpsertOk, CallUnavailable, CallRejected, HandleError,
             BackoffEnds, Requeue, Bury, Ack, ProcFault, Restart, Rebalance, Fault, StoreApplies
    <2>2. CASE faults' = faults
      BY <2>2 DEF HandlersEnd, NothingCutShort, CutsShort
    <2>3. CASE faults' = Append(faults, "rebalance")
      <3>1. /\ DOMAIN faults' = 1..(Len(faults) + 1) /\ DOMAIN faults = 1..Len(faults)
            /\ Len(faults) \in Nat /\ faults'[Len(faults) + 1] = "rebalance"
            /\ \A k \in 1..Len(faults) : faults'[k] = faults[k]
        BY <1>1, <2>3, TypeParts DEF FaultsOK
      <3> SUFFICES ASSUME NEW k \in DOMAIN faults' PROVE ~CutsShort(k)'
        BY DEF NothingCutShort
      <3>2. CASE k = Len(faults) + 1
        BY <3>1, <3>2 DEF CutsShort
      <3>3. CASE k \in DOMAIN faults
        <4>1. ~CutsShort(k) /\ faults'[k] = faults[k]
          BY <3>1, <3>3 DEF HandlersEnd, NothingCutShort
        <4>2. \A j \in 1..(k - 1) : faults'[j] = faults[j]
          BY <3>1, <3>3
        <4> QED  BY <4>1, <4>2 DEF CutsShort
      <3> QED  BY <3>1, <3>2, <3>3
    <2> QED  BY <2>1, <2>2, <2>3
  <1>4. \A t \in Tasks : phase'[t] # "broken"
    <2>1. ASSUME NEW u \in Tasks, Handler(u) PROVE \A t \in Tasks : phase'[t] # "broken"
      BY <1>1, <2>1, TypeParts
         DEF HandlersEnd, Handler, CreateTask, MarkQueued, EnqueueTask, HandlersOK
    <2>2. ASSUME NEW p \in Procs, Work(p) PROVE phase' = phase
      BY <1>1, <2>2, Frames
    <2>3. ASSUME NEW p \in Procs, Restart(p) \/ Rebalance(p) PROVE phase' = phase
      BY <2>3 DEF Restart, Rebalance, handlers
    <2> QED  BY <1>2, <2>1, <2>2, <2>3
        DEF HandlersEnd, Next, ProcFault, StoreApplies, vars, handlers
  <1> QED  BY <1>3, <1>4 DEF HandlersEnd

\* A queued task is known to the queue, whatever partitions move.
THEOREM QueuedTasksDelivered ==
  ASSUME Faults \subseteq {"rebalance"} PROVE Spec => []QueuedIsDelivered
  <1>1. SurvivableFaults
    BY DEF SurvivableFaults
  <1>2. Spec => []HandlersEnd
    <2>1. Init => HandlersEnd
      BY DEF Init, HandlersEnd, NothingCutShort
    <2> QED  BY <2>1, HandlersEndStep, InductiveInv, PTL DEF Spec
  <1>3. Inv /\ HandlersEnd /\ NoTaskForgotten => QueuedIsDelivered
    <2> SUFFICES ASSUME Inv, HandlersEnd, NoTaskForgotten,
                        NEW t \in Tasks, status[t] = "queued", phase[t] # "queued"
                 PROVE  Carried(t)
      BY DEF QueuedIsDelivered
    <2>1. phase[t] = "accepted"
      BY TypeParts DEF Inv, LifeInv, PhaseInv, HandlersEnd, HandlersOK
    <2>2. status[t] \notin TerminalStates
      BY DEF TerminalStates
    <2> QED  BY <2>1, <2>2 DEF HandlersEnd, NoTaskForgotten, AllCarried
  <1> QED  BY <1>1, <1>2, <1>3, AtLeastOnce, InductiveInv, PTL
=============================================================================
