--------------------------- MODULE ExecutionProofs ---------------------------
(***************************************************************************)
(* Theorems about the executions of a task in TaskOrchestrator, for any    *)
(* set of tasks and processes and any number of attempts and faults, on a  *)
(* queue that hands a message out once.                                    *)
(*                                                                         *)
(* ExecInv    a task has one carrier, and the row of the task is where the *)
(*            carrier left it;                                             *)
(* DoneInv    a message that is being acknowledged has been outlived by    *)
(*            the message that carries the task on;                        *)
(* the rest   what a client sees of a task, and the refinement of the life *)
(*            TaskLifecycle promises it, along both.                       *)
(***************************************************************************)
EXTENDS TaskOrchestratorProofs, FiniteSetTheorems

\* A queue that hands a message out once: the SQLite queue (one process on its
\* file) and the Redis Stream queue, which never reclaim a claimed entry, and
\* Kafka while no consumer leaves and no partition moves.
SingleDelivery == Redelivers => Faults \subseteq {"broker", "caught", "uncaught"}

\* Worker p is at work on a message it has not handed on.
Executing(p) ==
  pc[p] \in {"load", "start", "begin", "preprocess", "embed", "upsert", "handle",
             "backoff", "requeue", "bury"}

\* One carrier per task, the same idea as OneCarrier without counting.
AloneInv ==
  /\ \A m, n \in ready : m.task = n.task => m = n
  /\ \A p, q \in Procs : Executing(p) /\ Executing(q) /\ Task(p) = Task(q) => p = q
  /\ \A m \in ready, p \in Procs : Executing(p) => Task(p) # m.task

\* A message waits for a queued task that has made the attempts before it.
Fresh(m) == status[m.task] = "queued" /\ attemptCount[m.task] = m.attempt - 1

\* The row of the task is the one worker p wrote last.
OnStage(p) ==
  LET s == status[Task(p)]
  IN /\ pc[p] \in {"load", "start", "begin", "requeue"} => s = "queued"
     /\ pc[p] = "preprocess" => s = "preprocessing"
     /\ pc[p] = "embed" => s = "embedding"
     /\ pc[p] = "upsert" => s = "persisting"
     /\ pc[p] = "backoff" => s = "retrying"
     /\ pc[p] = "bury" => s = "failed" /\ deadLetters[Task(p)] = 0
     /\ pc[p] = "start" => snap[p] = "queued"
     /\ pc[p] = "handle" => /\ err[p] \in {"unavailable", "rejected"}
                            /\ \/ s \in {"preprocessing", "embedding", "persisting"}
                               \/ s \in {"queued", "succeeded"} /\ err[p] = "rejected"
     /\ attemptCount[Task(p)] = IF pc[p] \in {"load", "start"} THEN msg[p].attempt - 1
                                                               ELSE msg[p].attempt

\* The attempts of a task before its first message, its dead letters and the
\* error code it shows.
RowOK(t) ==
  /\ phase[t] \in {"none", "created", "queued"} => attemptCount[t] = 0
  /\ deadLetters[t] \in {0, 1}
  /\ deadLetters[t] = 1 => status[t] = "failed"
  /\ errorCode[t] # "conflict"

ExecInv ==
  /\ AloneInv
  /\ \A m \in ready : Fresh(m)
  /\ \A p \in Procs : Executing(p) => OnStage(p)
  /\ \A t \in Tasks : RowOK(t)

\* The initial state satisfies it.
LEMMA ExecInit == Init => ExecInv
  <1> SUFFICES ASSUME Init PROVE ExecInv
    OBVIOUS
  <1>1. ready = {} /\ \A p \in Procs : ~Executing(p)
    BY DEF Init, Executing
  <1>2. \A t \in Tasks : RowOK(t)
    BY DEF Init, RowOK
  <1> QED  BY <1>1, <1>2 DEF ExecInv, AloneInv

\* What a worker at work holds.
LEMMA ExecHolder ==
  ASSUME Inv, NEW p \in Procs, Executing(p)
  PROVE  /\ Task(p) \in Tasks /\ Live(Task(p))
         /\ msg[p] \in Messages /\ msg[p] # NoMessage
         /\ msg[p].attempt \in 1..MaxAttempts /\ MaxAttempts \in Nat
  BY HolderLife, NoMessageApart, ConstantsAssumption DEF Inv, Executing, Busy, Messages

SameTask(t) ==
  /\ status'[t] = status[t]
  /\ attemptCount'[t] = attemptCount[t]
  /\ errorCode'[t] = errorCode[t]
  /\ deadLetters'[t] = deadLetters[t]

SameWorker(p) ==
  /\ pc'[p] = pc[p]
  /\ msg'[p] = msg[p]
  /\ snap'[p] = snap[p]
  /\ err'[p] = err[p]

SamePhase(t) == phase'[t] \in {phase[t], "broken"}

\* A step of worker p that takes no message and puts none: p writes at most
\* the row of the task it is at work on, and leaves it in order.
LEMMA WorkerMoves ==
  ASSUME Inv, ExecInv, NEW p \in Procs, ready' \subseteq ready,
         \A q \in Procs \ {p} : SameWorker(q),
         \A t \in Tasks : /\ SamePhase(t)
                          /\ SameTask(t) \/ (Executing(p) /\ t = Task(p) /\ RowOK(t)'),
         Executing(p)' => Executing(p) /\ msg'[p] = msg[p] /\ OnStage(p)',
         ready' \in SUBSET Messages
  PROVE  ExecInv'
  <1>1. \A q \in Procs : Executing(q)' => Executing(q) /\ msg'[q] = msg[q]
    BY DEF SameWorker, Executing
  <1>2. AloneInv'
    BY <1>1 DEF ExecInv, AloneInv, Task
  <1>3. ASSUME NEW m \in ready' PROVE Fresh(m)'
    <2>1. m.task \in Tasks /\ SameTask(m.task)
      BY DEF Messages, ExecInv, AloneInv
    <2> QED  BY <2>1 DEF ExecInv, Fresh, SameTask
  <1>4. ASSUME NEW q \in Procs, Executing(q)' PROVE OnStage(q)'
    <2>1. CASE q # p
      <3>1. Executing(q) /\ Task(q) \in Tasks /\ Task(q)' = Task(q)
        BY <1>1, <1>4, ExecHolder DEF Task
      <3>2. SameTask(Task(q))
        BY <2>1, <3>1 DEF ExecInv, AloneInv
      <3> QED  BY <2>1, <3>1, <3>2 DEF ExecInv, OnStage, SameWorker, SameTask
    <2> QED  BY <1>4, <2>1
  <1>5. ASSUME NEW t \in Tasks PROVE RowOK(t)'
    BY DEF ExecInv, RowOK, SameTask, SamePhase
  <1> QED  BY <1>2, <1>3, <1>4, <1>5 DEF ExecInv

\* Worker p hands its task on: it puts the next message and is done with its own.
LEMMA HandsOn ==
  ASSUME Inv, ExecInv, NEW p \in Procs, pc[p] = "requeue", pc'[p] = "ack",
         msg' = msg, \A q \in Procs \ {p} : SameWorker(q),
         phase' = phase, \A t \in Tasks : SameTask(t),
         Put(Task(p), msg[p].attempt + 1)
  PROVE  ExecInv'
  <1>1. PICK m : /\ m = [id |-> nextId, task |-> Task(p), attempt |-> msg[p].attempt + 1]
                 /\ ready' = ready \cup {m}
    BY DEF Put
  <1>2. Executing(p) /\ \A q \in Procs : Task(q)' = Task(q)
    BY DEF Executing, Task
  <1>3. \A q \in Procs : Executing(q)' <=> q # p /\ Executing(q)
    BY <1>2 DEF SameWorker, Executing
  <1>4. AloneInv'
    BY <1>2, <1>1, <1>3 DEF ExecInv, AloneInv
  <1>5. Fresh(m)'
    BY <1>2, <1>1, ExecHolder DEF ExecInv, OnStage, Fresh, SameTask
  <1>6. ASSUME NEW n \in ready PROVE Fresh(n)'
    BY TypeParts DEF ExecInv, Fresh, SameTask, Inv, QueueOK, Messages
  <1>7. ASSUME NEW q \in Procs, Executing(q)' PROVE OnStage(q)'
    BY <1>2, <1>3, <1>7, ExecHolder DEF ExecInv, OnStage, SameTask, SameWorker
  <1>8. \A t \in Tasks : RowOK(t)'
    BY DEF ExecInv, RowOK, SameTask
  <1> QED  BY <1>1, <1>4, <1>5, <1>6, <1>7, <1>8 DEF ExecInv

\* A step of the create handler of t that leaves the queue alone: no message
\* of t exists yet, so nobody else looks at the row.
LEMMA HandlerMoves ==
  ASSUME Inv, ExecInv, NEW t \in Tasks, ~Live(t), ready' = ready,
         \A p \in Procs : SameWorker(p),
         \A u \in Tasks \ {t} : SamePhase(u) /\ SameTask(u), RowOK(t)'
  PROVE  ExecInv'
  <1>1. /\ \A m \in ready : m.task \in Tasks \ {t}
        /\ \A p \in Procs : Executing(p) => Task(p) \in Tasks \ {t}
    BY ExecHolder, TypeParts DEF Inv, LifeInv, QueueOK, Messages
  <1>2. \A p \in Procs : (Executing(p)' <=> Executing(p)) /\ Task(p)' = Task(p)
    BY DEF SameWorker, Executing, Task
  <1>3. AloneInv' /\ \A m \in ready' : Fresh(m)'
    BY <1>1, <1>2 DEF ExecInv, AloneInv, Fresh, SameTask
  <1>4. ASSUME NEW p \in Procs, Executing(p)' PROVE OnStage(p)'
    BY <1>1, <1>2, <1>4 DEF ExecInv, OnStage, SameTask, SameWorker
  <1>5. ASSUME NEW u \in Tasks PROVE RowOK(u)'
    BY DEF ExecInv, RowOK, SameTask, SamePhase
  <1> QED  BY <1>3, <1>4, <1>5 DEF ExecInv

\* The first message of t: its handler has marked it queued, and it is the
\* only one of t.
LEMMA FirstMessage ==
  ASSUME Inv, ExecInv, NEW t \in Tasks, phase[t] = "queued", Put(t, 1),
         \A u \in Tasks : phase'[u] \in {phase[u], "accepted", "broken"} /\ SameTask(u),
         \A p \in Procs : SameWorker(p)
  PROVE  ExecInv'
  <1> DEFINE m == [id |-> nextId, task |-> t, attempt |-> 1]
  <1>1. ready' = ready \cup {m} /\ status[t] = "queued" /\ attemptCount[t] = 0 /\ ~Live(t)
    BY DEF Put, Inv, LifeInv, PhaseInv, Live, ExecInv, RowOK
  <1>2. /\ \A n \in ready : n.task \in Tasks \ {t}
        /\ \A p \in Procs : Executing(p) => Task(p) \in Tasks \ {t}
    BY <1>1, ExecHolder, TypeParts DEF Inv, LifeInv, QueueOK, Messages
  <1>3. \A p \in Procs : (Executing(p)' <=> Executing(p)) /\ Task(p)' = Task(p)
    BY DEF SameWorker, Executing, Task
  <1>4. AloneInv'
    BY <1>1, <1>2, <1>3 DEF ExecInv, AloneInv
  <1>5. ASSUME NEW n \in ready' PROVE Fresh(n)'
    BY <1>1, <1>2 DEF ExecInv, Fresh, SameTask
  <1>6. ASSUME NEW p \in Procs, Executing(p)' PROVE OnStage(p)'
    BY <1>2, <1>3, <1>6 DEF ExecInv, OnStage, SameTask, SameWorker
  <1>7. ASSUME NEW u \in Tasks PROVE RowOK(u)'
    BY DEF ExecInv, RowOK, SameTask
  <1> QED  BY <1>4, <1>5, <1>6, <1>7 DEF ExecInv

\* The create handler keeps ExecInv, also when a call of it raises.
LEMMA HandlerExec ==
  ASSUME Inv, ExecInv, NEW t \in Tasks, Handler(t) \/ HandlerFault(t) PROVE ExecInv'
  <1>1. TypeInv /\ LifeInv
    BY DEF Inv
  <1>2. CASE CreateTask(t) \/ MarkQueued(t)
    <2>1. ~Live(t) /\ deadLetters[t] = 0
      BY <1>1, <1>2 DEF CreateTask, MarkQueued, LifeInv, PhaseInv, Live, ExecInv, RowOK
    <2>2. ready' = ready /\ \A p \in Procs : SameWorker(p)
      BY <1>2 DEF CreateTask, MarkQueued, queue, worker, SameWorker
    <2>3. \A u \in Tasks \ {t} : SamePhase(u) /\ SameTask(u)
      BY <1>1, <1>2, TypeParts
         DEF CreateTask, MarkQueued, SetTask, queue, SamePhase, SameTask, RepositoryOK, HandlersOK
    <2>4. RowOK(t)'
      BY <1>1, <1>2, <2>1, TypeParts
         DEF CreateTask, MarkQueued, SetTask, queue, RowOK, RepositoryOK
    <2> QED  BY <2>1, <2>2, <2>3, <2>4, HandlerMoves
  <1>3. CASE EnqueueTask(t) \/ (CreateBrokerError(t) /\ Put(t, 1))
    <2>1. \A u \in Tasks : phase'[u] \in {phase[u], "accepted", "broken"} /\ SameTask(u)
      BY <1>1, <1>3, TypeParts
         DEF EnqueueTask, CreateBrokerError, Put, repository, SameTask, HandlersOK
    <2>2. phase[t] = "queued" /\ Put(t, 1) /\ \A p \in Procs : SameWorker(p)
      BY <1>3 DEF EnqueueTask, CreateBrokerError, worker, SameWorker
    <2> QED  BY <2>1, <2>2, FirstMessage
  <1>4. CASE CreateBrokerError(t) /\ UNCHANGED queue
    <2>1. /\ ~Live(t) /\ ready' = ready /\ RowOK(t)'
          /\ \A p \in Procs : SameWorker(p)
      BY <1>1, <1>4, TypeParts
         DEF CreateBrokerError, LifeInv, PhaseInv, Live, ExecInv, RowOK, queue, worker,
             repository, SameWorker, HandlersOK
    <2>2. \A u \in Tasks \ {t} : SamePhase(u) /\ SameTask(u)
      BY <1>1, <1>4, TypeParts
         DEF CreateBrokerError, queue, repository, SamePhase, SameTask, HandlersOK
    <2> QED  BY <2>1, <2>2, HandlerMoves
  <1>5. CASE CreateRepositoryError(t)
    <2>1. ~Live(t) /\ deadLetters[t] = 0 /\ attemptCount[t] = 0 /\ errorCode[t] # "conflict"
      BY <1>1, <1>5 DEF CreateRepositoryError, LifeInv, PhaseInv, Live, ExecInv, RowOK
    <2>2. /\ ready' = ready /\ deadLetters' = deadLetters /\ \A p \in Procs : SameWorker(p)
          /\ phase' = [phase EXCEPT ![t] = "broken"]
          /\ UNCHANGED repository \/ \E s \in {"accepted", "queued"} : SetTask(t, s, 0, "none")
      BY <1>5 DEF CreateRepositoryError, MayHaveMoved, queue, worker, SameWorker
    <2>3. \A u \in Tasks \ {t} : SamePhase(u) /\ SameTask(u)
      BY <1>1, <2>2, TypeParts
         DEF SetTask, SamePhase, SameTask, RepositoryOK, HandlersOK, repository
    <2>4. RowOK(t)'
      BY <1>1, <2>1, <2>2, TypeParts DEF SetTask, RowOK, RepositoryOK, HandlersOK, repository
    <2> QED  BY <2>1, <2>2, <2>3, <2>4, HandlerMoves
  <1> QED  BY <1>2, <1>3, <1>4, <1>5 DEF Handler, HandlerFault, CreateBrokerError

\* The next step of an execution meets the row it expects: nobody else moved
\* it. Only the error handler may find the task settled, when the commit of
\* "succeeded" went through and its answer was lost.
LEMMA NeverRefused ==
  ASSUME Inv, ExecInv, NEW p \in Procs, Executing(p)
  PROVE  LET s == status[Task(p)]
         IN /\ s \in TerminalStates => pc[p] = "bury" \/ (pc[p] = "handle" /\ s = "succeeded")
            /\ pc[p] = "start" => MayMove(s, snap[p])
            /\ pc[p] = "begin" => MayMove(s, "preprocessing")
            /\ pc[p] = "preprocess" => MayMove(s, "embedding")
            /\ pc[p] = "embed" => MayMove(s, "persisting")
            /\ pc[p] = "upsert" => MayMove(s, "succeeded")
            /\ pc[p] = "handle" /\ s # "succeeded"
                 => MayMove(s, "retrying") /\ MayMove(s, "failed")
            /\ pc[p] = "backoff" => MayMove(s, "queued")
  <1>1. OnStage(p)
    BY DEF ExecInv
  <1>2. status[Task(p)] \in TerminalStates
          => pc[p] = "bury" \/ (pc[p] = "handle" /\ status[Task(p)] = "succeeded")
    BY <1>1 DEF OnStage, Executing, TerminalStates
  <1>3. pc[p] = "start" => MayMove(status[Task(p)], snap[p])
    BY <1>1 DEF OnStage, MayMove
  <1>4. pc[p] \in {"handle", "backoff"} =>
          /\ pc[p] = "handle" /\ status[Task(p)] # "succeeded" =>
               MayMove(status[Task(p)], "retrying") /\ MayMove(status[Task(p)], "failed")
          /\ pc[p] = "backoff" => MayMove(status[Task(p)], "queued")
    BY <1>1, Table DEF OnStage, Working
  <1>5. /\ MayMove("queued", "preprocessing") /\ MayMove("preprocessing", "embedding")
        /\ MayMove("embedding", "persisting") /\ MayMove("persisting", "succeeded")
    BY DEF MayMove, CanTransition, ActiveStates, AllowedTransitions
  <1> QED  BY <1>1, <1>2, <1>3, <1>4, <1>5 DEF OnStage

\* What a step of worker p leaves alone, in the terms of WorkerMoves.
LEMMA WorkFrame ==
  ASSUME TypeInv, NEW p \in Procs, Work(p)
  PROVE  /\ \A q \in Procs \ {p} : SameWorker(q)
         /\ \A t \in Tasks : SamePhase(t) /\ (t # Task(p) => SameTask(t))
  <1>1. /\ phase' = phase
        /\ \A q \in Procs \ {p} : pc'[q] = pc[q] /\ msg'[q] = msg[q] /\ snap'[q] = snap[q]
    BY Frames
  <1>2. ASSUME NEW q \in Procs \ {p} PROVE err'[q] = err[q]
    BY TypeParts
       DEF Work, Dequeue, Load, Start, Begin, PreprocessOk, EmbedOk, UpsertOk, CallUnavailable,
           CallRejected, HandleError, BackoffEnds, Requeue, Bury, Ack, Advance, Raise, Forget,
           WorkerOK
  <1>3. ASSUME NEW t \in Tasks, t # Task(p) PROVE SameTask(t)
    <2>1. CASE \/ Dequeue(p) \/ Load(p) \/ CallUnavailable(p)
               \/ CallRejected(p) \/ Requeue(p) \/ Ack(p)
      BY <2>1 DEF Dequeue, Load, CallUnavailable, CallRejected, Requeue, Put, Ack, repository,
                  queue, SameTask
    <2>2. CASE Start(p) \/ HandleError(p) \/ BackoffEnds(p)
      BY <1>3, <2>2, TypeParts
         DEF Start, HandleError, BackoffEnds, SetTask, repository, queue, SameTask, RepositoryOK
    <2>3. CASE Begin(p) \/ PreprocessOk(p) \/ EmbedOk(p) \/ UpsertOk(p)
      BY <1>3, <2>3, TypeParts
         DEF Begin, PreprocessOk, EmbedOk, UpsertOk, Advance, SetTask, repository, queue,
             SameTask, RepositoryOK
    <2>4. CASE Bury(p)
      BY <1>3, <2>4, TypeParts DEF Bury, repository, SameTask, QueueOK
    <2> QED  BY <2>1, <2>2, <2>3, <2>4 DEF Work
  <1> QED  BY <1>1, <1>2, <1>3 DEF SameWorker, SamePhase

\* The steps of an execution that keep its message keep ExecInv.
LEMMA StageExec ==
  ASSUME Inv, ExecInv, NEW p \in Procs, Executing(p), Work(p), ready' = ready, msg' = msg,
         RowOK(Task(p))', Executing(p)' => OnStage(p)'
  PROVE  ExecInv'
  <1>1. Task(p)' = Task(p) /\ ready \in SUBSET Messages
    BY TypeParts DEF Task, Inv, QueueOK
  <1>2. ASSUME NEW t \in Tasks
        PROVE  SamePhase(t) /\ (SameTask(t) \/ (Executing(p) /\ t = Task(p) /\ RowOK(t)'))
    <2>1. SamePhase(t) /\ (t # Task(p) => SameTask(t))
      BY WorkFrame DEF Inv
    <2>2. t = Task(p) => RowOK(t)'
      BY <1>1 DEF RowOK
    <2> QED  BY <2>1, <2>2
  <1> QED  BY <1>1, <1>2, WorkFrame, WorkerMoves DEF Inv

\* What StageExec needs to know about the worker before its step.
LEMMA StageParts ==
  ASSUME Inv, ExecInv, NEW p \in Procs, Executing(p)
  PROVE  /\ OnStage(p) /\ RowOK(Task(p)) /\ Task(p) \in Tasks /\ p \in DOMAIN pc
         /\ phase[Task(p)] \in {"accepted", "broken"}
         /\ WorkerOK /\ RepositoryOK /\ QueueOK
  BY ExecHolder, TypeParts DEF ExecInv, Inv, Live, WorkerOK

\* Load keeps ExecInv.
LEMMA LoadExec == ASSUME Inv, ExecInv, NEW p \in Procs, Load(p) PROVE ExecInv'
  <1>1. Executing(p) /\ ready' = ready /\ msg' = msg /\ Task(p)' = Task(p) /\ phase' = phase
    BY DEF Load, Executing, Task, queue, handlers
  <1>2. RowOK(Task(p))'
    BY <1>1, NeverRefused, StageParts, ExecHolder
       DEF Load, Finish, Goto, repository, handlers, queue, RowOK, OnStage, RepositoryOK, QueueOK
  <1>3. Executing(p)' => OnStage(p)'
    BY <1>1, NeverRefused, StageParts, ExecHolder
       DEF Load, Finish, Goto, repository, handlers, queue, Executing, OnStage, WorkerOK,
           RepositoryOK, QueueOK
  <1> QED  BY <1>1, <1>2, <1>3, StageExec DEF Work

\* Start keeps ExecInv.
LEMMA StartExec == ASSUME Inv, ExecInv, NEW p \in Procs, Start(p) PROVE ExecInv'
  <1>1. Executing(p) /\ ready' = ready /\ msg' = msg /\ Task(p)' = Task(p) /\ phase' = phase
    BY DEF Start, Executing, Task, queue, handlers
  <1>2. RowOK(Task(p))'
    BY <1>1, NeverRefused, StageParts, ExecHolder
       DEF Start, SetTask, Finish, Goto, handlers, queue, RowOK, OnStage, RepositoryOK, QueueOK
  <1>3. Executing(p)' => OnStage(p)'
    BY <1>1, NeverRefused, StageParts, ExecHolder
       DEF Start, SetTask, Finish, Goto, handlers, queue, Executing, OnStage, WorkerOK,
           RepositoryOK, QueueOK
  <1> QED  BY <1>1, <1>2, <1>3, StageExec DEF Work

\* Begin keeps ExecInv.
LEMMA BeginExec == ASSUME Inv, ExecInv, NEW p \in Procs, Begin(p) PROVE ExecInv'
  <1>1. Executing(p) /\ ready' = ready /\ msg' = msg /\ Task(p)' = Task(p) /\ phase' = phase
    BY DEF Begin, Executing, Task, queue, handlers
  <1>2. RowOK(Task(p))'
    BY <1>1, NeverRefused, StageParts, ExecHolder
       DEF Begin, Advance, SetTask, Raise, Goto, repository, handlers, queue, RowOK, OnStage,
           RepositoryOK, QueueOK
  <1>3. Executing(p)' => OnStage(p)'
    BY <1>1, NeverRefused, StageParts, ExecHolder
       DEF Begin, Advance, SetTask, Raise, Goto, repository, handlers, queue, Executing, OnStage,
           WorkerOK, RepositoryOK, QueueOK
  <1> QED  BY <1>1, <1>2, <1>3, StageExec DEF Work

\* PreprocessOk keeps ExecInv.
LEMMA PreprocessOkExec == ASSUME Inv, ExecInv, NEW p \in Procs, PreprocessOk(p) PROVE ExecInv'
  <1>1. Executing(p) /\ ready' = ready /\ msg' = msg /\ Task(p)' = Task(p) /\ phase' = phase
    BY DEF PreprocessOk, Executing, Task, queue, handlers
  <1>2. RowOK(Task(p))'
    BY <1>1, NeverRefused, StageParts, ExecHolder
       DEF PreprocessOk, Advance, SetTask, Raise, Goto, handlers, queue, RowOK, OnStage,
           RepositoryOK, QueueOK
  <1>3. Executing(p)' => OnStage(p)'
    BY <1>1, NeverRefused, StageParts, ExecHolder
       DEF PreprocessOk, Advance, SetTask, Raise, Goto, handlers, queue, Executing, OnStage,
           WorkerOK, RepositoryOK, QueueOK
  <1> QED  BY <1>1, <1>2, <1>3, StageExec DEF Work

\* EmbedOk keeps ExecInv.
LEMMA EmbedOkExec == ASSUME Inv, ExecInv, NEW p \in Procs, EmbedOk(p) PROVE ExecInv'
  <1>1. Executing(p) /\ ready' = ready /\ msg' = msg /\ Task(p)' = Task(p) /\ phase' = phase
    BY DEF EmbedOk, Executing, Task, queue, handlers
  <1>2. RowOK(Task(p))'
    BY <1>1, NeverRefused, StageParts, ExecHolder
       DEF EmbedOk, Advance, SetTask, Raise, Goto, handlers, queue, RowOK, OnStage, RepositoryOK,
           QueueOK
  <1>3. Executing(p)' => OnStage(p)'
    BY <1>1, NeverRefused, StageParts, ExecHolder
       DEF EmbedOk, Advance, SetTask, Raise, Goto, handlers, queue, Executing, OnStage, WorkerOK,
           RepositoryOK, QueueOK
  <1> QED  BY <1>1, <1>2, <1>3, StageExec DEF Work

\* UpsertOk keeps ExecInv.
LEMMA UpsertOkExec == ASSUME Inv, ExecInv, NEW p \in Procs, UpsertOk(p) PROVE ExecInv'
  <1>1. Executing(p) /\ ready' = ready /\ msg' = msg /\ Task(p)' = Task(p) /\ phase' = phase
    BY DEF UpsertOk, Executing, Task, queue, handlers
  <1>2. RowOK(Task(p))'
    BY <1>1, NeverRefused, StageParts, ExecHolder
       DEF UpsertOk, Advance, SetTask, Raise, Goto, handlers, queue, RowOK, OnStage,
           RepositoryOK, QueueOK
  <1>3. Executing(p)' => OnStage(p)'
    BY <1>1, NeverRefused, StageParts, ExecHolder
       DEF UpsertOk, Advance, SetTask, Raise, Goto, handlers, queue, Executing, OnStage,
           WorkerOK, RepositoryOK, QueueOK
  <1> QED  BY <1>1, <1>2, <1>3, StageExec DEF Work

\* CallUnavailable keeps ExecInv.
LEMMA CallUnavailableExec == ASSUME Inv, ExecInv, NEW p \in Procs, CallUnavailable(p) PROVE ExecInv'
  <1>1. Executing(p) /\ ready' = ready /\ msg' = msg /\ Task(p)' = Task(p) /\ phase' = phase
    BY DEF CallUnavailable, Executing, Task, queue, handlers
  <1>2. RowOK(Task(p))'
    BY <1>1, NeverRefused, StageParts, ExecHolder
       DEF CallUnavailable, Raise, Goto, repository, handlers, queue, RowOK, OnStage,
           RepositoryOK, QueueOK
  <1>3. /\ status[Task(p)] \in {"preprocessing", "embedding", "persisting"}
        /\ attemptCount[Task(p)] = msg[p].attempt
    BY <1>1, StageParts DEF CallUnavailable, OnStage
  <1>4. /\ pc'[p] = "handle" /\ err'[p] = "unavailable"
        /\ status' = status /\ attemptCount' = attemptCount
    BY <1>1, StageParts DEF CallUnavailable, Raise, Goto, repository, WorkerOK
  <1>5. OnStage(p)'
    BY <1>1, <1>3, <1>4 DEF OnStage
  <1> QED  BY <1>1, <1>2, <1>5, StageExec DEF Work

\* CallRejected keeps ExecInv.
LEMMA CallRejectedExec == ASSUME Inv, ExecInv, NEW p \in Procs, CallRejected(p) PROVE ExecInv'
  <1>1. Executing(p) /\ ready' = ready /\ msg' = msg /\ Task(p)' = Task(p) /\ phase' = phase
    BY DEF CallRejected, Executing, Task, queue, handlers
  <1>2. RowOK(Task(p))'
    BY <1>1, NeverRefused, StageParts, ExecHolder
       DEF CallRejected, Raise, Goto, repository, handlers, queue, RowOK, OnStage, RepositoryOK,
           QueueOK
  <1>3. Executing(p)' => OnStage(p)'
    BY <1>1, NeverRefused, StageParts, ExecHolder
       DEF CallRejected, Raise, Goto, repository, handlers, queue, Executing, OnStage, WorkerOK,
           RepositoryOK, QueueOK
  <1> QED  BY <1>1, <1>2, <1>3, StageExec DEF Work

\* The verdict of the error handler leaves the row in order.
LEMMA VerdictRow ==
  ASSUME Inv, ExecInv, NEW p \in Procs, pc[p] = "handle", deadLetters' = deadLetters,
         phase' = phase, MayMove(status[Task(p)], Verdict(p)),
         SetTask(Task(p), Verdict(p), msg[p].attempt, err[p])
  PROVE  /\ RowOK(Task(p))' \/ Task(p)' # Task(p)
         /\ status[Task(p)] # "succeeded" /\ deadLetters[Task(p)] = 0
         /\ status'[Task(p)] = Verdict(p) /\ attemptCount'[Task(p)] = msg[p].attempt
  <1>1. Executing(p) /\ Verdict(p) \in {"retrying", "failed"}
    BY DEF Executing, Verdict
  <1>2. OnStage(p) /\ RowOK(Task(p)) /\ Task(p) \in Tasks /\ RepositoryOK
        /\ phase[Task(p)] \in {"accepted", "broken"}
    BY <1>1, StageParts
  <1>3. status[Task(p)] # "succeeded"
    BY <1>1, Table DEF TerminalStates, Statuses, ActiveStates
  <1>4. deadLetters[Task(p)] = 0 /\ err[p] # "conflict"
    BY <1>2, <1>3 DEF OnStage, RowOK
  <1>5. /\ status'[Task(p)] = Verdict(p) /\ attemptCount'[Task(p)] = msg[p].attempt
        /\ errorCode'[Task(p)] = err[p]
    BY <1>2 DEF SetTask, RepositoryOK
  <1>6. Task(p)' = Task(p) => RowOK(Task(p))'
    BY <1>2, <1>4, <1>5 DEF RowOK
  <1> QED  BY <1>3, <1>4, <1>5, <1>6

\* HandleError keeps ExecInv.
LEMMA HandleErrorExec == ASSUME Inv, ExecInv, NEW p \in Procs, HandleError(p) PROVE ExecInv'
  <1>1. /\ Executing(p) /\ pc[p] = "handle"
        /\ ready' = ready /\ msg' = msg /\ Task(p)' = Task(p) /\ phase' = phase
        /\ deadLetters' = deadLetters
    BY DEF HandleError, Executing, Task, queue, handlers
  <1>2. CASE UNCHANGED repository /\ Finish(p, "dead")
    <2>1. RowOK(Task(p))' /\ ~Executing(p)'
      BY <1>1, <1>2, StageParts
         DEF Finish, Goto, Executing, RowOK, repository
    <2> QED  BY <1>1, <2>1, StageExec DEF Work
  <1>3. CASE /\ MayMove(status[Task(p)], Verdict(p))
             /\ SetTask(Task(p), Verdict(p), msg[p].attempt, err[p])
             /\ Goto(p, IF Verdict(p) = "retrying" THEN "backoff" ELSE "bury")
    <2>1. /\ RowOK(Task(p))' /\ deadLetters[Task(p)] = 0
          /\ status'[Task(p)] = Verdict(p) /\ attemptCount'[Task(p)] = msg[p].attempt
      BY <1>1, <1>3, VerdictRow
    <2>2. Verdict(p) \in {"retrying", "failed"}
      BY DEF Verdict
    <2>3. OnStage(p)'
      BY <1>1, <1>3, <2>1, <2>2, StageParts DEF Goto, OnStage
    <2> QED  BY <1>1, <2>1, <2>3, StageExec DEF Work
  <1> QED  BY <1>2, <1>3 DEF HandleError

\* BackoffEnds keeps ExecInv.
LEMMA BackoffEndsExec == ASSUME Inv, ExecInv, NEW p \in Procs, BackoffEnds(p) PROVE ExecInv'
  <1>1. Executing(p) /\ ready' = ready /\ msg' = msg /\ Task(p)' = Task(p) /\ phase' = phase
    BY DEF BackoffEnds, Executing, Task, queue, handlers
  <1>2. RowOK(Task(p))'
    BY <1>1, NeverRefused, StageParts, ExecHolder
       DEF BackoffEnds, SetTask, Finish, Goto, handlers, queue, RowOK, OnStage, RepositoryOK,
           QueueOK
  <1>3. Executing(p)' => OnStage(p)'
    BY <1>1, NeverRefused, StageParts, ExecHolder
       DEF BackoffEnds, SetTask, Finish, Goto, handlers, queue, Executing, OnStage, WorkerOK,
           RepositoryOK, QueueOK
  <1> QED  BY <1>1, <1>2, <1>3, StageExec DEF Work

\* Bury keeps ExecInv.
LEMMA BuryExec == ASSUME Inv, ExecInv, NEW p \in Procs, Bury(p) PROVE ExecInv'
  <1>1. Executing(p) /\ ready' = ready /\ msg' = msg /\ Task(p)' = Task(p) /\ phase' = phase
    BY DEF Bury, Executing, Task, queue, handlers
  <1>2. RowOK(Task(p))'
    BY <1>1, NeverRefused, StageParts, ExecHolder
       DEF Bury, Finish, Goto, repository, handlers, RowOK, OnStage, RepositoryOK, QueueOK
  <1>3. Executing(p)' => OnStage(p)'
    BY <1>1, NeverRefused, StageParts, ExecHolder
       DEF Bury, Finish, Goto, repository, handlers, Executing, OnStage, WorkerOK, RepositoryOK,
           QueueOK
  <1> QED  BY <1>1, <1>2, <1>3, StageExec DEF Work

\* Dequeue keeps ExecInv: the message moves from the queue to the worker.
LEMMA DequeueExec == ASSUME Inv, ExecInv, NEW p \in Procs, Dequeue(p) PROVE ExecInv'
  <1>1. PICK m \in ready : ready' = ready \ {m} /\ msg' = [msg EXCEPT ![p] = m]
    BY DEF Dequeue
  <1>2. TypeInv /\ m.task \in Tasks /\ ready \subseteq Messages
    BY TypeParts DEF Inv, QueueOK, Messages
  <1>3. ~Executing(p) /\ pc' = [pc EXCEPT ![p] = "load"] /\ pc'[p] = "load" /\ Task(p)' = m.task
    BY <1>1, <1>2, TypeParts DEF Dequeue, Executing, Goto, Task, WorkerOK
  <1>4. \A q \in Procs \ {p} :
          SameWorker(q) /\ Task(q)' = Task(q) /\ (Executing(q)' <=> Executing(q))
    BY <1>1, <1>2, <1>3, TypeParts DEF Dequeue, SameWorker, Executing, Task, WorkerOK
  <1>5. /\ status' = status /\ attemptCount' = attemptCount /\ errorCode' = errorCode
        /\ deadLetters' = deadLetters /\ phase' = phase
    BY DEF Dequeue, repository, handlers
  <1>6. AloneInv'
    BY <1>1, <1>3, <1>4 DEF ExecInv, AloneInv
  <1>7. (\A n \in ready' : Fresh(n)') /\ \A t \in Tasks : RowOK(t)'
    BY <1>1, <1>5 DEF ExecInv, Fresh, RowOK
  <1>8. OnStage(p)'
    BY <1>1, <1>2, <1>3, <1>5, TypeParts DEF ExecInv, Fresh, OnStage, WorkerOK
  <1>9. ASSUME NEW q \in Procs \ {p}, Executing(q)' PROVE OnStage(q)'
    BY <1>4, <1>5, <1>9 DEF ExecInv, OnStage, SameWorker
  <1> QED  BY <1>6, <1>7, <1>8, <1>9 DEF ExecInv

\* Requeue keeps ExecInv.
LEMMA RequeueExec == ASSUME Inv, ExecInv, NEW p \in Procs, Requeue(p) PROVE ExecInv'
  <1>1. /\ pc[p] = "requeue" /\ pc'[p] = "ack" /\ msg' = msg /\ phase' = phase
        /\ Put(Task(p), msg[p].attempt + 1)
    BY TypeParts DEF Requeue, Finish, Goto, handlers, Inv, WorkerOK
  <1>2. \A t \in Tasks : SameTask(t)
    BY DEF Requeue, Put, repository, SameTask
  <1> QED  BY <1>1, <1>2, WorkFrame, HandsOn DEF Work, Inv

\* A worker that gives up or is given up, with every row as it was, keeps
\* ExecInv.
LEMMA WorkerStops ==
  ASSUME Inv, ExecInv, NEW p \in Procs, ready' = ready, ~Executing(p)',
         UNCHANGED <<repository, deadLetters>>,
         \A t \in Tasks : SamePhase(t),
         \A q \in Procs \ {p} : SameWorker(q)
  PROVE  ExecInv'
  <1>1. ready' \in SUBSET Messages /\ \A t \in Tasks : SameTask(t)
    BY TypeParts DEF Inv, QueueOK, SameTask, repository
  <1> QED  BY <1>1, WorkerMoves

\* The acknowledgement of a message keeps ExecInv.
LEMMA AckExec == ASSUME Inv, ExecInv, NEW p \in Procs, Ack(p) PROVE ExecInv'
  <1>1. /\ pc'[p] \in {"idle", "dead", "down"}
        /\ ready' = ready /\ UNCHANGED <<repository, deadLetters>>
    BY TypeParts DEF Ack, Goto, queue, Inv, WorkerOK
  <1> QED  BY <1>1, WorkFrame, WorkerStops DEF Work, Executing, Inv

\* With a queue that hands a message out once, the queue keeps what a dead
\* consumer held to itself.
LEMMA NothingReleased ==
  ASSUME SingleDelivery, NEW p \in Procs, Crash(p) \/ (Shutdown(p) /\ Release(p))
  PROVE  ready' = ready /\ deadLetters' = deadLetters
  BY DEF SingleDelivery, Crash, Shutdown, Fault, Release

\* An error of the repository inside the try of an execution keeps ExecInv.
LEMMA StageErrorExec == ASSUME Inv, ExecInv, NEW p \in Procs, StageError(p) PROVE ExecInv'
  <1>1. /\ Executing(p) /\ ready' = ready /\ msg' = msg /\ Task(p)' = Task(p)
        /\ phase' = phase /\ deadLetters' = deadLetters
        /\ \A q \in Procs \ {p} : SameWorker(q)
    BY TypeParts DEF StageError, Executing, Task, queue, handlers, Raise, Goto, SameWorker, Inv,
                     WorkerOK
  <1>2. /\ OnStage(p) /\ RowOK(Task(p)) /\ Task(p) \in Tasks /\ RepositoryOK /\ WorkerOK
        /\ phase[Task(p)] \in {"accepted", "broken"} /\ ready \in SUBSET Messages
    BY <1>1, StageParts DEF QueueOK
  <1>3. /\ status[Task(p)] \in {"queued", "preprocessing", "embedding", "persisting"}
        /\ attemptCount[Task(p)] = msg[p].attempt
    BY <1>2 DEF StageError, OnStage
  <1>4. \/ UNCHANGED repository
        \/ \E s \in {"preprocessing", "embedding", "persisting", "succeeded"} :
             SetTask(Task(p), s, attemptCount[Task(p)], "none")
    BY DEF StageError, MayHaveMoved
  <1>5. /\ status'[Task(p)] \in {"queued", "preprocessing", "embedding", "persisting", "succeeded"}
        /\ attemptCount'[Task(p)] = msg[p].attempt
        /\ errorCode'[Task(p)] # "conflict"
        /\ \A t \in Tasks \ {Task(p)} : SameTask(t)
    BY <1>1, <1>2, <1>3, <1>4 DEF SetTask, RepositoryOK, RowOK, SameTask, repository
  <1>6. pc'[p] = "handle" /\ err'[p] = "rejected"
    BY <1>2 DEF StageError, Raise, Goto, WorkerOK
  <1>7. OnStage(p)'
    BY <1>1, <1>5, <1>6 DEF OnStage
  <1>8. ASSUME NEW t \in Tasks, t = Task(p) PROVE RowOK(t)'
    BY <1>1, <1>2, <1>3, <1>5, <1>8 DEF RowOK
  <1>9. \A t \in Tasks : /\ SamePhase(t)
                         /\ SameTask(t) \/ (Executing(p) /\ t = Task(p) /\ RowOK(t)')
    BY <1>1, <1>5, <1>8 DEF SamePhase
  <1> QED  BY <1>1, <1>2, <1>7, <1>9, WorkerMoves

\* An error of the repository that ends a worker task keeps ExecInv.
LEMMA WorkerRepositoryErrorExec ==
  ASSUME Inv, ExecInv, NEW p \in Procs, WorkerRepositoryError(p)
  PROVE  ExecInv'
  <1>1. /\ Executing(p) /\ ready' = ready /\ ~Executing(p)' /\ Task(p)' = Task(p)
        /\ phase' = phase /\ deadLetters' = deadLetters
        /\ \A q \in Procs \ {p} : SameWorker(q)
    BY TypeParts
       DEF WorkerRepositoryError, Executing, Task, queue, handlers, Finish, Goto, SameWorker, Inv,
           WorkerOK
  <1>2. /\ OnStage(p) /\ RowOK(Task(p)) /\ Task(p) \in Tasks /\ RepositoryOK
        /\ phase[Task(p)] \in {"accepted", "broken"} /\ ready \in SUBSET Messages
    BY <1>1, StageParts DEF QueueOK
  <1>3. CASE UNCHANGED repository
    BY <1>1, <1>3, WorkerStops DEF SamePhase
  <1>4. CASE /\ pc[p] = "handle"
             /\ MayHaveMoved(Task(p), Verdict(p), msg[p].attempt, err[p])
             /\ ~UNCHANGED repository
    <2>1. RowOK(Task(p))'
      BY <1>1, <1>4, VerdictRow DEF MayHaveMoved
    <2>2. \A t \in Tasks \ {Task(p)} : SameTask(t)
      BY <1>1, <1>2, <1>4 DEF MayHaveMoved, SetTask, RepositoryOK, SameTask
    <2>3. ASSUME NEW t \in Tasks, t = Task(p) PROVE RowOK(t)'
      BY <1>1, <2>1, <2>3 DEF RowOK
    <2>4. \A t \in Tasks : /\ SamePhase(t)
                           /\ SameTask(t) \/ (Executing(p) /\ t = Task(p) /\ RowOK(t)')
      BY <1>1, <2>2, <2>3 DEF SamePhase
    <2> QED  BY <1>1, <1>2, <2>4, WorkerMoves
  <1>5. CASE /\ \/ pc[p] = "start" /\ SetTask(Task(p), snap[p], msg[p].attempt, "none")
                \/ pc[p] = "backoff" /\ SetTask(Task(p), "queued", msg[p].attempt, "none")
    <2>1. deadLetters[Task(p)] = 0
      BY <1>2, <1>5 DEF OnStage, RowOK
    <2>2. /\ errorCode'[Task(p)] = "none"
          /\ \A t \in Tasks \ {Task(p)} : SameTask(t)
      BY <1>1, <1>2, <1>5 DEF SetTask, RepositoryOK, SameTask
    <2>3. ASSUME NEW t \in Tasks, t = Task(p) PROVE RowOK(t)'
      BY <1>1, <1>2, <2>1, <2>2, <2>3 DEF RowOK
    <2>4. \A t \in Tasks : /\ SamePhase(t)
                           /\ SameTask(t) \/ (Executing(p) /\ t = Task(p) /\ RowOK(t)')
      BY <1>1, <2>2, <2>3 DEF SamePhase
    <2> QED  BY <1>1, <1>2, <2>4, WorkerMoves
  <1> QED  BY <1>3, <1>4, <1>5 DEF WorkerRepositoryError, MayHaveMoved

\* The faults of a process keep ExecInv.
LEMMA FaultExec ==
  ASSUME SingleDelivery, Inv, ExecInv, NEW p \in Procs, ProcFault(p)
  PROVE  ExecInv'
  <1>1. TypeInv /\ WorkerOK /\ HandlersOK /\ QueueOK
    BY TypeParts DEF Inv
  <1>2. CASE Crash(p)
    <2>1. /\ ~Executing(p)' /\ UNCHANGED repository
          /\ \A q \in Procs \ {p} : SameWorker(q)
      BY <1>1, <1>2 DEF Crash, Goto, Forget, Executing, SameWorker, WorkerOK
    <2>2. \A t \in Tasks : SamePhase(t)
      BY <1>2 DEF Crash, BreakHandlers, SamePhase
    <2> QED  BY <1>2, <2>1, <2>2, NothingReleased, WorkerStops
  <1>3. CASE Restart(p)
    <2>1. /\ ~Executing(p)' /\ ready' = ready /\ UNCHANGED <<repository, deadLetters>>
          /\ \A q \in Procs \ {p} : SameWorker(q)
          /\ \A t \in Tasks : SamePhase(t)
      BY <1>1, <1>3
         DEF Restart, Goto, Executing, SameWorker, WorkerOK, SamePhase, handlers, queue
    <2> QED  BY <2>1, WorkerStops
  <1>4. CASE Shutdown(p)
    <2>1. /\ ~Executing(p)' /\ UNCHANGED repository
          /\ \A q \in Procs \ {p} : SameWorker(q)
          /\ \A t \in Tasks : SamePhase(t)
      BY <1>1, <1>4
         DEF Shutdown, Goto, Finish, Forget, Executing, SameWorker, WorkerOK, SamePhase, handlers
    <2>2. ready' = ready /\ deadLetters' = deadLetters
      BY <1>4, NothingReleased DEF Shutdown, queue
    <2> QED  BY <2>1, <2>2, WorkerStops
  <1>5. CASE WorkerBrokerError(p)
    <2>1. /\ \A q \in Procs \ {p} : SameWorker(q)
          /\ \A t \in Tasks : SamePhase(t)
          /\ phase' = phase /\ msg' = msg /\ ~Executing(p)' /\ UNCHANGED repository
      BY <1>1, <1>5
         DEF WorkerBrokerError, Goto, Finish, SameWorker, WorkerOK, SamePhase, handlers, Executing
    <2>2. CASE ready' = ready /\ deadLetters' = deadLetters
      BY <2>1, <2>2, WorkerStops
    <2>3. CASE pc[p] = "requeue" /\ Put(Task(p), msg[p].attempt + 1)
      <3>1. pc'[p] = "ack" /\ \A t \in Tasks : SameTask(t)
        BY <1>1, <1>5, <2>1, <2>3
           DEF WorkerBrokerError, Finish, Goto, WorkerOK, Put, repository, SameTask
      <3> QED  BY <2>1, <2>3, <3>1, HandsOn
    <2>4. CASE /\ pc[p] = "bury" /\ ready' = ready
               /\ deadLetters' = [deadLetters EXCEPT ![Task(p)] = @ + 1]
      <3>1. Executing(p) /\ Task(p)' = Task(p)
        BY <2>1, <2>4 DEF Executing, Task
      <3>2. ready' \in SUBSET Messages /\ \A t \in Tasks : SameTask(t) \/ t = Task(p)
        BY <1>1, <2>1, <2>4 DEF QueueOK, SameTask, repository
      <3>3. ASSUME NEW t \in Tasks, t = Task(p) PROVE RowOK(t)'
        BY <1>1, <2>1, <2>4, <3>1, <3>3, StageParts DEF RowOK, OnStage, QueueOK, repository
      <3>4. \A t \in Tasks : /\ SamePhase(t)
                             /\ SameTask(t) \/ (Executing(p) /\ t = Task(p) /\ RowOK(t)')
        BY <2>1, <3>1, <3>2, <3>3
      <3> QED  BY <2>1, <2>4, <3>2, <3>4, WorkerMoves
    <2> QED  BY <1>5, <2>2, <2>3, <2>4 DEF WorkerBrokerError, queue
  <1>6. ~Rebalance(p)
    BY ConstantsAssumption DEF Rebalance, Fault, SingleDelivery
  <1> QED
    BY <1>2, <1>3, <1>4, <1>5, <1>6, StageErrorExec, WorkerRepositoryErrorExec DEF ProcFault

\* Every step keeps ExecInv on a queue that hands a message out once.
LEMMA ExecStep ==
  ASSUME SingleDelivery
  PROVE  Inv /\ ExecInv /\ [Next]_vars => ExecInv'
  <1> SUFFICES ASSUME Inv, ExecInv, [Next]_vars PROVE ExecInv'
    OBVIOUS
  <1>1. ASSUME NEW t \in Tasks, Handler(t) \/ HandlerFault(t) PROVE ExecInv'
    BY <1>1, HandlerExec
  <1>2. ASSUME NEW p \in Procs, Work(p) PROVE ExecInv'
    BY <1>2, DequeueExec, LoadExec, StartExec, BeginExec, PreprocessOkExec, EmbedOkExec,
       UpsertOkExec, CallUnavailableExec, CallRejectedExec, HandleErrorExec, BackoffEndsExec,
       RequeueExec, BuryExec, AckExec
       DEF Work
  <1>3. ASSUME NEW p \in Procs, ProcFault(p) PROVE ExecInv'
    BY <1>3, FaultExec
  <1>4. ASSUME StoreApplies \/ UNCHANGED vars PROVE ExecInv'
    BY <1>4
       DEF StoreApplies, vars, repository, handlers, queue, worker, ExecInv, AloneInv, Fresh,
           Executing, Task, OnStage, RowOK
  <1> QED  BY <1>1, <1>2, <1>3, <1>4 DEF Next

\* Along every behaviour on such a queue.
LEMMA ExecCorrect == ASSUME SingleDelivery PROVE Spec => [](Inv /\ ExecInv)
  <1>1. Inv /\ ExecInv /\ [Next]_vars => ExecInv'
    BY ExecStep
  <1> QED  BY <1>1, ExecInit, InductiveInv, PTL DEF Spec
-----------------------------------------------------------------------------
\* A worker that waits, or is down, holds no message.
RestInv == \A p \in Procs : pc[p] \in {"idle", "down"} => msg[p] = NoMessage

\* Every step keeps RestInv, whatever the faults.
LEMMA RestStep == TypeInv /\ RestInv /\ [Next]_vars => RestInv'
  <1> SUFFICES ASSUME TypeInv, RestInv, [Next]_vars, NEW q \in Procs, pc'[q] \in {"idle", "down"}
               PROVE  msg'[q] = NoMessage
    BY DEF RestInv
  <1>1. WorkerOK /\ (pc[q] \in {"idle", "down"} => msg[q] = NoMessage)
    BY TypeParts DEF RestInv
  <1>2. ASSUME NEW t \in Tasks, Handler(t) \/ HandlerFault(t) PROVE msg'[q] = NoMessage
    BY <1>1, <1>2
       DEF Handler, CreateTask, MarkQueued, EnqueueTask, HandlerFault, CreateBrokerError,
           CreateRepositoryError, worker
  <1>3. ASSUME NEW p \in Procs, Work(p) PROVE msg'[q] = NoMessage
    <2>1. CASE p = q
      <3>1. CASE Dequeue(p) \/ Load(p) \/ Start(p) \/ HandleError(p) \/ BackoffEnds(p)
        BY <1>1, <2>1, <3>1
           DEF Dequeue, Load, Start, HandleError, BackoffEnds, Goto, Finish, WorkerOK
      <3>2. CASE Begin(p) \/ PreprocessOk(p) \/ EmbedOk(p) \/ UpsertOk(p)
        BY <1>1, <2>1, <3>2
           DEF Begin, PreprocessOk, EmbedOk, UpsertOk, Advance, Raise, Goto, WorkerOK
      <3>3. CASE CallUnavailable(p) \/ CallRejected(p) \/ Requeue(p) \/ Bury(p) \/ Ack(p)
        BY <1>1, <2>1, <3>3
           DEF CallUnavailable, CallRejected, Requeue, Bury, Ack, Raise, Goto, Finish, Forget,
               WorkerOK
      <3> QED  BY <1>3, <3>1, <3>2, <3>3 DEF Work
    <2>2. CASE p # q
      BY <1>1, <1>3, <2>2, Frames
    <2> QED  BY <2>1, <2>2
  <1>4. ASSUME NEW p \in Procs, ProcFault(p) PROVE msg'[q] = NoMessage
    BY <1>1, <1>4
       DEF ProcFault, Crash, Restart, Shutdown, WorkerBrokerError, StageError,
           WorkerRepositoryError, Rebalance, Raise, Goto, Finish, Forget, WorkerOK
  <1> QED  BY <1>1, <1>2, <1>3, <1>4 DEF Next, StoreApplies, vars, worker

\* A set whose elements are all equal has at most one.
LEMMA AtMostOne ==
  ASSUME NEW S, \A x, y \in S : x = y
  PROVE  IF S = {} THEN Cardinality(S) = 0 ELSE Cardinality(S) = 1
  <1>1. CASE S = {}
    BY <1>1, FS_EmptySet
  <1>2. CASE S # {}
    <2>1. PICK x \in S : TRUE
      BY <1>2
    <2>2. S = {x}
      BY <2>1
    <2> QED  BY <1>2, <2>2, FS_Singleton
  <1> QED  BY <1>1, <1>2

\* A task has at most one carrier: no two messages of it wait, no two workers
\* are at work on it, and no message of it waits while a worker is.
THEOREM OneExecution == ASSUME SingleDelivery PROVE Spec => []OneCarrier
  <1>1. Inv /\ ExecInv /\ RestInv => OneCarrier
    <2> SUFFICES ASSUME Inv, ExecInv, RestInv, NEW t \in Tasks
                 PROVE  Cardinality({m \in ready : m.task = t})
                          + Cardinality({p \in Procs : /\ pc[p] \notin {"ack", "dead"}
                                                       /\ msg[p] # NoMessage
                                                       /\ msg[p].task = t}) <= 1
      BY DEF OneCarrier
    <2> DEFINE Waits == {m \in ready : m.task = t}
               Works == {p \in Procs : /\ pc[p] \notin {"ack", "dead"}
                                       /\ msg[p] # NoMessage
                                       /\ msg[p].task = t}
    <2>1. ASSUME NEW p \in Works PROVE Executing(p) /\ Task(p) = t
      BY TypeParts DEF RestInv, Inv, WorkerOK, Locations, Executing, Task
    <2>2. \A m, n \in Waits : m = n
      BY DEF ExecInv, AloneInv
    <2>3. \A p, q \in Works : p = q
      BY <2>1 DEF ExecInv, AloneInv
    <2>4. Waits = {} \/ Works = {}
      BY <2>1 DEF ExecInv, AloneInv
    <2> HIDE DEF Waits, Works
    <2>5. Cardinality(Waits) + Cardinality(Works) <= 1
      BY <2>2, <2>3, <2>4, AtMostOne
    <2> QED  BY <2>5 DEF Waits, Works
  <1>2. Init => RestInv
    BY DEF Init, RestInv
  <1>3. Inv /\ RestInv /\ [Next]_vars => RestInv'
    BY RestStep DEF Inv
  <1> QED  BY <1>1, <1>2, <1>3, ExecCorrect, PTL DEF Spec

\* No task fails because its own state machine refused a step of it.
THEOREM NoConflicts == ASSUME SingleDelivery PROVE Spec => []NeverFailsByConflict
  <1>1. Inv /\ ExecInv => NeverFailsByConflict
    BY DEF ExecInv, RowOK, NeverFailsByConflict
  <1> QED  BY <1>1, ExecCorrect, PTL

\* A failed task has at most one dead-letter record, another task none.
THEOREM OneDeadLetter == ASSUME SingleDelivery PROVE Spec => []DeadLetteredOnce
  <1>1. Inv /\ ExecInv => DeadLetteredOnce
    BY DEF ExecInv, RowOK, DeadLetteredOnce
  <1> QED  BY <1>1, ExecCorrect, PTL
-----------------------------------------------------------------------------
\* What a client is shown, the state of the abstract specification.
Shown == [t \in Tasks |-> PublicStatus(status[t])]

\* Moving the row of t moves what is shown of t and nothing else.
LEMMA ShownMoves ==
  ASSUME RepositoryOK, NEW t \in Tasks, NEW s, NEW a, NEW code, SetTask(t, s, a, code)
  PROVE  /\ Shown' = [Shown EXCEPT ![t] = PublicStatus(s)]
         /\ attemptCount' = [attemptCount EXCEPT ![t] = a]
         /\ attemptCount[t] = a => attemptCount' = attemptCount
         /\ PublicStatus(status[t]) = PublicStatus(s) => Shown' = Shown
         /\ Shown[t] = PublicStatus(status[t]) /\ attemptCount[t] \in Nat
  <1>1. \A u \in Tasks : status'[u] = IF u = t THEN s ELSE status[u]
    BY DEF SetTask, RepositoryOK
  <1>2. Shown' = [Shown EXCEPT ![t] = PublicStatus(s)]
    BY <1>1 DEF Shown
  <1>3. PublicStatus(status[t]) = PublicStatus(s) => Shown' = Shown
    BY <1>1 DEF Shown
  <1>4. attemptCount[t] = a => attemptCount' = attemptCount
    BY DEF SetTask, RepositoryOK
  <1>5. attemptCount[t] \in Nat
    BY ConstantsAssumption DEF RepositoryOK
  <1> QED  BY <1>2, <1>3, <1>4, <1>5 DEF Shown, SetTask

\* The statuses as a client sees them.
LEMMA Projection ==
  /\ \A s \in {"absent", "accepted", "queued", "succeeded", "failed"} : PublicStatus(s) = s
  /\ \A s \in {"preprocessing", "embedding", "persisting", "retrying"} :
       PublicStatus(s) = "running"
  BY DEF PublicStatus

\* What a client sees of a step on a queue that hands a message out once: one
\* step of TaskLifecycle, or nothing.
LEMMA LifecycleStep ==
  ASSUME Inv, ExecInv, [Next]_vars
  PROVE  \/ Shown' = Shown /\ attemptCount' = attemptCount
         \/ \E t \in Tasks : \/ Lifecycle!Submit(t) \/ Lifecycle!Queue(t)
                             \/ Lifecycle!BeginAttempt(t) \/ Lifecycle!Run(t)
                             \/ Lifecycle!Retry(t) \/ Lifecycle!Settle(t)
  <1> DEFINE Moves(t) == \/ Lifecycle!Submit(t) \/ Lifecycle!Queue(t)
                         \/ Lifecycle!BeginAttempt(t) \/ Lifecycle!Run(t)
                         \/ Lifecycle!Retry(t) \/ Lifecycle!Settle(t)
             Idle == Shown' = Shown /\ attemptCount' = attemptCount
  <1>1. RepositoryOK /\ MaxAttempts \in Nat
    BY TypeParts, ConstantsAssumption DEF Inv
  <1>2. ASSUME UNCHANGED repository PROVE Idle
    BY <1>2 DEF repository, Shown
  <1>3. ASSUME NEW t \in Tasks, phase[t] = "none", SetTask(t, "accepted", 0, "none")
        PROVE  Moves(t)
    <2>1. status[t] = "absent" /\ attemptCount[t] = 0
      BY <1>3 DEF Inv, LifeInv, PhaseInv, ExecInv, RowOK
    <2> QED
      BY <1>1, <1>3, <2>1, ShownMoves, Projection DEF Lifecycle!Submit, Lifecycle!Show, Shown
  <1>4. ASSUME NEW t \in Tasks, phase[t] = "created", SetTask(t, "queued", 0, "none")
        PROVE  Moves(t)
    <2>1. status[t] = "accepted" /\ attemptCount[t] = 0
      BY <1>4 DEF Inv, LifeInv, PhaseInv, ExecInv, RowOK
    <2> QED
      BY <1>1, <1>4, <2>1, ShownMoves, Projection DEF Lifecycle!Queue, Lifecycle!Show, Shown
  <1>5. ASSUME NEW p \in Procs, pc[p] = "start", SetTask(Task(p), snap[p], msg[p].attempt, "none")
        PROVE  Moves(Task(p))
    <2>1. Executing(p)
      BY <1>5 DEF Executing
    <2>2. /\ status[Task(p)] = "queued" /\ SetTask(Task(p), "queued", msg[p].attempt, "none")
          /\ attemptCount[Task(p)] = msg[p].attempt - 1
      BY <1>5, <2>1, StageParts DEF OnStage
    <2>3. /\ attemptCount[Task(p)] < MaxAttempts
          /\ attemptCount' = [attemptCount EXCEPT ![Task(p)] = @ + 1]
          /\ Shown' = Shown /\ Shown[Task(p)] = "queued"
      BY <1>1, <2>1, <2>2, ExecHolder, ShownMoves, Projection
    <2> QED  BY <2>3 DEF Lifecycle!BeginAttempt, Shown
  <1>6. ASSUME NEW p \in Procs, pc[p] = "begin",
               SetTask(Task(p), "preprocessing", attemptCount[Task(p)], "none")
        PROVE  Moves(Task(p))
    <2>1. Executing(p)
      BY <1>6 DEF Executing
    <2>2. status[Task(p)] = "queued" /\ attemptCount[Task(p)] = msg[p].attempt
      BY <1>6, <2>1, StageParts DEF OnStage
    <2>3. /\ Shown[Task(p)] = "queued" /\ Shown' = [Shown EXCEPT ![Task(p)] = "running"]
          /\ attemptCount' = attemptCount /\ attemptCount[Task(p)] > 0
      BY <1>1, <1>6, <2>1, <2>2, ExecHolder, ShownMoves, Projection
    <2> QED  BY <2>3 DEF Lifecycle!Run, Lifecycle!Show, Shown
  <1>7. ASSUME NEW p \in Procs, pc[p] \in {"preprocess", "embed"},
               NEW s \in {"embedding", "persisting"},
               SetTask(Task(p), s, attemptCount[Task(p)], "none")
        PROVE  Idle
    <2>1. Executing(p)
      BY <1>7 DEF Executing
    <2>2. status[Task(p)] \in {"preprocessing", "embedding"}
      BY <1>7, <2>1, StageParts DEF OnStage
    <2> QED  BY <1>1, <1>7, <2>1, <2>2, ExecHolder, ShownMoves, Projection
  <1>8. ASSUME NEW p \in Procs, pc[p] = "upsert",
               SetTask(Task(p), "succeeded", attemptCount[Task(p)], "none")
        PROVE  Moves(Task(p))
    <2>1. Executing(p)
      BY <1>8 DEF Executing
    <2>2. status[Task(p)] = "persisting" /\ attemptCount[Task(p)] = msg[p].attempt
      BY <1>8, <2>1, StageParts DEF OnStage
    <2>3. /\ Shown[Task(p)] = "running" /\ Shown' = [Shown EXCEPT ![Task(p)] = "succeeded"]
          /\ attemptCount' = attemptCount /\ attemptCount[Task(p)] > 0
      BY <1>1, <1>8, <2>1, <2>2, ExecHolder, ShownMoves, Projection
    <2> QED  BY <2>3 DEF Lifecycle!Settle, Lifecycle!Show, Shown
  <1>9. ASSUME NEW p \in Procs, pc[p] = "handle", MayMove(status[Task(p)], Verdict(p)),
               SetTask(Task(p), Verdict(p), msg[p].attempt, err[p])
        PROVE  Moves(Task(p)) \/ Idle
    <2>1. Executing(p)
      BY <1>9 DEF Executing
    <2>2. status[Task(p)] # "succeeded"
      BY <1>9, Table DEF Verdict, TerminalStates, Statuses, ActiveStates
    <2>3. /\ attemptCount[Task(p)] = msg[p].attempt
          /\ status[Task(p)] \in {"queued", "preprocessing", "embedding", "persisting"}
          /\ status[Task(p)] = "queued" => Verdict(p) = "failed"
      BY <1>9, <2>1, <2>2, StageParts DEF OnStage, WorthRetrying, Verdict
    <2>4. attemptCount' = attemptCount /\ attemptCount[Task(p)] > 0
      BY <1>1, <1>9, <2>1, <2>3, ExecHolder, ShownMoves
    <2>5. CASE Verdict(p) = "retrying"
      <3>1. SetTask(Task(p), "retrying", msg[p].attempt, err[p])
        BY <1>9, <2>5
      <3> QED  BY <1>1, <2>1, <2>3, <2>4, <2>5, <3>1, ExecHolder, ShownMoves, Projection
    <2>6. CASE Verdict(p) = "failed"
      <3>1. SetTask(Task(p), "failed", msg[p].attempt, err[p])
        BY <1>9, <2>6
      <3>2. /\ Shown[Task(p)] \in {"queued", "running"}
            /\ Shown' = [Shown EXCEPT ![Task(p)] = "failed"]
        BY <1>1, <2>1, <2>3, <3>1, ExecHolder, ShownMoves, Projection
      <3> QED  BY <2>4, <3>2 DEF Lifecycle!Settle, Lifecycle!Show, Shown
    <2> QED  BY <2>5, <2>6 DEF Verdict
  <1>10. ASSUME NEW p \in Procs, pc[p] = "backoff",
                SetTask(Task(p), "queued", msg[p].attempt, "none")
         PROVE  Moves(Task(p))
    <2>1. Executing(p)
      BY <1>10 DEF Executing
    <2>2. status[Task(p)] = "retrying" /\ attemptCount[Task(p)] = msg[p].attempt
      BY <1>10, <2>1, StageParts DEF OnStage
    <2>3. msg[p].attempt \in 1..(MaxAttempts - 1)
      BY <1>10, <2>1, ExecHolder, TypeParts DEF Inv
    <2>4. /\ Shown[Task(p)] = "running" /\ Shown' = [Shown EXCEPT ![Task(p)] = "queued"]
          /\ attemptCount' = attemptCount
      BY <1>1, <1>10, <2>1, <2>2, ExecHolder, ShownMoves, Projection
    <2> QED  BY <2>2, <2>3, <2>4 DEF Lifecycle!Retry, Lifecycle!Show, Shown
  <1> DEFINE Writes(p) ==
        \/ pc[p] = "start" /\ SetTask(Task(p), snap[p], msg[p].attempt, "none")
        \/ pc[p] = "begin" /\ SetTask(Task(p), "preprocessing", attemptCount[Task(p)], "none")
        \/ /\ pc[p] \in {"preprocess", "embed"}
           /\ \E s \in {"embedding", "persisting"} :
                SetTask(Task(p), s, attemptCount[Task(p)], "none")
        \/ pc[p] = "upsert" /\ SetTask(Task(p), "succeeded", attemptCount[Task(p)], "none")
        \/ /\ pc[p] = "handle" /\ MayMove(status[Task(p)], Verdict(p))
           /\ SetTask(Task(p), Verdict(p), msg[p].attempt, err[p])
        \/ pc[p] = "backoff" /\ SetTask(Task(p), "queued", msg[p].attempt, "none")
  <1>11. ASSUME NEW p \in Procs, Writes(p) PROVE Idle \/ \E t \in Tasks : Moves(t)
    <2>1. Executing(p)
      BY <1>11 DEF Executing
    <2>2. Task(p) \in Tasks
      BY <2>1, ExecHolder
    <2> HIDE DEF Moves, Idle
    <2> QED  BY <1>5, <1>6, <1>7, <1>8, <1>9, <1>10, <1>11, <2>2
  <1>12. ASSUME NEW t \in Tasks, Handler(t) \/ HandlerFault(t)
         PROVE  \/ UNCHANGED repository
                \/ phase[t] = "none" /\ SetTask(t, "accepted", 0, "none")
                \/ phase[t] = "created" /\ SetTask(t, "queued", 0, "none")
    BY <1>12 DEF Handler, CreateTask, MarkQueued, EnqueueTask, HandlerFault, CreateBrokerError,
                 CreateRepositoryError, MayHaveMoved
  <1>13. ASSUME NEW p \in Procs, Work(p) PROVE UNCHANGED repository \/ Writes(p)
    BY <1>13
       DEF Work, Dequeue, Load, Start, Begin, PreprocessOk, EmbedOk, UpsertOk, CallUnavailable,
           CallRejected, HandleError, BackoffEnds, Requeue, Bury, Ack, Advance
  <1>14. ASSUME NEW p \in Procs, ProcFault(p) PROVE UNCHANGED repository \/ Writes(p)
    BY <1>14
       DEF ProcFault, Crash, Restart, Shutdown, WorkerBrokerError, StageError,
           WorkerRepositoryError, Rebalance, MayHaveMoved
  <1>15. StoreApplies \/ UNCHANGED vars => UNCHANGED repository
    BY DEF StoreApplies, vars, repository
  <1> HIDE DEF Moves, Idle, Writes
  <1>16. Idle \/ \E t \in Tasks : Moves(t)
    BY <1>2, <1>3, <1>4, <1>11, <1>12, <1>13, <1>14, <1>15 DEF Next
  <1> QED  BY <1>16 DEF Moves, Idle

\* What a client polls follows the abstract life of a task, whatever crashes,
\* shutdowns and errors of the broker or the repository interrupt its executions.
THEOREM LifecycleImplemented == ASSUME SingleDelivery PROVE Spec => ImplementsLifecycle
  <1>1. Init => Lifecycle!Init
    <2> SUFFICES ASSUME Init PROVE Lifecycle!Init
      OBVIOUS
    <2>1. \A t \in Tasks : PublicStatus(status[t]) = "absent"
      BY Projection DEF Init
    <2> QED  BY <2>1 DEF Init, Lifecycle!Init
  <1>2. Inv /\ ExecInv /\ [Next]_vars => [Lifecycle!Next]_(Lifecycle!lvars)
    BY LifecycleStep DEF Lifecycle!Next, Lifecycle!lvars, Shown
  <1> QED
    BY <1>1, <1>2, ExecCorrect, PTL DEF Spec, ImplementsLifecycle, Lifecycle!Spec

\* The attempt count a client polls never goes back.
THEOREM AttemptsOnlyGrow == ASSUME SingleDelivery PROVE Spec => AttemptsNeverRewind
  <1>1. Inv /\ ExecInv /\ [Next]_vars => [\A t \in Tasks : attemptCount'[t] >= attemptCount[t]]_vars
    <2> SUFFICES ASSUME Inv, ExecInv, [Next]_vars, NEW t \in Tasks
                 PROVE  attemptCount'[t] >= attemptCount[t]
      OBVIOUS
    <2>1. attemptCount \in [Tasks -> Nat]
      BY TypeParts, ConstantsAssumption DEF Inv, RepositoryOK
    <2>2. \/ attemptCount' = attemptCount
          \/ \E u \in Tasks : attemptCount' = [attemptCount EXCEPT ![u] = @ + 1]
      BY LifecycleStep
         DEF Lifecycle!Submit, Lifecycle!Queue, Lifecycle!BeginAttempt, Lifecycle!Run,
             Lifecycle!Retry, Lifecycle!Settle
    <2> QED  BY <2>1, <2>2
  <1> QED  BY <1>1, ExecCorrect, PTL DEF Spec, AttemptsNeverRewind
-----------------------------------------------------------------------------
\* The message worker p is done with has been outlived: whatever carries its
\* task on is a later attempt.
Outlived(p) ==
  /\ \A m \in ready : m.task = Task(p) => m.attempt > msg[p].attempt
  /\ \A q \in Procs : Executing(q) /\ Task(q) = Task(p) => msg[q].attempt > msg[p].attempt

\* If the attempt of that message is the one that failed the task, the dead
\* letter is there.
Buried(p) ==
  status[Task(p)] = "failed" /\ attemptCount[Task(p)] = msg[p].attempt
    => deadLetters[Task(p)] > 0

Done(p) == Outlived(p) /\ Buried(p)

DoneInv == \A p \in Procs : pc[p] = "ack" => Done(p)

\* A step of worker p seen by a worker q that is done: messages appear and rows
\* change only for the task p carries on, and p is ahead of q.
LEMMA OthersDone ==
  ASSUME Inv, ExecInv, DoneInv, NEW p \in Procs, NEW q \in Procs \ {p}, pc'[q] = "ack",
         \A r \in Procs \ {p} : SameWorker(r),
         \A m \in ready' : \/ m \in ready
                           \/ Executing(p) /\ m.task = Task(p) /\ m.attempt = msg[p].attempt + 1,
         Executing(p)' => \/ Executing(p) /\ msg'[p] = msg[p]
                          \/ msg'[p] \in ready,
         \A t \in Tasks : \/ SameTask(t)
                          \/ /\ Executing(p) /\ t = Task(p)
                             /\ status'[t] = "failed" => attemptCount'[t] = msg[p].attempt
  PROVE  Done(q)'
  <1>1. /\ pc[q] = "ack" /\ msg'[q] = msg[q] /\ Task(q)' = Task(q)
        /\ Outlived(q) /\ Buried(q)
    BY DEF SameWorker, DoneInv, Done, Task
  <1>2. Task(q) \in Tasks /\ msg[q] \in Messages /\ msg[q].attempt \in Nat
    BY <1>1, HolderLife, ConstantsAssumption DEF Inv, Busy, Messages
  <1>3. Executing(p) => /\ msg[p].attempt \in Nat
                        /\ Task(p) = Task(q) => msg[p].attempt > msg[q].attempt
    BY <1>1, ExecHolder DEF Outlived
  <1>4. ASSUME NEW m \in ready', m.task = Task(q) PROVE m.attempt > msg[q].attempt
    BY <1>1, <1>2, <1>3, <1>4 DEF Outlived
  <1>5. ASSUME NEW r \in Procs, Executing(r)', Task(r)' = Task(q)
        PROVE  msg'[r].attempt > msg[q].attempt
    <2>1. CASE r # p
      BY <1>1, <1>5, <2>1 DEF SameWorker, Executing, Task, Outlived
    <2>2. CASE r = p /\ Executing(p) /\ msg'[p] = msg[p]
      BY <1>3, <1>5, <2>2 DEF Task
    <2>3. CASE r = p /\ msg'[p] \in ready
      BY <1>1, <1>5, <2>3 DEF Task, Outlived
    <2> QED  BY <1>5, <2>1, <2>2, <2>3
  <1>6. Outlived(q)'
    BY <1>1, <1>4, <1>5 DEF Outlived
  <1>7. CASE SameTask(Task(q))
    BY <1>1, <1>6, <1>7 DEF Done, Buried, SameTask
  <1>8. CASE /\ Executing(p) /\ Task(q) = Task(p)
             /\ status'[Task(q)] = "failed" => attemptCount'[Task(q)] = msg[p].attempt
    BY <1>1, <1>2, <1>3, <1>6, <1>8 DEF Done, Buried
  <1> QED  BY <1>2, <1>7, <1>8

\* A worker that has just become done with its message.
LEMMA OwnDone ==
  ASSUME Inv, ExecInv, NEW p \in Procs, Executing(p), pc'[p] = "ack", msg'[p] = msg[p],
         \A q \in Procs \ {p} : SameWorker(q),
         \A m \in ready' : m \in ready \/ m.attempt = msg[p].attempt + 1,
         status'[Task(p)] # "failed" \/ deadLetters'[Task(p)] > 0
  PROVE  Done(p)'
  <1>1. Task(p)' = Task(p) /\ msg[p].attempt \in Nat
    BY ExecHolder DEF Task
  <1>2. ASSUME NEW m \in ready', m.task = Task(p) PROVE m.attempt > msg[p].attempt
    BY <1>1, <1>2 DEF ExecInv, AloneInv
  <1>3. ASSUME NEW r \in Procs, Executing(r)', Task(r)' = Task(p) PROVE FALSE
    <2>1. r # p /\ Executing(r) /\ Task(r) = Task(p)
      BY <1>3 DEF SameWorker, Executing, Task
    <2> QED  BY <2>1 DEF ExecInv, AloneInv
  <1> QED  BY <1>1, <1>2, <1>3 DEF Done, Outlived, Buried

\* A step of a worker: what it adds to the queue, and what it may fail.
LEMMA WorkReach ==
  ASSUME Inv, ExecInv, NEW p \in Procs, Work(p)
  PROVE  /\ \A q \in Procs \ {p} : after'[q] = after[q]
         /\ \A m \in ready' : \/ m \in ready
                              \/ /\ Executing(p) /\ m.task = Task(p)
                                 /\ m.attempt = msg[p].attempt + 1
         /\ Executing(p)' => (Executing(p) /\ msg'[p] = msg[p]) \/ msg'[p] \in ready
         /\ \A t \in Tasks : \/ SameTask(t)
                             \/ /\ Executing(p) /\ t = Task(p)
                                /\ status'[t] = "failed" => attemptCount'[t] = msg[p].attempt
  <1>1. TypeInv /\ WorkerOK /\ RepositoryOK /\ QueueOK
    BY TypeParts DEF Inv
  <1>2. \A q \in Procs \ {p} : after'[q] = after[q]
    BY <1>1
       DEF Work, Dequeue, Load, Start, Begin, PreprocessOk, EmbedOk, UpsertOk, CallUnavailable,
           CallRejected, HandleError, BackoffEnds, Requeue, Bury, Ack, Advance, Finish, Forget,
           WorkerOK
  <1>3. CASE Dequeue(p)
    <2>1. /\ ready' \subseteq ready /\ msg'[p] \in ready /\ \A t \in Tasks : SameTask(t)
      BY <1>1, <1>3 DEF Dequeue, repository, SameTask, WorkerOK
    <2> QED  BY <1>2, <2>1
  <1>4. CASE Requeue(p)
    <2>1. /\ Executing(p) /\ msg' = msg
          /\ ready' = ready \cup
               {[id |-> nextId, task |-> Task(p), attempt |-> msg[p].attempt + 1]}
          /\ \A t \in Tasks : SameTask(t)
      BY <1>4 DEF Requeue, Put, repository, SameTask, Executing
    <2> QED  BY <1>2, <2>1
  <1>5. CASE Ack(p)
    <2>1. ~Executing(p)' /\ ready' = ready /\ \A t \in Tasks : SameTask(t)
      BY <1>1, <1>5 DEF Ack, Goto, queue, repository, SameTask, Executing, WorkerOK
    <2> QED  BY <1>2, <2>1
  <1>6. CASE \/ Load(p) \/ Start(p) \/ Begin(p) \/ PreprocessOk(p) \/ EmbedOk(p) \/ UpsertOk(p)
             \/ CallUnavailable(p) \/ CallRejected(p) \/ HandleError(p) \/ BackoffEnds(p) \/ Bury(p)
    <2>1. Executing(p) /\ ready' = ready /\ msg' = msg
      BY <1>6
         DEF Load, Start, Begin, PreprocessOk, EmbedOk, UpsertOk, CallUnavailable, CallRejected,
             HandleError, BackoffEnds, Bury, Executing, queue
    <2>2. Task(p) \in Tasks /\ OnStage(p)
      BY <2>1, StageParts
    <2>3. ASSUME NEW t \in Tasks, t = Task(p), status'[t] = "failed"
          PROVE  attemptCount'[t] = msg[p].attempt
      <3>1. CASE Load(p) \/ CallUnavailable(p) \/ CallRejected(p) \/ Bury(p)
        BY <2>2, <2>3, <3>1
           DEF Load, CallUnavailable, CallRejected, Bury, OnStage, repository
      <3>2. CASE Begin(p) \/ PreprocessOk(p) \/ EmbedOk(p) \/ UpsertOk(p)
        BY <1>1, <2>2, <2>3, <3>2
           DEF Begin, PreprocessOk, EmbedOk, UpsertOk, Advance, SetTask, OnStage, repository,
               RepositoryOK
      <3>3. CASE Start(p) \/ HandleError(p) \/ BackoffEnds(p)
        BY <1>1, <2>2, <2>3, <3>3
           DEF Start, HandleError, Verdict, BackoffEnds, SetTask, OnStage, repository, RepositoryOK
      <3> QED  BY <1>6, <3>1, <3>2, <3>3
    <2> QED  BY <1>1, <1>2, <2>1, <2>3, WorkFrame
  <1> QED  BY <1>3, <1>4, <1>5, <1>6 DEF Work

\* A worker becomes done with its message when the task has succeeded, is
\* queued again or has its dead letter.
LEMMA WorkDone ==
  ASSUME Inv, ExecInv, NEW p \in Procs, Work(p), pc'[p] = "ack"
  PROVE  /\ Executing(p) /\ msg'[p] = msg[p]
         /\ status'[Task(p)] # "failed" \/ deadLetters'[Task(p)] > 0
  <1>1. WorkerOK /\ RepositoryOK /\ QueueOK
    BY TypeParts DEF Inv
  <1>2. CASE Load(p) \/ Start(p) \/ BackoffEnds(p)
    <2>1. Executing(p)
      BY <1>2 DEF Load, Start, BackoffEnds, Executing
    <2>2. Load(p)
      BY <1>1, <1>2, <2>1, NeverRefused DEF Start, BackoffEnds, Goto, WorkerOK
    <2> QED  BY <1>1, <2>1, <2>2, NeverRefused DEF Load, Goto, WorkerOK
  <1>3. CASE Begin(p) \/ PreprocessOk(p) \/ EmbedOk(p) \/ CallUnavailable(p) \/ CallRejected(p)
    BY <1>1, <1>3
       DEF Begin, PreprocessOk, EmbedOk, CallUnavailable, CallRejected, Advance, Raise, Goto,
           WorkerOK
  <1>4. CASE UpsertOk(p)
    <2>1. Executing(p)
      BY <1>4 DEF UpsertOk, Executing
    <2> QED  BY <1>1, <1>4, <2>1, NeverRefused, StageParts
             DEF UpsertOk, Advance, SetTask, RepositoryOK
  <1>5. CASE Requeue(p)
    <2>1. Executing(p) /\ msg' = msg /\ status' = status
      BY <1>5 DEF Requeue, Executing, repository
    <2> QED  BY <1>5, <2>1, StageParts DEF Requeue, OnStage
  <1>6. CASE Bury(p)
    <2>1. Executing(p) /\ msg' = msg
      BY <1>6 DEF Bury, Executing
    <2> QED  BY <1>1, <1>6, <2>1, StageParts DEF Bury, OnStage, QueueOK
  <1>7. CASE Dequeue(p) \/ Ack(p)
    BY <1>1, <1>7 DEF Dequeue, Ack, Goto, WorkerOK
  <1>8. CASE HandleError(p)
    <2>1. Executing(p) /\ pc[p] = "handle" /\ msg' = msg
      BY <1>8 DEF HandleError, Executing
    <2>2. UNCHANGED repository /\ ~MayMove(status[Task(p)], Verdict(p))
      BY <1>1, <1>8 DEF HandleError, Goto, WorkerOK
    <2>3. status[Task(p)] = "succeeded"
      BY <2>1, <2>2, NeverRefused DEF Verdict
    <2> QED  BY <2>1, <2>2, <2>3 DEF repository
  <1> QED  BY <1>2, <1>3, <1>4, <1>5, <1>6, <1>7, <1>8, Zenon DEF Work

\* The create handler touches no task some worker is done with.
LEMMA HandlerDone ==
  ASSUME Inv, ExecInv, DoneInv, NEW t \in Tasks, Handler(t) \/ CreateRepositoryError(t),
         NEW q \in Procs, pc'[q] = "ack"
  PROVE  Done(q)'
  <1>1. UNCHANGED <<worker, deadLetters>>
    BY DEF Handler, CreateTask, MarkQueued, EnqueueTask, CreateRepositoryError, Put, queue
  <1>2. /\ pc[q] = "ack" /\ Done(q) /\ Task(q)' = Task(q)
        /\ \A r \in Procs : Executing(r)' <=> Executing(r)
    BY <1>1 DEF worker, DoneInv, Task, Executing
  <1>3. Task(q) \in Tasks \ {t}
    <2>1. Task(q) \in Tasks /\ Live(Task(q))
      BY <1>2, HolderLife DEF Inv, Busy
    <2>2. ~Live(t)
      BY DEF Handler, CreateTask, MarkQueued, EnqueueTask, CreateRepositoryError, Inv, LifeInv,
             PhaseInv, Live
    <2> QED  BY <2>1, <2>2
  <1>4. SameTask(Task(q)) /\ \A m \in ready' : m \in ready \/ m.task = t
    BY <1>1, <1>3, TypeParts
       DEF Handler, CreateTask, MarkQueued, EnqueueTask, CreateRepositoryError, MayHaveMoved,
           SetTask, Put, queue, repository, SameTask, Inv, RepositoryOK
  <1>5. Outlived(q)'
    BY <1>1, <1>2, <1>3, <1>4 DEF Done, Outlived, Task, worker
  <1> QED  BY <1>1, <1>2, <1>4, <1>5 DEF Done, Buried, SameTask, worker

\* The faults that end a handling between the failed status and its dead
\* letter: the finally clause of the loop acknowledges all the same.
CutsShortKinds == {"shutdown", "broker", "uncaught"}

\* Every step keeps DoneInv, as long as none of them happens.
LEMMA DoneStep ==
  ASSUME SingleDelivery, Faults \cap CutsShortKinds = {}
  PROVE  Inv /\ ExecInv /\ DoneInv /\ [Next]_vars => DoneInv'
  <1> SUFFICES ASSUME Inv, ExecInv, DoneInv, [Next]_vars, NEW q \in Procs, pc'[q] = "ack"
               PROVE  Done(q)'
    BY DEF DoneInv
  <1>1. WorkerOK /\ RepositoryOK
    BY TypeParts DEF Inv
  <1>2. ASSUME NEW t \in Tasks, Handler(t) \/ HandlerFault(t) PROVE Done(q)'
    BY <1>2, HandlerDone DEF HandlerFault, CreateBrokerError, Fault, CutsShortKinds
  <1>3. ASSUME NEW p \in Procs, Work(p) PROVE Done(q)'
    <2>1. \A r \in Procs \ {p} : SameWorker(r)
      BY <1>3, WorkFrame DEF Inv
    <2>2. CASE q = p
      <3>1. /\ Executing(p) /\ msg'[p] = msg[p]
            /\ status'[Task(p)] # "failed" \/ deadLetters'[Task(p)] > 0
        BY <1>3, <2>2, WorkDone
      <3>2. \A m \in ready' : m \in ready \/ m.attempt = msg[p].attempt + 1
        BY <1>3, WorkReach
      <3> QED  BY <2>1, <2>2, <3>1, <3>2, OwnDone
    <2>3. CASE q # p
      BY <1>3, <2>1, <2>3, WorkReach, OthersDone
    <2> QED  BY <2>2, <2>3
  <1>4. ASSUME NEW p \in Procs, Crash(p) \/ Restart(p) PROVE Done(q)'
    <2>1. ready' = ready /\ deadLetters' = deadLetters /\ ~Executing(p)' /\ UNCHANGED repository
      BY <1>1, <1>4, NothingReleased DEF Crash, Restart, Goto, Executing, WorkerOK, queue
    <2>2. q # p /\ \A r \in Procs \ {p} : SameWorker(r)
      BY <1>1, <1>4 DEF Crash, Restart, Goto, Forget, SameWorker, WorkerOK
    <2> QED  BY <2>1, <2>2, OthersDone DEF SameTask, repository
  <1>5. ASSUME NEW p \in Procs, StageError(p) PROVE Done(q)'
    <2>1. /\ Executing(p) /\ ready' = ready /\ msg' = msg /\ deadLetters' = deadLetters /\ q # p
          /\ \A r \in Procs \ {p} : SameWorker(r)
      BY <1>1, <1>5 DEF StageError, Executing, Raise, Goto, queue, SameWorker, WorkerOK
    <2>2. \A t \in Tasks : \/ SameTask(t)
                           \/ t = Task(p) /\ status'[t] # "failed"
      BY <1>1, <1>5, <2>1 DEF StageError, MayHaveMoved, SetTask, SameTask, repository, RepositoryOK
    <2> QED  BY <2>1, <2>2, OthersDone
  <1>6. ASSUME NEW p \in Procs, ProcFault(p)
        PROVE  Crash(p) \/ Restart(p) \/ StageError(p)
    BY <1>6, ConstantsAssumption
       DEF ProcFault, Shutdown, WorkerBrokerError, WorkerRepositoryError, Rebalance, Fault,
           SingleDelivery, CutsShortKinds
  <1>7. ASSUME StoreApplies \/ UNCHANGED vars PROVE Done(q)'
    BY <1>7
       DEF StoreApplies, vars, repository, handlers, queue, worker, DoneInv, Done, Outlived,
           Buried, Executing, Task
  <1> QED  BY <1>2, <1>3, <1>4, <1>5, <1>6, <1>7 DEF Next

\* The message whose attempt failed a task is acknowledged only once the dead
\* letter is written: through crashes of a consumer whose message stays with
\* it, and errors of the repository that the execution catches. A worker that
\* is cancelled in add_dead_letter, or that an exception of the repository or
\* of the broker ends, does acknowledge without a dead letter.
THEOREM BuriedBeforeAck ==
  ASSUME SingleDelivery, Faults \cap CutsShortKinds = {}
  PROVE  Spec => DeadLetterBeforeAck
  <1>1. Init => DoneInv
    BY DEF Init, DoneInv
  <1>2. Inv /\ ExecInv /\ DoneInv /\ [Next]_vars => DoneInv'
    BY DoneStep
  <1>3. Inv /\ DoneInv /\ [Next]_vars
          => [\A p \in Procs :
                (/\ Acknowledges(p)
                 /\ status[Task(p)] = "failed"
                 /\ attemptCount[Task(p)] = msg[p].attempt) => deadLetters[Task(p)] > 0]_vars
    BY DEF Acknowledges, DoneInv, Done, Buried
  <1> QED  BY <1>1, <1>2, <1>3, ExecCorrect, PTL DEF Spec, DeadLetterBeforeAck
-----------------------------------------------------------------------------
\* The calls that raise.
Raising == {"broker", "caught", "uncaught"}

\* Every partition stays where it is.
NothingRevoked == \A p \in Procs : ~revoked[p]

\* An error is handled before its task succeeds: no commit lost its answer.
NoneLate == \A p \in Procs : pc[p] = "handle" => status[Task(p)] # "succeeded"

\* Every step keeps NoneLate, as long as no transition of an execution raises.
LEMMA NoneLateStep ==
  ASSUME SingleDelivery, Faults \cap Raising = {}
  PROVE  Inv /\ ExecInv /\ NoneLate /\ [Next]_vars => NoneLate'
  <1> SUFFICES ASSUME Inv, ExecInv, NoneLate, [Next]_vars, NEW q \in Procs, pc'[q] = "handle"
               PROVE  status'[Task(q)'] # "succeeded"
    BY DEF NoneLate
  <1>1. WorkerOK /\ RepositoryOK /\ (pc[q] = "handle" => status[Task(q)] # "succeeded")
    BY TypeParts DEF Inv, NoneLate
  <1>2. ASSUME NEW t \in Tasks, Handler(t) \/ HandlerFault(t)
        PROVE  status'[Task(q)'] # "succeeded"
    <2>1. Handler(t) /\ pc' = pc /\ msg' = msg
      BY <1>2 DEF Handler, HandlerFault, CreateTask, MarkQueued, EnqueueTask, CreateBrokerError,
                  CreateRepositoryError, Fault, Raising, worker
    <2>2. pc[q] = "handle" /\ Task(q)' = Task(q) /\ Executing(q)
      BY <2>1 DEF Task, Executing
    <2>3. Task(q) \in Tasks /\ Live(Task(q))
      BY <2>2, ExecHolder
    <2>4. UNCHANGED repository \/ (~Live(t) /\ \A u \in Tasks \ {t} : status'[u] = status[u])
      BY <1>1, <2>1
         DEF Handler, CreateTask, MarkQueued, EnqueueTask, SetTask, Inv, LifeInv, PhaseInv, Live,
             RepositoryOK
    <2> QED  BY <1>1, <2>2, <2>3, <2>4 DEF repository
  <1>3. ASSUME NEW p \in Procs, Work(p) PROVE status'[Task(q)'] # "succeeded"
    <2>1. CASE q = p
      <3>1. Executing(p) /\ msg' = msg /\ UNCHANGED repository /\ pc[p] # "handle"
        BY <1>1, <1>3, <2>1
           DEF Work, Dequeue, Load, Start, Begin, PreprocessOk, EmbedOk, UpsertOk, CallUnavailable,
               CallRejected, HandleError, BackoffEnds, Requeue, Bury, Ack, Advance, Raise, Goto,
               Finish, Executing, WorkerOK
      <3>2. status[Task(p)] # "succeeded"
        BY <3>1, NeverRefused, StageParts DEF TerminalStates, OnStage
      <3> QED  BY <2>1, <3>1, <3>2 DEF repository, Task
    <2>2. CASE q # p
      <3>1. /\ pc[q] = "handle" /\ Task(q)' = Task(q) /\ Executing(q)
            /\ \A t \in Tasks : t # Task(p) => SameTask(t)
        BY <1>3, <2>2, WorkFrame DEF SameWorker, Task, Executing, Inv
      <3>2. Executing(p) \/ UNCHANGED repository
        BY <1>3
           DEF Work, Dequeue, Load, Start, Begin, PreprocessOk, EmbedOk, UpsertOk, CallUnavailable,
               CallRejected, HandleError, BackoffEnds, Requeue, Bury, Ack, Executing
      <3>3. Executing(p) => Task(q) # Task(p)
        BY <2>2, <3>1 DEF ExecInv, AloneInv
      <3>4. Task(q) \in Tasks
        BY <3>1, ExecHolder
      <3> QED  BY <1>1, <3>1, <3>2, <3>3, <3>4 DEF repository, SameTask
    <2> QED  BY <2>1, <2>2
  <1>4. ASSUME NEW p \in Procs, ProcFault(p) PROVE status'[Task(q)'] # "succeeded"
    <2>1. Crash(p) \/ Restart(p) \/ Shutdown(p) \/ Rebalance(p)
      BY <1>4 DEF ProcFault, WorkerBrokerError, StageError, WorkerRepositoryError, Fault, Raising
    <2>2. UNCHANGED repository /\ pc[q] = "handle" /\ msg'[q] = msg[q]
      BY <1>1, <2>1 DEF Crash, Restart, Shutdown, Rebalance, Goto, Finish, Forget, WorkerOK
    <2> QED  BY <1>1, <2>2 DEF repository, Task
  <1>5. ASSUME StoreApplies \/ UNCHANGED vars PROVE status'[Task(q)'] # "succeeded"
    BY <1>1, <1>5 DEF StoreApplies, vars, repository, worker, Task
  <1> QED  BY <1>2, <1>3, <1>4, <1>5 DEF Next

\* Every step keeps the worker loops alive, as long as no call of the broker
\* or of the repository raises.
LEMMA AliveStep ==
  ASSUME SingleDelivery, Faults \cap Raising = {}
  PROVE  Inv /\ ExecInv /\ NoneLate /\ NothingRevoked /\ WorkersAlive /\ [Next]_vars
           => WorkersAlive'
  <1> SUFFICES ASSUME Inv, ExecInv, NoneLate, NothingRevoked, WorkersAlive, [Next]_vars,
                      NEW q \in Procs
               PROVE  pc'[q] # "dead" /\ after'[q] # "dead"
    BY DEF WorkersAlive
  <1>1. WorkerOK /\ pc[q] # "dead" /\ after[q] # "dead"
    BY TypeParts DEF Inv, WorkersAlive
  <1>2. \A p \in Procs : ~revoked[p]
    BY DEF NothingRevoked
  <1>3. ASSUME NEW t \in Tasks, Handler(t) \/ HandlerFault(t)
        PROVE  pc'[q] # "dead" /\ after'[q] # "dead"
    BY <1>1, <1>3
       DEF Handler, CreateTask, MarkQueued, EnqueueTask, HandlerFault, CreateBrokerError,
           CreateRepositoryError, worker
  <1>4. ASSUME NEW p \in Procs, Work(p) PROVE pc'[q] # "dead" /\ after'[q] # "dead"
    <2>1. CASE q # p
      BY <1>1, <1>4, <2>1, WorkFrame, WorkReach DEF SameWorker, Inv
    <2>2. CASE q = p /\ (Load(p) \/ Start(p) \/ HandleError(p) \/ BackoffEnds(p))
      <3>1. Executing(p)
        BY <2>2 DEF Load, Start, HandleError, BackoffEnds, Executing
      <3>2. HandleError(p) => MayMove(status[Task(p)], Verdict(p))
        BY <3>1, NeverRefused DEF HandleError, NoneLate, Verdict
      <3> QED  BY <1>1, <2>2, <3>1, <3>2, NeverRefused
               DEF Load, Start, HandleError, BackoffEnds, Goto, Finish, WorkerOK
    <2>3. CASE q = p /\ (Begin(p) \/ PreprocessOk(p) \/ EmbedOk(p) \/ UpsertOk(p))
      BY <1>1, <2>3
         DEF Begin, PreprocessOk, EmbedOk, UpsertOk, Advance, Raise, Goto, WorkerOK
    <2>4. CASE q = p /\ \/ Dequeue(p) \/ CallUnavailable(p) \/ CallRejected(p) \/ Requeue(p)
                        \/ Bury(p) \/ Ack(p)
      BY <1>1, <1>2, <2>4
         DEF Dequeue, CallUnavailable, CallRejected, Requeue, Bury, Ack, Raise, Goto, Finish,
             Forget, WorkerOK
    <2> QED  BY <1>4, <2>1, <2>2, <2>3, <2>4, Zenon DEF Work
  <1>5. ASSUME NEW p \in Procs, ProcFault(p) PROVE pc'[q] # "dead" /\ after'[q] # "dead"
    <2>1. Crash(p) \/ Restart(p) \/ Shutdown(p) \/ Rebalance(p)
      BY <1>5 DEF ProcFault, WorkerBrokerError, StageError, WorkerRepositoryError, Fault, Raising
    <2> QED  BY <1>1, <2>1
             DEF Crash, Restart, Shutdown, Rebalance, Goto, Finish, Forget, WorkerOK
  <1> QED  BY <1>1, <1>3, <1>4, <1>5 DEF Next, StoreApplies, vars, worker

\* On a queue that hands a message out once, no step of an execution finds a
\* row that refuses it: crashes and shutdowns of other processes included, a
\* worker loop ends only when a call of the broker or the repository raises.
THEOREM WorkersSurvive ==
  ASSUME SingleDelivery, Faults \cap Raising = {}
  PROVE  Spec => []WorkersAlive
  <1>1. Init => WorkersAlive /\ NothingRevoked /\ NoneLate
    BY DEF Init, WorkersAlive, NothingRevoked, NoneLate
  <1>2. Inv /\ NothingRevoked /\ [Next]_vars => NothingRevoked'
    <2> SUFFICES ASSUME Inv, NothingRevoked, [Next]_vars, NEW q \in Procs, revoked'[q]
                 PROVE  FALSE
      BY DEF NothingRevoked
    <2>1. \A p \in Procs : ~Rebalance(p)
      BY ConstantsAssumption DEF Rebalance, Fault, SingleDelivery
    <2> QED  BY <2>1, OnlyRebalanceRevokes DEF Inv, NothingRevoked
  <1>3. Inv /\ ExecInv /\ NoneLate /\ [Next]_vars => NoneLate'
    BY NoneLateStep
  <1>4. Inv /\ ExecInv /\ NoneLate /\ NothingRevoked /\ WorkersAlive /\ [Next]_vars
          => WorkersAlive'
    BY AliveStep
  <1> QED  BY <1>1, <1>2, <1>3, <1>4, ExecCorrect, PTL DEF Spec
=============================================================================
