-------------------------- MODULE TaskOrchestrator --------------------------
(***************************************************************************)
(* The task orchestrator: the HTTP handler that accepts embedding tasks,   *)
(* the durable task repository, the task queue, and one worker loop per    *)
(* process that takes a message, drives the task through preprocessing,    *)
(* embedding and persisting by calling three data-plane services, retries  *)
(* or dead-letters what fails, and acknowledges the message.               *)
(*                                                                         *)
(* One action has at most one durable effect (a repository write, a queue  *)
(* write, a request that reaches the vector store), because a process can  *)
(* die, and another process can act, between any two of them.              *)
(***************************************************************************)
EXTENDS Naturals, Sequences, FiniteSets, TaskStateMachine

CONSTANTS
  Tasks,        \* the task ids that clients will ever create
  Procs,        \* orchestrator processes sharing one repository and one queue
  Malformed,    \* tasks whose source normalize_inline_source refuses
  MaxAttempts,  \* settings.max_attempts
  Redelivers,   \* the queue hands a dead consumer's message to another one:
                \* TRUE for Kafka (uncommitted offset), FALSE for the SQLite
                \* and Redis Stream queues, which never reclaim a claimed entry
  Faults,       \* the kinds of fault that may happen
  MaxFaults     \* bound on the number of faults in a behaviour

\* "broker" is a queue call that raises, "caught" and "uncaught" a repository
\* call that raises, inside or outside a clause that catches it.
FaultKinds == {"crash", "shutdown", "broker", "rebalance", "caught", "uncaught"}

ASSUME ConstantsAssumption ==
  /\ Malformed \subseteq Tasks
  /\ MaxAttempts \in Nat \ {0}
  /\ Redelivers \in BOOLEAN
  /\ Faults \subseteq FaultKinds
  /\ ("rebalance" \in Faults => Redelivers)
  /\ MaxFaults \in Nat

VARIABLES
  \* the repository: one row per task
  status,        \* "absent" before create(), then a status
  attemptCount,
  errorCode,
  \* the create handler, one request per task
  phase,         \* "none", "created", "queued", then "accepted" (202) or "broken"
  host,          \* the process that serves the request
  \* the queue
  ready,         \* messages no consumer holds
  nextId,        \* the broker's next message id
  stranded,      \* messages still claimed by a consumer that is gone
  deadLetters,   \* dead-letter records written, per task
  \* the worker loop of each process
  pc, msg,
  snap,          \* the status process_queue_message read
  err,           \* the error being handled
  run,           \* the chunk set of this execution
  after,         \* what the loop does once the message is acknowledged
  revoked,       \* the held message's partition was taken away
  \* the data plane
  runs,          \* executions of a task that got their chunks so far
  sent,          \* upserts on the wire: <<task, run>>
  vectors,       \* upserts the vector store has applied
  faults         \* the faults so far, in order

repository == <<status, attemptCount, errorCode>>
handlers   == <<phase, host>>
queue      == <<ready, nextId, stranded, deadLetters>>
worker     == <<pc, msg, snap, err, run, after, revoked>>
dataplane  == <<runs, sent, vectors>>
vars       == <<repository, handlers, queue, worker, dataplane, faults>>

Messages  == [id : Nat, task : Tasks, attempt : 1..MaxAttempts]
NoMessage == [id |-> 0]

Locations == {"down", "idle", "load", "start", "begin", "preprocess", "embed",
              "upsert", "handle", "backoff", "requeue", "bury", "ack", "dead"}

\* Error codes by the two things the worker tells apart: "unavailable" stands
\* for the retryable ones (timeout, connection error, 5xx), "rejected" for the
\* others (a 4xx answer, malformed input, an unexpected exception), "conflict"
\* for the refusal of transition(), TASK-STATE-409001.
ErrorCodes == {"none", "unavailable", "rejected", "conflict"}

RepositoryOK ==
  /\ status \in [Tasks -> Statuses \cup {"absent"}]
  /\ attemptCount \in [Tasks -> 0..MaxAttempts]
  /\ errorCode \in [Tasks -> ErrorCodes]

HandlersOK ==
  /\ phase \in [Tasks -> {"none", "created", "queued", "accepted", "broken"}]
  /\ host \in [Tasks -> Procs]

QueueOK ==
  /\ ready \subseteq Messages
  /\ nextId \in Nat \ {0}
  /\ stranded \subseteq Messages
  /\ deadLetters \in [Tasks -> Nat]

WorkerOK ==
  /\ pc \in [Procs -> Locations]
  /\ msg \in [Procs -> Messages \cup {NoMessage}]
  /\ snap \in [Procs -> Statuses \cup {"absent"}]
  /\ err \in [Procs -> ErrorCodes]
  /\ run \in [Procs -> Nat]
  /\ after \in [Procs -> {"idle", "dead", "down"}]
  /\ revoked \in [Procs -> BOOLEAN]

DataPlaneOK ==
  /\ runs \in [Tasks -> Nat]
  /\ sent \subseteq Tasks \X Nat
  /\ vectors \subseteq Tasks \X Nat

FaultsOK == faults \in Seq(FaultKinds) /\ Len(faults) <= MaxFaults

TypeOK == RepositoryOK /\ HandlersOK /\ QueueOK /\ WorkerOK /\ DataPlaneOK /\ FaultsOK

Init ==
  /\ status = [t \in Tasks |-> "absent"]
  /\ attemptCount = [t \in Tasks |-> 0]
  /\ errorCode = [t \in Tasks |-> "none"]
  /\ phase = [t \in Tasks |-> "none"]
  /\ host \in [Tasks -> Procs]
  /\ ready = {}
  /\ nextId = 1
  /\ stranded = {}
  /\ deadLetters = [t \in Tasks |-> 0]
  /\ pc = [p \in Procs |-> "idle"]
  /\ msg = [p \in Procs |-> NoMessage]
  /\ snap = [p \in Procs |-> "queued"]
  /\ err = [p \in Procs |-> "none"]
  /\ run = [p \in Procs |-> 0]
  /\ after = [p \in Procs |-> "idle"]
  /\ revoked = [p \in Procs |-> FALSE]
  /\ runs = [t \in Tasks |-> 0]
  /\ sent = {}
  /\ vectors = {}
  /\ faults = <<>>
-----------------------------------------------------------------------------
(***************************************************************************)
(* Helpers: repository writes, queue writes, the end of a message.         *)
(***************************************************************************)

\* One repository.transition(): its three columns are written together.
SetTask(t, next, attempt, code) ==
  /\ status' = [status EXCEPT ![t] = next]
  /\ attemptCount' = [attemptCount EXCEPT ![t] = attempt]
  /\ errorCode' = [errorCode EXCEPT ![t] = code]

\* A transition() that raises a database error, with or without its commit.
MayHaveMoved(t, next, attempt, code) ==
  \/ UNCHANGED repository
  \/ MayMove(status[t], next) /\ SetTask(t, next, attempt, code)

Put(t, attempt) ==
  /\ ready' = ready \cup {[id |-> nextId, task |-> t, attempt |-> attempt]}
  /\ nextId' = nextId + 1
  /\ UNCHANGED <<stranded, deadLetters>>

Task(p) == msg[p].task

Goto(p, loc) == pc' = [pc EXCEPT ![p] = loc]

\* process_queue_message is over: the finally clause acknowledges, whatever
\* ended it, and then the loop goes on, or the worker task ends.
Finish(p, how) ==
  /\ Goto(p, "ack")
  /\ after' = [after EXCEPT ![p] = how]

\* Mutant: off by one, an attempt too many.
RetryOnceTooOften(p) == err[p] = "unavailable" /\ msg[p].attempt <= MaxAttempts

WorthRetrying(p) == err[p] = "unavailable" /\ msg[p].attempt < MaxAttempts

Verdict(p) == IF WorthRetrying(p) THEN "retrying" ELSE "failed"
-----------------------------------------------------------------------------
(***************************************************************************)
(* The create handler, POST /internal/tasks/embedding.                     *)
(***************************************************************************)
Serving(p) == pc[p] # "down" /\ after[p] # "down"

CreateTask(t) ==
  /\ phase[t] = "none"
  /\ Serving(host[t])
  /\ SetTask(t, "accepted", 0, "none")
  /\ phase' = [phase EXCEPT ![t] = "created"]
  /\ UNCHANGED <<host, queue, worker, dataplane, faults>>

MarkQueued(t) ==
  /\ phase[t] = "created"
  /\ MayMove(status[t], "queued")
  /\ SetTask(t, "queued", 0, "none")
  /\ phase' = [phase EXCEPT ![t] = "queued"]
  /\ UNCHANGED <<host, queue, worker, dataplane, faults>>

EnqueueTask(t) ==
  /\ phase[t] = "queued"
  /\ Put(t, 1)
  /\ phase' = [phase EXCEPT ![t] = "accepted"]
  /\ UNCHANGED <<repository, host, worker, dataplane, faults>>
-----------------------------------------------------------------------------
(***************************************************************************)
(* The worker loop: run_worker_loop and process_queue_message.             *)
(***************************************************************************)

\* Mutant: the message is read but not claimed.
DequeueWithoutClaim(p) ==
  /\ pc[p] = "idle"
  /\ \E m \in ready : msg' = [msg EXCEPT ![p] = m]
  /\ Goto(p, "load")
  /\ UNCHANGED <<repository, handlers, queue, snap, err, run, after, revoked,
                 dataplane, faults>>

\* A Kafka topic may have several partitions, so only the other queues are
\* first in, first out as a whole.
Dequeue(p) ==
  /\ pc[p] = "idle"
  /\ \E m \in ready :
       /\ Redelivers \/ \A n \in ready : m.id <= n.id
       /\ ready' = ready \ {m}
       /\ msg' = [msg EXCEPT ![p] = m]
  /\ Goto(p, "load")
  /\ UNCHANGED <<repository, handlers, nextId, stranded, deadLetters, snap, err,
                 run, after, revoked, dataplane, faults>>

\* store.get; a task already in a terminal status is skipped.
Load(p) ==
  /\ pc[p] = "load"
  /\ \/ /\ status[Task(p)] \in TerminalStates
        /\ Finish(p, "idle")
        /\ UNCHANGED snap
     \/ /\ status[Task(p)] \notin TerminalStates
        /\ snap' = [snap EXCEPT ![p] = status[Task(p)]]
        /\ Goto(p, "start")
        /\ UNCHANGED after
  /\ UNCHANGED <<repository, handlers, queue, msg, err, run, revoked, dataplane, faults>>

\* transition(task.status, attempt_count=message.attempt): rewrites the status
\* that was read, outside any try: a refusal ends the worker task.
Start(p) ==
  /\ pc[p] = "start"
  /\ \/ /\ MayMove(status[Task(p)], snap[p])
        /\ SetTask(Task(p), snap[p], msg[p].attempt, "none")
        /\ Goto(p, "begin")
        /\ UNCHANGED after
     \/ /\ ~MayMove(status[Task(p)], snap[p])
        /\ Finish(p, "dead")
        /\ UNCHANGED repository
  /\ UNCHANGED <<handlers, queue, msg, snap, err, run, revoked, dataplane, faults>>

\* An exception inside execute_embedding_task.
Raise(p, code) ==
  /\ err' = [err EXCEPT ![p] = code]
  /\ Goto(p, "handle")

\* The transition that opens a stage, or the 409 it raises inside the try.
Advance(p, next, loc) ==
  \/ /\ MayMove(status[Task(p)], next)
     /\ SetTask(Task(p), next, attemptCount[Task(p)], "none")
     /\ Goto(p, loc)
     /\ UNCHANGED err
  \/ /\ ~MayMove(status[Task(p)], next)
     /\ Raise(p, "conflict")
     /\ UNCHANGED repository

Begin(p) ==
  /\ pc[p] = "begin"
  /\ \/ /\ Task(p) \in Malformed
        /\ Raise(p, "rejected")
        /\ UNCHANGED repository
     \/ /\ Task(p) \notin Malformed
        /\ Advance(p, "preprocessing", "preprocess")
  /\ UNCHANGED <<handlers, queue, msg, snap, run, after, revoked, dataplane, faults>>

\* The preprocess service answers with freshly numbered chunks.
PreprocessOk(p) ==
  /\ pc[p] = "preprocess"
  /\ Advance(p, "embedding", "embed")
  /\ runs' = [runs EXCEPT ![Task(p)] = @ + 1]
  /\ run' = [run EXCEPT ![p] = runs'[Task(p)]]
  /\ UNCHANGED <<handlers, queue, msg, snap, after, revoked, sent, vectors, faults>>

\* The embeddings are there; the upsert leaves once "persisting" is written.
EmbedOk(p) ==
  /\ pc[p] = "embed"
  /\ Advance(p, "persisting", "upsert")
  /\ sent' = IF MayMove(status[Task(p)], "persisting")
             THEN sent \cup {<<Task(p), run[p]>>} ELSE sent
  /\ UNCHANGED <<handlers, queue, msg, snap, run, after, revoked, runs, vectors, faults>>

\* Mutant: any answer to the upsert counts as success.
UpsertAssumedOk(p) ==
  /\ pc[p] = "upsert"
  /\ Advance(p, "succeeded", "ack")
  /\ after' = [after EXCEPT ![p] = "idle"]
  /\ UNCHANGED <<handlers, queue, msg, snap, run, revoked, dataplane, faults>>

\* The vector store answers an upsert it has applied.
UpsertOk(p) ==
  /\ pc[p] = "upsert"
  /\ <<Task(p), run[p]>> \in vectors
  /\ Advance(p, "succeeded", "ack")
  /\ after' = [after EXCEPT ![p] = "idle"]
  /\ UNCHANGED <<handlers, queue, msg, snap, run, revoked, dataplane, faults>>

\* A call times out, fails to connect or gets a 5xx: nothing is known about
\* the request, which may still be on its way.
CallUnavailable(p) ==
  /\ pc[p] \in {"preprocess", "embed", "upsert"}
  /\ Raise(p, "unavailable")
  /\ UNCHANGED <<repository, handlers, queue, msg, snap, run, after, revoked,
                 dataplane, faults>>

\* A service refuses the call; an upsert it refuses is not applied.
CallRejected(p) ==
  /\ \/ pc[p] \in {"preprocess", "embed"} /\ UNCHANGED sent
     \/ /\ pc[p] = "upsert"
        /\ <<Task(p), run[p]>> \in sent
        /\ sent' = sent \ {<<Task(p), run[p]>>}
  /\ Raise(p, "rejected")
  /\ UNCHANGED <<repository, handlers, queue, msg, snap, run, after, revoked,
                 runs, vectors, faults>>

\* _handle_execution_error up to its first await. A refused transition leaves
\* the handler and ends the worker task.
HandleError(p) ==
  /\ pc[p] = "handle"
  /\ \/ /\ MayMove(status[Task(p)], Verdict(p))
        /\ SetTask(Task(p), Verdict(p), msg[p].attempt, err[p])
        /\ Goto(p, IF Verdict(p) = "retrying" THEN "backoff" ELSE "bury")
        /\ UNCHANGED after
     \/ /\ ~MayMove(status[Task(p)], Verdict(p))
        /\ Finish(p, "dead")
        /\ UNCHANGED repository
  /\ UNCHANGED <<handlers, queue, msg, snap, err, run, revoked, dataplane, faults>>

\* Mutant: the task is marked queued, but no message is put in the queue.
BackoffWithoutRequeue(p) ==
  /\ pc[p] = "backoff"
  /\ MayMove(status[Task(p)], "queued")
  /\ SetTask(Task(p), "queued", msg[p].attempt, "none")
  /\ Finish(p, "idle")
  /\ UNCHANGED <<handlers, queue, msg, snap, err, run, revoked, dataplane, faults>>

\* Mutant: the message is put in the queue with the task still "retrying".
BackoffWithoutStatus(p) ==
  /\ pc[p] = "backoff"
  /\ Goto(p, "requeue")
  /\ UNCHANGED <<repository, handlers, queue, msg, snap, err, run, after, revoked,
                 dataplane, faults>>

\* Mutant: going back to the queue resets the attempt count, as create does.
BackoffResetsAttempts(p) ==
  /\ pc[p] = "backoff"
  /\ MayMove(status[Task(p)], "queued")
  /\ SetTask(Task(p), "queued", 0, "none")
  /\ Goto(p, "requeue")
  /\ UNCHANGED <<handlers, queue, msg, snap, err, run, after, revoked, dataplane, faults>>

BackoffEnds(p) ==
  /\ pc[p] = "backoff"
  /\ \/ /\ MayMove(status[Task(p)], "queued")
        /\ SetTask(Task(p), "queued", msg[p].attempt, "none")
        /\ Goto(p, "requeue")
        /\ UNCHANGED after
     \/ /\ ~MayMove(status[Task(p)], "queued")
        /\ Finish(p, "dead")
        /\ UNCHANGED repository
  /\ UNCHANGED <<handlers, queue, msg, snap, err, run, revoked, dataplane, faults>>

Requeue(p) ==
  /\ pc[p] = "requeue"
  /\ Put(Task(p), msg[p].attempt + 1)
  /\ Finish(p, "idle")
  /\ UNCHANGED <<repository, handlers, msg, snap, err, run, revoked, dataplane, faults>>

\* Mutant: a failed task is acknowledged without a dead-letter record.
BuryNothing(p) ==
  /\ pc[p] = "bury"
  /\ Finish(p, "idle")
  /\ UNCHANGED <<repository, handlers, queue, msg, snap, err, run, revoked,
                 dataplane, faults>>

Bury(p) ==
  /\ pc[p] = "bury"
  /\ deadLetters' = [deadLetters EXCEPT ![Task(p)] = @ + 1]
  /\ Finish(p, "idle")
  /\ UNCHANGED <<repository, handlers, ready, nextId, stranded, msg, snap, err,
                 run, revoked, dataplane, faults>>

\* The worker is done with the message, in the loop or for good.
Forget(p) ==
  /\ msg' = [msg EXCEPT ![p] = NoMessage]
  /\ snap' = [snap EXCEPT ![p] = "queued"]
  /\ err' = [err EXCEPT ![p] = "none"]
  /\ run' = [run EXCEPT ![p] = 0]
  /\ after' = [after EXCEPT ![p] = "idle"]
  /\ revoked' = [revoked EXCEPT ![p] = FALSE]

\* task_done. On Kafka the commit raises when the partition has moved to
\* another consumer, and goes through when it has come back.
Ack(p) ==
  /\ pc[p] = "ack"
  /\ \/ Goto(p, after[p])
     \/ revoked[p] /\ Goto(p, IF after[p] = "down" THEN "down" ELSE "dead")
  /\ Forget(p)
  /\ UNCHANGED <<repository, handlers, queue, dataplane, faults>>

\* The vector store applies an upsert, possibly after the caller gave up.
StoreApplies ==
  /\ \E u \in sent : sent' = sent \ {u} /\ vectors' = vectors \cup {u}
  /\ UNCHANGED <<repository, handlers, queue, worker, runs, faults>>
-----------------------------------------------------------------------------
(***************************************************************************)
(* Faults, each counted against MaxFaults.                                 *)
(***************************************************************************)
Fault(kind) ==
  /\ kind \in Faults
  /\ Len(faults) < MaxFaults
  /\ faults' = Append(faults, kind)

\* The broker sees the consumer go away with an unacknowledged message.
Release(p) ==
  LET held == IF revoked[p] THEN {} ELSE {msg[p]} \ {NoMessage}
  IN /\ ready' = IF Redelivers THEN ready \cup held ELSE ready
     /\ stranded' = IF Redelivers THEN stranded ELSE stranded \cup held
     /\ UNCHANGED <<nextId, deadLetters>>

BreakHandlers(p) ==
  phase' = [t \in Tasks |->
              IF host[t] = p /\ phase[t] \in {"created", "queued"}
              THEN "broken" ELSE phase[t]]

Crash(p) ==
  /\ pc[p] # "down"
  /\ Fault("crash")
  /\ Goto(p, "down")
  /\ Release(p)
  /\ BreakHandlers(p)
  /\ Forget(p)
  /\ UNCHANGED <<repository, host, dataplane>>

Restart(p) ==
  /\ pc[p] = "down"
  /\ Goto(p, "idle")
  /\ UNCHANGED <<repository, handlers, queue, msg, snap, err, run, after, revoked,
                 dataplane, faults>>

\* Lifespan shutdown, once no request is in progress: the worker task is
\* cancelled where it is suspended. Inside process_queue_message that runs the
\* finally clause, which acknowledges; waiting in dequeue or in task_done, or
\* with the worker task already over, nothing more is acknowledged.
Shutdown(p) ==
  /\ Fault("shutdown")
  /\ \A t \in Tasks : host[t] = p => phase[t] \notin {"created", "queued"}
  /\ \/ /\ pc[p] \in {"preprocess", "embed", "upsert", "backoff", "requeue", "bury"}
        /\ after[p] # "down"
        /\ Finish(p, "down")
        /\ UNCHANGED <<queue, msg, snap, err, run, revoked>>
     \/ /\ pc[p] \in {"idle", "ack", "dead"}
        /\ after[p] # "down"
        /\ Goto(p, "down")
        /\ Release(p)
        /\ Forget(p)
  /\ UNCHANGED <<repository, handlers, dataplane>>

\* A queue call raises. The write it was making may have reached the broker.
\* In the create handler the client gets an error; in the worker the exception
\* is outside every except clause and ends the worker task.
CreateBrokerError(t) ==
  /\ Fault("broker")
  /\ phase[t] = "queued"
  /\ phase' = [phase EXCEPT ![t] = "broken"]
  /\ Put(t, 1) \/ UNCHANGED queue
  /\ UNCHANGED <<repository, host, worker, dataplane>>

WorkerBrokerError(p) ==
  /\ Fault("broker")
  /\ \/ pc[p] = "idle" /\ Goto(p, "dead") /\ UNCHANGED <<queue, after>>
     \/ /\ pc[p] = "requeue"
        /\ Put(Task(p), msg[p].attempt + 1) \/ UNCHANGED queue
        /\ Finish(p, "dead")
     \/ /\ pc[p] = "bury"
        /\ \/ UNCHANGED deadLetters
           \/ deadLetters' = [deadLetters EXCEPT ![Task(p)] = @ + 1]
        /\ Finish(p, "dead")
        /\ UNCHANGED <<ready, nextId, stranded>>
     \/ /\ pc[p] = "ack" /\ after[p] # "down"
        /\ Goto(p, "dead") /\ UNCHANGED <<queue, after>>
  /\ UNCHANGED <<repository, handlers, msg, snap, err, run, revoked, dataplane>>

\* store.create or store.transition raises in the create handler: the client
\* gets a 500, and no message is sent.
CreateRepositoryError(t) ==
  /\ Fault("caught")
  /\ Serving(host[t])
  /\ \/ /\ phase[t] = "none"
        /\ UNCHANGED repository \/ SetTask(t, "accepted", 0, "none")
     \/ /\ phase[t] = "created"
        /\ MayHaveMoved(t, "queued", 0, "none")
  /\ phase' = [phase EXCEPT ![t] = "broken"]
  /\ UNCHANGED <<host, queue, worker, dataplane>>

\* A transition of execute_embedding_task raises: "except Exception" makes an
\* error of it that is not retryable. Chunks it had got are dropped, so their
\* number in runs is not used up, and an upsert is not even sent.
StageError(p) ==
  /\ Fault("caught")
  /\ \/ /\ pc[p] = "begin" /\ Task(p) \notin Malformed
        /\ MayHaveMoved(Task(p), "preprocessing", attemptCount[Task(p)], "none")
     \/ /\ pc[p] = "preprocess"
        /\ MayHaveMoved(Task(p), "embedding", attemptCount[Task(p)], "none")
     \/ /\ pc[p] = "embed"
        /\ MayHaveMoved(Task(p), "persisting", attemptCount[Task(p)], "none")
     \/ /\ pc[p] = "upsert" /\ <<Task(p), run[p]>> \in vectors
        /\ MayHaveMoved(Task(p), "succeeded", attemptCount[Task(p)], "none")
  /\ Raise(p, "rejected")
  /\ UNCHANGED <<handlers, queue, msg, snap, run, after, revoked, dataplane>>

\* A repository call outside that try raises: store.get, the transition that
\* starts the handling, or one of the error handler. The worker task ends, and
\* the finally clause acknowledges the message.
WorkerRepositoryError(p) ==
  /\ Fault("uncaught")
  /\ \/ pc[p] \in {"load", "handle"} /\ UNCHANGED repository
     \/ pc[p] = "start" /\ MayHaveMoved(Task(p), snap[p], msg[p].attempt, "none")
     \/ pc[p] = "handle" /\ MayHaveMoved(Task(p), Verdict(p), msg[p].attempt, err[p])
     \/ pc[p] = "backoff" /\ MayHaveMoved(Task(p), "queued", msg[p].attempt, "none")
  /\ Finish(p, "dead")
  /\ UNCHANGED <<handlers, queue, msg, snap, err, run, revoked, dataplane>>

\* Kafka moves the partition of a message that is being processed: the group
\* resumes from the committed offset, so the message is delivered again.
Rebalance(p) ==
  /\ Fault("rebalance")
  /\ msg[p] # NoMessage
  /\ ~revoked[p]
  /\ ready' = ready \cup {msg[p]}
  /\ revoked' = [revoked EXCEPT ![p] = TRUE]
  /\ UNCHANGED <<repository, handlers, nextId, stranded, deadLetters, pc, msg,
                 snap, err, run, after, dataplane>>
-----------------------------------------------------------------------------
Handler(t) == CreateTask(t) \/ MarkQueued(t) \/ EnqueueTask(t)

Work(p) ==
  \/ Dequeue(p) \/ Load(p) \/ Start(p) \/ Begin(p)
  \/ PreprocessOk(p) \/ EmbedOk(p) \/ UpsertOk(p)
  \/ CallUnavailable(p) \/ CallRejected(p)
  \/ HandleError(p) \/ BackoffEnds(p) \/ Requeue(p) \/ Bury(p) \/ Ack(p)

HandlerFault(t) == CreateBrokerError(t) \/ CreateRepositoryError(t)

ProcFault(p) ==
  \/ Crash(p) \/ Restart(p) \/ Shutdown(p) \/ Rebalance(p)
  \/ WorkerBrokerError(p) \/ StageError(p) \/ WorkerRepositoryError(p)

Next ==
  \/ \E t \in Tasks : Handler(t) \/ HandlerFault(t)
  \/ \E p \in Procs : Work(p) \/ ProcFault(p)
  \/ StoreApplies

Spec == Init /\ [][Next]_vars

\* An event loop keeps running its tasks and every HTTP call has a timeout, so
\* a worker step or handler step that stays possible is taken. Nothing is
\* promised about the vector store, about restarts or about new requests.
Fairness ==
  /\ \A p \in Procs : WF_vars(Work(p))
  /\ \A t \in Tasks : WF_vars(MarkQueued(t) \/ EnqueueTask(t))

FairSpec == Spec /\ Fairness
-----------------------------------------------------------------------------
(***************************************************************************)
(* Properties.                                                             *)
(***************************************************************************)

Waiting(t) == \E m \in ready : m.task = t

\* Worker p holds a message of t and cannot get rid of it without settling t
\* or putting a new message of t in the queue: only a refused Start and a
\* refused BackoffEnds end the execution with nothing done.
WillSettle(p, t) ==
  /\ msg[p] # NoMessage
  /\ msg[p].task = t
  /\ \/ pc[p] \in {"load", "begin", "preprocess", "embed", "upsert", "handle", "requeue"}
     \/ pc[p] = "start" /\ MayMove(status[t], snap[p])
     \/ pc[p] = "backoff" /\ MayMove(status[t], "queued")

Carried(t) == Waiting(t) \/ \E p \in Procs : WillSettle(p, t)

AllCarried ==
  \A t \in Tasks :
    phase[t] = "accepted" /\ status[t] \notin TerminalStates => Carried(t)

\* Fault number k ends a handling for good. A shutdown, an error of the broker
\* and an uncaught error of the repository end it half way, and the finally
\* clause of the loop acknowledges it all the same. After a rebalance two
\* workers may have one message: a crash can take the one that got further,
\* and the status it leaves behind makes the other one's Start a conflict.
CutsShort(k) ==
  \/ faults[k] \in {"shutdown", "broker", "uncaught"}
  \/ faults[k] = "crash" /\ \E j \in 1..(k - 1) : faults[j] = "rebalance"

NothingCutShort == \A k \in DOMAIN faults : ~CutsShort(k)

\* A task whose creation was answered with 202 is never forgotten: until it is
\* settled, a message of it waits in the queue or some worker is bound to see
\* it through ("Delivery semantics are at-least-once", queue.py), unless a
\* handling was cut short.
NoTaskForgotten == NothingCutShort => AllCarried

\* A queued task is one the queue has heard of, but for the moment between the
\* two statements of the handler that creates it.
QueuedIsDelivered ==
  \A t \in Tasks : status[t] = "queued" /\ phase[t] # "queued" => Carried(t)

\* No two executions of one task at a time: at most one message of it waits or
\* is being handled (a worker past its requeue has handed the task on).
OneCarrier ==
  \A t \in Tasks :
    Cardinality({m \in ready : m.task = t})
      + Cardinality({p \in Procs : /\ pc[p] \notin {"ack", "dead"}
                                   /\ msg[p] # NoMessage
                                   /\ msg[p].task = t}) <= 1

\* A task does not fail because its own state machine refused a step of the
\* execution ("task status updates must be idempotent", event_model.md).
NeverFailsByConflict ==
  \A t \in Tasks : status[t] = "failed" => errorCode[t] # "conflict"

\* A task reported as succeeded has all the chunks of one execution in the
\* vector store, however late, often or out of order its upserts arrived.
SucceededIsStored ==
  \A t \in Tasks : status[t] = "succeeded" => \E u \in vectors : u[1] = t

\* The vectors of a task come from a single execution of it.
NoDuplicateVectors == \A u, v \in vectors : u[1] = v[1] => u = v

\* A settled task keeps its status, whichever stale worker, redelivered
\* message or late error still tries to move it.
SettledForever ==
  [][\A t \in Tasks : status[t] \in TerminalStates => status'[t] = status[t]]_vars

\* The attempt count a client polls never goes back.
AttemptsNeverRewind == [][\A t \in Tasks : attemptCount'[t] >= attemptCount[t]]_vars

\* task_done runs, also for a worker that was cancelled or whose loop is ending.
Acknowledges(p) == pc[p] = "ack" /\ msg'[p] = NoMessage

\* The message whose attempt failed a task is acknowledged only when a
\* dead-letter record of the task exists ("persists a terminal failure record
\* before the original message is acknowledged", queue.py).
DeadLetterBeforeAck ==
  [][\A p \in Procs :
       (/\ Acknowledges(p)
        /\ status[Task(p)] = "failed"
        /\ attemptCount[Task(p)] = msg[p].attempt) => deadLetters[Task(p)] > 0]_vars

\* One dead-letter record per failed task, and none for another.
DeadLetteredOnce ==
  \A t \in Tasks : /\ deadLetters[t] <= 1
                   /\ deadLetters[t] = 1 => status[t] = "failed"

\* A message is acknowledged only when its task is settled or carried on by
\* another message, unless its handling was cut short ("commits offsets only
\* after successful or terminal handling", kafka_queue.py).
AckAfterHandling ==
  [][\A p \in Procs :
       NothingCutShort /\ Acknowledges(p)
         => status[Task(p)] \in TerminalStates \/ Carried(Task(p))]_vars

\* Every accepted task is settled, as long as the worker loop of some process
\* goes on: other than a loop that has ended, nothing leaves a task for ever.
EventuallySettled ==
  \A t \in Tasks :
    phase[t] = "accepted"
      ~> (status[t] \in TerminalStates \/ \A p \in Procs : pc[p] \in {"down", "dead"})

\* No worker loop of a running process has ended, or is about to: such a
\* process goes on accepting tasks it will not run, and nothing starts its
\* worker again (readyz alone reports it).
WorkersAlive == \A p \in Procs : pc[p] # "dead" /\ after[p] # "dead"

Lifecycle == INSTANCE TaskLifecycle WITH
  view     <- [t \in Tasks |-> PublicStatus(status[t])],
  attempts <- attemptCount

\* What a client polls follows the abstract life of a task.
ImplementsLifecycle == Lifecycle!Spec
=============================================================================
