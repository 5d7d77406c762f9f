--------------------------- MODULE TaskRepository ---------------------------
(***************************************************************************)
(* The task repositories behind create_task_repository: create() and       *)
(* transition() statement by statement. PostgreSQL is shared by all        *)
(* orchestrator processes, each call is a transaction on a connection of   *)
(* its own, and SELECT ... FOR UPDATE takes a lock on the task's row. A    *)
(* SQLite file belongs to one process, whose lock keeps its threads apart. *)
(* A transaction writes the task row and, on PostgreSQL, a row of the      *)
(* state history; nobody sees either before the commit.                    *)
(***************************************************************************)
EXTENDS Naturals, Sequences, TaskStateMachine

CONSTANTS
  Tasks,
  Procs,      \* orchestrator processes; each is in one call at a time
  Nobody,     \* the holder of a row that is not locked
  MaxMoves,   \* bound on the committed calls per task
  MaxFailures \* bound on lost connections and processes that die in a call

ASSUME RepositoryAssumption ==
  /\ Nobody \notin Procs
  /\ MaxMoves \in Nat /\ MaxFailures \in Nat

VARIABLES
  backend,   \* settings.repository_backend: "sqlite" or "postgres"
  deployed,  \* the processes that use this repository
  \* committed
  status,    \* column status of the task row, "absent" without a row
  history,   \* the moves <<from_status, to_status>> of a task, in order
  \* in transactions
  rowLock,   \* the process whose transaction has locked the task's row
  pc,        \* "idle", then "checked", "updated", "recorded"
  call,      \* the task and the status asked for
  seen,      \* the status the transaction has read
  \* observer
  answered,  \* calls that returned to the caller, per task
  failures

committed   == <<status, history>>
transaction == <<rowLock, pc, call, seen>>
observer    == <<answered, failures>>
vars == <<backend, deployed, committed, transaction, observer>>

Absent  == "absent"
Shown   == Statuses \cup {Absent}
Calls   == [task : Tasks, next : Statuses]

TypeOK ==
  /\ backend \in {"sqlite", "postgres"}
  /\ deployed \in SUBSET Procs
  /\ status \in [Tasks -> Shown]
  /\ history \in [Tasks -> Seq(Shown \X Statuses)]
  /\ rowLock \in [Tasks -> Procs \cup {Nobody}]
  /\ pc \in [Procs -> {"idle", "checked", "updated", "recorded"}]
  /\ call \in [Procs -> Calls]
  /\ seen \in [Procs -> Shown]
  /\ answered \in [Tasks -> Nat]
  /\ failures \in 0..MaxFailures

Init ==
  /\ \/ backend = "postgres" /\ deployed = Procs
     \/ backend = "sqlite" /\ \E p \in Procs : deployed = {p}
  /\ status = [t \in Tasks |-> Absent]
  /\ history = [t \in Tasks |-> <<>>]
  /\ rowLock = [t \in Tasks |-> Nobody]
  /\ pc = [p \in Procs |-> "idle"]
  /\ \E c \in Calls : call = [p \in Procs |-> c]
  /\ seen = [p \in Procs |-> Absent]
  /\ answered = [t \in Tasks |-> 0]
  /\ failures = 0
-----------------------------------------------------------------------------
\* The first statement of a call has found status "found" and the call goes on.
Open(p, t, next, found) ==
  /\ pc' = [pc EXCEPT ![p] = "checked"]
  /\ call' = [call EXCEPT ![p] = [task |-> t, next |-> next]]
  /\ seen' = [seen EXCEPT ![p] = found]
  /\ UNCHANGED <<backend, deployed, committed, observer>>

Callable(p, t) ==
  /\ p \in deployed
  /\ pc[p] = "idle"
  /\ Len(history[t]) < MaxMoves

\* Mutant: create() leaves the status to a column default that nobody set.
CreateWithoutStatus(p, t) ==
  /\ Callable(p, t)
  /\ status[t] = Absent
  /\ rowLock[t] = Nobody
  /\ rowLock' = [rowLock EXCEPT ![t] = p]
  /\ Open(p, t, Absent, Absent)

\* create() of a fresh task id, which nobody else can know yet.
Create(p, t) ==
  /\ Callable(p, t)
  /\ status[t] = Absent
  /\ rowLock[t] = Nobody
  /\ rowLock' = [rowLock EXCEPT ![t] = p]
  /\ Open(p, t, "accepted", Absent)

\* Mutant: SELECT without FOR UPDATE.
SelectWithoutLock(p, t, next) ==
  /\ Callable(p, t)
  /\ status[t] # Absent
  /\ MayMove(status[t], next)
  /\ Open(p, t, next, status[t])
  /\ UNCHANGED rowLock

\* SELECT ... FOR UPDATE waits for the row and reads its last commit. (A task
\* that does not exist, or a move the table refuses, raises at once; the
\* transaction is rolled back and nothing has changed.)
SelectForUpdate(p, t, next) ==
  /\ Callable(p, t)
  /\ status[t] # Absent
  /\ rowLock[t] = Nobody
  /\ MayMove(status[t], next)
  /\ rowLock' = [rowLock EXCEPT ![t] = p]
  /\ Open(p, t, next, status[t])

\* UPDATE (or the INSERT of create): it names the row by its key only, and
\* waits for a lock that another transaction may hold.
UpdateRow(p) ==
  LET t == call[p].task
  IN /\ pc[p] = "checked"
     /\ rowLock[t] \in {Nobody, p}
     /\ rowLock' = [rowLock EXCEPT ![t] = p]
     /\ pc' = [pc EXCEPT ![p] = "updated"]
     /\ UNCHANGED <<backend, deployed, committed, call, seen, observer>>

\* The row of the state history. SQLite keeps none: there, history is what an
\* observer of the commits would write down.
RecordMove(p) ==
  /\ pc[p] = "updated"
  /\ pc' = [pc EXCEPT ![p] = "recorded"]
  /\ UNCHANGED <<backend, deployed, committed, rowLock, call, seen, observer>>

\* The transaction ends: its row is unlocked.
Close(p) ==
  /\ pc' = [pc EXCEPT ![p] = "idle"]
  /\ rowLock' = [t \in Tasks |-> IF rowLock[t] = p THEN Nobody ELSE rowLock[t]]

\* Mutant: the history row is written by a transaction of its own, which is
\* lost with the connection.
ApplyStatusOnly(p) ==
  /\ status' = [status EXCEPT ![call[p].task] = call[p].next]
  /\ UNCHANGED history

Apply(p) ==
  /\ status' = [status EXCEPT ![call[p].task] = call[p].next]
  /\ history' = [history EXCEPT ![call[p].task] = Append(@, <<seen[p], call[p].next>>)]

\* Mutant: the call returns before the commit, which may still fail.
AnswerEarly(p) ==
  /\ pc[p] = "recorded"
  /\ Apply(p) \/ UNCHANGED committed
  /\ Close(p)
  /\ answered' = [answered EXCEPT ![call[p].task] = @ + 1]
  /\ UNCHANGED <<backend, deployed, call, seen, failures>>

Commit(p) ==
  /\ pc[p] = "recorded"
  /\ Apply(p)
  /\ Close(p)
  /\ answered' = [answered EXCEPT ![call[p].task] = @ + 1]
  /\ UNCHANGED <<backend, deployed, call, seen, failures>>

\* The process dies or loses its connection: the database rolls back, unless
\* it has just committed and only the answer is lost. (A SQLite process that
\* survives a failed statement does not roll back: its next call commits the
\* row as well. That is the second outcome, taken early; the moments in which
\* only the process itself sees the row are left out.)
Fail(p) ==
  /\ pc[p] # "idle"
  /\ failures < MaxFailures
  /\ failures' = failures + 1
  /\ UNCHANGED committed \/ (pc[p] = "recorded" /\ Apply(p))
  /\ Close(p)
  /\ UNCHANGED <<backend, deployed, call, seen, answered>>

Statement(p) ==
  \/ \E t \in Tasks : Create(p, t)
  \/ \E t \in Tasks, next \in Statuses : SelectForUpdate(p, t, next)
  \/ UpdateRow(p) \/ RecordMove(p) \/ Commit(p)

Next == \E p \in Procs : Statement(p) \/ Fail(p)

Spec == Init /\ [][Next]_vars
-----------------------------------------------------------------------------
From(move) == move[1]
To(move)   == move[2]

EndsIn(h, now) == now = IF h = <<>> THEN Absent ELSE To(h[Len(h)])

IsWalk(h) ==
  \A k \in 1..Len(h) :
    IF k = 1 THEN h[1] = <<Absent, "accepted">>
    ELSE From(h[k]) = To(h[k - 1]) /\ MayMove(From(h[k]), To(h[k]))

\* The history of a task is a walk through the status graph that starts at its
\* creation and ends in its status: every move was checked against the very
\* status it replaced, whoever else moved the task meanwhile, and no failure
\* separates the two rows of a move.
HistoryExplainsStatus ==
  \A t \in Tasks : EndsIn(history[t], status[t]) /\ IsWalk(history[t])

\* A call that returned is in the database for good: committed moves are at
\* least the answered ones. (There may be more: an error does not mean that
\* nothing happened.)
AnsweredIsCommitted == \A t \in Tasks : answered[t] <= Len(history[t])

\* Every call takes effect at one point between its first statement and its
\* end, as if the rows were a dictionary under one lock: nothing of it shows
\* before, it is checked against the status it replaces, it is answered at that
\* point or never, and a call that fails has had all of its effect or none.
InMemory == INSTANCE InMemoryTaskRepository
ActsAtOnce == InMemory!Spec
=============================================================================
