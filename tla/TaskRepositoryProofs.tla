------------------------ MODULE TaskRepositoryProofs ------------------------
(***************************************************************************)
(* Proofs about TaskRepository: for every number of tasks, processes and   *)
(* failures, the history of a task explains its status.                    *)
(***************************************************************************)
EXTENDS TaskRepository, TLAPS

\* What a transaction between its first statement and its commit can rely on:
\* it has locked its row, what it read is still there, and its move is legal.
InTransaction(p) ==
  LET t == call[p].task
  IN /\ rowLock[t] = p
     /\ seen[p] = status[t]
     /\ IF seen[p] = Absent THEN call[p].next = "accepted"
        ELSE MayMove(seen[p], call[p].next)

Exclusive == \A p \in Procs : pc[p] # "idle" => InTransaction(p)

IInv == TypeOK /\ Exclusive /\ HistoryExplainsStatus /\ AnsweredIsCommitted

\* What the proofs need to know of the statuses.
LEMMA StatusFacts == Absent \notin Statuses /\ "accepted" \in Statuses
BY DEF Absent, Statuses, ActiveStates, TerminalStates

\* Appending a legal move from where the walk has arrived gives a walk.
LEMMA WalkGoesOn ==
  ASSUME NEW h \in Seq(Shown \X Statuses), NEW now \in Shown, NEW next \in Statuses,
         EndsIn(h, now), IsWalk(h),
         IF now = Absent THEN next = "accepted" ELSE MayMove(now, next)
  PROVE  LET g == Append(h, <<now, next>>)
         IN g \in Seq(Shown \X Statuses) /\ EndsIn(g, next) /\ IsWalk(g)
                /\ Len(g) = Len(h) + 1
<1> DEFINE g == Append(h, <<now, next>>)
<1> HIDE DEF g
<1>1. /\ g \in Seq(Shown \X Statuses)
      /\ Len(g) = Len(h) + 1 /\ Len(h) \in Nat
      /\ g[Len(h) + 1] = <<now, next>>
      /\ \A k \in 1..Len(h) : g[k] = h[k]
  BY DEF g
<1>2. EndsIn(g, next)
  <2>1. g # <<>>
    BY <1>1
  <2>. QED
    BY <1>1, <2>1 DEF EndsIn, To
<1>3. IsWalk(g)
  <2>. SUFFICES ASSUME NEW k \in 1..Len(g)
                PROVE  IF k = 1 THEN g[1] = <<Absent, "accepted">>
                       ELSE From(g[k]) = To(g[k - 1]) /\ MayMove(From(g[k]), To(g[k]))
    BY DEF IsWalk
  <2>1. CASE k <= Len(h)
    <3>1. k \in 1..Len(h) /\ (k # 1 => k - 1 \in 1..Len(h))
      BY <1>1, <2>1
    <3>2. g[k] = h[k] /\ (k # 1 => g[k - 1] = h[k - 1])
      BY <1>1, <3>1
    <3>. QED
      BY <3>1, <3>2 DEF IsWalk
  <2>2. CASE k = Len(h) + 1 /\ h = <<>>
    <3>1. k = 1 /\ now = Absent
      BY <2>2 DEF EndsIn
    <3>. QED
      BY <1>1, <2>2, <3>1
  <2>3. CASE k = Len(h) + 1 /\ h # <<>>
    <3>1. k # 1 /\ k - 1 = Len(h) /\ Len(h) \in 1..Len(h)
      BY <1>1, <2>3
    <3>2. now = To(h[Len(h)])
      BY <2>3 DEF EndsIn
    <3>3. h[Len(h)] \in Shown \X Statuses
      BY <3>1
    <3>4. now # Absent
      BY <3>2, <3>3, StatusFacts DEF To
    <3>5. MayMove(now, next)
      BY <3>4
    <3>6. g[k - 1] = h[Len(h)] /\ g[k] = <<now, next>>
      BY <1>1, <2>3, <3>1
    <3>. QED
      BY <3>1, <3>2, <3>5, <3>6 DEF From, To
  <2>. QED
    BY <1>1, <2>1, <2>2, <2>3
<1>. QED
  BY <1>1, <1>2, <1>3 DEF g

\* The invariant holds of an empty repository.
LEMMA InitIInv == Init => IInv
<1>. SUFFICES ASSUME Init PROVE IInv
  OBVIOUS
<1>1. TypeOK
  BY StatusFacts, RepositoryAssumption DEF Init, TypeOK, Shown
<1>2. Exclusive
  BY DEF Init, Exclusive
<1>3. HistoryExplainsStatus
  BY DEF Init, HistoryExplainsStatus, EndsIn, IsWalk
<1>4. AnsweredIsCommitted
  BY DEF Init, AnsweredIsCommitted
<1>. QED
  BY <1>1, <1>2, <1>3, <1>4 DEF IInv

\* The first statement of a call: it finds the status of an unlocked row.
LEMMA OpenKeeps ==
  ASSUME IInv, NEW p \in Procs, NEW t \in Tasks, NEW next \in Statuses,
         Callable(p, t), rowLock[t] = Nobody,
         rowLock' = [rowLock EXCEPT ![t] = p],
         Open(p, t, next, status[t]),
         IF status[t] = Absent THEN next = "accepted" ELSE MayMove(status[t], next)
  PROVE  IInv'
<1>1. TypeOK'
  BY DEF IInv, TypeOK, Open, Callable, Calls, observer, committed
<1>2. Exclusive'
  <2>. SUFFICES ASSUME NEW q \in Procs, pc'[q] # "idle" PROVE InTransaction(q)'
    BY DEF Exclusive
  <2>1. CASE q = p
    BY <2>1 DEF IInv, TypeOK, Open, InTransaction, committed
  <2>2. CASE q # p
    <3>1. InTransaction(q) /\ call'[q] = call[q] /\ seen'[q] = seen[q] /\ call[q].task \in Tasks
      BY <2>2 DEF IInv, TypeOK, Exclusive, Open, Calls
    <3>2. call[q].task # t
      BY <3>1, RepositoryAssumption DEF InTransaction
    <3>. QED
      BY <3>1, <3>2 DEF InTransaction, Open, committed, IInv, TypeOK
  <2>. QED
    BY <2>1, <2>2
<1>3. HistoryExplainsStatus' /\ AnsweredIsCommitted'
  BY DEF IInv, HistoryExplainsStatus, AnsweredIsCommitted, Open, committed, observer
<1>. QED
  BY <1>1, <1>2, <1>3 DEF IInv

\* A statement inside the transaction.
LEMMA StatementKeeps ==
  ASSUME IInv, NEW p \in Procs, UpdateRow(p) \/ RecordMove(p)
  PROVE  IInv'
<1>1. /\ pc[p] # "idle" /\ InTransaction(p) /\ rowLock' = rowLock
      /\ UNCHANGED <<committed, call, seen, answered, failures, backend, deployed>>
      /\ \E loc \in {"updated", "recorded"} : pc' = [pc EXCEPT ![p] = loc]
  BY DEF IInv, TypeOK, Exclusive, InTransaction, UpdateRow, RecordMove, observer, Calls
<1>2. TypeOK'
  BY <1>1 DEF IInv, TypeOK, committed
<1>3. Exclusive'
  BY <1>1 DEF IInv, TypeOK, Exclusive, InTransaction, committed
<1>4. HistoryExplainsStatus' /\ AnsweredIsCommitted'
  BY <1>1 DEF IInv, HistoryExplainsStatus, AnsweredIsCommitted, committed
<1>. QED
  BY <1>2, <1>3, <1>4 DEF IInv

\* The other transactions do not notice that p's has ended.
LEMMA CloseKeepsExclusive ==
  ASSUME IInv, NEW p \in Procs, pc[p] # "idle", Close(p),
         UNCHANGED <<call, seen>>,
         \A t \in Tasks : t # call[p].task => status'[t] = status[t]
  PROVE  Exclusive'
<1>. SUFFICES ASSUME NEW q \in Procs, pc'[q] # "idle" PROVE InTransaction(q)'
  BY DEF Exclusive
<1>1. q # p /\ pc[q] # "idle"
  BY DEF Close, IInv, TypeOK
<1>2. InTransaction(q) /\ InTransaction(p) /\ call[q].task \in Tasks
  BY <1>1 DEF IInv, TypeOK, Exclusive, Calls
<1>3. call[q].task # call[p].task
  BY <1>1, <1>2 DEF InTransaction
<1>. QED
  BY <1>1, <1>2, <1>3 DEF InTransaction, Close

\* The move of a transaction goes to the task row and the history together.
LEMMA ApplyKeeps ==
  ASSUME IInv, NEW p \in Procs, pc[p] # "idle", Apply(p)
  PROVE  /\ status' \in [Tasks -> Shown]
         /\ history' \in [Tasks -> Seq(Shown \X Statuses)]
         /\ HistoryExplainsStatus'
         /\ \A t \in Tasks : Len(history'[t]) >= Len(history[t])
         /\ Len(history'[call[p].task]) = Len(history[call[p].task]) + 1
         /\ \A t \in Tasks : t # call[p].task => status'[t] = status[t]
<1> DEFINE c == call[p].task
           g == Append(history[c], <<seen[p], call[p].next>>)
<1>1. InTransaction(p) /\ c \in Tasks /\ call[p].next \in Statuses /\ seen[p] \in Shown
  BY DEF IInv, TypeOK, Exclusive, Calls
<1>2. /\ history[c] \in Seq(Shown \X Statuses)
      /\ EndsIn(history[c], seen[p]) /\ IsWalk(history[c])
  BY <1>1 DEF IInv, TypeOK, HistoryExplainsStatus, InTransaction
<1>3. IF seen[p] = Absent THEN call[p].next = "accepted" ELSE MayMove(seen[p], call[p].next)
  BY <1>1 DEF InTransaction
<1>4. g \in Seq(Shown \X Statuses) /\ EndsIn(g, call[p].next) /\ IsWalk(g)
        /\ Len(g) = Len(history[c]) + 1
  BY <1>1, <1>2, <1>3, WalkGoesOn
<1> HIDE DEF g
<1>5. /\ status' = [status EXCEPT ![c] = call[p].next]
      /\ history' = [history EXCEPT ![c] = g]
  BY DEF Apply, g
<1>6. status \in [Tasks -> Shown] /\ history \in [Tasks -> Seq(Shown \X Statuses)]
  BY DEF IInv, TypeOK
<1>7. \A t \in Tasks : Len(history[t]) \in Nat
  BY <1>6
<1>8. call[p].next \in Shown
  BY <1>1 DEF Shown
<1>9. HistoryExplainsStatus'
  BY <1>1, <1>4, <1>5, <1>6 DEF HistoryExplainsStatus, IInv
<1>. QED
  BY <1>1, <1>4, <1>5, <1>6, <1>7, <1>8, <1>9

\* A commit, whether its answer arrives or not, keeps the invariant.
LEMMA CommitKeeps ==
  ASSUME IInv, NEW p \in Procs, Commit(p)
  PROVE  IInv'
<1>1. /\ pc[p] # "idle" /\ Apply(p) /\ Close(p)
      /\ answered' = [answered EXCEPT ![call[p].task] = @ + 1]
      /\ UNCHANGED <<backend, deployed, call, seen, failures>>
  BY DEF Commit
<1>2. call[p].task \in Tasks
  BY DEF IInv, TypeOK, Calls
<1>3. TypeOK'
  BY <1>1, <1>2, ApplyKeeps DEF IInv, TypeOK, Close
<1>4. Exclusive'
  BY <1>1, ApplyKeeps, CloseKeepsExclusive
<1>5. AnsweredIsCommitted'
  <2>. SUFFICES ASSUME NEW t \in Tasks PROVE answered'[t] <= Len(history'[t])
    BY DEF AnsweredIsCommitted
  <2>1. answered[t] \in Nat /\ Len(history[t]) \in Nat /\ answered[t] <= Len(history[t])
    BY DEF IInv, TypeOK, AnsweredIsCommitted
  <2>2. Len(history'[t]) \in Nat
    BY <1>1, ApplyKeeps
  <2>. QED
    BY <1>1, <1>2, <2>1, <2>2, ApplyKeeps DEF IInv, TypeOK
<1>. QED
  BY <1>1, <1>3, <1>4, <1>5, ApplyKeeps DEF IInv

\* So does a failure, which rolls back.
LEMMA FailKeeps ==
  ASSUME IInv, NEW p \in Procs, Fail(p)
  PROVE  IInv'
<1>1. /\ pc[p] # "idle" /\ Close(p)
      /\ UNCHANGED <<backend, deployed, call, seen, answered>>
      /\ failures' \in 0..MaxFailures
      /\ UNCHANGED committed \/ Apply(p)
  BY RepositoryAssumption DEF Fail, IInv, TypeOK
<1>2. /\ status' \in [Tasks -> Shown]
      /\ history' \in [Tasks -> Seq(Shown \X Statuses)]
      /\ HistoryExplainsStatus'
      /\ \A t \in Tasks : Len(history'[t]) >= Len(history[t])
      /\ \A t \in Tasks : t # call[p].task => status'[t] = status[t]
  <2>1. CASE Apply(p)
    BY <1>1, <2>1, ApplyKeeps
  <2>2. CASE UNCHANGED committed
    <3>1. status' = status /\ history' = history
      BY <2>2 DEF committed
    <3>2. \A t \in Tasks : Len(history[t]) \in Nat
      BY DEF IInv, TypeOK
    <3>. QED
      BY <3>1, <3>2 DEF IInv, TypeOK, HistoryExplainsStatus
  <2>. QED
    BY <1>1, <2>1, <2>2
<1>3. TypeOK'
  BY <1>1, <1>2 DEF IInv, TypeOK, Close
<1>4. Exclusive'
  BY <1>1, <1>2, CloseKeepsExclusive
<1>5. AnsweredIsCommitted'
  <2>. SUFFICES ASSUME NEW t \in Tasks PROVE answered'[t] <= Len(history'[t])
    BY DEF AnsweredIsCommitted
  <2>1. answered[t] \in Nat /\ Len(history[t]) \in Nat /\ answered[t] <= Len(history[t])
    BY DEF IInv, TypeOK, AnsweredIsCommitted
  <2>2. Len(history'[t]) \in Nat /\ Len(history'[t]) >= Len(history[t])
    BY <1>2
  <2>. QED
    BY <1>1, <2>1, <2>2
<1>. QED
  BY <1>2, <1>3, <1>4, <1>5 DEF IInv

\* So does every step.
LEMMA StepIInv == IInv /\ [Next]_vars => IInv'
<1>. SUFFICES ASSUME IInv, [Next]_vars PROVE IInv'
  OBVIOUS
<1>1. ASSUME NEW p \in Procs, NEW t \in Tasks, Create(p, t) PROVE IInv'
  BY <1>1, StatusFacts, OpenKeeps DEF Create
<1>2. ASSUME NEW p \in Procs, NEW t \in Tasks, NEW next \in Statuses, SelectForUpdate(p, t, next)
      PROVE  IInv'
  BY <1>2, OpenKeeps DEF SelectForUpdate
<1>3. ASSUME NEW p \in Procs, UpdateRow(p) \/ RecordMove(p) PROVE IInv'
  BY <1>3, StatementKeeps
<1>4. ASSUME NEW p \in Procs, Commit(p) PROVE IInv'
  BY <1>4, CommitKeeps
<1>5. ASSUME NEW p \in Procs, Fail(p) PROVE IInv'
  BY <1>5, FailKeeps
<1>6. CASE UNCHANGED vars
  BY <1>6 DEF IInv, TypeOK, Exclusive, InTransaction, HistoryExplainsStatus,
     AnsweredIsCommitted, vars, committed, transaction, observer
<1>. QED
  BY <1>1, <1>2, <1>3, <1>4, <1>5, <1>6 DEF Next, Statement

\* The inductive invariant behind the theorems on the repositories.
THEOREM Invariance == Spec => []IInv
BY InitIInv, StepIInv, PTL DEF Spec

\* Type correctness of the repository.
THEOREM RepositoryTypes == Spec => []TypeOK
BY Invariance, PTL DEF IInv

\* However many processes move a task at the same time, and wherever their
\* connections break, the history of a task is a walk through the status graph
\* that ends in its status.
THEOREM HistoryCorrect == Spec => []HistoryExplainsStatus
BY Invariance, PTL DEF IInv

\* What the repository has answered, it has committed.
THEOREM AnswersHold == Spec => []AnsweredIsCommitted
BY Invariance, PTL DEF IInv
-----------------------------------------------------------------------------
\* The table the database repositories check a move against is the table of
\* the in-memory one.
LEMMA SameTable ==
  \A now, next : MayMove(now, next) = InMemory!MayMove(now, next)
BY DEF MayMove, CanTransition, ActiveStates, AllowedTransitions,
       InMemory!MayMove, InMemory!CanTransition, InMemory!ActiveStates,
       InMemory!AllowedTransitions

\* What a transaction applies is a call of the in-memory repository, answered
\* or not.
LEMMA ApplyActs ==
  ASSUME IInv, NEW p \in Procs, pc[p] # "idle", Apply(p),
         answered' \in {answered, [answered EXCEPT ![call[p].task] = @ + 1]}
  PROVE  InMemory!Next
<1> DEFINE t    == call[p].task
           next == call[p].next
<1>1. t \in Tasks /\ next \in Statuses
  BY DEF IInv, TypeOK, Calls
<1>2. InMemory!Store(t, next)
  BY DEF Apply, InMemory!Store
<1>3. IF status[t] = Absent THEN next = "accepted" ELSE MayMove(status[t], next)
  BY DEF IInv, Exclusive, InTransaction
<1>4. CASE status[t] = Absent
  <2>1. InMemory!Create(t)
    BY <1>2, <1>3, <1>4 DEF InMemory!Create, Absent
  <2> QED  BY <1>1, <2>1 DEF InMemory!Next
<1>5. CASE status[t] # Absent
  <2>1. InMemory!Transition(t, next)
    BY <1>2, <1>3, <1>5, SameTable DEF InMemory!Transition, Absent
  <2>2. InMemory!Statuses = Statuses
    BY DEF Statuses, ActiveStates, TerminalStates, InMemory!Statuses, InMemory!ActiveStates,
           InMemory!TerminalStates
  <2> QED  BY <1>1, <2>1, <2>2 DEF InMemory!Next
<1> QED  BY <1>4, <1>5

\* A step either commits a transaction or does not touch what the callers see.
LEMMA StepActs == IInv /\ [Next]_vars => [InMemory!Next]_InMemory!vars
<1> SUFFICES ASSUME IInv, [Next]_vars PROVE InMemory!Next \/ UNCHANGED <<status, answered>>
  BY DEF InMemory!vars
<1>1. ASSUME NEW p \in Procs, NEW t \in Tasks,
             Create(p, t) \/ \E next \in Statuses : SelectForUpdate(p, t, next)
      PROVE  UNCHANGED <<status, answered>>
  BY <1>1 DEF Create, SelectForUpdate, Open, committed, observer
<1>2. ASSUME NEW p \in Procs, UpdateRow(p) \/ RecordMove(p)
      PROVE  UNCHANGED <<status, answered>>
  BY <1>2 DEF UpdateRow, RecordMove, committed, observer
<1>3. ASSUME NEW p \in Procs, Commit(p) PROVE InMemory!Next
  BY <1>3, ApplyActs DEF Commit
<1>4. ASSUME NEW p \in Procs, Fail(p)
      PROVE  InMemory!Next \/ UNCHANGED <<status, answered>>
  BY <1>4, ApplyActs DEF Fail, committed
<1>5. CASE UNCHANGED vars
  BY <1>5 DEF vars, committed, observer
<1> QED  BY <1>1, <1>2, <1>3, <1>4, <1>5 DEF Next, Statement

\* The transition of TaskOrchestrator is one step, and this is why it may be:
\* to all callers the database repositories are the in-memory one, for any
\* number of tasks, processes and failures.
THEOREM CallsAreAtomic == Spec => ActsAtOnce
<1>1. Init => InMemory!Init
  BY DEF Init, InMemory!Init, Absent
<1> QED  BY <1>1, StepActs, Invariance, PTL DEF Spec, ActsAtOnce, InMemory!Spec
=============================================================================
