-------------------------- MODULE SqliteTaskQueue --------------------------
(***************************************************************************)
(* The SQLite queue (internal/queue.py): a table of rows, each unclaimed   *)
(* or claimed. A claim reads the oldest unclaimed row and then updates it, *)
(* under a lock of this process only and without looking at the number of  *)
(* rows the update has changed: another process on the same file may claim *)
(* the row in between. Nothing ever gives a claimed row back.              *)
(***************************************************************************)
EXTENDS QueueWorkers, FiniteSets

VARIABLES unclaimed, claimed  \* the rows, by claimed_at

table == <<unclaimed, claimed>>
vars  == <<last, workers, table>>

TypeOK ==
  /\ WorkersTypeOK
  /\ unclaimed \subseteq 1..MaxMessages
  /\ claimed \subseteq 1..MaxMessages

Empty == unclaimed = {} /\ claimed = {}

Init == WorkersInit /\ Empty /\ Deployed # {}

\* More than one process has opened the file.
Shared == \E c, d \in Deployed : c # d
-----------------------------------------------------------------------------
Enqueue ==
  /\ Put
  /\ unclaimed' = unclaimed \cup {last'}
  /\ UNCHANGED claimed

\* Mutant: no row is selected as long as another one is claimed.
SelectAlone(c) ==
  /\ loop[c] = "polling"
  /\ claimed = {}
  /\ \E m \in unclaimed :
       /\ \A n \in unclaimed : m <= n
       /\ Take(c, m, "claiming")
  /\ UNCHANGED table

\* _claim_next: SELECT ... ORDER BY id LIMIT 1, outside any transaction.
Select(c) ==
  /\ loop[c] = "polling"
  /\ \E m \in unclaimed :
       /\ \A n \in unclaimed : m <= n
       /\ Take(c, m, "claiming")
  /\ UNCHANGED table

\* Mutant: the row is handed out without the UPDATE.
ClaimNothing(c) ==
  /\ loop[c] = "claiming"
  /\ Take(c, taken[c], "handling")
  /\ UNCHANGED table

\* UPDATE ... WHERE id = ? AND claimed_at IS NULL, and the commit. The message
\* is returned even when the row was claimed, or is gone.
Claim(c) ==
  /\ loop[c] = "claiming"
  /\ unclaimed' = unclaimed \ {taken[c]}
  /\ claimed' = claimed \cup (unclaimed \cap {taken[c]})
  /\ Take(c, taken[c], "handling")

\* task_done: DELETE, and the commit.
TaskDone(c) ==
  /\ loop[c] = "ack"
  /\ unclaimed' = unclaimed \ {taken[c]}
  /\ claimed' = claimed \ {taken[c]}
  /\ Finish(c)

\* The file stays locked by another process for longer than the driver waits:
\* the statement raises, outside every except clause of the loop.
Locked(c) ==
  /\ Shared
  /\ loop[c] \in {"polling", "claiming", "ack"}
  /\ Lose(c, "dead")
  /\ UNCHANGED table

Crash(c) ==
  /\ Alive(c)
  /\ Lose(c, "down")
  /\ UNCHANGED table

Work(c) == Select(c) \/ Claim(c) \/ (Handle(c) /\ UNCHANGED table) \/ TaskDone(c)

Next ==
  \/ Enqueue
  \/ \E c \in Consumers :
       Work(c) \/ Locked(c) \/ Crash(c) \/ (Restart(c) /\ UNCHANGED table)

Spec == Init /\ [][Next]_vars
=============================================================================
