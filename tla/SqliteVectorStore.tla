------------------------- MODULE SqliteVectorStore -------------------------
(***************************************************************************)
(* The durable vector store (vector-store-proxy, store.py): two tables     *)
(* behind one connection. The first write of an upsert opens a             *)
(* transaction; only an upsert that gets through commits. A batch that is  *)
(* refused half way raises with the transaction still open, so what it     *)
(* wrote is seen by every later search, is committed by the next good      *)
(* upsert, whatever index that is for, and is lost if the process ends.    *)
(***************************************************************************)
EXTENDS Naturals

CONSTANTS
  Indexes,   \* (tenant_id, index_id) pairs
  Ids,       \* item ids
  Dims,      \* the vector dimensions clients use, all positive
  MaxBatch,  \* bound on the number of items in one upsert
  Crashes    \* the process may end and be started again

ASSUME StoreAssumption ==
  /\ Dims \subseteq Nat \ {0}
  /\ MaxBatch \in Nat \ {0}
  /\ Crashes \in BOOLEAN

VARIABLES
  dimension, items,         \* the tables as the connection sees them
  diskDimension, diskItems, \* the tables as last committed
  acked                    \* ids that a client was told are stored

tables == <<dimension, items>>
disk   == <<diskDimension, diskItems>>
vars   == <<tables, disk, acked>>

Item  == [id : Ids, dim : Dims \cup {0}]
Batch == UNION {[1..n -> Item] : n \in 1..MaxBatch}

TypeOK ==
  /\ dimension \in [Indexes -> Dims \cup {0}]
  /\ items \in [Indexes -> [Ids -> Dims \cup {0}]]
  /\ diskDimension \in [Indexes -> Dims \cup {0}]
  /\ diskItems \in [Indexes -> [Ids -> Dims \cup {0}]]
  /\ acked \in [Indexes -> SUBSET Ids]

Init ==
  /\ dimension = [x \in Indexes |-> 0]
  /\ items = [x \in Indexes |-> [i \in Ids |-> 0]]
  /\ diskDimension = dimension
  /\ diskItems = items
  /\ acked = [x \in Indexes |-> {}]
-----------------------------------------------------------------------------
\* Mutant: the dimension of an item is not compared with the index's.
FitsAnything(batch, k) == k \in DOMAIN batch

\* The loop reaches item k and writes it.
Fits(batch, k) ==
  /\ k \in DOMAIN batch
  /\ \A h \in 1..k : batch[h].dim = batch[1].dim

\* The rows of the index once the loop ends or raises. The items it has
\* written have one dimension, so which of two with the same id came last makes
\* no difference.
Insert(x, batch) ==
  LET writes(i) == {k \in DOMAIN batch : Fits(batch, k) /\ batch[k].id = i}
  IN items' = [items EXCEPT ![x] =
                 [i \in Ids |-> IF writes(i) = {} THEN items[x][i]
                                ELSE batch[CHOOSE k \in writes(i) : TRUE].dim]]

\* Mutant: the answer goes out before the transaction is committed.
CommitNothing == UNCHANGED disk

Commit ==
  /\ diskDimension' = dimension'
  /\ diskItems' = items'

\* Mutant: the index's dimension follows the batch.
OpenIndexAnyway(x, d) ==
  /\ d # 0
  /\ dimension' = [dimension EXCEPT ![x] = d]

\* The checks and the write that come before the loop. A batch refused here
\* changes nothing.
OpenIndex(x, d) ==
  /\ d # 0
  /\ dimension[x] \in {0, d}
  /\ dimension' = [dimension EXCEPT ![x] = d]

Upsert(x, batch) ==
  /\ OpenIndex(x, batch[1].dim)
  /\ Insert(x, batch)
  /\ IF \A k \in DOMAIN batch : Fits(batch, k)
     THEN /\ Commit
          /\ acked' = [acked EXCEPT ![x] = @ \cup {batch[k].id : k \in DOMAIN batch}]
     ELSE UNCHANGED <<disk, acked>>

\* The process ends, in the middle of an upsert or not, and is started again
\* on the same file: SQLite rolls the open transaction back.
Reopen ==
  /\ Crashes
  /\ dimension' = diskDimension
  /\ items' = diskItems
  /\ UNCHANGED <<disk, acked>>

Next == (\E x \in Indexes, batch \in Batch : Upsert(x, batch)) \/ Reopen

Spec == Init /\ [][Next]_vars
-----------------------------------------------------------------------------
\* Every vector a search can compare with, and every vector on disk, has the
\* dimension of its index, also after half-applied batches and a restart
\* (a search scores every vector of the index against one query vector).
UniformDimension ==
  \A x \in Indexes, i \in Ids :
    /\ items[x][i] \in {0, dimension[x]}
    /\ diskItems[x][i] \in {0, diskDimension[x]}

\* What a client was told is stored is on disk, so no restart loses it
\* ("durable vector store").
AcknowledgedIsDurable ==
  \A x \in Indexes : \A i \in acked[x] : diskItems[x][i] # 0

\* The dimension of an index never changes once a committed upsert has fixed
\* it, in the committed tables and in what searches see.
CommittedDimensionIsStable ==
  [][\A x \in Indexes :
       diskDimension[x] # 0 => /\ diskDimension'[x] = diskDimension[x]
                               /\ dimension'[x] = diskDimension[x]]_vars

Ephemeral == INSTANCE InMemoryVectorStore

\* An upsert has the effect the in-memory store gives the same request, also
\* after refused batches have left things half done (both are the VectorStore
\* of store.py, and a setting chooses between them).
BehavesLikeInMemory ==
  [][\A x \in Indexes, batch \in Batch :
       Upsert(x, batch) => Ephemeral!Upsert(x, batch)]_vars
=============================================================================
