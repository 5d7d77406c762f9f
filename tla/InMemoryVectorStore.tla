------------------------ MODULE InMemoryVectorStore ------------------------
(***************************************************************************)
(* The ephemeral vector store (vector-store-proxy, store.py): per index a  *)
(* dimension fixed by its first vector, and the vectors by item id.        *)
(* A batch is applied item by item and is left half applied when an item   *)
(* has the wrong dimension; no answer other than success promises more.    *)
(***************************************************************************)
EXTENDS Naturals

CONSTANTS Indexes, Ids, Dims, MaxBatch

VARIABLES
  dimension,  \* of each index, 0 when the index does not exist
  items,      \* the dimension of the vector stored under an id, 0 for none
  acked       \* ids that a client was told are stored (status 200)

vars == <<dimension, items, acked>>

\* A vector in a request may be empty: dimension 0.
Item  == [id : Ids, dim : Dims \cup {0}]
Batch == UNION {[1..n -> Item] : n \in 1..MaxBatch}

Init ==
  /\ dimension = [x \in Indexes |-> 0]
  /\ items = [x \in Indexes |-> [i \in Ids |-> 0]]
  /\ acked = [x \in Indexes |-> {}]

\* The items of the batch that are written before the loop ends or raises.
Written(batch) ==
  {batch[k].id : k \in {j \in DOMAIN batch :
                          \A h \in 1..j : batch[h].dim = batch[1].dim}}

Uniform(batch) == \A k \in DOMAIN batch : batch[k].dim = batch[1].dim

Upsert(x, batch) ==
  LET d == batch[1].dim
  IN /\ d # 0
     /\ dimension[x] \in {0, d}
     /\ dimension' = [dimension EXCEPT ![x] = d]
     /\ items' = [items EXCEPT ![x] =
                    [i \in Ids |-> IF i \in Written(batch) THEN d ELSE @[i]]]
     /\ acked' = IF Uniform(batch)
                 THEN [acked EXCEPT ![x] = @ \cup Written(batch)] ELSE acked

Next == \E x \in Indexes, batch \in Batch : Upsert(x, batch)

Spec == Init /\ [][Next]_vars
=============================================================================
