------------------------- MODULE VectorStoreProofs --------------------------
(***************************************************************************)
(* Theorems about the durable vector store and about searches that race    *)
(* with upserts and restarts, for every set of indexes, ids and            *)
(* dimensions, every batch size, every provider and every top_k.           *)
(***************************************************************************)
EXTENDS Retrieval, TLAPS

\* The connection sees at least what is on disk.
SeesDisk ==
  \A x \in Indexes :
    /\ diskDimension[x] # 0 => dimension[x] = diskDimension[x]
    /\ \A i \in acked[x] : items[x][i] # 0

StoreInv == TypeOK /\ UniformDimension /\ AcknowledgedIsDurable /\ SeesDisk

\* An item that is written has the dimension of the first item of its batch,
\* and a batch is never empty.
LEMMA BatchFacts ==
  ASSUME NEW batch \in Batch
  PROVE  /\ 1 \in DOMAIN batch
         /\ \A k \in DOMAIN batch : batch[k].id \in Ids
         /\ \A k \in DOMAIN batch : Fits(batch, k) => batch[k].dim = batch[1].dim
<1>1. PICK n \in 1..MaxBatch : batch \in [1..n -> Item]
  BY DEF Batch
<1>2. n \in Nat /\ n >= 1
  BY <1>1, StoreAssumption
<1> QED
  BY <1>1, <1>2 DEF Item, Fits

\* The rows the loop leaves: what it has written has the batch's dimension.
LEMMA InsertRows ==
  ASSUME NEW x \in Indexes, NEW batch \in Batch, Insert(x, batch)
  PROVE  items' = [items EXCEPT ![x] =
                     [i \in Ids |-> IF \E k \in DOMAIN batch : Fits(batch, k) /\ batch[k].id = i
                                    THEN batch[1].dim ELSE items[x][i]]]
<1> DEFINE writes(i) == {k \in DOMAIN batch : Fits(batch, k) /\ batch[k].id = i}
<1>1. ASSUME NEW i \in Ids, writes(i) # {}
      PROVE  batch[CHOOSE k \in writes(i) : TRUE].dim = batch[1].dim
  <2>1. (CHOOSE k \in writes(i) : TRUE) \in writes(i)
    BY <1>1
  <2> QED  BY <2>1, BatchFacts
<1>2. \A i \in Ids : writes(i) = {} <=> ~\E k \in DOMAIN batch : Fits(batch, k) /\ batch[k].id = i
  OBVIOUS
<1>3. [i \in Ids |-> IF writes(i) = {} THEN items[x][i]
                     ELSE batch[CHOOSE k \in writes(i) : TRUE].dim]
        = [i \in Ids |-> IF \E k \in DOMAIN batch : Fits(batch, k) /\ batch[k].id = i
                         THEN batch[1].dim ELSE items[x][i]]
  BY <1>1, <1>2
<1> QED  BY <1>3 DEF Insert

\* What an upsert that gets past its first checks does to one row.
LEMMA RowAfterUpsert ==
  ASSUME TypeOK, NEW x \in Indexes, NEW batch \in Batch,
         OpenIndex(x, batch[1].dim), Insert(x, batch)
  PROVE  /\ batch[1].dim \in Dims
         /\ dimension' \in [Indexes -> Dims \cup {0}]
         /\ items' \in [Indexes -> [Ids -> Dims \cup {0}]]
         /\ dimension'[x] = batch[1].dim
         /\ dimension[x] \in {0, dimension'[x]}
         /\ \A y \in Indexes \ {x} : dimension'[y] = dimension[y] /\ items'[y] = items[y]
         /\ \A i \in Ids : items'[x][i] = items[x][i] \/ items'[x][i] = dimension'[x]
         /\ \A k \in DOMAIN batch : Fits(batch, k) => items'[x][batch[k].id] = dimension'[x]
<1>1. batch[1].dim \in Dims \cup {0} /\ batch[1].dim # 0
  BY BatchFacts, StoreAssumption DEF OpenIndex, Batch, Item
<1> DEFINE rows == [i \in Ids |-> IF \E k \in DOMAIN batch : Fits(batch, k) /\ batch[k].id = i
                                  THEN batch[1].dim ELSE items[x][i]]
<1>9. items' = [items EXCEPT ![x] = rows]
  BY InsertRows
<1>2. \A i \in Ids : rows[i] = items[x][i] \/ rows[i] = batch[1].dim
  BY BatchFacts
<1>8. \A k \in DOMAIN batch : Fits(batch, k) => rows[batch[k].id] = batch[1].dim
  BY BatchFacts
<1>3. items \in [Indexes -> [Ids -> Dims \cup {0}]] /\ dimension \in [Indexes -> Dims \cup {0}]
  BY DEF TypeOK
<1>4. dimension' = [dimension EXCEPT ![x] = batch[1].dim] /\ dimension[x] \in {0, batch[1].dim}
  BY DEF OpenIndex
<1>5. items' \in [Indexes -> [Ids -> Dims \cup {0}]]
  BY <1>1, <1>3, <1>9
<1>6. dimension' \in [Indexes -> Dims \cup {0}] /\ dimension'[x] = batch[1].dim
  BY <1>1, <1>3, <1>4
<1>7. /\ items'[x] = rows
      /\ \A y \in Indexes \ {x} : dimension'[y] = dimension[y] /\ items'[y] = items[y]
  BY <1>3, <1>4, <1>9
<1> QED
  BY <1>1, <1>2, <1>4, <1>5, <1>6, <1>7, <1>8

\* An empty database satisfies the invariant.
LEMMA StoreInvInit == Init => StoreInv
  BY StoreAssumption
     DEF Init, StoreInv, TypeOK, UniformDimension, AcknowledgedIsDurable, SeesDisk

\* An upsert keeps the invariant, whether it is let through or refused half way.
LEMMA UpsertInv ==
  ASSUME StoreInv, NEW x \in Indexes, NEW batch \in Batch, Upsert(x, batch)
  PROVE  StoreInv'
<1>1. OpenIndex(x, batch[1].dim) /\ Insert(x, batch)
  BY DEF Upsert
<1>2. TypeOK /\ UniformDimension /\ AcknowledgedIsDurable /\ SeesDisk
  BY DEF StoreInv
<1> DEFINE d == batch[1].dim
<1>3. /\ d \in Dims /\ d # 0
      /\ dimension' \in [Indexes -> Dims \cup {0}]
      /\ items' \in [Indexes -> [Ids -> Dims \cup {0}]]
      /\ dimension'[x] = d
      /\ dimension[x] \in {0, d}
      /\ \A y \in Indexes \ {x} : dimension'[y] = dimension[y] /\ items'[y] = items[y]
      /\ \A i \in Ids : items'[x][i] = items[x][i] \/ items'[x][i] = d
      /\ \A k \in DOMAIN batch : Fits(batch, k) => items'[x][batch[k].id] = d
  BY <1>1, <1>2, RowAfterUpsert, StoreAssumption
<1> HIDE DEF d
<1>4. \A y \in Indexes, i \in Ids : items'[y][i] \in {0, dimension'[y]}
  BY <1>2, <1>3 DEF UniformDimension
<1>5. \A y \in Indexes, i \in Ids : items[y][i] # 0 => items'[y][i] # 0
  BY <1>2, <1>3
<1>6. CASE \A k \in DOMAIN batch : Fits(batch, k)
  <2>1. /\ diskDimension' = dimension' /\ diskItems' = items'
        /\ acked' = [acked EXCEPT ![x] = @ \cup {batch[k].id : k \in DOMAIN batch}]
    BY <1>6 DEF Upsert, Commit
  <2>2. TypeOK'
    BY <1>2, <1>3, <2>1, BatchFacts DEF TypeOK
  <2>3. UniformDimension'
    BY <1>4, <2>1 DEF UniformDimension
  <2>4. \A y \in Indexes : \A i \in acked'[y] : items'[y][i] # 0
    <3>1. \A y \in Indexes : \A i \in acked[y] : items'[y][i] # 0
      BY <1>2, <1>5 DEF SeesDisk, TypeOK
    <3>2. \A y \in Indexes \ {x} : acked'[y] = acked[y]
      BY <1>2, <2>1 DEF TypeOK
    <3>3. acked'[x] = acked[x] \cup {batch[k].id : k \in DOMAIN batch}
      BY <1>2, <2>1 DEF TypeOK
    <3> QED  BY <1>3, <1>6, <3>1, <3>2, <3>3
  <2>5. AcknowledgedIsDurable' /\ SeesDisk'
    BY <2>1, <2>4 DEF AcknowledgedIsDurable, SeesDisk
  <2> QED  BY <2>2, <2>3, <2>5 DEF StoreInv
<1>7. CASE ~ \A k \in DOMAIN batch : Fits(batch, k)
  <2>1. UNCHANGED <<disk, acked>>
    BY <1>7 DEF Upsert
  <2>2. TypeOK' /\ UniformDimension' /\ AcknowledgedIsDurable'
    BY <1>2, <1>3, <1>4, <2>1
       DEF TypeOK, UniformDimension, AcknowledgedIsDurable, disk
  <2>3. SeesDisk'
    BY <1>2, <1>3, <1>5, <2>1 DEF SeesDisk, disk, TypeOK
  <2> QED  BY <2>2, <2>3 DEF StoreInv
<1> QED  BY <1>6, <1>7

\* So does a restart, which falls back to the disk.
LEMMA ReopenInv == StoreInv /\ Reopen => StoreInv'
  BY DEF StoreInv, Reopen, TypeOK, UniformDimension, AcknowledgedIsDurable, SeesDisk, disk

\* The invariant reads nothing but the variables.
LEMMA StoreInvStutter == StoreInv /\ UNCHANGED vars => StoreInv'
  BY DEF StoreInv, vars, tables, disk, TypeOK, UniformDimension, AcknowledgedIsDurable,
         SeesDisk

\* The conjuncts of StoreInv hold in every reachable state of the store.
THEOREM StoreInvariant == Spec => []StoreInv
<1>1. ASSUME StoreInv, [Next]_vars PROVE StoreInv'
  <2>1. CASE \E x \in Indexes, batch \in Batch : Upsert(x, batch)
    BY <1>1, <2>1, UpsertInv
  <2>2. CASE Reopen
    BY <1>1, <2>2, ReopenInv
  <2>3. CASE UNCHANGED vars
    BY <1>1, <2>3, StoreInvStutter
  <2> QED  BY <1>1, <2>1, <2>2, <2>3 DEF Next
<1> QED  BY <1>1, StoreInvInit, PTL DEF Spec

\* No vector of another dimension ever gets into an index, on disk or in what
\* searches see.
THEOREM DimensionsUniform == Spec => []UniformDimension
  BY StoreInvariant, PTL DEF StoreInv

\* An upsert that was answered with success survives every restart.
THEOREM AcknowledgedSurvives == Spec => []AcknowledgedIsDurable
  BY StoreInvariant, PTL DEF StoreInv

\* Restarts and half-applied batches never change a committed dimension.
THEOREM CommittedDimensionStays == Spec => CommittedDimensionIsStable
<1> DEFINE Stays1 == \A x \in Indexes :
       diskDimension[x] # 0 => /\ diskDimension'[x] = diskDimension[x]
                               /\ dimension'[x] = diskDimension[x]
<1>1. ASSUME StoreInv, [Next]_vars PROVE [Stays1]_vars
  <2>1. CASE \E x \in Indexes, batch \in Batch : Upsert(x, batch)
    <3> PICK x \in Indexes, batch \in Batch : Upsert(x, batch)
      BY <2>1
    <3>1. \A y \in Indexes : dimension[y] # 0 => dimension'[y] = dimension[y]
      BY <1>1, RowAfterUpsert DEF StoreInv, Upsert
    <3>2. \A y \in Indexes : diskDimension'[y] \in {diskDimension[y], dimension'[y]}
      BY <1>1 DEF Upsert, Commit, disk
    <3> QED  BY <1>1, <3>1, <3>2 DEF StoreInv, SeesDisk
  <2>2. CASE Reopen
    BY <1>1, <2>2 DEF Reopen, disk
  <2> QED  BY <1>1, <2>1, <2>2 DEF Next
<1> QED  BY <1>1, StoreInvariant, PTL DEF Spec, CommittedDimensionIsStable

\* An upsert is the in-memory store's upsert of the same batch.
LEMMA UpsertMatches ==
  ASSUME TypeOK, NEW x \in Indexes, NEW batch \in Batch, Upsert(x, batch)
  PROVE  Ephemeral!Upsert(x, batch)
<1> DEFINE d == batch[1].dim
           written == Ephemeral!Written(batch)
<1>1. OpenIndex(x, d) /\ Insert(x, batch)
  BY DEF Upsert
<1>2. \A i \in Ids : i \in written <=> \E k \in DOMAIN batch : Fits(batch, k) /\ batch[k].id = i
  BY DEF Ephemeral!Written, Fits
<1>3. items' = [items EXCEPT ![x] = [i \in Ids |-> IF i \in written THEN d ELSE @[i]]]
  <2>1. items' = [items EXCEPT ![x] =
                    [i \in Ids |-> IF \E k \in DOMAIN batch : Fits(batch, k) /\ batch[k].id = i
                                   THEN d ELSE items[x][i]]]
    BY <1>1, InsertRows
  <2> HIDE DEF d, written
  <2> QED  BY <1>2, <2>1 DEF TypeOK
<1>4. acked' = IF Ephemeral!Uniform(batch)
               THEN [acked EXCEPT ![x] = @ \cup written] ELSE acked
  <2>1. Ephemeral!Uniform(batch) <=> \A k \in DOMAIN batch : Fits(batch, k)
    <3> PICK n \in Nat : batch \in [1..n -> Item]
      BY StoreAssumption DEF Batch
    <3> QED  BY DEF Ephemeral!Uniform, Fits
  <2>2. CASE \A k \in DOMAIN batch : Fits(batch, k)
    <3>1. written = {batch[k].id : k \in DOMAIN batch}
      BY <2>2 DEF Ephemeral!Written, Fits
    <3> QED  BY <2>1, <2>2, <3>1 DEF Upsert
  <2>3. CASE ~ \A k \in DOMAIN batch : Fits(batch, k)
    BY <2>1, <2>3 DEF Upsert
  <2> QED  BY <2>2, <2>3
<1> QED  BY <1>1, <1>3, <1>4 DEF Ephemeral!Upsert, OpenIndex

\* For any number of indexes, items and restarts, a request has the effect
\* that the in-memory store gives it: what a refused batch wrote, and what not.
THEOREM StoresAgree == Spec => BehavesLikeInMemory
<1> DEFINE Agree == \A x \in Indexes, batch \in Batch :
                      Upsert(x, batch) => Ephemeral!Upsert(x, batch)
<1>1. ASSUME StoreInv, [Next]_vars PROVE [Agree]_vars
  BY <1>1, UpsertMatches DEF StoreInv
<1> QED  BY <1>1, StoreInvariant, PTL DEF Spec, BehavesLikeInMemory

\* While the process stays up, the durable store implements the in-memory one:
\* deployments may switch between the two without clients noticing.
THEOREM StoreRefinement == ASSUME Crashes = FALSE PROVE Spec => Ephemeral!Spec
<1>1. Init => Ephemeral!Init
  BY DEF Init, Ephemeral!Init
<1>2. ASSUME StoreInv, [Next]_vars PROVE [Ephemeral!Next]_(Ephemeral!vars)
  <2>1. CASE \E x \in Indexes, batch \in Batch : Upsert(x, batch)
    <3> Batch = Ephemeral!Batch
      BY DEF Batch, Item, Ephemeral!Batch, Ephemeral!Item
    <3> QED  BY <1>2, <2>1, UpsertMatches DEF StoreInv, Ephemeral!Next
  <2>2. CASE UNCHANGED vars
    BY <2>2 DEF vars, tables, Ephemeral!vars
  <2>3. ~Reopen
    BY DEF Reopen
  <2> QED  BY <1>2, <2>1, <2>2, <2>3 DEF Next
<1> QED  BY <1>1, <1>2, StoreInvariant, PTL DEF Spec, Ephemeral!Spec
-----------------------------------------------------------------------------
\* A search in progress is of an index, and what it was promised stays
\* acknowledged.
SearchInv ==
  stage # "idle" => /\ request.index \in Indexes
                    /\ promised \subseteq acked[request.index]

\* No step of a search writes to the store.
LEMMA SearchReadsOnly ==
  ASSUME RetrievalNext
  PROVE  Next \/ UNCHANGED vars
<1>1. CASE Next
  BY <1>1
<1>2. ASSUME NEW r \in Request, Refuse(r) \/ Accept(r) PROVE UNCHANGED vars
  BY <1>2 DEF Refuse, Accept, Answer
<1>3. CASE EmbedQuery \/ EmbedFails
  BY <1>3 DEF EmbedQuery, EmbedFails, Answer
<1>4. CASE SearchStore \/ SearchFails
  BY <1>4 DEF SearchStore, SearchFails, Answer
<1> QED  BY <1>1, <1>2, <1>3, <1>4 DEF RetrievalNext

\* To the store, searches are stuttering: everything proved of the store holds
\* while it is searched.
THEOREM StoreUnderSearch == RetrievalSpec => Spec
<1>1. RetrievalInit => Init
  BY DEF RetrievalInit
<1>2. [RetrievalNext]_<<vars, search>> => [Next]_vars
  BY SearchReadsOnly
<1> QED  BY <1>1, <1>2, PTL DEF RetrievalSpec, Spec

\* What is acknowledged stays acknowledged.
LEMMA AckedGrows ==
  ASSUME StoreInv, [Next]_vars
  PROVE  \A x \in Indexes : acked[x] \subseteq acked'[x]
<1>1. ASSUME NEW x \in Indexes, NEW batch \in Batch, Upsert(x, batch)
      PROVE  \A y \in Indexes : acked[y] \subseteq acked'[y]
  BY <1>1 DEF Upsert, StoreInv, TypeOK
<1>2. CASE Reopen
  BY <1>2 DEF Reopen
<1>3. CASE UNCHANGED vars
  BY <1>3 DEF vars
<1> QED  BY <1>1, <1>2, <1>3 DEF Next

\* A step of a search, or of the store under it, keeps SearchInv.
LEMMA SearchInvStep ==
  ASSUME StoreInv, SearchInv, [RetrievalNext]_<<vars, search>>
  PROVE  SearchInv'
<1>1. CASE Next /\ UNCHANGED search
  BY <1>1, AckedGrows DEF SearchInv, search
<1>2. ASSUME NEW r \in Request, Refuse(r) PROVE SearchInv'
  BY <1>2 DEF SearchInv, Refuse, Answer
<1>3. ASSUME NEW r \in Request, Accept(r) PROVE SearchInv'
  <2>1. r.index \in Indexes /\ UNCHANGED acked
    BY <1>3 DEF Request, Accept, vars
  <2>2. request'.index = r.index /\ promised' = acked[r.index]
    BY <1>3 DEF Accept
  <2> QED  BY <2>1, <2>2 DEF SearchInv
<1>4. CASE EmbedQuery
  BY <1>4 DEF SearchInv, EmbedQuery, vars
<1>5. CASE EmbedFails \/ SearchStore \/ SearchFails
  BY <1>5 DEF SearchInv, EmbedFails, SearchStore, SearchFails, Answer
<1>6. CASE UNCHANGED <<vars, search>>
  BY <1>6 DEF SearchInv, vars, search
<1> QED  BY <1>1, <1>2, <1>3, <1>4, <1>5, <1>6 DEF RetrievalNext

\* SearchInv holds throughout.
THEOREM SearchInvariant == RetrievalSpec => [](StoreInv /\ SearchInv)
<1>1. RetrievalInit => SearchInv
  BY DEF RetrievalInit, SearchInv
<1>2. RetrievalSpec => []StoreInv
  BY StoreUnderSearch, StoreInvariant, PTL
<1> QED  BY <1>1, <1>2, SearchInvStep, PTL DEF RetrievalSpec
-----------------------------------------------------------------------------
\* Of an index with promised ids: it exists, its dimension is the one on disk,
\* and the search sees the ids.
LEMMA PromisedAreThere ==
  ASSUME StoreInv, SearchInv, stage = "searching", promised # {}
  PROVE  /\ dimension[request.index] # 0
         /\ dimension[request.index] = diskDimension[request.index]
         /\ promised \subseteq {i \in Ids : items[request.index][i] # 0}
<1> DEFINE x == request.index
<1>1. x \in Indexes /\ promised \subseteq acked[x] /\ acked[x] \subseteq Ids
  BY DEF SearchInv, StoreInv, TypeOK
<1>2. \A i \in promised : items[x][i] # 0 /\ diskItems[x][i] # 0
  BY <1>1 DEF StoreInv, SeesDisk, AcknowledgedIsDurable
<1>3. \A i \in promised : dimension[x] # 0 /\ diskDimension[x] # 0
  BY <1>1, <1>2 DEF StoreInv, UniformDimension
<1> QED  BY <1>1, <1>2, <1>3 DEF StoreInv, SeesDisk

\* A search finds what was acknowledged before it began, whatever upserts,
\* refused batches and restarts come between its query vector and its answer.
THEOREM AcknowledgedFound == RetrievalSpec => AcknowledgedIsFound
<1> DEFINE Found ==
      Answers /\ promised # {} =>
        /\ status' # 404
        /\ status' = 400 => vector # diskDimension[request.index]
        /\ status' = 200 => promised \subseteq hits' \/ Cardinality(hits') = request.top_k
<1>1. ASSUME StoreInv /\ SearchInv, RetrievalNext PROVE Found
  <2> SUFFICES ASSUME Answers, promised # {}
               PROVE  /\ status' # 404
                      /\ status' = 400 => vector # diskDimension[request.index]
                      /\ status' = 200 => \/ promised \subseteq hits'
                                          \/ Cardinality(hits') = request.top_k
    OBVIOUS
  <2>1. SearchStore \/ SearchFails
    BY <1>1 DEF RetrievalNext, Answers, search, Refuse, Accept, EmbedQuery, EmbedFails, Answer
  <2>2. CASE SearchFails
    BY <2>2 DEF SearchFails, CallErrors, Answer
  <2>3. CASE SearchStore
    <3> DEFINE x == request.index
               seen == {i \in Ids : items[x][i] # 0}
    <3>1. dimension[x] # 0 /\ dimension[x] = diskDimension[x] /\ promised \subseteq seen
      BY <1>1, PromisedAreThere DEF Answers
    <3>2. CASE Answer(400, {}) /\ dimension[x] \notin {0, vector}
      BY <3>1, <3>2 DEF Answer
    <3>3. CASE \E best \in Best(request.top_k, seen) : Answer(200, best)
      <4>1. hits' \in Best(request.top_k, seen) /\ status' = 200
        BY <3>3 DEF Answer
      <4>2. hits' = seen \/ Cardinality(hits') = request.top_k
        BY <4>1 DEF Best
      <4> QED  BY <3>1, <4>1, <4>2
    <3> QED  BY <2>3, <3>1, <3>2, <3>3 DEF SearchStore
  <2> QED  BY <2>1, <2>2, <2>3
<1> QED  BY <1>1, SearchInvariant, PTL DEF RetrievalSpec, AcknowledgedIsFound
=============================================================================
