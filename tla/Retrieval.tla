----------------------------- MODULE Retrieval -----------------------------
(***************************************************************************)
(* A search, from the retrieval service's handler through the embedding    *)
(* runtime and its provider to the vector store, while upserts go on and   *)
(* the store is restarted. A search changes nothing in the store, so one   *)
(* at a time is enough to see what any of them can see.                    *)
(***************************************************************************)
EXTENDS SqliteVectorStore, FiniteSets

CONSTANTS
  Provider,         \* settings.embedding_backend of the runtime: "hashing" or
                    \* "openai_compatible", which can do all the other does
  DefaultDimension, \* settings.default_dimension, sent with every text query
  NotGiven          \* a request without a vector

VARIABLES
  stage,    \* "idle", "embedding" or "searching"
  request,  \* index and top_k of the search in progress
  vector,   \* the dimension of its query vector
  status, hits, \* the last answer
  promised  \* observer: ids acknowledged in the index when the search began

search == <<stage, request, vector, status, hits, promised>>

\* What the handler looks at: a query may be blank or absent, a vector empty.
Request ==
  [index : Indexes, top_k : 0..Cardinality(Ids), query : BOOLEAN,
   vector : Dims \cup {0, NotGiven}]

HasQueryOrVector(r) == r.query \/ r.vector \notin {0, NotGiven}

Acceptable(r) == r.top_k > 0 /\ HasQueryOrVector(r)

NoRequest == [top_k |-> 0]

RetrievalInit ==
  /\ Init
  /\ stage = "idle"
  /\ request = NoRequest
  /\ vector = 0
  /\ status = 0
  /\ hits = {}
  /\ promised = {}
-----------------------------------------------------------------------------
Answer(code, ids) ==
  /\ status' = code
  /\ hits' = ids
  /\ stage' = "idle"
  /\ request' = NoRequest
  /\ vector' = 0
  /\ promised' = {}
  /\ UNCHANGED vars

\* A request that the handler refuses itself.
Refuse(r) ==
  /\ stage = "idle"
  /\ ~Acceptable(r)
  /\ Answer(400, {})

\* A given vector is used as it is, an empty one too if there is a query.
Accept(r) ==
  /\ stage = "idle"
  /\ Acceptable(r)
  /\ \/ r.vector = NotGiven /\ stage' = "embedding" /\ vector' = 0
     \/ r.vector # NotGiven /\ stage' = "searching" /\ vector' = r.vector
  /\ request' = [index |-> r.index, top_k |-> r.top_k]
  /\ promised' = acked[r.index]
  /\ status' = 0
  /\ hits' = {}
  /\ UNCHANGED vars

\* The dimensions a provider answers with when it is asked for
\* DefaultDimension. The hashing provider keeps to it; of an external one only
\* the number of vectors is checked.
Embeddings == IF Provider = "hashing" THEN {DefaultDimension} ELSE Dims \cup {0}

EmbedQuery ==
  /\ stage = "embedding"
  /\ vector' \in Embeddings
  /\ stage' = "searching"
  /\ UNCHANGED <<vars, request, status, hits, promised>>

\* An external provider that cannot be reached, does not answer in time or
\* answers nonsense is a 502 or a 504; an error of its own keeps its status,
\* 429 for one.
ProviderErrors == IF Provider = "hashing" THEN {} ELSE {429, 502, 504}

\* When a service cannot be reached or does not answer in time, the exception
\* is caught by nobody: 500. An answer that is not JSON is a 502.
CallErrors == {500, 502}

EmbedFails ==
  /\ stage = "embedding"
  /\ \E code \in ProviderErrors \cup CallErrors : Answer(code, {})

\* Mutant: off by one, a hit too few.
BestButOne(k, ids) ==
  IF Cardinality(ids) < k THEN {ids} ELSE {best \in SUBSET ids : Cardinality(best) = k - 1}

\* What the vectors of an index can be ranked to: hits[:top_k].
Best(k, ids) ==
  IF Cardinality(ids) <= k THEN {ids} ELSE {best \in SUBSET ids : Cardinality(best) = k}

\* store.search: one snapshot of the tables as the connection sees them.
SearchStore ==
  LET x == request.index
  IN /\ stage = "searching"
     /\ \/ dimension[x] = 0 /\ Answer(404, {})
        \/ dimension[x] \notin {0, vector} /\ Answer(400, {})
        \/ /\ dimension[x] # 0
           /\ dimension[x] = vector
           /\ \E best \in Best(request.top_k, {i \in Ids : items[x][i] # 0}) :
                Answer(200, best)

SearchFails ==
  /\ stage = "searching"
  /\ \E code \in CallErrors : Answer(code, {})

RetrievalNext ==
  \/ Next /\ UNCHANGED search
  \/ \E r \in Request : Refuse(r) \/ Accept(r)
  \/ EmbedQuery \/ EmbedFails \/ SearchStore \/ SearchFails

RetrievalSpec == RetrievalInit /\ [][RetrievalNext]_<<vars, search>>
-----------------------------------------------------------------------------
Answers == stage = "searching" /\ stage' = "idle"

\* A client finds what it was told is stored, across half-applied batches,
\* restarts and upserts that race with its search. When its index had
\* acknowledged vectors as the search began, the answer is never "index not
\* found"; it is a refusal only if the vector's dimension is not that of the
\* acknowledged vectors; and a list of hits either is full or has them all.
AcknowledgedIsFound ==
  [][Answers /\ promised # {} =>
       /\ status' # 404
       /\ status' = 400 => vector # diskDimension[request.index]
       /\ status' = 200 =>
            promised \subseteq hits' \/ Cardinality(hits') = request.top_k]_<<vars, search>>
=============================================================================
