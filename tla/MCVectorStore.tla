--------------------------- MODULE MCVectorStore ---------------------------
EXTENDS Retrieval, TLC

StoreSymmetry == Permutations(Indexes) \cup Permutations(Ids)
=============================================================================
