-------------------------- MODULE MCTaskRepository --------------------------
EXTENDS TaskRepository, TLC

RepositorySymmetry == Permutations(Procs) \cup Permutations(Tasks)
=============================================================================
