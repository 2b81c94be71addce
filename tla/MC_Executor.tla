----------------------------- MODULE MC_Executor -----------------------------
\* Instances of Executor for TLC; the constants are given by the .cfg files.
EXTENDS ExecutorProperties, TLC

\* Executors are interchangeable; only used for runs without liveness.
Symmetry == Permutations(Executors)
=============================================================================
