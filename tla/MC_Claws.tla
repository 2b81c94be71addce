------------------------------ MODULE MC_Claws ------------------------------
\* Bounded instances of Claws for TLC.
EXTENDS Claws, TLC
Symmetry == Permutations(Tasks) \union Permutations(Removers)
=============================================================================
