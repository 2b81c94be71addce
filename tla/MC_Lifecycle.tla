---------------------------- MODULE MC_Lifecycle ----------------------------
\* Bounded instances of Lifecycle for TLC.
EXTENDS Lifecycle
=============================================================================
