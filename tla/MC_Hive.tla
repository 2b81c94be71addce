------------------------------- MODULE MC_Hive -------------------------------
\* Instances of Hive for TLC; the constants are given by the .cfg files.
EXTENDS HiveProperties
=============================================================================
