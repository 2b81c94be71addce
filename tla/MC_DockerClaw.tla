---------------------------- MODULE MC_DockerClaw ----------------------------
\* Bounded instances of DockerClaw for TLC: hosts at the limits of the clamps.
EXTENDS DockerClaw, TLC

Machine(cpus, mib) == [cpus |-> cpus, ram |-> mib * MiB]
MC_Hosts == {Machine(1, 40), Machine(1, 640), Machine(2, 1536), Machine(8, 10240), Machine(64, 262144)}
=============================================================================
