------------------------------- MODULE Limits --------------------------------
(***************************************************************************)
(* The arithmetic that sizes the hive to its host: limits_for of           *)
(* src/resource_manager.py, the caps of one container, and adaptive_tuning *)
(* of src/freetalon/hardware.py, the number of workers and the queue.      *)
(*                                                                         *)
(* Memory is counted in KiB, the unit of /proc/meminfo, which only changes *)
(* the code's byte counts below the MiB it rounds to.                      *)
(***************************************************************************)
EXTENDS Naturals

KiB == 1
MiB == 1024 * KiB
GiB == 1024 * MiB

AtMost(a, b)  == IF a <= b THEN a ELSE b
AtLeast(a, b) == IF a >= b THEN a ELSE b

Host     == [cpus : Nat \ {0}, ram : Nat \ {0}]
Profiles == {"default", "video", "youtube_upload"}

DesiredRam(profile) == IF profile = "default" THEN 512 * MiB ELSE 8 * GiB
DesiredCpu(profile) == IF profile = "default" THEN 50 ELSE 400    \* percent

\* _bytes_to_docker_mem, as the number of MiB that the string stands for: whole
\* GiB are written as such, anything else is cut to MiB and raised to 64.
DockerMem_Bug(kib) == AtLeast(kib \div MiB, 64 * MiB)
DockerMem(kib) ==
  IF kib >= GiB /\ kib % GiB = 0 THEN (kib \div GiB) * 1024 ELSE AtLeast(kib \div MiB, 64)

\* limits_for: at most 80 % of the host, at least a tenth of a core.
Memory(host, profile) == DockerMem(AtMost(DesiredRam(profile), (host.ram * 4) \div 5))

Period == 100000
Quota(host, profile) ==
  AtLeast((Period * AtMost(DesiredCpu(profile), (host.cpus * 100 * 4) \div 5)) \div 100,
          Period \div 10)

\* adaptive_tuning
MemoryMib(host)   == AtLeast(host.ram \div MiB, 256)
MemoryBound(host) == AtLeast(MemoryMib(host) \div 768, 1)
CpuBound(host)    == IF host.cpus > 1 THEN host.cpus - 1 ELSE 1
Workers(host, cap) == AtLeast(1, AtMost(cap, AtMost(CpuBound(host), MemoryBound(host))))
QueueSize(host, cap, multiplier) == AtLeast(Workers(host, cap) * AtLeast(multiplier, 1), 1)

-----------------------------------------------------------------------------
\* What the numbers promise

\* One container takes at most 80 % of the host's memory and of its cores, and
\* at least 64 MiB and a tenth of a core.
CapsFit(host, profile) ==
  /\ Memory(host, profile) >= 64
  /\ Memory(host, profile) * MiB * 5 <= host.ram * 4 \/ Memory(host, profile) = 64
  /\ Quota(host, profile) >= Period \div 10
  /\ Quota(host, profile) * 5 <= Period * host.cpus * 4

\* As many default containers as there are workers fit into the host together,
\* unless a single one does not, and the queue holds a task for each worker.
WorkersFit(host, cap) ==
  /\ Workers(host, cap) \in 1 .. AtLeast(cap, 1)
  /\ Workers(host, cap) * Memory(host, "default") * MiB <= AtLeast(host.ram, 64 * MiB)
  /\ \A m \in 1 .. 3 : QueueSize(host, cap, m) >= Workers(host, cap)
=============================================================================
