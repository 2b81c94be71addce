---------------------------- MODULE DockerProofs -----------------------------
(***************************************************************************)
(* Proofs about a docker_claw task, for every host, every worker cap, any  *)
(* number of retries and any number of calls of the daemon that raise.     *)
(***************************************************************************)
EXTENDS DockerClaw, TLAPS

-----------------------------------------------------------------------------
\* The arithmetic of Limits

LEMMA Units == KiB = 1 /\ MiB = 1024 /\ GiB = 1048576
BY DEF KiB, MiB, GiB

LEMMA AtMostFacts ==
  ASSUME NEW a \in Nat, NEW b \in Nat
  PROVE  AtMost(a, b) \in Nat /\ AtMost(a, b) <= a /\ AtMost(a, b) <= b
BY DEF AtMost

LEMMA AtLeastFacts ==
  ASSUME NEW a \in Nat, NEW b \in Nat
  PROVE  /\ AtLeast(a, b) \in Nat /\ AtLeast(a, b) >= a /\ AtLeast(a, b) >= b
         /\ AtLeast(a, b) = a \/ AtLeast(a, b) = b
BY DEF AtLeast

\* The string given to docker never asks for more than was meant, but for the
\* floor of 64 MiB.
LEMMA DockerMemFacts ==
  ASSUME NEW k \in Nat
  PROVE  /\ DockerMem(k) \in Nat /\ DockerMem(k) >= 64
         /\ DockerMem(k) * 1024 <= k \/ DockerMem(k) = 64
<1>1. CASE k >= GiB /\ k % GiB = 0
  <2>1. DockerMem(k) = (k \div 1048576) * 1024
    BY <1>1, Units DEF DockerMem
  <2>2. k >= 1048576
    BY <1>1, Units
  <2>3. k \div 1048576 \in Nat /\ k \div 1048576 >= 1 /\ (k \div 1048576) * 1048576 <= k
    BY <2>2
  <2>. QED
    BY <2>1, <2>3
<1>2. CASE ~(k >= GiB /\ k % GiB = 0)
  <2>1. DockerMem(k) = AtLeast(k \div 1024, 64)
    BY <1>2, Units DEF DockerMem
  <2>2. k \div 1024 \in Nat /\ (k \div 1024) * 1024 <= k
    OBVIOUS
  <2>. QED
    BY <2>1, <2>2, AtLeastFacts
<1>. QED
  BY <1>1, <1>2

LEMMA MemoryFacts ==
  ASSUME NEW m \in Host, NEW p \in Profiles
  PROVE  /\ Memory(m, p) \in Nat /\ Memory(m, p) >= 64
         /\ Memory(m, p) * 1024 * 5 <= m.ram * 4 \/ Memory(m, p) = 64
         /\ p = "default" => Memory(m, p) <= 512
<1> DEFINE share == (m.ram * 4) \div 5
           asked == AtMost(DesiredRam(p), share)
<1>1. m.ram \in Nat
  BY DEF Host
<1>2. share \in Nat /\ share * 5 <= m.ram * 4
  BY <1>1
<1>3. DesiredRam(p) \in Nat /\ (p = "default" => DesiredRam(p) = 524288)
  BY Units DEF DesiredRam
<1>4. asked \in Nat /\ asked <= share /\ asked <= DesiredRam(p)
  BY <1>2, <1>3, AtMostFacts
<1>5. Memory(m, p) = DockerMem(asked)
  BY DEF Memory
<1> HIDE DEF asked, share
<1>6. /\ DockerMem(asked) \in Nat /\ DockerMem(asked) >= 64
      /\ DockerMem(asked) * 1024 <= asked \/ DockerMem(asked) = 64
  BY <1>4, DockerMemFacts
<1>. QED
  BY <1>1, <1>2, <1>3, <1>4, <1>5, <1>6

LEMMA QuotaFacts ==
  ASSUME NEW m \in Host, NEW p \in Profiles
  PROVE  Quota(m, p) >= Period \div 10 /\ Quota(m, p) * 5 <= Period * m.cpus * 4
<1> DEFINE cores == (m.cpus * 100 * 4) \div 5
           percent == AtMost(DesiredCpu(p), cores)
<1>1. m.cpus \in Nat /\ m.cpus >= 1
  BY DEF Host
<1>2. cores \in Nat /\ cores = m.cpus * 80
  BY <1>1
<1>3. DesiredCpu(p) \in Nat
  BY DEF DesiredCpu
<1>4. percent \in Nat /\ percent <= m.cpus * 80
  BY <1>2, <1>3, AtMostFacts
<1>5. Period = 100000 /\ Period \div 10 = 10000
  BY DEF Period
<1>6. Quota(m, p) = AtLeast((100000 * percent) \div 100, 10000)
  BY <1>5 DEF Quota
<1> HIDE DEF percent, cores
<1>7. (100000 * percent) \div 100 = 1000 * percent /\ 1000 * percent \in Nat
  BY <1>4
<1>8. /\ Quota(m, p) \in Nat /\ Quota(m, p) >= 10000
      /\ Quota(m, p) = 1000 * percent \/ Quota(m, p) = 10000
  BY <1>6, <1>7, AtLeastFacts
<1>. QED
  BY <1>1, <1>4, <1>5, <1>8

\* The caps of a container fit any host.
LEMMA CapsAlwaysFit == ASSUME NEW m \in Host, NEW p \in Profiles PROVE CapsFit(m, p)
BY MemoryFacts, QuotaFacts, Units DEF CapsFit, Host

LEMMA WorkersFacts ==
  ASSUME NEW m \in Host, NEW cap \in Nat
  PROVE  /\ Workers(m, cap) \in Nat /\ Workers(m, cap) >= 1
         /\ Workers(m, cap) <= AtLeast(cap, 1)
         /\ Workers(m, cap) = 1 \/ Workers(m, cap) * 768 * 1024 <= m.ram
<1> DEFINE mib == m.ram \div 1024
           seen == AtLeast(mib, 256)
           cpu == IF m.cpus > 1 THEN m.cpus - 1 ELSE 1
           mem == AtLeast(seen \div 768, 1)
           least == AtMost(cap, AtMost(cpu, mem))
<1>1. m.ram \in Nat /\ m.cpus \in Nat
  BY DEF Host
<1>2. mib \in Nat /\ mib * 1024 <= m.ram
  BY <1>1
<1>4. cpu \in Nat
  BY <1>1
<1> HIDE DEF mib
<1>3. seen \in Nat /\ (seen = mib \/ seen = 256)
  BY <1>2, AtLeastFacts, SMTT(30)
<1> HIDE DEF seen
<1>5. /\ seen \div 768 \in Nat /\ (seen \div 768) * 768 <= seen
      /\ seen \div 768 >= 1 => seen = mib
  <2>1. seen \div 768 \in Nat /\ (seen \div 768) * 768 <= seen
    BY <1>3
  <2>2. seen = 256 => seen \div 768 = 0
    OBVIOUS
  <2>. QED
    BY <1>3, <2>1, <2>2
<1>6. mem \in Nat /\ mem >= 1 /\ (mem = 1 \/ mem * 768 <= mib)
  BY <1>2, <1>3, <1>5, AtLeastFacts, SMTT(30)
<1> HIDE DEF mem, cpu
<1>7. AtMost(cpu, mem) \in Nat /\ AtMost(cpu, mem) <= mem
  BY <1>4, <1>6, AtMostFacts
<1>8. least \in Nat /\ least <= cap /\ least <= mem
  <2>1. least \in Nat /\ least <= cap /\ least <= AtMost(cpu, mem)
    BY <1>7, AtMostFacts, Zenon
  <2>. QED
    BY <1>6, <1>7, <2>1
<1> HIDE DEF least
<1>9. Workers(m, cap) = AtLeast(1, least)
  BY Units DEF Workers, CpuBound, MemoryBound, MemoryMib, least, cpu, mem, seen, mib
<1>10. /\ AtLeast(1, least) \in Nat /\ AtLeast(1, least) >= 1
       /\ AtLeast(1, least) = 1 \/ AtLeast(1, least) = least
  BY <1>8, AtLeastFacts
<1>11. AtLeast(cap, 1) \in Nat /\ AtLeast(cap, 1) >= cap /\ AtLeast(cap, 1) >= 1
  BY AtLeastFacts
<1>. QED
  BY <1>1, <1>2, <1>6, <1>8, <1>9, <1>10, <1>11

\* The workers' default containers fit any host together, and the queue holds a
\* task for each of them.
LEMMA WorkersAlwaysFit == ASSUME NEW m \in Host, NEW cap \in Nat PROVE WorkersFit(m, cap)
<1> DEFINE w == Workers(m, cap)
           d == Memory(m, "default")
<1>1. w \in Nat /\ w >= 1 /\ w <= AtLeast(cap, 1) /\ (w = 1 \/ w * 768 * 1024 <= m.ram)
  BY WorkersFacts
<1>2. "default" \in Profiles
  BY DEF Profiles
<1>3. d \in Nat /\ d >= 64 /\ (d * 1024 * 5 <= m.ram * 4 \/ d = 64) /\ d <= 512
  BY <1>2, MemoryFacts
<1>4. m.ram \in Nat
  BY DEF Host
<1> HIDE DEF w, d
<1>5. AtLeast(m.ram, 65536) \in Nat /\ AtLeast(m.ram, 65536) >= m.ram /\ AtLeast(m.ram, 65536) >= 65536
  BY <1>4, AtLeastFacts
<1>6. w * d * 1024 <= AtLeast(m.ram, 65536)
  <2>1. CASE w = 1
    BY <2>1, <1>3, <1>4, <1>5
  <2>2. CASE w * 768 * 1024 <= m.ram
    <3>1. w * d <= w * 512
      BY <1>1, <1>3
    <3>2. w * d \in Nat
      BY <1>1, <1>3
    <3>. QED
      BY <1>1, <1>4, <1>5, <2>2, <3>1, <3>2
  <2>. QED
    BY <1>1, <2>1, <2>2
<1>7. AtLeast(cap, 1) \in Nat
  BY AtLeastFacts
<1>8. ASSUME NEW q \in 1 .. 3 PROVE QueueSize(m, cap, q) >= w
  <2>1. AtLeast(q, 1) = q
    BY DEF AtLeast
  <2>2. w * q \in Nat /\ w * q >= w
    <3>1. q = 1 \/ q = 2 \/ q = 3
      OBVIOUS
    <3>. QED
      BY <1>1, <3>1
  <2>3. QueueSize(m, cap, q) = AtLeast(w * q, 1)
    BY <2>1 DEF QueueSize, w
  <2>4. AtLeast(w * q, 1) \in Nat /\ AtLeast(w * q, 1) >= w * q
    BY <2>2, AtLeastFacts
  <2>. QED
    BY <2>2, <2>3, <2>4, <1>1
<1>. QED
  BY <1>1, <1>6, <1>7, <1>8, Units DEF WorkersFit, w, d

-----------------------------------------------------------------------------
\* What is true between the steps

States == {"none", "created", "running", "exited", "killed", "gone"}
Asks   == {"poll", "status", "kill"}        \* the body's loop

Types == host \in Host /\ profile \in Profiles /\ ctr \in [Attempts -> States]

\* An attempt that runs is within the budget, and so is the next one.
Counted ==
  /\ attempt \in Nat
  /\ at \notin {"queued", "over", "crashed"} => attempt \in Attempts
  /\ at = "queued" => attempt <= MaxRetries

\* The containers of other attempts, and of this one outside the try block, are
\* excused.
OthersGone ==
  at # "crashed" =>
    \A a \in Attempts : Exists(a) =>
      a \in spoilt \/ (a = attempt /\ at \in Asks \union {"collect", "remove"})

\* Nobody but the body kills the program, and then it does not look again.
Untouched ==
  /\ at \in Asks => ctr[attempt] \in {"running", "exited", "gone"}
  /\ at = "collect" => ctr[attempt] \in {"exited", "gone"}
  /\ at \in Asks \union {"spawn", "collect"} => result = "none"

IInv == Types /\ Counted /\ OthersGone /\ Untouched

LEMMA InitInv == Init => IInv
<1> SUFFICES ASSUME Init PROVE IInv
  OBVIOUS
<1>1. Types
  BY DockerAssumption DEF Init, Types, States
<1>2. Counted
  BY DockerAssumption DEF Init, Counted
<1>3. OthersGone /\ Untouched
  BY DEF Init, OthersGone, Untouched, Exists, Asks
<1>. QED
  BY <1>1, <1>2, <1>3 DEF IInv

\* A step that leaves the containers, the body and the attempt alone keeps the
\* invariant.
LEMMA QuietInv ==
  ASSUME IInv, UNCHANGED <<machine, ctr, attempt, at, result, spoilt>>
  PROVE  IInv'
BY DEF IInv, machine, Types, Counted, OthersGone, Untouched, Exists

LEMMA HiveInv == ASSUME IInv, BeginAttempt \/ TryAgain PROVE IInv'
<1>1. UNCHANGED <<machine, ctr, spoilt>>
  BY DEF BeginAttempt, TryAgain
<1>2. Types'
  BY <1>1 DEF IInv, Types, machine
<1>3. CASE BeginAttempt
  <2>1. /\ at = "queued" /\ attempt' = attempt + 1
        /\ (at' = "spawn" /\ result' = "none") \/ at' = "over"
    BY <1>3 DEF BeginAttempt
  <2>2. attempt' \in Attempts /\ attempt' \in Nat
    BY <2>1, DockerAssumption DEF IInv, Counted, Attempts
  <2>3. Counted'
    BY <2>1, <2>2 DEF Counted
  <2>4. OthersGone' /\ Untouched'
    BY <1>1, <2>1 DEF IInv, OthersGone, Untouched, Exists, Asks
  <2>. QED
    BY <1>2, <2>3, <2>4 DEF IInv
<1>4. CASE TryAgain
  <2>1. at = "over" /\ at' = "queued" /\ attempt' = attempt /\ attempt <= MaxRetries
    BY <1>4 DEF TryAgain, MayTryAgain
  <2>2. Counted'
    BY <2>1 DEF IInv, Counted
  <2>3. OthersGone' /\ Untouched'
    BY <1>1, <2>1 DEF IInv, OthersGone, Untouched, Exists, Asks
  <2>. QED
    BY <1>2, <2>2, <2>3 DEF IInv
<1>. QED
  BY <1>3, <1>4

LEMMA SpawnInv == ASSUME IInv, Spawn \/ SpawnFails PROVE IInv'
<1>1. /\ at = "spawn" /\ attempt' = attempt /\ UNCHANGED machine
      /\ attempt \in Attempts /\ attempt \in Nat
  BY DEF Spawn, SpawnFails, IInv, Counted
<1>2. CASE Spawn
  <2>1. /\ ctr' = [ctr EXCEPT ![attempt] = "running"] /\ at' = "poll"
        /\ result' = result /\ spoilt' = spoilt
    BY <1>2 DEF Spawn
  <2>2. /\ ctr' \in [Attempts -> States] /\ ctr'[attempt] = "running"
        /\ \A a \in Attempts : a # attempt => ctr'[a] = ctr[a]
    BY <1>1, <2>1 DEF IInv, Types, States
  <2>3. Types' /\ Counted'
    BY <1>1, <2>1, <2>2 DEF IInv, Types, Counted, machine
  <2>4. OthersGone' /\ Untouched'
    BY <1>1, <2>1, <2>2 DEF IInv, OthersGone, Untouched, Exists, Asks
  <2>. QED
    BY <2>3, <2>4 DEF IInv
<1>3. CASE SpawnFails
  <2>1. /\ at' = "over"
        /\ \/ UNCHANGED <<ctr, spoilt>>
           \/ ctr' = [ctr EXCEPT ![attempt] = "created"] /\ spoilt' = spoilt \union {attempt}
    BY <1>3 DEF SpawnFails
  <2>2. /\ ctr' \in [Attempts -> States]
        /\ \A a \in Attempts : ctr'[a] = ctr[a] \/ a \in spoilt'
        /\ spoilt \subseteq spoilt'
    BY <1>1, <2>1 DEF IInv, Types, States
  <2>3. Types' /\ Counted'
    BY <1>1, <2>1, <2>2 DEF IInv, Types, Counted, machine
  <2>4. OthersGone' /\ Untouched'
    BY <1>1, <2>1, <2>2 DEF IInv, OthersGone, Untouched, Exists, Asks
  <2>. QED
    BY <2>3, <2>4 DEF IInv
<1>. QED
  BY <1>2, <1>3

\* The steps of the loop and of the collection: the container may be killed,
\* then the body leaves for remove().
LEMMA LoopInv ==
  ASSUME IInv, CheckCancel \/ CancelKill \/ Status \/ TimeOut \/ Collect
  PROVE  IInv'
<1>1. /\ at \in Asks \union {"collect"} /\ attempt' = attempt /\ spoilt' = spoilt /\ UNCHANGED machine
      /\ attempt \in Attempts /\ attempt \in Nat
  BY DEF CheckCancel, PollContinues, CancelKill, Status, TimeOut, Collect, IInv, Counted, Asks
<1>2. ASSUME CheckCancel \/ Status \/ Collect PROVE IInv'
  <2>1. /\ ctr' = ctr
        /\ \/ at' \in Asks /\ at \in Asks /\ result' = result
           \/ at' = "collect" /\ at \in Asks /\ result' = result /\ ctr[attempt] \in {"exited", "killed"}
           \/ at' = "remove"
    BY <1>2 DEF CheckCancel, PollContinues, Status, Collect, Raise, Asks
  <2>2. Types' /\ Counted'
    BY <1>1, <2>1 DEF IInv, Types, Counted, machine, Asks
  <2>3. OthersGone'
    BY <1>1, <2>1 DEF IInv, OthersGone, Exists, Asks
  <2>4. Untouched'
    BY <1>1, <2>1 DEF IInv, Untouched, Asks
  <2>. QED
    BY <2>2, <2>3, <2>4 DEF IInv
<1>3. ASSUME CancelKill \/ TimeOut PROVE IInv'
  <2>1. /\ at' = "remove"
        /\ ctr' = ctr \/ ctr' = [ctr EXCEPT ![attempt] = Killed(@)]
    BY <1>3 DEF CancelKill, TimeOut
  <2>2. /\ ctr' \in [Attempts -> States]
        /\ \A a \in Attempts : a # attempt => ctr'[a] = ctr[a]
    BY <1>1, <2>1 DEF IInv, Types, States, Killed
  <2>3. Types' /\ Counted'
    BY <1>1, <2>1, <2>2 DEF IInv, Types, Counted, machine
  <2>4. OthersGone'
    BY <1>1, <2>1, <2>2 DEF IInv, OthersGone, Exists, Asks
  <2>5. Untouched'
    BY <2>1 DEF Untouched, Asks
  <2>. QED
    BY <2>3, <2>4, <2>5 DEF IInv
<1>. QED
  BY <1>2, <1>3

LEMMA RemoveInv == ASSUME IInv, Remove PROVE IInv'
<1>1. /\ at = "remove" /\ at' = "over" /\ attempt' = attempt /\ UNCHANGED machine
      /\ attempt \in Attempts /\ attempt \in Nat
      /\ \/ ctr' = [ctr EXCEPT ![attempt] = "gone"] /\ spoilt' = spoilt
         \/ ctr' = ctr /\ spoilt' = spoilt \union {attempt}
  BY DEF Remove, IInv, Counted
<1>2. /\ ctr' \in [Attempts -> States]
      /\ \A a \in Attempts : a # attempt => ctr'[a] = ctr[a]
      /\ ctr'[attempt] = "gone" \/ attempt \in spoilt'
      /\ spoilt \subseteq spoilt'
  BY <1>1 DEF IInv, Types, States
<1>3. Types' /\ Counted'
  BY <1>1, <1>2 DEF IInv, Types, Counted, machine
<1>4. OthersGone' /\ Untouched'
  BY <1>1, <1>2 DEF IInv, OthersGone, Untouched, Exists, Asks
<1>. QED
  BY <1>3, <1>4 DEF IInv

\* The program ends or an operator removes a container.
LEMMA OutsideInv ==
  ASSUME IInv, NEW a \in Attempts, ProgramEnds(a) \/ OperatorRemoves(a)
  PROVE  IInv'
<1>1. /\ UNCHANGED <<machine, attempt, at, result, spoilt>>
      /\ \/ ctr[a] = "running" /\ ctr' = [ctr EXCEPT ![a] = "exited"]
         \/ ctr' = [ctr EXCEPT ![a] = "gone"] /\ Exists(a)
  BY DEF ProgramEnds, OperatorRemoves
<1>2. /\ ctr' \in [Attempts -> States]
      /\ \A b \in Attempts : b # a => ctr'[b] = ctr[b]
      /\ ctr'[a] \in {"exited", "gone"}
  BY <1>1 DEF IInv, Types, States
<1>3. Exists(a)
  BY <1>1 DEF Exists
<1>4. Types' /\ Counted'
  BY <1>1, <1>2 DEF IInv, Types, Counted, machine
<1>5. OthersGone'
  BY <1>1, <1>2, <1>3 DEF IInv, OthersGone, Exists
<1>6. Untouched'
  BY <1>1, <1>2 DEF IInv, Untouched, Counted, Asks
<1>. QED
  BY <1>4, <1>5, <1>6 DEF IInv

LEMMA CrashInv == ASSUME IInv, Crash PROVE IInv'
<1>1. UNCHANGED <<machine, attempt, ctr, spoilt>> /\ at' = "crashed"
  BY DEF Crash
<1>. QED
  BY <1>1 DEF IInv, machine, Types, Counted, OthersGone, Untouched, Asks

LEMMA NextInv == IInv /\ [Next]_vars => IInv'
<1> SUFFICES ASSUME IInv, [Next]_vars PROVE IInv'
  OBVIOUS
<1>1. CASE BeginAttempt \/ TryAgain
  BY <1>1, HiveInv
<1>2. ASSUME RequestCancel \/ OtherLocks \/ OtherUnlocks \/ DeadlinePasses \/ UNCHANGED vars PROVE IInv'
  BY <1>2, QuietInv DEF RequestCancel, OtherLocks, OtherUnlocks, DeadlinePasses, vars, machine
<1>3. CASE Body
  BY <1>3, SpawnInv, LoopInv, RemoveInv DEF Body
<1>4. ASSUME NEW a \in Attempts, ProgramEnds(a) \/ OperatorRemoves(a) PROVE IInv'
  BY <1>4, OutsideInv
<1>5. CASE Crash
  BY <1>5, CrashInv
<1>. QED
  BY <1>1, <1>2, <1>3, <1>4, <1>5 DEF Next

LEMMA Inductive == Spec => []IInv
BY InitInv, NextInv, PTL DEF Spec

-----------------------------------------------------------------------------
\* The theorems

\* An attempt that is over has left nothing behind, unless docker failed to
\* start or to remove its container.
THEOREM AttemptsLeaveNothing == Spec => []AttemptLeavesNothing
<1>1. IInv => AttemptLeavesNothing
  BY DEF IInv, OthersGone, AttemptLeavesNothing, Asks
<1>. QED
  BY <1>1, Inductive, PTL

\* The result of a task is never that of a program the hive has killed.
THEOREM ResultsAreGenuine == Spec => ResultIsGenuine
<1>1. IInv /\ [Next]_vars => [at = "collect" /\ result' = "ok" => ctr[attempt] = "exited"]_vars
  <2> SUFFICES ASSUME IInv, Next, at = "collect", result' = "ok" PROVE ctr[attempt] = "exited"
    OBVIOUS
  <2>1. result = "none" /\ ctr[attempt] \in {"exited", "gone"}
    BY DEF IInv, Untouched, Asks
  <2>2. Collect
    BY <2>1 DEF Next, Body, BeginAttempt, TryAgain, RequestCancel, OtherLocks, OtherUnlocks, Spawn,
                SpawnFails, CheckCancel, PollContinues, CancelKill, Status, TimeOut, Remove,
                ProgramEnds, OperatorRemoves, DeadlinePasses, Crash
  <2>3. ctr[attempt] # "gone"
    BY <2>2 DEF Collect, Raise
  <2>. QED
    BY <2>1, <2>3
<1>. QED
  BY <1>1, Inductive, PTL DEF Spec, ResultIsGenuine

\* The numbers fit whatever host the hive runs on.
THEOREM LimitsAlwaysFit == Spec => []LimitsFit
<1>1. IInv => LimitsFit
  BY DockerAssumption, CapsAlwaysFit, WorkersAlwaysFit DEF IInv, Types, LimitsFit
<1>. QED
  BY <1>1, Inductive, PTL
=============================================================================
