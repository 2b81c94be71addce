----------------------------- MODULE HiveProofs -----------------------------
(***************************************************************************)
(* Proofs about the hive controller, for every number of tasks, workers,   *)
(* retries, crashes, shutdowns and failing saves: its tables and runs, its *)
(* two limits, and what it promises its clients and keeps in its file.     *)
(***************************************************************************)
EXTENDS HiveProperties, FiniteSetTheorems, TLAPS

\* Task records that respect their retry budget.
SoundTask == {k \in Task : WithinBudget(k)}

-----------------------------------------------------------------------------
\* Facts about single task records

\* Changing the status of a record keeps its type.
LEMMA StatusChange ==
  ASSUME NEW k \in Task, NEW s \in Status
  PROVE  /\ [k EXCEPT !.status = s] \in Task
         /\ [k EXCEPT !.status = s].status = s
         /\ [k EXCEPT !.status = s].attempt = k.attempt
         /\ [k EXCEPT !.status = s].retries = k.retries
BY DEF Task

\* Absent and newly submitted tasks respect their budget.
LEMMA NewSound == NoTask \in SoundTask /\ \A r \in 0 .. MaxRetries : NewTask(r) \in SoundTask
<1>1. NoTask \in SoundTask
  BY HiveAssumption DEF NoTask, Task, Status, SoundTask, WithinBudget
<1>2. ASSUME NEW r \in 0 .. MaxRetries PROVE NewTask(r) \in SoundTask
  <2>1. NewTask(r) \in Task
    BY HiveAssumption DEF NewTask, Task, Status, Active, Waiting
  <2>2. NewTask(r).attempt = 0 /\ NewTask(r).retries = r /\ r >= 0
    BY HiveAssumption DEF NewTask
  <2>. QED
    BY HiveAssumption, <2>1, <2>2 DEF SoundTask, WithinBudget
<1>. QED
  BY <1>1, <1>2

\* A record that leaves the waiting statuses keeps its budget.
LEMMA FinishSound ==
  ASSUME NEW k \in SoundTask, NEW s \in Status \ Waiting
  PROVE  [k EXCEPT !.status = s] \in SoundTask
BY StatusChange DEF SoundTask, WithinBudget

\* Recovery and cancellation keep a record within its budget.
LEMMA RecoverSound == \A k \in SoundTask : RecoverTask(k) \in SoundTask
<1> SUFFICES ASSUME NEW k \in SoundTask PROVE RecoverTask(k) \in SoundTask
  OBVIOUS
<1>1. "failed" \in Status \ Waiting
  BY DEF Status, Waiting, Terminal
<1>. QED
  BY <1>1, FinishSound DEF RecoverTask

LEMMA CancelSound == \A k \in SoundTask : Cancelled(k) \in SoundTask
<1> SUFFICES ASSUME NEW k \in SoundTask PROVE Cancelled(k) \in SoundTask
  OBVIOUS
<1>1. "cancelled" \in Status \ Waiting
  BY DEF Status, Waiting, Terminal
<1>2. [k EXCEPT !.cancel = TRUE] \in SoundTask
  BY DEF SoundTask, Task, WithinBudget
<1>. QED
  BY <1>1, <1>2, FinishSound DEF Cancelled

\* A retry is recorded only while budget is left.
LEMMA OutcomeSound ==
  \A k \in SoundTask, p \in Phase :
     /\ [k EXCEPT !.status = Outcome(k, p)] \in SoundTask
     /\ Outcome(k, p) \in {"cancelled", "succeeded", "retrying", "failed"}
<1> SUFFICES ASSUME NEW k \in SoundTask, NEW p \in Phase
             PROVE  /\ [k EXCEPT !.status = Outcome(k, p)] \in SoundTask
                    /\ Outcome(k, p) \in {"cancelled", "succeeded", "retrying", "failed"}
  OBVIOUS
<1>1. CASE Outcome(k, p) = "retrying"
  <2>1. k.attempt <= k.retries
    BY <1>1 DEF Outcome
  <2>2. k \in Task /\ "retrying" \in Status
    BY DEF SoundTask, Status, Active, Waiting
  <2>. QED
    BY <1>1, <2>1, <2>2, StatusChange DEF SoundTask, WithinBudget
<1>2. CASE Outcome(k, p) # "retrying"
  <2>1. Outcome(k, p) \in {"cancelled", "succeeded", "failed"}
    BY <1>2 DEF Outcome
  <2>2. Outcome(k, p) \in Status \ Waiting
    BY <2>1 DEF Status, Waiting, Terminal
  <2>. QED
    BY <2>1, <2>2, FinishSound
<1>. QED
  BY <1>1, <1>2

\* The next attempt of a waiting task is within its budget and is a run.
LEMMA StartSound ==
  \A k \in SoundTask : k.status \in Waiting =>
     /\ Started(k) \in SoundTask
     /\ Started(k).status = "running"
     /\ Started(k).attempt = k.attempt + 1
     /\ k.attempt + 1 \in Attempts
<1> SUFFICES ASSUME NEW k \in SoundTask, k.status \in Waiting
             PROVE  /\ Started(k) \in SoundTask
                    /\ Started(k).status = "running"
                    /\ Started(k).attempt = k.attempt + 1
                    /\ k.attempt + 1 \in Attempts
  OBVIOUS
<1>1. k \in Task /\ k.attempt <= k.retries /\ k.retries <= MaxRetries
  BY HiveAssumption DEF SoundTask, WithinBudget, Task
<1>2. k.attempt \in Nat /\ k.retries \in Nat /\ MaxRetries \in Nat
  BY HiveAssumption, <1>1 DEF Task
<1>3. k.attempt + 1 \in 0 .. MaxRetries + 1 /\ k.attempt + 1 \in Attempts
  BY <1>1, <1>2 DEF Attempts
<1>4. /\ Started(k) \in Task
      /\ Started(k).status = "running"
      /\ Started(k).attempt = k.attempt + 1
      /\ Started(k).retries = k.retries
  BY <1>1, <1>3 DEF Started, Task, Status, Active
<1>5. "running" \notin Waiting
  BY DEF Waiting
<1>. QED
  BY <1>1, <1>2, <1>3, <1>4, <1>5 DEF SoundTask, WithinBudget

-----------------------------------------------------------------------------
\* Types and budgets

Table    == [Ids -> SoundTask]
LockType == {k \in [by : Holders, id : 0 .. MaxTasks, attempt : 0 .. MaxRetries + 1] :
               k.by \in {"submit", "cancel"} => k.id \in Ids}
StopType == {"no", "join", "drain", "read", "open", "writing", "saved", "raised"}

\* TypeOK is not inductive by itself: that the next attempt stays within
\* MaxRetries + 1 follows from the budgets, and those must also hold in the
\* tables that wait in the file and in stop() to be loaded again.
Sound ==
  /\ up \in BOOLEAN
  /\ tasks \in Table /\ snap \in Table /\ seen \in Table
  /\ disk \in [whole : BOOLEAN, tasks : Table]
  /\ waiting \in SUBSET Ids
  /\ futures \in [Ids -> 0 .. MaxRetries + 1]
  /\ run \in [Runs -> Phase]
  /\ sched \in {"check", "ready", "exited", "dead", "off"}
  /\ lock \in LockType
  /\ writing \in BOOLEAN /\ clash \in BOOLEAN
  /\ stop \in StopType
  /\ issued \in 0 .. MaxTasks
  /\ crashes \in Nat /\ stops \in Nat /\ faults \in Nat
  /\ acked \in SUBSET Ids /\ cancels \in SUBSET Ids

\* Sound gives the type invariant and the budget invariant of the runs.
LEMMA SoundImplies == Sound => TypeOK /\ AttemptBound
<1> SUFFICES ASSUME Sound PROVE TypeOK /\ AttemptBound
  OBVIOUS
<1>1. Table \subseteq [Ids -> Task]
  BY DEF Table, SoundTask
<1>2. disk \in [whole : BOOLEAN, tasks : [Ids -> Task]]
  BY <1>1 DEF Sound
<1>3. AttemptBound
  BY DEF Sound, AttemptBound, Table, SoundTask
<1>. QED
  BY <1>1, <1>2, <1>3 DEF Sound, TypeOK, LockType, StopType

\* The empty table, and what a restart loads, are tables of sound tasks.
LEMMA LoadedSound ==
  /\ Nothing \in Table
  /\ Torn \in [whole : BOOLEAN, tasks : Table]
  /\ \A ts \in Table : Whole(ts) \in [whole : BOOLEAN, tasks : Table]
  /\ \A d \in [whole : BOOLEAN, tasks : Table] : Loaded(d) \in Table
<1>1. Nothing \in Table
  BY NewSound DEF Nothing, Table
<1>2. ASSUME NEW d \in [whole : BOOLEAN, tasks : Table] PROVE Loaded(d) \in Table
  BY <1>1, RecoverSound DEF Loaded, Recover, Table
<1>. QED
  BY <1>1, <1>2 DEF Torn, Whole

LEMMA SoundInit == Init => Sound
<1> SUFFICES ASSUME Init PROVE Sound
  OBVIOUS
<1>1. tasks \in Table /\ snap \in Table /\ seen \in Table
  BY LoadedSound DEF Init
<1>2. lock \in LockType
  BY HiveAssumption DEF Init, Free, Holders, LockType
<1>3. run \in [Runs -> Phase]
  BY DEF Init, Phase
<1>4. futures \in [Ids -> 0 .. MaxRetries + 1]
  BY HiveAssumption DEF Init
<1>5. disk \in [whole : BOOLEAN, tasks : Table]
  BY LoadedSound DEF Init
<1>6. issued \in 0 .. MaxTasks
  BY HiveAssumption DEF Init
<1>. QED
  BY <1>1, <1>2, <1>3, <1>4, <1>5, <1>6 DEF Init, Sound, StopType

\* Taking the lock sets it to a record of its type.
LEMMA AcquireType ==
  ASSUME NEW by \in Holders, NEW t \in 0 .. MaxTasks, NEW a \in 0 .. MaxRetries + 1,
         by \in {"submit", "cancel"} => t \in Ids, Acquire(by, t, a)
  PROVE  lock' \in LockType
BY DEF Acquire, LockType

LEMMA SoundRequest == Sound /\ Request => Sound'
<1> SUFFICES ASSUME Sound, Request PROVE Sound'
  OBVIOUS
<1> USE HiveAssumption
<1>1. ASSUME NEW r \in 0 .. MaxRetries, SubmitTask(r) PROVE Sound'
  <2>1. issued + 1 \in Ids /\ issued + 1 \in 0 .. MaxTasks
    <3>1. issued \in 0 .. MaxTasks /\ issued < MaxTasks
      BY <1>1 DEF SubmitTask, Sound
    <3>. QED
      BY <3>1 DEF Ids
  <2>2. lock' \in LockType
    <3>1. Acquire("submit", issued + 1, 0)
      BY <1>1 DEF SubmitTask
    <3>. QED
      BY <2>1, <3>1, AcquireType DEF Holders
  <2>3. tasks' \in Table
    BY <1>1, <2>1, NewSound DEF SubmitTask, Sound, Table
  <2>4. issued' \in 0 .. MaxTasks
    BY <1>1, <2>1 DEF SubmitTask
  <2>. QED
    BY <1>1, <2>2, <2>3, <2>4 DEF SubmitTask, file, clients, Sound, StopType
<1>2. ASSUME NEW t \in Ids, CancelTask(t) PROVE Sound'
  <2>1. lock' \in LockType
    <3>1. Acquire("cancel", t, 0)
      BY <1>2 DEF CancelTask
    <3>. QED
      BY <3>1, AcquireType DEF Holders, Ids
  <2>2. tasks' \in Table
    BY <1>2, CancelSound DEF CancelTask, Sound, Table
  <2>. QED
    BY <1>2, <2>1, <2>2 DEF CancelTask, shutdown, file, counters, clients, Sound
<1>. QED
  BY <1>1, <1>2 DEF Request

\* Dispatching waiting tasks keeps every record sound.
LEMMA MarkRunningSound ==
  ASSUME Sound, NEW S \in SUBSET Ids, \A t \in S : tasks[t].status \in Waiting
  PROVE  MarkRunning(S) \in Table
<1>1. ASSUME NEW t \in S PROVE Started(tasks[t]) \in SoundTask
  BY <1>1, StartSound DEF Sound, Table
<1>. QED
  BY <1>1 DEF MarkRunning, Sound, Table

LEMMA SoundScheduler == Sound /\ Scheduler => Sound'
<1> SUFFICES ASSUME Sound, Scheduler PROVE Sound'
  OBVIOUS
<1> USE HiveAssumption
<1>0. Chosen \in SUBSET Ids /\ \A t \in Chosen : tasks[t].status \in Waiting
  BY DEF Chosen, Runnable
<1>1. CASE CheckShutdown
  BY <1>1 DEF CheckShutdown, memory, shutdown, file, counters, clients, Sound
<1>2. CASE Tick
  <2>1. lock' \in LockType
    <3>1. Acquire("scheduler", 0, 0)
      BY <1>2 DEF Tick
    <3>. QED
      BY <3>1, AcquireType DEF Holders
  <2>2. tasks' \in Table
    BY <1>0, <1>2, MarkRunningSound DEF Tick
  <2>3. futures' \in [Ids -> 0 .. MaxRetries + 1]
    <3>1. \A t \in Chosen : tasks[t].attempt + 1 \in 0 .. MaxRetries + 1
      BY <1>0, StartSound DEF Sound, Table, Attempts
    <3>. QED
      BY <1>0, <1>2, <3>1 DEF Tick, Sound
  <2>4. run' \in [Runs -> Phase]
    BY <1>2 DEF Tick, Sound, Phase, Unsettled
  <2>. QED
    BY <1>2, <2>1, <2>2, <2>3, <2>4 DEF Tick, shutdown, file, counters, clients, Sound
<1>3. CASE TickRefused
  <2>1. tasks' \in Table
    <3>1. PICK t \in Chosen : tasks' = MarkRunning({t})
      BY <1>3 DEF TickRefused
    <3>. QED
      BY <1>0, <3>1, MarkRunningSound
  <2>2. futures' \in [Ids -> 0 .. MaxRetries + 1]
    BY <1>3 DEF TickRefused, Sound
  <2>. QED
    BY <1>3, <2>1, <2>2 DEF TickRefused, shutdown, file, counters, Sound
<1>. QED
  BY <1>1, <1>2, <1>3 DEF Scheduler

LEMMA SoundWorker ==
  ASSUME Sound, NEW r \in Runs, Worker(r)
  PROVE  Sound'
<1> USE HiveAssumption
<1>1. CASE ExecuteBegin(r)
  <2>1. run' \in [Runs -> Phase]
    BY <1>1 DEF ExecuteBegin, Sound, Phase, Unsettled
  <2>. QED
    BY <1>1, <2>1 DEF ExecuteBegin, shutdown, file, counters, clients, Sound
<1>2. CASE ActionEnds(r)
  <2>1. run' \in [Runs -> Phase]
    BY <1>2 DEF ActionEnds, Sound, Phase, Unsettled
  <2>. QED
    BY <1>2, <2>1 DEF ActionEnds, shutdown, file, counters, clients, Sound
<1>3. CASE Settle(r)
  <2>1. r[1] \in Ids /\ r[2] \in Attempts /\ run[r] \in Phase
    BY DEF Runs, Sound
  <2>2. lock' \in LockType
    <3>1. Acquire("worker", r[1], r[2])
      BY <1>3 DEF Settle
    <3>2. r[1] \in 0 .. MaxTasks /\ r[2] \in 0 .. MaxRetries + 1
      BY <2>1 DEF Ids, Attempts
    <3>. QED
      BY <3>1, <3>2, AcquireType DEF Holders
  <2>3. tasks' \in Table
    BY <1>3, <2>1, OutcomeSound DEF Settle, Sound, Table
  <2>4. waiting' \in SUBSET Ids
    BY <1>3, <2>1 DEF Settle, Sound
  <2>5. run' \in [Runs -> Phase]
    BY <1>3 DEF Settle, Sound, Phase
  <2>. QED
    BY <1>3, <2>2, <2>3, <2>4, <2>5 DEF Settle, shutdown, file, counters, clients, Sound
<1>4. CASE ExecuteEnds(r)
  <2>1. run' \in [Runs -> Phase]
    BY <1>4 DEF ExecuteEnds, Sound, Phase
  <2>. QED
    BY <1>4, <2>1 DEF ExecuteEnds, shutdown, file, counters, clients, Sound
<1>. QED
  BY <1>1, <1>2, <1>3, <1>4 DEF Worker

LEMMA SoundBackoff == \A t \in Ids : Sound /\ BackoffElapses(t) => Sound'
BY DEF BackoffElapses, shutdown, file, counters, clients, Sound

\* Releasing the lock moves its holder on within the types.
LEMMA ReleaseType ==
  ASSUME Sound, NEW p \in {"tail", "none"}, NEW s \in {"check", "dead"}, Release(p, s)
  PROVE  /\ lock' \in LockType /\ writing' \in BOOLEAN
         /\ seen' \in Table
         /\ run' \in [Runs -> Phase]
         /\ sched' \in {"check", "ready", "exited", "dead", "off"}
<1>1. lock' \in LockType
  BY HiveAssumption DEF Release, Free, Holders, LockType
<1>2. run' \in [Runs -> Phase]
  BY DEF Release, Sound, Phase
<1>. QED
  BY <1>1, <1>2 DEF Release, Sound

LEMMA SoundSaving == Sound /\ Saving => Sound'
<1> SUFFICES ASSUME Sound, Saving PROVE Sound'
  OBVIOUS
<1>1. CASE PersistOpen
  <2>1. disk' \in [whole : BOOLEAN, tasks : Table]
    BY <1>1, LoadedSound DEF PersistOpen
  <2>. QED
    BY <1>1, <2>1 DEF PersistOpen, memory, shutdown, counters, clients, Sound
<1>2. CASE PersistWrite
  <2>1. disk' \in [whole : BOOLEAN, tasks : Table]
    BY <1>2, LoadedSound DEF PersistWrite, Document, Sound
  <2>2. /\ lock' \in LockType /\ writing' \in BOOLEAN /\ seen' \in Table
        /\ run' \in [Runs -> Phase]
        /\ sched' \in {"check", "ready", "exited", "dead", "off"}
    BY <1>2, ReleaseType DEF PersistWrite
  <2>3. acked' \in SUBSET Ids /\ cancels' \in SUBSET Ids
    BY <1>2 DEF PersistWrite, Sound, LockType
  <2>. QED
    BY <1>2, <2>1, <2>2, <2>3 DEF PersistWrite, Release, shutdown, Sound
<1>3. CASE PersistError
  <2>1. /\ lock' \in LockType /\ writing' \in BOOLEAN /\ seen' \in Table
        /\ run' \in [Runs -> Phase]
        /\ sched' \in {"check", "ready", "exited", "dead", "off"}
    BY <1>3, ReleaseType DEF PersistError
  <2>. QED
    BY <1>3, <2>1 DEF PersistError, Release, shutdown, Sound
<1>. QED
  BY <1>1, <1>2, <1>3 DEF Saving

\* Whatever ends the process leaves it in its initial types.
LEMMA HaltSound == Sound /\ Halt /\ crashes' \in Nat => Sound'
<1> SUFFICES ASSUME Sound, Halt, crashes' \in Nat PROVE Sound'
  OBVIOUS
<1>1. tasks' \in Table /\ snap' \in Table
  BY LoadedSound DEF Halt
<1>2. lock' \in LockType
  BY HiveAssumption DEF Halt, Free, Holders, LockType
<1>3. run' \in [Runs -> Phase]
  BY DEF Halt, Phase
<1>4. futures' \in [Ids -> 0 .. MaxRetries + 1]
  BY HiveAssumption DEF Halt
<1>. QED
  BY <1>1, <1>2, <1>3, <1>4 DEF Halt, clients, Sound, StopType

LEMMA SoundStopping == Sound /\ Stopping => Sound'
<1> SUFFICES ASSUME Sound, Stopping PROVE Sound'
  OBVIOUS
<1> USE DEF Sound, StopType, memory, file, counters, clients
<1>1. CASE StopRequested
  BY <1>1 DEF StopRequested
<1>2. CASE JoinEnds
  BY <1>2 DEF JoinEnds
<1>3. CASE PoolDrained
  BY <1>3 DEF PoolDrained
<1>4. CASE FinalRead
  BY <1>4 DEF FinalRead
<1>5. CASE FinalOpen
  BY <1>5, LoadedSound DEF FinalOpen
<1>6. CASE FinalWrite
  <2>1. disk' \in [whole : BOOLEAN, tasks : Table]
    BY <1>6, LoadedSound DEF FinalWrite
  <2>. QED
    BY <1>6, <2>1 DEF FinalWrite
<1>7. CASE FinalError
  BY <1>7 DEF FinalError
<1>8. CASE Exit
  BY <1>8, HaltSound DEF Exit
<1>. QED
  BY <1>1, <1>2, <1>3, <1>4, <1>5, <1>6, <1>7, <1>8 DEF Stopping

LEMMA SoundCrashRestart == Sound /\ (Crash \/ Restart) => Sound'
<1> SUFFICES ASSUME Sound, Crash \/ Restart PROVE Sound'
  OBVIOUS
<1>1. CASE Crash
  <2>1. crashes' \in Nat
    BY <1>1 DEF Crash, Sound
  <2>. QED
    BY <1>1, <2>1, HaltSound DEF Crash
<1>2. CASE Restart
  <2>1. tasks' \in Table /\ seen' \in Table
    BY <1>2, LoadedSound DEF Restart, Sound
  <2>2. waiting' \in SUBSET Ids
    BY <1>2 DEF Restart, Sound
  <2>. QED
    BY <1>2, <2>1, <2>2 DEF Restart, shutdown, file, counters, Sound
<1>. QED
  BY <1>1, <1>2

LEMMA SoundStep == Sound /\ [Next]_vars => Sound'
<1> SUFFICES ASSUME Sound, [Next]_vars PROVE Sound'
  OBVIOUS
<1>1. ASSUME NEW r \in Runs, Worker(r) PROVE Sound'
  BY <1>1, SoundWorker
<1>2. CASE UNCHANGED vars
  BY <1>2 DEF vars, memory, shutdown, file, counters, clients, Sound
<1>. QED
  BY <1>1, <1>2, SoundRequest, SoundScheduler, SoundBackoff, SoundSaving,
     SoundStopping, SoundCrashRestart DEF Next

LEMMA AlwaysSound == Spec => []Sound
BY SoundInit, SoundStep, PTL DEF Spec

\* Every variable of the controller stays in its type, whatever crashes,
\* failing saves, late requests and expired joins happen.
THEOREM TypeCorrect == Spec => []TypeOK
BY AlwaysSound, SoundImplies, PTL

\* A task never gets more attempts than retries + 1, restarts included.
THEOREM BudgetsKept == Spec => []AttemptBound
BY AlwaysSound, SoundImplies, PTL

-----------------------------------------------------------------------------
\* Tasks, runs and futures agree

\* A process that is down has no run, no lock holder and no stop().
DownIsIdle == ~up => lock = Free /\ stop = "no" /\ \A r \in Runs : run[r] = "none"

\* The worker that holds the lock is a run that has recorded its outcome, the
\* scheduler that holds it is in the middle of a pass.
SaverIsSettled ==
  /\ lock.by = "scheduler" => sched = "ready"
  /\ lock.by = "worker" => /\ <<lock.id, lock.attempt>> \in Runs
                           /\ run[<<lock.id, lock.attempt>>] = "saving"

\* The next task to be accepted is in no table yet.
Fresh(ts, n) == \A t \in Ids : t > n => ts[t] = NoTask
NextIsFresh  == Fresh(tasks, issued) /\ Fresh(snap, issued) /\ Fresh(disk.tasks, issued)

\* That every unsettled run is the task's current attempt, and every running
\* task has such a run, is inductive only together with the facts above: a
\* release moves the lock holder's run on, a restart replaces the table, a
\* submission fills a place that must be free.
Agreement ==
  /\ DownIsIdle
  /\ SaverIsSettled
  /\ NextIsFresh
  /\ UnsettledRunIsCurrent
  /\ RunningIsBacked

IInv == Sound /\ Agreement

LEMMA AgreementInit == Init => Agreement
BY DEF Init, Agreement, DownIsIdle, SaverIsSettled, UnsettledRunIsCurrent, RunningIsBacked,
       NextIsFresh, Fresh, Free, Unsettled, Nothing, NoTask, Whole

\* Runs are pairs of a task and an attempt.
LEMMA RunParts == \A r \in Runs : r = <<r[1], r[2]>> /\ r[1] \in Ids /\ r[2] \in Attempts
BY DEF Runs

\* What a restart loads is fresh where the file is, and holds nothing running.
LEMMA LoadedFresh ==
  ASSUME NEW d, NEW n, Fresh(d.tasks, n)
  PROVE  Fresh(Loaded(d), n)
BY DEF Fresh, Loaded, Recover, RecoverTask, Nothing, NoTask

LEMMA LoadedIdle ==
  ASSUME NEW d \in [whole : BOOLEAN, tasks : Table], NEW t \in Ids
  PROVE  Loaded(d)[t].status # "running"
<1>1. ASSUME NEW k \in Task PROVE RecoverTask(k).status # "running"
  BY DEF RecoverTask, Task
<1>. QED
  BY <1>1 DEF Loaded, Recover, Nothing, NoTask, Table, SoundTask

LEMMA AgreementRequest == IInv /\ Request => Agreement'
<1> SUFFICES ASSUME IInv, Request PROVE Agreement'
  OBVIOUS
<1> USE HiveAssumption
<1>1. ASSUME NEW r \in 0 .. MaxRetries, SubmitTask(r) PROVE Agreement'
  <2> DEFINE n == issued + 1
  <2>1. /\ up /\ up' /\ lock'.by = "submit" /\ run' = run /\ futures' = futures
        /\ (stop' = stop \/ (stop = "read" /\ stop' = "raised")) /\ sched' = sched
        /\ snap' = snap /\ disk' = disk /\ issued' = n
    BY <1>1 DEF SubmitTask, Acquire, file, Serving
  <2>2. issued \in Nat /\ n \in Ids /\ n > issued
    <3>1. issued \in 0 .. MaxTasks /\ issued < MaxTasks
      BY <1>1 DEF SubmitTask, IInv, Sound
    <3>. QED
      BY <3>1 DEF Ids
  <2>3. tasks[n] = NoTask /\ tasks'[n] = NewTask(r) /\ \A t \in Ids \ {n} : tasks'[t] = tasks[t]
    BY <1>1, <2>2 DEF SubmitTask, IInv, Agreement, NextIsFresh, Fresh, Sound, Table
  <2>4. DownIsIdle' /\ SaverIsSettled'
    BY <2>1 DEF DownIsIdle, SaverIsSettled
  <2>5. NextIsFresh'
    <3>1. \A t \in Ids : t > n => t > issued /\ t # n
      BY <2>2 DEF Ids
    <3>. QED
      BY <2>1, <2>3, <3>1 DEF IInv, Agreement, NextIsFresh, Fresh
  <2>6. UnsettledRunIsCurrent'
    BY <2>1, <2>3, RunParts DEF IInv, Agreement, UnsettledRunIsCurrent, NoTask
  <2>7. RunningIsBacked'
    BY <2>1, <2>3 DEF IInv, Agreement, RunningIsBacked, PoolClosed, NewTask
  <2>. QED
    BY <2>4, <2>5, <2>6, <2>7 DEF Agreement
<1>2. ASSUME NEW t \in Ids, CancelTask(t) PROVE Agreement'
  <2>1. /\ up /\ up' /\ lock'.by = "cancel" /\ run' = run /\ futures' = futures /\ stop' = stop
        /\ sched' = sched
        /\ snap' = snap /\ disk' = disk /\ issued' = issued /\ tasks[t].status \in Active
    BY <1>2 DEF CancelTask, Cancellable, Acquire, shutdown, file, counters, Serving
  <2>2. \A u \in Ids : /\ tasks[u].status = "running" <=> tasks'[u].status = "running"
                       /\ tasks'[u].attempt = tasks[u].attempt
    <3>1. ASSUME NEW k \in Task
          PROVE  /\ k.status = "running" <=> Cancelled(k).status = "running"
                 /\ Cancelled(k).attempt = k.attempt
      BY DEF Cancelled, Task, Waiting
    <3>. QED
      BY <1>2, <3>1 DEF CancelTask, IInv, Sound, Table, SoundTask
  <2>3. DownIsIdle' /\ SaverIsSettled'
    BY <2>1 DEF DownIsIdle, SaverIsSettled
  <2>4. NextIsFresh'
    <3>1. \A u \in Ids \ {t} : tasks'[u] = tasks[u]
      BY <1>2 DEF CancelTask, IInv, Sound, Table
    <3>2. tasks[t] # NoTask
      BY <2>1 DEF NoTask, Active, Waiting
    <3>. QED
      BY <2>1, <3>1, <3>2 DEF IInv, Agreement, NextIsFresh, Fresh
  <2>5. UnsettledRunIsCurrent'
    BY <2>1, <2>2, RunParts DEF IInv, Agreement, UnsettledRunIsCurrent
  <2>6. RunningIsBacked'
    BY <2>1, <2>2 DEF IInv, Agreement, RunningIsBacked, PoolClosed
  <2>. QED
    BY <2>3, <2>4, <2>5, <2>6 DEF Agreement
<1>. QED
  BY <1>1, <1>2 DEF Request

LEMMA AgreementScheduler == IInv /\ Scheduler => Agreement'
<1> SUFFICES ASSUME IInv, Scheduler PROVE Agreement'
  OBVIOUS
<1>0. /\ Chosen \in SUBSET Ids
      /\ \A t \in Chosen : /\ tasks[t].status \in Waiting /\ tasks[t] # NoTask
                           /\ tasks[t].status # "running"
                           /\ Started(tasks[t]).status = "running"
                           /\ Started(tasks[t]).attempt = tasks[t].attempt + 1
                           /\ tasks[t].attempt + 1 \in Attempts
  BY StartSound DEF Chosen, Runnable, IInv, Sound, Table, Waiting, NoTask
\* A chosen task has no unsettled run; the future of an unsettled run is live.
<1>a. \A r \in Runs : run[r] \in Unsettled =>
        /\ r[1] \in Ids \ Chosen
        /\ r[1] \in LiveFutures
  <2> SUFFICES ASSUME NEW r \in Runs, run[r] \in Unsettled
               PROVE  r[1] \in Ids \ Chosen /\ r[1] \in LiveFutures
    OBVIOUS
  <2>1. tasks[r[1]].status = "running" /\ futures[r[1]] = r[2] /\ r[1] \in Ids
    BY RunParts DEF IInv, Agreement, UnsettledRunIsCurrent
  <2>2. r[2] # 0 /\ run[<<r[1], r[2]>>] # "none"
    BY RunParts DEF Attempts, Unsettled
  <2>. QED
    BY <1>0, <2>1, <2>2 DEF LiveFutures
<1>1. CASE CheckShutdown
  BY <1>1 DEF CheckShutdown, memory, shutdown, file, counters, IInv, Agreement, DownIsIdle,
     SaverIsSettled, NextIsFresh, UnsettledRunIsCurrent, RunningIsBacked, PoolClosed
<1>2. CASE Tick
  <2>1. /\ up /\ up' /\ lock'.by = "scheduler" /\ stop' = stop /\ sched = "ready" /\ sched' = sched
        /\ snap' = snap /\ disk' = disk /\ issued' = issued
    BY <1>2 DEF Tick, Acquire, shutdown, file, counters
  <2>2. \A t \in Ids : tasks'[t] = IF t \in Chosen THEN Started(tasks[t]) ELSE tasks[t]
    BY <1>2 DEF Tick, MarkRunning
  <2>3. \A t \in Ids : futures'[t] = IF t \in Chosen THEN tasks[t].attempt + 1
                                     ELSE IF t \in LiveFutures THEN futures[t] ELSE 0
    BY <1>2 DEF Tick
  <2>4. \A r \in Runs : run'[r] = IF r[1] \in Chosen /\ r[2] = tasks[r[1]].attempt + 1
                                    THEN "pending" ELSE run[r]
    BY <1>2 DEF Tick
  <2>5. DownIsIdle' /\ SaverIsSettled'
    BY <2>1 DEF DownIsIdle, SaverIsSettled
  <2>6. NextIsFresh'
    BY <1>0, <2>1, <2>2 DEF IInv, Agreement, NextIsFresh, Fresh
  <2>7. UnsettledRunIsCurrent'
    <3> SUFFICES ASSUME NEW r \in Runs, run'[r] \in Unsettled
                 PROVE  /\ tasks'[r[1]].status = "running"
                        /\ tasks'[r[1]].attempt = r[2]
                        /\ futures'[r[1]] = r[2]
      BY DEF UnsettledRunIsCurrent
    <3>1. CASE r[1] \in Chosen /\ r[2] = tasks[r[1]].attempt + 1
      BY <1>0, <2>2, <2>3, <3>1, RunParts
    <3>2. CASE ~(r[1] \in Chosen /\ r[2] = tasks[r[1]].attempt + 1)
      <4>1. run[r] \in Unsettled
        BY <2>4, <3>2
      <4>2. tasks'[r[1]] = tasks[r[1]] /\ futures'[r[1]] = futures[r[1]]
        BY <1>a, <2>2, <2>3, <4>1
      <4>. QED
        BY <4>1, <4>2 DEF IInv, Agreement, UnsettledRunIsCurrent
    <3>. QED
      BY <3>1, <3>2
  <2>8. RunningIsBacked'
    <3> SUFFICES ASSUME ~PoolClosed \/ sched # "dead", NEW t \in Ids, tasks'[t].status = "running"
                 PROVE  /\ tasks'[t].attempt \in Attempts
                        /\ run'[<<t, tasks'[t].attempt>>] \in Unsettled
      BY <2>1 DEF RunningIsBacked, PoolClosed
    <3>1. CASE t \in Chosen
      <4>1. tasks'[t].attempt = tasks[t].attempt + 1 /\ <<t, tasks[t].attempt + 1>> \in Runs
        BY <1>0, <2>2, <3>1 DEF Runs
      <4>. QED
        BY <1>0, <2>4, <3>1, <4>1 DEF Unsettled
    <3>2. CASE t \notin Chosen
      <4>1. /\ tasks'[t] = tasks[t] /\ tasks[t].attempt \in Attempts
            /\ run[<<t, tasks[t].attempt>>] \in Unsettled
        BY <2>2, <3>2 DEF IInv, Agreement, RunningIsBacked
      <4>2. <<t, tasks[t].attempt>> \in Runs
        BY <4>1 DEF Runs
      <4>. QED
        BY <2>4, <3>2, <4>1, <4>2
    <3>. QED
      BY <3>1, <3>2
  <2>. QED
    BY <2>5, <2>6, <2>7, <2>8 DEF Agreement
<1>3. CASE TickRefused
  <2>1. /\ up /\ up' /\ lock' = lock /\ run' = run /\ stop' = stop /\ PoolClosed
        /\ lock = Free /\ sched' = "dead" /\ snap' = snap /\ disk' = disk /\ issued' = issued
    BY <1>3 DEF TickRefused, shutdown, file, counters
  <2>2. PICK c \in Chosen : tasks' = MarkRunning({c})
    BY <1>3 DEF TickRefused
  <2>3. \A t \in Ids : tasks'[t] = IF t = c THEN Started(tasks[t]) ELSE tasks[t]
    BY <2>2 DEF MarkRunning
  <2>4. \A t \in Ids : futures'[t] = IF t \in LiveFutures THEN futures[t] ELSE 0
    BY <1>3 DEF TickRefused
  <2>5. DownIsIdle' /\ SaverIsSettled'
    BY <2>1 DEF DownIsIdle, SaverIsSettled, Free
  <2>6. NextIsFresh'
    BY <1>0, <2>1, <2>2, <2>3 DEF IInv, Agreement, NextIsFresh, Fresh
  <2>7. UnsettledRunIsCurrent'
    BY <1>a, <2>1, <2>2, <2>3, <2>4 DEF IInv, Agreement, UnsettledRunIsCurrent
  <2>8. RunningIsBacked'
    BY <2>1 DEF RunningIsBacked, PoolClosed
  <2>. QED
    BY <2>5, <2>6, <2>7, <2>8 DEF Agreement
<1>. QED
  BY <1>1, <1>2, <1>3 DEF Scheduler

LEMMA AgreementWorker ==
  ASSUME IInv, NEW r \in Runs, Worker(r)
  PROVE  Agreement'
<1>0. r = <<r[1], r[2]>> /\ r[1] \in Ids /\ r[2] \in Attempts
  BY RunParts
\* The three steps outside the locked section change only the phase of r, and
\* not from settled to unsettled or back.
<1>a. ASSUME NEW p \in Phase, up, up', run' = [run EXCEPT ![r] = p],
             run[r] \in Unsettled <=> p \in Unsettled, run[r] # "saving",
             UNCHANGED <<tasks, futures, sched, lock, stop, snap, disk, issued>>
      PROVE  Agreement'
  <2>1. \A q \in Runs : run'[q] = IF q = r THEN p ELSE run[q]
    BY <1>a DEF IInv, Sound
  <2>2. DownIsIdle' /\ SaverIsSettled' /\ NextIsFresh'
    BY <1>a, <2>1 DEF IInv, Agreement, DownIsIdle, SaverIsSettled, NextIsFresh
  <2>3. UnsettledRunIsCurrent'
    BY <1>a, <2>1 DEF IInv, Agreement, UnsettledRunIsCurrent
  <2>4. RunningIsBacked'
    <3> SUFFICES ASSUME ~PoolClosed \/ sched # "dead", NEW t \in Ids, tasks[t].status = "running"
                 PROVE  /\ tasks[t].attempt \in Attempts
                        /\ run'[<<t, tasks[t].attempt>>] \in Unsettled
      BY <1>a DEF RunningIsBacked, PoolClosed
    <3>1. tasks[t].attempt \in Attempts /\ run[<<t, tasks[t].attempt>>] \in Unsettled
      BY DEF IInv, Agreement, RunningIsBacked
    <3>2. <<t, tasks[t].attempt>> \in Runs
      BY <3>1 DEF Runs
    <3>. QED
      BY <1>a, <2>1, <3>1, <3>2
  <2>. QED
    BY <2>2, <2>3, <2>4 DEF Agreement
<1>1. CASE ExecuteBegin(r)
  BY <1>1, <1>a DEF ExecuteBegin, shutdown, file, counters, Phase, Unsettled
<1>2. CASE ActionEnds(r)
  <2>1. PICK p \in {"ok", "err"} : run' = [run EXCEPT ![r] = p]
    BY <1>2 DEF ActionEnds
  <2>. QED
    BY <1>2, <1>a, <2>1 DEF ActionEnds, shutdown, file, counters, Phase, Unsettled
<1>3. CASE Settle(r)
  <2> DEFINE t == r[1]
  <2>1. /\ up /\ up' /\ lock'.by = "worker" /\ lock'.id = t /\ lock'.attempt = r[2]
        /\ stop' = stop /\ snap' = snap /\ disk' = disk /\ issued' = issued
        /\ futures' = futures /\ sched' = sched /\ run[r] \in Unsettled
    BY <1>3 DEF Settle, Acquire, shutdown, file, counters, Unsettled
  <2>2. tasks[t].status = "running" /\ tasks[t].attempt = r[2]
    BY <2>1 DEF IInv, Agreement, UnsettledRunIsCurrent
  <2>3. \A q \in Runs : run'[q] = IF q = r THEN "saving" ELSE run[q]
    BY <1>3 DEF Settle, IInv, Sound
  <2>4. \A u \in Ids \ {t} : tasks'[u] = tasks[u]
    BY <1>0, <1>3 DEF Settle, IInv, Sound, Table
  <2>5. tasks'[t].status # "running"
    <3>1. tasks[t] \in SoundTask /\ run[r] \in Phase
      BY <1>0 DEF IInv, Sound, Table
    <3>2. tasks'[t] = [tasks[t] EXCEPT !.status = Outcome(tasks[t], run[r])]
      BY <1>0, <1>3 DEF Settle, IInv, Sound, Table
    <3>3. Outcome(tasks[t], run[r]) \in {"cancelled", "succeeded", "retrying", "failed"}
      BY <3>1, OutcomeSound
    <3>4. tasks'[t].status = Outcome(tasks[t], run[r])
      BY <3>1, <3>2, <3>3, StatusChange DEF SoundTask, Status, Active, Waiting, Terminal
    <3>. QED
      BY <3>3, <3>4
  <2>6. DownIsIdle' /\ SaverIsSettled'
    BY <1>0, <2>1, <2>3 DEF DownIsIdle, SaverIsSettled
  <2>7. NextIsFresh'
    <3>1. tasks[t] # NoTask
      BY <2>2 DEF NoTask
    <3>. QED
      BY <2>1, <2>4, <3>1 DEF IInv, Agreement, NextIsFresh, Fresh
  <2>8. UnsettledRunIsCurrent'
    <3> SUFFICES ASSUME NEW q \in Runs, run'[q] \in Unsettled
                 PROVE  /\ tasks'[q[1]].status = "running"
                        /\ tasks'[q[1]].attempt = q[2]
                        /\ futures'[q[1]] = q[2]
      BY DEF UnsettledRunIsCurrent
    <3>1. q # r /\ run[q] \in Unsettled
      BY <2>3 DEF Unsettled
    <3>2. q[1] # t
      BY <1>0, <2>2, <3>1, RunParts DEF IInv, Agreement, UnsettledRunIsCurrent
    <3>. QED
      BY <2>1, <2>4, <3>1, <3>2, RunParts DEF IInv, Agreement, UnsettledRunIsCurrent
  <2>9. RunningIsBacked'
    <3> SUFFICES ASSUME ~PoolClosed \/ sched # "dead", NEW u \in Ids, tasks'[u].status = "running"
                 PROVE  /\ tasks'[u].attempt \in Attempts
                        /\ run'[<<u, tasks'[u].attempt>>] \in Unsettled
      BY <2>1 DEF RunningIsBacked, PoolClosed
    <3>1. u # t /\ tasks'[u] = tasks[u]
      BY <2>4, <2>5
    <3>2. tasks[u].attempt \in Attempts /\ run[<<u, tasks[u].attempt>>] \in Unsettled
      BY <3>1 DEF IInv, Agreement, RunningIsBacked
    <3>3. <<u, tasks[u].attempt>> \in Runs /\ <<u, tasks[u].attempt>> # r
      BY <1>0, <3>1, <3>2 DEF Runs
    <3>. QED
      BY <2>3, <3>1, <3>2, <3>3
  <2>. QED
    BY <2>6, <2>7, <2>8, <2>9 DEF Agreement
<1>4. CASE ExecuteEnds(r)
  BY <1>4, <1>a DEF ExecuteEnds, shutdown, file, counters, Phase, Unsettled
<1>. QED
  BY <1>1, <1>2, <1>3, <1>4 DEF Worker

LEMMA AgreementSaving == IInv /\ Saving => Agreement'
<1> SUFFICES ASSUME IInv, Saving PROVE Agreement'
  OBVIOUS
\* A release moves on only the run of a worker that has settled.
<1>a. ASSUME NEW p \in {"tail", "none"}, NEW s \in {"check", "dead"}, Release(p, s), up, up',
             UNCHANGED snap, \/ disk' = disk \/ disk' = Whole(tasks) \/ disk' = Torn
      PROVE  Agreement'
  <2>1. /\ tasks' = tasks /\ futures' = futures /\ stop' = stop /\ issued' = issued
        /\ lock'.by \notin {"worker", "scheduler"}
        /\ sched' # "dead" => sched # "dead"
    BY <1>a DEF Release, shutdown, Free, IInv, Agreement, SaverIsSettled
  <2>2. \A r \in Runs : /\ run[r] \in Unsettled <=> run'[r] \in Unsettled
                        /\ run[r] \in Unsettled => run'[r] = run[r]
    BY <1>a DEF Release, IInv, Agreement, SaverIsSettled, Sound, Unsettled
  <2>3. DownIsIdle' /\ SaverIsSettled'
    BY <1>a, <2>1 DEF DownIsIdle, SaverIsSettled
  <2>4. NextIsFresh'
    BY <1>a, <2>1 DEF IInv, Agreement, NextIsFresh, Fresh, Whole, Torn, Nothing
  <2>5. UnsettledRunIsCurrent'
    BY <2>1, <2>2 DEF IInv, Agreement, UnsettledRunIsCurrent
  <2>6. RunningIsBacked'
    <3> SUFFICES ASSUME ~PoolClosed \/ sched # "dead", NEW t \in Ids, tasks[t].status = "running"
                 PROVE  /\ tasks[t].attempt \in Attempts
                        /\ run'[<<t, tasks[t].attempt>>] \in Unsettled
      BY <2>1 DEF RunningIsBacked, PoolClosed
    <3>1. tasks[t].attempt \in Attempts /\ run[<<t, tasks[t].attempt>>] \in Unsettled
      BY DEF IInv, Agreement, RunningIsBacked
    <3>2. <<t, tasks[t].attempt>> \in Runs
      BY <3>1 DEF Runs
    <3>. QED
      BY <2>2, <3>1, <3>2
  <2>. QED
    BY <2>3, <2>4, <2>5, <2>6 DEF Agreement
<1>1. CASE PersistOpen
  <2>1. /\ UNCHANGED <<up, lock, sched, tasks, futures, run, stop, snap, issued>> /\ disk' = Torn
    BY <1>1 DEF PersistOpen, memory, shutdown, counters
  <2>2. NextIsFresh'
    BY <2>1 DEF IInv, Agreement, NextIsFresh, Fresh, Torn, Nothing
  <2>. QED
    BY <2>1, <2>2 DEF IInv, Agreement, DownIsIdle, SaverIsSettled, UnsettledRunIsCurrent,
       RunningIsBacked, PoolClosed
<1>2. CASE PersistWrite
  BY <1>2, <1>a DEF PersistWrite, Document, Release, shutdown
<1>3. CASE PersistError
  BY <1>3, <1>a DEF PersistError, Release, shutdown
<1>. QED
  BY <1>1, <1>2, <1>3 DEF Saving

\* When the process ends, every run and every task of the table ends with it.
LEMMA AgreementHalt == IInv /\ Halt => Agreement'
<1> SUFFICES ASSUME IInv, Halt PROVE Agreement'
  OBVIOUS
<1>1. NextIsFresh'
  BY DEF Halt, IInv, Agreement, NextIsFresh, Fresh, Nothing
<1>2. DownIsIdle' /\ SaverIsSettled'
  BY DEF Halt, DownIsIdle, SaverIsSettled, Free
<1>3. UnsettledRunIsCurrent'
  BY DEF Halt, UnsettledRunIsCurrent, Unsettled
<1>4. RunningIsBacked'
  BY DEF Halt, RunningIsBacked, Nothing, NoTask
<1>. QED
  BY <1>1, <1>2, <1>3, <1>4 DEF Agreement

LEMMA AgreementStopping == IInv /\ Stopping => Agreement'
<1> SUFFICES ASSUME IInv, Stopping PROVE Agreement'
  OBVIOUS
\* Before the process ends, stop() only closes the pool and writes the file.
<1>a. ASSUME UNCHANGED <<up, tasks, futures, run, sched, lock, issued>>, up, stop' # "no",
             PoolClosed => PoolClosed',
             \/ snap' = snap \/ snap' = tasks,
             \/ disk' = disk \/ disk' = Whole(snap) \/ disk' = Torn
      PROVE  Agreement'
  <2>1. NextIsFresh'
    BY <1>a DEF IInv, Agreement, NextIsFresh, Fresh, Whole, Torn, Nothing
  <2>2. DownIsIdle' /\ SaverIsSettled'
    BY <1>a DEF IInv, Agreement, DownIsIdle, SaverIsSettled
  <2>3. UnsettledRunIsCurrent'
    BY <1>a DEF IInv, Agreement, UnsettledRunIsCurrent
  <2>4. RunningIsBacked'
    BY <1>a DEF IInv, Agreement, RunningIsBacked
  <2>. QED
    BY <2>1, <2>2, <2>3, <2>4 DEF Agreement
<1> USE DEF memory, file, counters, PoolClosed
<1>1. CASE StopRequested
  BY <1>1, <1>a DEF StopRequested
<1>2. CASE JoinEnds
  BY <1>2, <1>a DEF JoinEnds
<1>3. CASE PoolDrained
  BY <1>3, <1>a DEF PoolDrained
<1>4. CASE FinalRead
  BY <1>4, <1>a DEF FinalRead
<1>5. CASE FinalOpen
  BY <1>5, <1>a DEF FinalOpen
<1>6. CASE FinalWrite
  BY <1>6, <1>a DEF FinalWrite
<1>7. CASE FinalError
  BY <1>7, <1>a DEF FinalError
<1>8. CASE Exit
  BY <1>8, AgreementHalt DEF Exit
<1>. QED
  BY <1>1, <1>2, <1>3, <1>4, <1>5, <1>6, <1>7, <1>8 DEF Stopping

LEMMA AgreementCrashRestart == IInv /\ (Crash \/ Restart) => Agreement'
<1> SUFFICES ASSUME IInv, Crash \/ Restart PROVE Agreement'
  OBVIOUS
<1>1. CASE Crash
  BY <1>1, AgreementHalt DEF Crash
<1>2. CASE Restart
  <2>1. /\ up' /\ tasks' = Loaded(disk)
        /\ UNCHANGED <<futures, run, lock, stop, snap, disk, issued>>
        /\ lock = Free /\ \A r \in Runs : run[r] = "none"
    BY <1>2 DEF Restart, shutdown, file, counters, IInv, Agreement, DownIsIdle
  <2>2. NextIsFresh'
    BY <2>1, LoadedFresh DEF IInv, Agreement, NextIsFresh
  <2>3. DownIsIdle' /\ SaverIsSettled' /\ UnsettledRunIsCurrent'
    BY <2>1 DEF DownIsIdle, SaverIsSettled, UnsettledRunIsCurrent, Free, Unsettled
  <2>4. RunningIsBacked'
    BY <2>1, LoadedIdle DEF RunningIsBacked, IInv, Sound
  <2>. QED
    BY <2>2, <2>3, <2>4 DEF Agreement
<1>. QED
  BY <1>1, <1>2

LEMMA AgreementBackoff == \A t \in Ids : IInv /\ BackoffElapses(t) => Agreement'
BY DEF BackoffElapses, shutdown, file, counters, IInv, Agreement, DownIsIdle, SaverIsSettled,
       NextIsFresh, UnsettledRunIsCurrent, RunningIsBacked, PoolClosed

LEMMA InductiveStep == IInv /\ [Next]_vars => IInv'
<1> SUFFICES ASSUME IInv, [Next]_vars PROVE IInv'
  OBVIOUS
<1>1. Sound'
  BY SoundStep DEF IInv
<1>2. Agreement'
  <2>1. ASSUME NEW r \in Runs, Worker(r) PROVE Agreement'
    BY <2>1, AgreementWorker
  <2>2. CASE UNCHANGED vars
    BY <2>2 DEF vars, memory, shutdown, file, counters, clients, IInv, Agreement, DownIsIdle,
       SaverIsSettled, NextIsFresh, UnsettledRunIsCurrent, RunningIsBacked, PoolClosed
  <2>. QED
    BY <2>1, <2>2, AgreementRequest, AgreementScheduler, AgreementSaving, AgreementStopping,
       AgreementCrashRestart, AgreementBackoff DEF Next
<1>. QED
  BY <1>1, <1>2 DEF IInv

LEMMA AlwaysIInv == Spec => []IInv
<1>1. Init => IInv
  BY SoundInit, AgreementInit DEF IInv
<1>. QED
  BY <1>1, InductiveStep, PTL DEF Spec

\* A run that has not recorded its outcome is the current attempt of a running
\* task, and its future is held by the scheduler.
THEOREM RunsAreCurrent == Spec => []UnsettledRunIsCurrent
BY AlwaysIInv, PTL DEF IInv, Agreement

\* While the pool is open, every running task has a run that will settle it.
THEOREM RunningTasksAreBacked == Spec => []RunningIsBacked
BY AlwaysIInv, PTL DEF IInv, Agreement

\* No task is ever executed by two runs at a time.
THEOREM NeverTwice == Spec => []NoDoubleExecution
<1>1. IInv => NoDoubleExecution
  BY RunParts DEF IInv, Agreement, UnsettledRunIsCurrent, NoDoubleExecution
<1>. QED
  BY <1>1, AlwaysIInv, PTL

\* A finished task is not touched again by the process that finished it.
THEOREM FinishedTasksStay == Spec => FinishedStays
<1> DEFINE Stays == \A t \in Ids : up /\ up' /\ tasks[t].status \in Terminal => tasks'[t] = tasks[t]
<1>1. ASSUME IInv, [Next]_vars PROVE [Stays]_vars
  <2> SUFFICES ASSUME Next, NEW t \in Ids, up, up', tasks[t].status \in Terminal
               PROVE  tasks'[t] = tasks[t]
    BY <1>1
  <2>1. /\ tasks[t].status \notin Active /\ tasks[t].status \notin Waiting
        /\ tasks[t].status # "running" /\ tasks[t] # NoTask
    BY DEF Terminal, Active, Waiting, NoTask
  <2>2. tasks \in [Ids -> SoundTask]
    BY <1>1 DEF IInv, Sound, Table
  <2>3. ASSUME NEW r \in 0 .. MaxRetries, SubmitTask(r) PROVE tasks'[t] = tasks[t]
    <3>1. issued \in Nat
      BY <1>1, HiveAssumption DEF IInv, Sound
    <3>2. t # issued + 1
      BY <1>1, <2>1, <3>1, HiveAssumption DEF IInv, Agreement, NextIsFresh, Fresh, Ids
    <3>. QED
      BY <2>2, <2>3, <3>2 DEF SubmitTask
  <2>4. ASSUME NEW u \in Ids, CancelTask(u) PROVE tasks'[t] = tasks[t]
    BY <2>1, <2>2, <2>4 DEF CancelTask, Cancellable
  <2>5. ASSUME Scheduler PROVE tasks'[t] = tasks[t]
    BY <2>1, <2>5 DEF Scheduler, CheckShutdown, Tick, TickRefused, MarkRunning, Chosen, Runnable, memory
  <2>6. ASSUME NEW r \in Runs, Worker(r) PROVE tasks'[t] = tasks[t]
    <3>1. CASE Settle(r)
      <4>1. tasks[r[1]].status = "running" /\ r[1] \in Ids
        BY <1>1, <3>1, RunParts DEF Settle, IInv, Agreement, UnsettledRunIsCurrent, Unsettled
      <4>. QED
        BY <2>1, <2>2, <3>1, <4>1 DEF Settle
    <3>. QED
      BY <2>6, <3>1 DEF Worker, ExecuteBegin, ActionEnds, ExecuteEnds
  <2>7. ASSUME Saving PROVE tasks'[t] = tasks[t]
    BY <2>7 DEF Saving, PersistOpen, PersistWrite, PersistError, Release, memory
  <2>8. ASSUME Stopping PROVE tasks'[t] = tasks[t]
    BY <2>8 DEF Stopping, StopRequested, JoinEnds, PoolDrained, FinalRead, FinalOpen,
       FinalWrite, FinalError, Exit, Halt, memory
  <2>. QED
    BY <2>3, <2>4, <2>5, <2>6, <2>7, <2>8 DEF Next, Request, BackoffElapses, Crash, Halt, Restart
<1>. QED
  BY <1>1, AlwaysIInv, PTL DEF Spec, FinishedStays

-----------------------------------------------------------------------------
(***************************************************************************)
(* The two limits of the controller: unfinished tasks never exceed         *)
(* max_queue_size, running ones never exceed worker_count ("Bound queue    *)
(* and worker concurrency" in the hardening checklist of README.md).       *)
(***************************************************************************)

\* The task ids are a finite set, and so is every set of them.
LEMMA IdsFinite == IsFiniteSet(Ids)
BY HiveAssumption, FS_Interval DEF Ids

LEMMA SetsOfIds ==
  ASSUME NEW S \in SUBSET Ids
  PROVE  IsFiniteSet(S) /\ Cardinality(S) \in Nat
BY IdsFinite, FS_Subset, FS_CardinalityType

LEMMA Fewer ==
  ASSUME NEW S \in SUBSET Ids, NEW T \in SUBSET S
  PROVE  Cardinality(T) <= Cardinality(S)
BY SetsOfIds, FS_Subset

-----------------------------------------------------------------------------
\* The queue

ActiveIn(ts)  == {t \in Ids : ts[t].status \in Active}
QueueFits(ts) == Cardinality(ActiveIn(ts)) <= MaxQueue

\* The bound must also hold in the tables that wait in the file and in stop()
\* to be loaded again.
QueuesFit == QueueFits(tasks) /\ QueueFits(snap) /\ QueueFits(disk.tasks)

\* A step after which no further task is active keeps the bound.
LEMMA NoMoreActive ==
  ASSUME NEW ts, NEW us, QueueFits(ts),
         \A t \in Ids : us[t].status \in Active => ts[t].status \in Active
  PROVE  QueueFits(us)
<1>1. ActiveIn(ts) \in SUBSET Ids /\ ActiveIn(us) \in SUBSET ActiveIn(ts)
  BY DEF ActiveIn
<1>2. Cardinality(ActiveIn(us)) <= Cardinality(ActiveIn(ts))
  BY <1>1, Fewer
<1>3. Cardinality(ActiveIn(us)) \in Nat /\ Cardinality(ActiveIn(ts)) \in Nat
  BY <1>1, SetsOfIds
<1>. QED
  BY <1>2, <1>3, HiveAssumption DEF QueueFits

\* The empty table fits, and so does whatever a restart loads.
LEMMA LoadedFits ==
  /\ QueueFits(Nothing)
  /\ \A d : QueueFits(d.tasks) => QueueFits(Loaded(d))
<1>1. QueueFits(Nothing)
  <2>1. ActiveIn(Nothing) = {}
    BY DEF ActiveIn, Nothing, NoTask, Active, Waiting
  <2>. QED
    BY <2>1, FS_EmptySet, HiveAssumption DEF QueueFits
<1>2. ASSUME NEW d, QueueFits(d.tasks) PROVE QueueFits(Loaded(d))
  <2>1. CASE d.whole
    <3>1. \A t \in Ids : Loaded(d)[t].status \in Active => d.tasks[t].status \in Active
      BY <2>1 DEF Loaded, Recover, RecoverTask, Active
    <3>. QED
      BY <1>2, <3>1, NoMoreActive
  <2>2. CASE ~d.whole
    BY <1>1, <2>2 DEF Loaded
  <2>. QED
    BY <2>1, <2>2
<1>. QED
  BY <1>1, <1>2

\* A submission is accepted only while the queue has room for it.
LEMMA AcceptedFits ==
  ASSUME Sound, NEW r \in 0 .. MaxRetries, SubmitTask(r), QueuesFit
  PROVE  QueueFits(tasks')
<1> DEFINE n == issued + 1
<1>1. ActiveTasks = ActiveIn(tasks) /\ ActiveIn(tasks) \in SUBSET Ids
  BY DEF ActiveTasks, ActiveIn
<1>2. ActiveIn(tasks') \in SUBSET (ActiveIn(tasks) \union {n})
  BY DEF SubmitTask, ActiveIn, Sound, Table
<1>3. n \in Ids
  <2>1. issued \in 0 .. MaxTasks /\ issued < MaxTasks
    BY DEF SubmitTask, Sound
  <2>. QED
    BY <2>1, HiveAssumption DEF Ids
<1>4. Cardinality(ActiveIn(tasks)) \in Nat /\ Cardinality(ActiveIn(tasks)) < MaxQueue
  BY <1>1, SetsOfIds DEF SubmitTask
<1>5. Cardinality(ActiveIn(tasks) \union {n}) <= Cardinality(ActiveIn(tasks)) + 1
  BY <1>1, <1>4, SetsOfIds, FS_AddElement
<1>6. (ActiveIn(tasks) \union {n}) \in SUBSET Ids /\ ActiveIn(tasks') \in SUBSET Ids
  BY <1>1, <1>3 DEF ActiveIn
<1>7. Cardinality(ActiveIn(tasks')) <= Cardinality(ActiveIn(tasks) \union {n})
  BY <1>2, <1>6, Fewer
<1>8. /\ Cardinality(ActiveIn(tasks')) \in Nat
      /\ Cardinality(ActiveIn(tasks) \union {n}) \in Nat
  BY <1>6, SetsOfIds
<1>. QED
  BY <1>4, <1>5, <1>7, <1>8, HiveAssumption DEF QueueFits

\* No other step makes a task active.
LEMMA StepMakesNoneActive ==
  ASSUME IInv,
         \/ \E t \in Ids : CancelTask(t) \/ BackoffElapses(t)
         \/ Scheduler
         \/ \E r \in Runs : Worker(r)
         \/ Saving
         \/ Stopping /\ ~Exit
  PROVE  \A t \in Ids : tasks'[t].status \in Active => tasks[t].status \in Active
<1>0. tasks \in Table
  BY DEF IInv, Sound
<1>1. ASSUME NEW t \in Ids, CancelTask(t)
      PROVE  \A u \in Ids : tasks'[u].status \in Active => tasks[u].status \in Active
  BY <1>0, <1>1 DEF CancelTask, Cancellable, Table
<1>2. ASSUME NEW t \in Ids, BackoffElapses(t) PROVE tasks' = tasks
  BY <1>2 DEF BackoffElapses
<1>3. CASE Scheduler
  <2>1. \A t \in Chosen : tasks[t].status \in Active
    BY DEF Chosen, Runnable, Active
  <2>2. CheckShutdown => tasks' = tasks
    BY DEF CheckShutdown, memory
  <2>3. ASSUME Tick \/ TickRefused PROVE \E S \in SUBSET Chosen : tasks' = MarkRunning(S)
    BY <2>3 DEF Tick, TickRefused
  <2>. QED
    BY <1>3, <2>1, <2>2, <2>3 DEF Scheduler, MarkRunning
<1>4. ASSUME NEW r \in Runs, Worker(r)
      PROVE  \A u \in Ids : tasks'[u].status \in Active => tasks[u].status \in Active
  <2>1. CASE Settle(r)
    <3>1. \A u \in Ids : u # r[1] => tasks'[u] = tasks[u]
      BY <1>0, <2>1 DEF Settle, Table
    <3>2. tasks[r[1]].status \in Active
      BY <2>1 DEF Settle, IInv, Agreement, UnsettledRunIsCurrent, Unsettled, Active
    <3>. QED
      BY <3>1, <3>2
  <2>. QED
    BY <1>4, <2>1 DEF Worker, ExecuteBegin, ActionEnds, ExecuteEnds
<1>5. Saving => tasks' = tasks
  BY DEF Saving, PersistOpen, PersistWrite, PersistError, Release, memory
<1>6. Stopping /\ ~Exit => tasks' = tasks
  BY DEF Stopping, StopRequested, JoinEnds, PoolDrained, FinalRead, FinalOpen, FinalWrite,
     FinalError, memory
<1>. QED
  BY <1>1, <1>2, <1>3, <1>4, <1>5, <1>6

\* Tables move between memory, stop() and the file without growing.
LEMMA QueuesFitStep == IInv /\ QueuesFit /\ [Next]_vars => QueuesFit'
<1> SUFFICES ASSUME IInv, QueuesFit, [Next]_vars PROVE QueuesFit'
  OBVIOUS
<1> USE DEF QueuesFit
<1>1. QueueFits(Torn.tasks) /\ \A ts : QueueFits(ts) => QueueFits(Whole(ts).tasks)
  BY LoadedFits DEF Torn, Whole
<1>2. ASSUME NEW r \in 0 .. MaxRetries, SubmitTask(r) PROVE QueuesFit'
  <2>1. QueueFits(tasks')
    BY <1>2, AcceptedFits DEF IInv
  <2>. QED
    BY <1>2, <2>1 DEF SubmitTask, file
<1>3. CASE (\E t \in Ids : CancelTask(t) \/ BackoffElapses(t)) \/ Scheduler \/ \E r \in Runs : Worker(r)
  <2>1. QueueFits(tasks')
    BY <1>3, StepMakesNoneActive, NoMoreActive
  <2>2. snap' = snap /\ disk' = disk
    BY <1>3 DEF CancelTask, BackoffElapses, Scheduler, CheckShutdown, Tick, TickRefused, Worker,
       ExecuteBegin, ActionEnds, Settle, ExecuteEnds, shutdown, file
  <2>. QED
    BY <2>1, <2>2
<1>4. CASE Saving
  BY <1>1, <1>4 DEF Saving, PersistOpen, PersistWrite, PersistError, Release, Document, memory, shutdown
<1>5. CASE Stopping /\ ~Exit
  BY <1>1, <1>5 DEF Stopping, StopRequested, JoinEnds, PoolDrained, FinalRead, FinalOpen, FinalWrite,
     FinalError, memory, file
<1>6. CASE Exit \/ Crash
  BY <1>6, LoadedFits DEF Exit, Crash, Halt
<1>7. CASE Restart
  BY <1>7, LoadedFits DEF Restart, shutdown, file
<1>8. CASE UNCHANGED vars
  BY <1>8 DEF vars, memory, shutdown, file
<1>. QED
  BY <1>2, <1>3, <1>4, <1>5, <1>6, <1>7, <1>8 DEF Next, Request, Stopping

\* The table never holds more than max_queue_size unfinished tasks, whatever
\* retries, crashes, torn files and restarts do.
THEOREM QueueIsBounded == Spec => []QueueBound
<1>1. Init => QueuesFit
  BY LoadedFits DEF Init, QueuesFit, Whole
<1>2. QueuesFit => QueueBound
  BY DEF QueuesFit, QueueFits, QueueBound, ActiveTasks, ActiveIn
<1>. QED
  BY <1>1, <1>2, QueuesFitStep, AlwaysIInv, PTL DEF Spec

-----------------------------------------------------------------------------
\* The workers

RunningIn(ts) == {t \in Ids : ts[t].status = "running"}
WorkersFit    == Cardinality(RunningIn(tasks)) <= WorkerCount

\* A set of tasks has a last one: of the sets of later tasks that its members
\* leave, a smallest one is empty.
LEMMA LastTask ==
  ASSUME NEW S \in SUBSET Ids, S # {}
  PROVE  \E m \in S : \A u \in S : u <= m
<1> DEFINE Later(t) == {u \in S : u > t}
           F == {Later(t) : t \in S}
           R == StrictSubsetOrdering(Ids)
<1>1. F \subseteq FiniteSubsetsOf(Ids) /\ F # {}
  <2>1. ASSUME NEW t \in S PROVE Later(t) \in FiniteSubsetsOf(Ids)
    BY SetsOfIds DEF FiniteSubsetsOf
  <2>. QED
    BY <2>1
<1>2. PICK A \in F : \A B \in F : ~(<<B, A>> \in R)
  <2>1. IsWellFoundedOn(R, FiniteSubsetsOf(Ids))
    BY FS_StrictSubsetOrderingWellFounded
  <2>. HIDE DEF F, R
  <2>. QED
    BY <1>1, <2>1, WFMin
<1>3. PICK m \in S : A = Later(m)
  BY <1>2
<1>4. ASSUME NEW u \in S, ~(u <= m) PROVE FALSE
  <2>1. u \in Nat /\ m \in Nat /\ u > m
    BY <1>4, HiveAssumption DEF Ids
  <2>2. \A v \in S : v \in Nat
    BY HiveAssumption DEF Ids
  <2>3. Later(u) \subseteq Later(m)
    <3>. SUFFICES ASSUME NEW v \in S, v > u PROVE v > m
      OBVIOUS
    <3>. QED
      BY <2>1, <2>2
  <2>4. u \in Later(m) /\ u \notin Later(u)
    BY <2>1
  <2>5. <<Later(u), Later(m)>> \in R
    BY <2>3, <2>4 DEF StrictSubsetOrdering
  <2>. QED
    BY <1>2, <1>3, <2>5
<1>. QED
  BY <1>4

\* The slots the scheduler fills are free ones: with the futures it still holds
\* they are at most worker_count.
LEMMA ChosenFit ==
  ASSUME Chosen # {}
  PROVE  Cardinality(Chosen) + Cardinality(LiveFutures) <= WorkerCount
<1>0. Chosen \in SUBSET Ids /\ Runnable \in SUBSET Ids /\ LiveFutures \in SUBSET Ids
  BY DEF Chosen, Runnable, LiveFutures
<1>1. PICK m \in Chosen : \A u \in Chosen : u <= m
  BY <1>0, LastTask
<1> DEFINE Before == {u \in Runnable : u < m}
<1>2. Cardinality(Before) + Cardinality(LiveFutures) < WorkerCount
  BY <1>1 DEF Chosen
<1>3. Chosen \in SUBSET (Before \union {m}) /\ (Before \union {m}) \in SUBSET Ids
  <2>1. ASSUME NEW u \in Chosen, u # m PROVE u \in Before
    <3>1. u \in Nat /\ m \in Nat /\ u <= m
      BY <1>0, <1>1, HiveAssumption DEF Ids
    <3>. QED
      BY <2>1, <3>1 DEF Chosen
  <2>. QED
    BY <1>0, <2>1
<1>4. Before \in SUBSET Ids
  BY <1>0
<1>5. /\ Cardinality(Before) \in Nat /\ Cardinality(LiveFutures) \in Nat
      /\ Cardinality(Chosen) \in Nat /\ Cardinality(Before \union {m}) \in Nat
  BY <1>0, <1>3, <1>4, SetsOfIds
<1>6. Cardinality(Before \union {m}) <= Cardinality(Before) + 1
  BY <1>4, <1>5, SetsOfIds, FS_AddElement
<1>7. Cardinality(Chosen) <= Cardinality(Before \union {m})
  BY <1>3, Fewer
<1>. QED
  BY <1>2, <1>5, <1>6, <1>7, HiveAssumption

\* While the scheduler is in a pass, it holds the future of each running task.
LEMMA RunningIsLive ==
  ASSUME IInv, sched = "ready"
  PROVE  RunningIn(tasks) \subseteq LiveFutures
<1> SUFFICES ASSUME NEW t \in Ids, tasks[t].status = "running"
             PROVE  t \in LiveFutures
  BY DEF RunningIn
<1> DEFINE r == <<t, tasks[t].attempt>>
<1>1. tasks[t].attempt \in Attempts /\ run[r] \in Unsettled
  BY DEF IInv, Agreement, RunningIsBacked
<1>2. r \in Runs /\ r[1] = t /\ r[2] = tasks[t].attempt /\ tasks[t].attempt # 0
  BY <1>1 DEF Runs, Attempts
<1>3. futures[t] = tasks[t].attempt
  BY <1>1, <1>2 DEF IInv, Agreement, UnsettledRunIsCurrent
<1>. QED
  BY <1>1, <1>2, <1>3 DEF LiveFutures, Unsettled

\* A dispatch of chosen tasks keeps the bound.
LEMMA DispatchFits ==
  ASSUME IInv, sched = "ready", WorkersFit,
         NEW S \in SUBSET Chosen, tasks' = MarkRunning(S)
  PROVE  WorkersFit'
<1>1. Chosen \in SUBSET Ids /\ LiveFutures \in SUBSET Ids
  BY DEF Chosen, Runnable, LiveFutures
<1>2. RunningIn(tasks') \in SUBSET (LiveFutures \union S)
  BY RunningIsLive DEF RunningIn, MarkRunning
<1>3. CASE S = {}
  <2>1. RunningIn(tasks') = RunningIn(tasks)
    BY <1>3 DEF RunningIn, MarkRunning
  <2>. QED
    BY <2>1 DEF WorkersFit
<1>4. CASE S # {}
  <2>1. /\ Cardinality(S) <= Cardinality(Chosen)
        /\ Cardinality(Chosen) + Cardinality(LiveFutures) <= WorkerCount
    BY <1>1, <1>4, Fewer, ChosenFit
  <2>2. S \in SUBSET Ids /\ (LiveFutures \union S) \in SUBSET Ids /\ (LiveFutures \cap S) \in SUBSET Ids
    BY <1>1
  <2>3. /\ Cardinality(S) \in Nat /\ Cardinality(LiveFutures) \in Nat /\ Cardinality(Chosen) \in Nat
        /\ Cardinality(LiveFutures \union S) \in Nat /\ Cardinality(LiveFutures \cap S) \in Nat
        /\ IsFiniteSet(S) /\ IsFiniteSet(LiveFutures)
    BY <1>1, <2>2, SetsOfIds
  <2>4. Cardinality(LiveFutures \union S)
          = Cardinality(LiveFutures) + Cardinality(S) - Cardinality(LiveFutures \cap S)
    BY <2>3, FS_Union
  <2>5. Cardinality(RunningIn(tasks')) <= Cardinality(LiveFutures \union S)
    BY <1>2, <2>2, Fewer
  <2>6. Cardinality(RunningIn(tasks')) \in Nat
    BY <1>2, <2>2, SetsOfIds
  <2>. QED
    BY <2>1, <2>3, <2>4, <2>5, <2>6, HiveAssumption DEF WorkersFit
<1>. QED
  BY <1>3, <1>4

\* A step after which no further task is running keeps the bound.
LEMMA NoMoreRunning ==
  ASSUME WorkersFit,
         \A t \in Ids : tasks'[t].status = "running" => tasks[t].status = "running"
  PROVE  WorkersFit'
<1>1. RunningIn(tasks) \in SUBSET Ids /\ RunningIn(tasks') \in SUBSET RunningIn(tasks)
  BY DEF RunningIn
<1>2. Cardinality(RunningIn(tasks')) <= Cardinality(RunningIn(tasks))
  BY <1>1, Fewer
<1>3. Cardinality(RunningIn(tasks')) \in Nat /\ Cardinality(RunningIn(tasks)) \in Nat
  BY <1>1, SetsOfIds
<1>. QED
  BY <1>2, <1>3, HiveAssumption DEF WorkersFit

LEMMA WorkersFitStep == IInv /\ WorkersFit /\ [Next]_vars => WorkersFit'
<1> SUFFICES ASSUME IInv, WorkersFit, [Next]_vars PROVE WorkersFit'
  OBVIOUS
<1> DEFINE NoneStarts == \A t \in Ids : tasks'[t].status = "running" => tasks[t].status = "running"
<1>0. tasks \in [Ids -> Task]
  BY DEF IInv, Sound, Table, SoundTask
<1>1. CASE Tick \/ TickRefused
  <2>1. sched = "ready" /\ \E S \in SUBSET Chosen : tasks' = MarkRunning(S)
    BY <1>1 DEF Tick, TickRefused
  <2>. QED
    BY <2>1, DispatchFits
<1>2. ASSUME NEW r \in 0 .. MaxRetries, SubmitTask(r) PROVE NoneStarts
  BY <1>0, <1>2 DEF SubmitTask, NewTask
<1>3. ASSUME NEW t \in Ids, CancelTask(t) PROVE NoneStarts
  BY <1>0, <1>3 DEF CancelTask, Cancelled, Waiting, Task
<1>4. ASSUME NEW r \in Runs, Worker(r) PROVE NoneStarts
  <2>1. CASE Settle(r)
    <3>1. tasks[r[1]].status = "running"
      BY <2>1 DEF Settle, IInv, Agreement, UnsettledRunIsCurrent, Unsettled
    <3>. QED
      BY <1>0, <2>1, <3>1 DEF Settle
  <2>. QED
    BY <1>4, <2>1 DEF Worker, ExecuteBegin, ActionEnds, ExecuteEnds
<1>5. ASSUME Exit \/ Crash PROVE NoneStarts
  BY <1>5 DEF Exit, Crash, Halt, Nothing, NoTask
<1>6. ASSUME Restart PROVE NoneStarts
  <2>1. \A t \in Ids : tasks'[t].status # "running"
    BY <1>6, LoadedIdle DEF Restart, IInv, Sound
  <2>. QED
    BY <2>1
<1>7. ASSUME \/ CheckShutdown \/ (\E t \in Ids : BackoffElapses(t)) \/ Saving
             \/ Stopping /\ ~Exit
             \/ UNCHANGED vars
      PROVE  NoneStarts
  <2>1. tasks' = tasks
    BY <1>7 DEF CheckShutdown, BackoffElapses, Saving, PersistOpen, PersistWrite, PersistError,
       Release, Stopping, StopRequested, JoinEnds, PoolDrained, FinalRead, FinalOpen, FinalWrite,
       FinalError, memory, vars
  <2>. QED
    BY <2>1
<1>8. WorkersFit' \/ NoneStarts
  BY <1>1, <1>2, <1>3, <1>4, <1>5, <1>6, <1>7 DEF Next, Request, Scheduler, Stopping
<1>. QED
  BY <1>8, NoMoreRunning

\* At most worker_count tasks are running, whatever attempts, saves that fail,
\* dying schedulers and restarts overlap.
THEOREM WorkersAreBounded == Spec => []RunningBound
<1>1. Init => WorkersFit
  <2>. SUFFICES ASSUME Init PROVE WorkersFit
    OBVIOUS
  <2>1. RunningIn(tasks) = {}
    BY DEF Init, RunningIn, Nothing, NoTask
  <2>. QED
    BY <2>1, FS_EmptySet, HiveAssumption DEF WorkersFit
<1>2. WorkersFit => RunningBound
  BY DEF WorkersFit, RunningIn, RunningBound
<1>. QED
  BY <1>1, <1>2, WorkersFitStep, AlwaysIInv, PTL DEF Spec

-----------------------------------------------------------------------------
(***************************************************************************)
(* What the controller promises its clients and keeps in its state file:   *)
(* cancellations are honoured, the file holds the table, an attempt is     *)
(* never repeated, an orderly stop loses nothing, and the controller       *)
(* implements TaskService.                                                 *)
(*                                                                         *)
(* ~LateRequests (no request is in progress once server.stop() has         *)
(* returned) and ~JoinTimeouts (join(timeout=3) outlasts the scheduler's   *)
(* last pass) are assumed where the last save, made without the lock,      *)
(* could otherwise be stale.                                               *)
(***************************************************************************)

\* Cancellations

\* A task record that will not succeed and will not be dispatched again.
Kept(k) == \/ k.status \in {"absent", "cancelled", "failed"}
           \/ k.status = "running" /\ k.cancel

\* The cancellation a client has been told of, or is about to be told of by the
\* holder of the lock, is kept in the table, in the file, and in what stop() is
\* going to write.
Pledged ==
  /\ \A t \in cancels : /\ t <= issued /\ Kept(tasks[t]) /\ Kept(disk.tasks[t])
                        /\ stop \in {"open", "writing"} => Kept(snap[t])
  /\ lock.by = "cancel" => lock.id <= issued /\ Kept(tasks[lock.id])
  /\ stop # "no" => lock.by \notin {"submit", "cancel"}

LEMMA PledgedInit == Init => Pledged
BY DEF Init, Pledged, Free

\* Recovery and a torn file keep what was kept.
LEMMA LoadedKept ==
  /\ \A t \in Ids : Kept(Nothing[t]) /\ Kept(Torn.tasks[t])
  /\ \A d \in [whole : BOOLEAN, tasks : Table], t \in Ids : Kept(d.tasks[t]) => Kept(Loaded(d)[t])
<1>1. \A t \in Ids : Kept(Nothing[t]) /\ Kept(Torn.tasks[t])
  BY DEF Kept, Nothing, NoTask, Torn
<1>2. ASSUME NEW d \in [whole : BOOLEAN, tasks : Table], NEW t \in Ids, Kept(d.tasks[t])
      PROVE  Kept(Loaded(d)[t])
  <2>1. d.tasks[t] \in Task
    BY DEF Table, SoundTask
  <2>2. Kept(RecoverTask(d.tasks[t]))
    BY <1>2, <2>1 DEF Kept, RecoverTask, Task
  <2>. QED
    BY <1>1, <2>2 DEF Loaded, Recover
<1>. QED
  BY <1>1, <1>2

\* No step of a living process takes a kept task back.
LEMMA KeptStays ==
  ASSUME IInv, Next, up, up', NEW t \in Ids, t <= issued, Kept(tasks[t])
  PROVE  Kept(tasks'[t])
<1>0. tasks \in [Ids -> Task] /\ issued \in Nat
  BY HiveAssumption DEF IInv, Sound, Table, SoundTask
<1>1. ASSUME NEW r \in 0 .. MaxRetries, SubmitTask(r) PROVE Kept(tasks'[t])
  <2>1. t # issued + 1
    BY <1>0, HiveAssumption DEF Ids
  <2>. QED
    BY <1>0, <1>1, <2>1 DEF SubmitTask
<1>2. ASSUME NEW u \in Ids, CancelTask(u) PROVE Kept(tasks'[t])
  <2>1. Kept(Cancelled(tasks[t]))
    BY <1>0 DEF Kept, Cancelled, Task, Waiting
  <2>. QED
    BY <1>0, <1>2, <2>1 DEF CancelTask
<1>3. CASE Scheduler
  <2>1. t \notin Chosen
    BY DEF Chosen, Runnable, Kept, Waiting
  <2>. QED
    BY <1>0, <1>3, <2>1 DEF Scheduler, CheckShutdown, Tick, TickRefused, MarkRunning, memory
<1>4. ASSUME NEW r \in Runs, Worker(r) PROVE Kept(tasks'[t])
  <2>1. CASE Settle(r) /\ t = r[1]
    <3>1. tasks[t].status = "running"
      BY <2>1 DEF Settle, IInv, Agreement, UnsettledRunIsCurrent, Unsettled
    <3>2. tasks[t].cancel
      BY <3>1 DEF Kept
    <3>3. tasks'[t] = [tasks[t] EXCEPT !.status = "cancelled"]
      BY <1>0, <2>1, <3>2 DEF Settle, Outcome
    <3>. QED
      BY <1>0, <3>3 DEF Kept, Task
  <2>2. CASE Settle(r) /\ t # r[1]
    BY <1>0, <2>2 DEF Settle
  <2>. QED
    BY <1>4, <2>1, <2>2 DEF Worker, ExecuteBegin, ActionEnds, ExecuteEnds
<1>5. CASE Saving \/ (Stopping /\ ~Exit) \/ \E u \in Ids : BackoffElapses(u)
  BY <1>5 DEF Saving, PersistOpen, PersistWrite, PersistError, Release, Stopping, StopRequested,
     JoinEnds, PoolDrained, FinalRead, FinalOpen, FinalWrite, FinalError, BackoffElapses, memory
<1>6. ~Exit /\ ~Crash /\ ~Restart
  BY DEF Exit, Crash, Halt, Restart
<1>. QED
  BY <1>1, <1>2, <1>3, <1>4, <1>5, <1>6 DEF Next, Request

\* Who holds the lock, and which cancellations were answered, before and after.
LEMMA PledgedStep ==
  ASSUME ~LateRequests, IInv, Pledged, [Next]_vars
  PROVE  Pledged'
<1>0. /\ tasks \in [Ids -> Task] /\ issued \in Nat /\ cancels \in SUBSET Ids /\ lock \in LockType
      /\ disk \in [whole : BOOLEAN, tasks : Table]
      /\ lock.by = "cancel" => lock.id \in Ids
  BY HiveAssumption DEF IInv, Sound, Table, SoundTask, LockType
<1>1. ASSUME NEW r \in 0 .. MaxRetries, SubmitTask(r) PROVE Pledged'
  <2>1. /\ issued' = issued + 1 /\ lock'.by = "submit" /\ stop = "no" /\ stop' = "no" /\ up /\ up'
        /\ cancels' = cancels /\ disk' = disk
    BY <1>1 DEF SubmitTask, Acquire, Serving, file, clients
  <2>2. \A t \in cancels : Kept(tasks'[t])
    BY <1>0, <1>1, <2>1, KeptStays DEF Pledged, Next, Request
  <2>3. \A t \in cancels : t <= issued'
    BY <1>0, <2>1, HiveAssumption DEF Pledged, Ids
  <2>. QED
    BY <2>1, <2>2, <2>3 DEF Pledged
<1>2. ASSUME NEW t \in Ids, CancelTask(t) PROVE Pledged'
  <2>1. /\ issued' = issued /\ lock'.by = "cancel" /\ lock'.id = t /\ stop = "no" /\ stop' = "no"
        /\ up /\ up' /\ cancels' = cancels /\ disk' = disk
    BY <1>2 DEF CancelTask, Acquire, Serving, file, clients, counters, shutdown
  <2>2. \A u \in cancels : Kept(tasks'[u])
    BY <1>0, <1>2, <2>1, KeptStays DEF Pledged, Next, Request
  <2>3. t <= issued
    <3>1. tasks[t].status # "absent"
      BY <1>2 DEF CancelTask, Cancellable, Active, Waiting
    <3>. QED
      BY <1>0, <3>1, HiveAssumption DEF IInv, Agreement, NextIsFresh, Fresh, NoTask, Ids
  <2>4. Kept(tasks'[t])
    <3>1. tasks'[t] = Cancelled(tasks[t])
      BY <1>0, <1>2 DEF CancelTask
    <3>. QED
      BY <1>0, <1>2, <3>1 DEF CancelTask, Cancellable, Cancelled, Kept, Task, Active
  <2>. QED
    BY <2>1, <2>2, <2>3, <2>4 DEF Pledged
<1>3. CASE Scheduler \/ (\E r \in Runs : Worker(r)) \/ \E t \in Ids : BackoffElapses(t)
  <2>a. Scheduler => up /\ up' /\ (lock' = lock \/ lock'.by = "scheduler")
    BY DEF Scheduler, CheckShutdown, Tick, TickRefused, Acquire
  <2>b. ASSUME NEW r \in Runs, Worker(r) PROVE up /\ up' /\ (lock' = lock \/ lock'.by = "worker")
    BY <2>b DEF Worker, ExecuteBegin, ActionEnds, Settle, ExecuteEnds, Acquire
  <2>c. ASSUME NEW t \in Ids, BackoffElapses(t) PROVE lock' = lock /\ tasks' = tasks
    BY <2>c DEF BackoffElapses
  <2>0. (up /\ up') \/ tasks' = tasks
    BY <1>3, <2>a, <2>b, <2>c
  <2>1. /\ cancels' = cancels /\ issued' = issued /\ disk' = disk /\ snap' = snap /\ stop' = stop
    BY <1>3 DEF Scheduler, CheckShutdown, Tick, TickRefused, Worker, ExecuteBegin, ActionEnds, Settle,
       ExecuteEnds, BackoffElapses, shutdown, file, counters, clients
  <2>2. lock' = lock \/ lock'.by \in {"scheduler", "worker"}
    BY <1>3, <2>a, <2>b, <2>c
  <2>3. \A t \in cancels : Kept(tasks'[t])
    <3>1. CASE up /\ up'
      BY <1>0, <1>3, <3>1, KeptStays DEF Pledged, Next
    <3>2. CASE tasks' = tasks
      BY <3>2 DEF Pledged
    <3>. QED
      BY <2>0, <3>1, <3>2
  <2>4. lock.by = "cancel" /\ lock' = lock => Kept(tasks'[lock.id])
    <3>1. CASE up /\ up'
      BY <1>0, <1>3, <3>1, KeptStays DEF Pledged, Next
    <3>2. CASE tasks' = tasks
      BY <3>2 DEF Pledged
    <3>. QED
      BY <2>0, <3>1, <3>2
  <2>. QED
    BY <2>1, <2>2, <2>3, <2>4 DEF Pledged
<1>4. CASE Saving
  <2>1. /\ tasks' = tasks /\ issued' = issued /\ snap' = snap /\ stop' = stop
        /\ lock' = lock \/ lock' = Free
    BY <1>4 DEF Saving, PersistOpen, PersistWrite, PersistError, Release, shutdown, memory, counters
  <2>2. \/ cancels' = cancels
        \/ cancels' = cancels \union {lock.id} /\ lock.by = "cancel" /\ (disk' = Whole(tasks) \/ disk' = Torn)
    BY <1>4 DEF Saving, PersistOpen, PersistWrite, PersistError, Document, clients
  <2>3. disk' = disk \/ disk' = Torn \/ disk' = Whole(tasks)
    BY <1>4 DEF Saving, PersistOpen, PersistWrite, PersistError, Document
  <2>4. stop # "no" => cancels' = cancels
    BY <2>2 DEF Pledged
  <2>5. \A t \in cancels' : t \in Ids /\ t <= issued /\ Kept(tasks[t])
    BY <1>0, <2>2 DEF Pledged
  <2>6. \A t \in cancels' : Kept(disk'.tasks[t])
    BY <1>0, <2>2, <2>3, <2>5, LoadedKept DEF Pledged, Whole
  <2>7. \A t \in cancels' : stop \in {"open", "writing"} => Kept(snap[t])
    BY <2>4 DEF Pledged
  <2>. QED
    BY <2>1, <2>5, <2>6, <2>7 DEF Pledged, Free
<1>5. CASE Stopping /\ ~Exit
  <2>1. /\ tasks' = tasks /\ issued' = issued /\ lock' = lock /\ cancels' = cancels
    BY <1>5 DEF Stopping, StopRequested, JoinEnds, PoolDrained, FinalRead, FinalOpen, FinalWrite,
       FinalError, memory, counters, clients
  <2>2. stop' # "no" => lock.by \notin {"submit", "cancel"}
    BY <1>5 DEF Pledged, Stopping, StopRequested, JoinEnds, PoolDrained, FinalRead, FinalOpen,
       FinalWrite, FinalError
  <2>3. stop' \in {"open", "writing"} => snap' = tasks \/ (stop \in {"open", "writing"} /\ snap' = snap)
    BY <1>5 DEF Stopping, StopRequested, JoinEnds, PoolDrained, FinalRead, FinalOpen, FinalWrite, FinalError
  <2>4. disk' = disk \/ disk' = Torn \/ (stop = "writing" /\ disk' = Whole(snap))
    BY <1>5 DEF Stopping, StopRequested, JoinEnds, PoolDrained, FinalRead, FinalOpen, FinalWrite,
       FinalError, file
  <2>5. \A t \in cancels : Kept(disk'.tasks[t])
    BY <1>0, <2>4, LoadedKept DEF Pledged, Whole
  <2>. QED
    BY <2>1, <2>2, <2>3, <2>5 DEF Pledged
<1>6. CASE Exit \/ Crash
  <2>1. /\ tasks' = Nothing /\ issued' = issued /\ lock' = Free /\ cancels' = cancels /\ disk' = disk
        /\ stop' = "no"
    BY <1>6 DEF Exit, Crash, Halt, clients
  <2>. QED
    BY <1>0, <2>1, LoadedKept DEF Pledged, Free
<1>7. CASE Restart
  <2>1. /\ tasks' = Loaded(disk) /\ issued' = issued /\ lock' = lock /\ cancels' = cancels /\ disk' = disk
        /\ stop' = stop /\ lock.by = "nobody" /\ stop = "no"
    BY <1>7 DEF Restart, shutdown, file, counters, IInv, Agreement, DownIsIdle, Free
  <2>. QED
    BY <1>0, <2>1, LoadedKept DEF Pledged
<1>8. CASE UNCHANGED vars
  BY <1>8 DEF vars, memory, shutdown, file, counters, clients, Pledged
<1>. QED
  BY <1>1, <1>2, <1>3, <1>4, <1>5, <1>6, <1>7, <1>8 DEF Next, Request, Stopping

\* A cancellation answered with success is never undone, whatever saves fail and
\* wherever the process dies; a request still in progress after server.stop()
\* could be answered after stop() has read what it will write.
THEOREM CancelsAreHonoured ==
  ASSUME ~LateRequests
  PROVE  Spec => []CancelHonoured
<1>1. Pledged => CancelHonoured
  BY DEF Pledged, Kept, CancelHonoured
<1>2. IInv /\ Pledged /\ [Next]_vars => Pledged'
  BY PledgedStep
<1>. QED
  BY <1>1, <1>2, PledgedInit, AlwaysIInv, PTL DEF Spec

-----------------------------------------------------------------------------
\* The state file

\* Loading twice is loading once: nothing that was loaded is running.
LEMMA RecoverTwice ==
  ASSUME NEW d \in [whole : BOOLEAN, tasks : Table]
  PROVE  Recover(Loaded(d)) = Loaded(d)
<1>1. Loaded(d) = [t \in Ids |-> Loaded(d)[t]]
  BY DEF Loaded, Recover, Nothing
<1>2. \A t \in Ids : RecoverTask(Loaded(d)[t]) = Loaded(d)[t]
  BY LoadedIdle DEF RecoverTask
<1>3. Recover(Loaded(d)) = [t \in Ids |-> Loaded(d)[t]]
  BY <1>2 DEF Recover
<1>. QED
  BY <1>1, <1>3

\* As long as no save has failed and stop() is not at its last save, the file is
\* never open twice, and it holds the table when the lock is free.
Durable ==
  /\ ~up => ~clash
  /\ up /\ faults = 0 /\ stop \in {"no", "join"} =>
       /\ ~clash
       /\ lock = Free => Loaded(disk) = Recover(tasks)

LEMMA DurableStep == IInv /\ Durable /\ [Next]_vars => Durable'
<1> SUFFICES ASSUME IInv, Durable, [Next]_vars PROVE Durable'
  OBVIOUS
<1>0. faults \in Nat /\ disk \in [whole : BOOLEAN, tasks : Table]
  BY DEF IInv, Sound
\* Whoever holds the lock has yet to save.
<1>a. ASSUME UNCHANGED <<up, faults, clash>>, up, stop' # stop => stop' \notin {"no", "join"}, lock' # Free
      PROVE  Durable'
  BY <1>a DEF Durable
<1>b. ASSUME UNCHANGED <<up, faults, clash, tasks, lock, disk>>, stop' = stop \/ stop \in {"no", "join"}
             \/ stop' \notin {"no", "join"}
      PROVE  Durable'
  BY <1>b DEF Durable
<1>1. CASE Request
  BY <1>1, <1>a DEF Request, SubmitTask, CancelTask, Acquire, Free, file, counters, shutdown
<1>2. CASE Scheduler
  <2>1. CASE CheckShutdown
    BY <1>b, <2>1 DEF CheckShutdown, memory, shutdown, file, counters
  <2>2. CASE Tick
    BY <1>a, <2>2 DEF Tick, Acquire, Free, shutdown, file, counters
  <2>3. CASE TickRefused
    BY <2>3 DEF TickRefused, PoolClosed, shutdown, file, counters, Durable
  <2>. QED
    BY <1>2, <2>1, <2>2, <2>3 DEF Scheduler
<1>3. ASSUME NEW r \in Runs, Worker(r) PROVE Durable'
  <2>1. CASE Settle(r)
    BY <1>a, <2>1 DEF Settle, Acquire, Free, shutdown, file, counters
  <2>2. CASE ExecuteBegin(r) \/ ActionEnds(r) \/ ExecuteEnds(r)
    BY <1>b, <2>2 DEF ExecuteBegin, ActionEnds, ExecuteEnds, shutdown, file, counters
  <2>. QED
    BY <1>3, <2>1, <2>2 DEF Worker
<1>4. ASSUME NEW t \in Ids, BackoffElapses(t) PROVE Durable'
  BY <1>4, <1>b DEF BackoffElapses, shutdown, file, counters
<1>5. CASE PersistOpen
  BY <1>5 DEF PersistOpen, memory, shutdown, counters, Durable
<1>6. CASE PersistWrite
  <2>1. /\ up /\ up' /\ tasks' = tasks /\ stop' = stop /\ faults' = faults
        /\ disk' = Whole(tasks) \/ clash
        /\ clash' = (clash /\ stop = "writing")
    BY <1>6 DEF PersistWrite, Release, Document, shutdown
  <2>2. Loaded(Whole(tasks)) = Recover(tasks)
    BY DEF Loaded, Whole
  <2>. QED
    BY <2>1, <2>2 DEF Durable
<1>7. CASE PersistError
  <2>1. up' /\ faults' = faults + 1
    BY <1>7 DEF PersistError, Release
  <2>. QED
    BY <1>0, <2>1 DEF Durable
<1>8. CASE Stopping /\ ~Exit
  <2>1. CASE StopRequested \/ JoinEnds \/ PoolDrained \/ FinalRead
    BY <1>b, <2>1 DEF StopRequested, JoinEnds, PoolDrained, FinalRead, memory, file, counters
  <2>2. CASE FinalOpen \/ FinalWrite \/ FinalError
    BY <2>2 DEF FinalOpen, FinalWrite, FinalError, Durable
  <2>. QED
    BY <1>8, <2>1, <2>2 DEF Stopping
<1>9. CASE Exit \/ Crash
  BY <1>9 DEF Exit, Crash, Halt, Durable
<1>10. CASE Restart
  <2>1. /\ tasks' = Loaded(disk) /\ disk' = disk /\ clash' = clash /\ ~up
    BY <1>10 DEF Restart, file
  <2>. QED
    BY <1>0, <2>1, RecoverTwice DEF Durable
<1>11. CASE UNCHANGED vars
  BY <1>11 DEF vars, memory, shutdown, file, counters, Durable
<1>. QED
  BY <1>1, <1>2, <1>3, <1>4, <1>5, <1>6, <1>7, <1>8, <1>9, <1>10, <1>11 DEF Next, Saving, Stopping

\* What a restart would load is what a client can see: whenever the lock is free
\* the file holds the table, as long as no save has failed.
THEOREM FileHoldsTable == Spec => []DurableWhenUnlocked
<1>1. Init => Durable
  BY DEF Init, Durable, Loaded, Whole
<1>2. Durable => DurableWhenUnlocked
  BY DEF Durable, DurableWhenUnlocked
<1>. QED
  BY <1>1, <1>2, DurableStep, AlwaysIInv, PTL DEF Spec

-----------------------------------------------------------------------------
\* A run begins only after its dispatch is in the file

Begun == {"body", "ok", "err"}
OnDisk(r) == disk.tasks[r[1]].status = "running" /\ disk.tasks[r[1]].attempt = r[2]

\* A dispatch that is not in the file yet is one of the pass that holds the
\* lock; once the pool is drained there is no run at all.
Dispatched ==
  /\ stop \in {"read", "open", "writing", "saved", "raised"} => \A r \in Runs : run[r] = "none"
  /\ faults = 0 /\ disk.whole => \A r \in Runs :
       run[r] \in Begun \/ (lock = Free /\ run[r] \in Unsettled) => OnDisk(r)

LEMMA DispatchedStep == IInv /\ Dispatched /\ [Next]_vars => Dispatched'
<1> SUFFICES ASSUME IInv, Dispatched, [Next]_vars PROVE Dispatched'
  OBVIOUS
<1> DEFINE Drained == stop \in {"read", "open", "writing", "saved", "raised"}
<1>0. /\ faults \in Nat /\ disk \in [whole : BOOLEAN, tasks : Table] /\ run \in [Runs -> Phase]
      /\ Begun \subseteq Unsettled
  BY DEF IInv, Sound, Begun, Unsettled
\* Steps that start no run and leave the file alone.
<1>a. ASSUME UNCHANGED <<disk, faults>>, lock' = Free => lock = Free, Drained' => Drained,
             \A r \in Runs : \/ run'[r] = run[r]
                             \/ run[r] # "none" /\ run'[r] \notin Unsettled
                             \/ run[r] \in Begun /\ run'[r] \in Unsettled
                             \/ run[r] \in Unsettled /\ run'[r] \in Begun /\ lock = Free
                             \/ lock' # Free /\ run'[r] = "pending" /\ ~Drained
      PROVE  Dispatched'
  <2>1. \A r \in Runs : OnDisk(r)' <=> OnDisk(r)
    BY <1>a DEF OnDisk
  <2>2. Drained' => \A r \in Runs : run'[r] = "none"
    BY <1>a DEF Dispatched, Begun, Unsettled
  <2>3. ASSUME faults = 0, disk.whole, NEW r \in Runs,
               run'[r] \in Begun \/ (lock' = Free /\ run'[r] \in Unsettled)
        PROVE  OnDisk(r)
    <3>1. "pending" \notin Begun
      BY DEF Begun
    <3>. QED
      BY <1>0, <1>a, <2>3, <3>1 DEF Dispatched
  <2>. QED
    BY <1>a, <2>1, <2>2, <2>3 DEF Dispatched
<1>1. CASE Request
  BY <1>1, <1>a DEF Request, SubmitTask, CancelTask, Acquire, Free, file, counters, shutdown, memory
<1>2. CASE Scheduler
  <2>1. CASE CheckShutdown
    BY <1>a, <2>1 DEF CheckShutdown, memory, shutdown, file, counters
  <2>2. CASE Tick
    <3>1. lock' # Free /\ UNCHANGED <<disk, faults, stop>>
      BY <2>2 DEF Tick, Acquire, Free, shutdown, file, counters
    <3>2. \A r \in Runs : run'[r] = run[r] \/ (run'[r] = "pending" /\ Chosen # {})
      BY <2>2 DEF Tick
    <3>3. Chosen # {} => ~Drained
      BY <2>2 DEF Tick, PoolClosed
    <3>. QED
      BY <1>a, <3>1, <3>2, <3>3
  <2>3. CASE TickRefused
    BY <1>a, <2>3 DEF TickRefused, shutdown, file, counters
  <2>. QED
    BY <1>2, <2>1, <2>2, <2>3 DEF Scheduler
<1>3. ASSUME NEW r \in Runs, Worker(r) PROVE Dispatched'
  <2>0. UNCHANGED <<disk, faults, stop>>
    BY <1>3 DEF Worker, ExecuteBegin, ActionEnds, Settle, ExecuteEnds, shutdown, file, counters
  <2>1. CASE ExecuteBegin(r)
    <3>1. /\ lock = Free /\ lock' = Free /\ run[r] = "pending"
          /\ \A q \in Runs : run'[q] = IF q = r THEN "body" ELSE run[q]
      BY <1>0, <2>1 DEF ExecuteBegin
    <3>. QED
      BY <1>a, <2>0, <3>1 DEF Begun, Unsettled
  <2>2. CASE ActionEnds(r)
    <3>1. PICK p \in {"ok", "err"} : run' = [run EXCEPT ![r] = p]
      BY <2>2 DEF ActionEnds
    <3>2. /\ lock' = lock /\ run[r] = "body"
          /\ \A q \in Runs : run'[q] = IF q = r THEN p ELSE run[q]
      BY <1>0, <2>2, <3>1 DEF ActionEnds
    <3>. QED
      BY <1>a, <2>0, <3>2 DEF Begun, Unsettled
  <2>3. CASE Settle(r)
    <3>1. /\ lock' # Free /\ run[r] # "none"
          /\ \A q \in Runs : run'[q] = IF q = r THEN "saving" ELSE run[q]
      BY <1>0, <2>3 DEF Settle, Acquire, Free
    <3>. QED
      BY <1>a, <2>0, <3>1 DEF Unsettled
  <2>4. CASE ExecuteEnds(r)
    <3>1. /\ lock' = lock /\ run[r] = "tail"
          /\ \A q \in Runs : run'[q] = IF q = r THEN "none" ELSE run[q]
      BY <1>0, <2>4 DEF ExecuteEnds
    <3>. QED
      BY <1>a, <2>0, <3>1 DEF Unsettled
  <2>. QED
    BY <1>3, <2>1, <2>2, <2>3, <2>4 DEF Worker
<1>4. ASSUME NEW t \in Ids, BackoffElapses(t) PROVE Dispatched'
  BY <1>4, <1>a DEF BackoffElapses, shutdown, file, counters
<1>5. CASE PersistOpen
  BY <1>5 DEF PersistOpen, memory, shutdown, counters, Dispatched, Torn
<1>6. ASSUME NEW p \in {"tail", "none"}, NEW s \in {"check", "dead"}, Release(p, s),
             faults' # 0 \/ disk' = Whole(tasks) \/ disk' = Torn
      PROVE  Dispatched'
  <2>1. stop' = stop /\ tasks' = tasks
    BY <1>6 DEF Release, shutdown
  <2>2. \A r \in Runs : run'[r] = run[r] \/ (run[r] = "saving" /\ run'[r] \notin Unsettled)
    BY <1>0, <1>6 DEF Release, IInv, Agreement, SaverIsSettled, Unsettled
  <2>3. ASSUME disk' = Whole(tasks), NEW r \in Runs, run'[r] \in Unsettled PROVE OnDisk(r)'
    BY <2>1, <2>2, <2>3 DEF IInv, Agreement, UnsettledRunIsCurrent, OnDisk, Whole
  <2>4. Drained' => \A r \in Runs : run'[r] = "none"
    BY <2>1, <2>2 DEF Dispatched
  <2>5. disk' = Torn => ~disk'.whole
    BY DEF Torn
  <2>. QED
    BY <1>0, <1>6, <2>3, <2>4, <2>5 DEF Dispatched
<1>7. CASE PersistWrite \/ PersistError
  <2>1. PersistError => faults' # 0
    BY <1>0 DEF PersistError
  <2>. QED
    BY <1>6, <1>7, <2>1 DEF PersistWrite, PersistError, Document
<1>8. CASE StopRequested \/ JoinEnds
  BY <1>8, <1>a DEF StopRequested, JoinEnds, memory, file, counters
<1>9. CASE PoolDrained \/ FinalRead \/ FinalOpen \/ FinalWrite \/ FinalError
  <2>1. (\A r \in Runs : run[r] = "none") /\ run' = run
    BY <1>9 DEF PoolDrained, PoolIdle, FinalRead, FinalOpen, FinalWrite, FinalError, Dispatched, memory
  <2>. QED
    BY <2>1 DEF Dispatched, Begun, Unsettled
<1>10. CASE Exit \/ Crash
  BY <1>10 DEF Exit, Crash, Halt, Dispatched, Begun, Unsettled
<1>11. CASE Restart
  BY <1>11 DEF Restart, IInv, Agreement, DownIsIdle, Dispatched, Begun, Unsettled
<1>12. CASE UNCHANGED vars
  BY <1>12, <1>a DEF vars, memory, shutdown, file, counters
<1>. QED
  BY <1>1, <1>2, <1>3, <1>4, <1>5, <1>7, <1>8, <1>9, <1>10, <1>11, <1>12 DEF Next, Saving, Stopping

\* An attempt is executed at most once, also across crashes: when its body
\* starts, a file that is whole says that it is running.
THEOREM StartsAreDurable == Spec => []StartedIsDurable
<1>1. Init => Dispatched
  BY DEF Init, Dispatched, Begun, Unsettled
<1>2. Dispatched => StartedIsDurable
  BY DEF Dispatched, StartedIsDurable, Begun, OnDisk
<1>. QED
  BY <1>1, <1>2, DispatchedStep, AlwaysIInv, PTL DEF Spec

-----------------------------------------------------------------------------
\* The last save

Closing == {"read", "open", "writing", "saved", "raised"}

\* Every running task has a run that will record its outcome.
Backed == \A t \in Ids : tasks[t].status = "running" =>
            tasks[t].attempt \in Attempts /\ run[<<t, tasks[t].attempt>>] \in Unsettled

\* Without late requests and expired joins stop() is alone when it makes the
\* last save: the scheduler has ended, no run is left, nobody holds the lock,
\* and the table is the one that stop() has read.
Orderly ==
  /\ lock.by = "nobody" => lock = Free
  /\ lock = Free => ~writing
  /\ ~clash
  /\ stop # "no" => lock.by \notin {"submit", "cancel"}
  /\ PoolClosed => sched \in {"exited", "dead"} /\ Backed
  /\ stop \in Closing => lock = Free /\ \A r \in Runs : run[r] = "none"
  /\ stop \in {"open", "writing"} => snap = tasks
  /\ stop = "saved" => disk = Whole(tasks)

LEMMA OrderlyInit == Init => Orderly
BY DEF Init, Orderly, Free, PoolClosed, Closing

\* A run that goes on within its unsettled phases, or one whose task it has
\* settled, leaves the other tasks backed.
LEMMA BackedWorker ==
  ASSUME IInv, Backed, NEW r \in Runs, Worker(r)
  PROVE  Backed'
<1>0. /\ r = <<r[1], r[2]>> /\ r[1] \in Ids /\ r[2] \in Attempts
      /\ run \in [Runs -> Phase] /\ tasks \in [Ids -> SoundTask]
  BY RunParts DEF IInv, Sound, Table
<1>1. CASE Settle(r)
  <2>1. run[r] \in Unsettled /\ \A q \in Runs : q # r => run'[q] = run[q]
    BY <1>0, <1>1 DEF Settle, Unsettled
  <2>2. tasks[r[1]].status = "running" /\ tasks[r[1]].attempt = r[2]
    BY <2>1 DEF IInv, Agreement, UnsettledRunIsCurrent
  <2>3. tasks'[r[1]].status # "running"
    <3>1. tasks[r[1]] \in SoundTask /\ run[r] \in Phase
      BY <1>0
    <3>2. tasks'[r[1]] = [tasks[r[1]] EXCEPT !.status = Outcome(tasks[r[1]], run[r])]
      BY <1>0, <1>1 DEF Settle
    <3>3. Outcome(tasks[r[1]], run[r]) \in {"cancelled", "succeeded", "retrying", "failed"}
      BY <3>1, OutcomeSound
    <3>4. tasks'[r[1]].status = Outcome(tasks[r[1]], run[r])
      BY <3>1, <3>2, <3>3, StatusChange DEF SoundTask, Status, Active, Waiting, Terminal
    <3>. QED
      BY <3>3, <3>4
  <2>4. \A u \in Ids : u # r[1] => tasks'[u] = tasks[u]
    BY <1>0, <1>1 DEF Settle
  <2> SUFFICES ASSUME NEW u \in Ids, tasks'[u].status = "running"
               PROVE  tasks'[u].attempt \in Attempts /\ run'[<<u, tasks'[u].attempt>>] \in Unsettled
    BY DEF Backed
  <2>5. u # r[1] /\ tasks'[u] = tasks[u]
    BY <2>3, <2>4
  <2>6. tasks[u].attempt \in Attempts /\ run[<<u, tasks[u].attempt>>] \in Unsettled
    BY <2>5 DEF Backed
  <2>7. <<u, tasks[u].attempt>> \in Runs /\ <<u, tasks[u].attempt>> # r
    BY <1>0, <2>5, <2>6 DEF Runs
  <2>. QED
    BY <2>1, <2>5, <2>6, <2>7
<1>2. ASSUME NEW p \in Phase, run' = [run EXCEPT ![r] = p], tasks' = tasks,
             run[r] \in Unsettled => p \in Unsettled
      PROVE  Backed'
  <2>1. \A q \in Runs : run[q] \in Unsettled => run'[q] \in Unsettled
    BY <1>0, <1>2
  <2> SUFFICES ASSUME NEW u \in Ids, tasks[u].status = "running"
               PROVE  tasks[u].attempt \in Attempts /\ run'[<<u, tasks[u].attempt>>] \in Unsettled
    BY <1>2 DEF Backed
  <2>2. tasks[u].attempt \in Attempts /\ run[<<u, tasks[u].attempt>>] \in Unsettled
    BY DEF Backed
  <2>3. <<u, tasks[u].attempt>> \in Runs
    BY <2>2 DEF Runs
  <2>. QED
    BY <2>1, <2>2, <2>3
<1>3. CASE ExecuteBegin(r)
  BY <1>2, <1>3 DEF ExecuteBegin, Phase, Unsettled
<1>4. CASE ActionEnds(r)
  <2>1. PICK p \in {"ok", "err"} : run' = [run EXCEPT ![r] = p]
    BY <1>4 DEF ActionEnds
  <2>. QED
    BY <1>2, <1>4, <2>1 DEF ActionEnds, Phase, Unsettled
<1>5. CASE ExecuteEnds(r)
  BY <1>2, <1>5 DEF ExecuteEnds, Phase, Unsettled
<1>. QED
  BY <1>1, <1>3, <1>4, <1>5 DEF Worker

LEMMA OrderlyStep ==
  ASSUME ~LateRequests, ~JoinTimeouts, IInv, Orderly, [Next]_vars
  PROVE  Orderly'
<1>0. /\ run \in [Runs -> Phase] /\ lock \in LockType
      /\ lock.by \in {"nobody", "submit", "cancel", "scheduler", "worker"}
  BY DEF IInv, Sound, LockType, Holders
<1>1. CASE Request
  <2>1. /\ stop = "no" /\ stop' = "no" /\ lock'.by \in {"submit", "cancel"} /\ lock' # Free
        /\ clash' = clash
    BY <1>1 DEF Request, SubmitTask, CancelTask, Acquire, Serving, Free, file, shutdown
  <2>. QED
    BY <2>1 DEF Orderly, PoolClosed, Closing
<1>2. CASE CheckShutdown
  <2>1. /\ sched' \in {"ready", "exited"} /\ sched = "check"
        /\ UNCHANGED <<tasks, run, lock, stop, snap, writing, clash, disk>>
    BY <1>2 DEF CheckShutdown, memory, shutdown, file
  <2>. QED
    BY <2>1 DEF Orderly, PoolClosed, Closing
<1>3. CASE Tick
  <2>1. /\ lock'.by = "scheduler" /\ lock' # Free /\ sched = "ready" /\ stop' = stop /\ clash' = clash
    BY <1>3 DEF Tick, Acquire, Free, shutdown, file
  <2>. QED
    BY <2>1 DEF Orderly, PoolClosed, Closing
<1>4. ~TickRefused
  BY DEF TickRefused, Orderly
<1>5. ASSUME NEW r \in Runs, Worker(r) PROVE Orderly'
  <2>1. /\ stop' = stop /\ snap' = snap /\ sched' = sched /\ UNCHANGED <<clash, disk, writing>>
    BY <1>5 DEF Worker, ExecuteBegin, ActionEnds, Settle, ExecuteEnds, shutdown, file
  <2>2. run[r] # "none"
    BY <1>5 DEF Worker, ExecuteBegin, ActionEnds, Settle, ExecuteEnds
  <2>3. stop \notin Closing
    BY <2>2 DEF Orderly
  <2>4. lock' = lock \/ (lock'.by = "worker" /\ lock' # Free)
    BY <1>5 DEF Worker, ExecuteBegin, ActionEnds, Settle, ExecuteEnds, Acquire, Free
  <2>5. Backed => Backed'
    BY <1>5, BackedWorker
  <2>. QED
    BY <2>1, <2>3, <2>4, <2>5 DEF Orderly, PoolClosed, Closing
<1>6. ASSUME NEW t \in Ids, BackoffElapses(t) PROVE Orderly'
  BY <1>6 DEF BackoffElapses, shutdown, file, Orderly, PoolClosed, Closing, Backed
<1>7. CASE PersistOpen
  <2>1. /\ UNCHANGED <<tasks, run, sched, lock, stop, snap>> /\ lock # Free
        /\ clash' = (clash \/ stop = "writing")
    BY <1>7 DEF PersistOpen, memory, shutdown
  <2>. QED
    BY <2>1 DEF Orderly, PoolClosed, Closing, Backed
<1>8. ASSUME NEW p \in {"tail", "none"}, NEW s \in {"check", "dead"}, Release(p, s),
             clash' = (clash /\ stop = "writing"), lock # Free
      PROVE  Orderly'
  <2>1. /\ UNCHANGED <<tasks, stop, snap>> /\ lock' = Free /\ ~writing' /\ ~clash'
        /\ stop \notin Closing
    BY <1>8 DEF Release, shutdown, Orderly
  <2>2. lock.by = "scheduler" => sched = "ready"
    BY DEF IInv, Agreement, SaverIsSettled
  <2>3. PoolClosed => sched' = sched
    BY <1>8, <2>2 DEF Release, Orderly
  <2>4. \A r \in Runs : run[r] \in Unsettled => run'[r] = run[r]
    BY <1>0, <1>8 DEF Release, IInv, Agreement, SaverIsSettled, Unsettled
  <2>5. Backed => Backed'
    <3> SUFFICES ASSUME Backed, NEW u \in Ids, tasks[u].status = "running"
                 PROVE  tasks[u].attempt \in Attempts /\ run'[<<u, tasks[u].attempt>>] \in Unsettled
      BY <2>1 DEF Backed
    <3>1. tasks[u].attempt \in Attempts /\ run[<<u, tasks[u].attempt>>] \in Unsettled
      BY DEF Backed
    <3>2. <<u, tasks[u].attempt>> \in Runs
      BY <3>1 DEF Runs
    <3>. QED
      BY <2>4, <3>1, <3>2
  <2>. QED
    BY <2>1, <2>3, <2>5 DEF Orderly, PoolClosed, Closing, Free
<1>9. CASE PersistWrite \/ PersistError
  <2>1. writing => lock # Free
    BY DEF Orderly
  <2>. QED
    BY <1>8, <1>9, <2>1 DEF PersistWrite, PersistError
<1>10. CASE StopRequested
  <2>1. /\ UNCHANGED <<tasks, run, sched, lock, snap, writing, clash, disk>> /\ stop' = "join"
        /\ lock.by \notin {"submit", "cancel"}
    BY <1>10 DEF StopRequested, memory, file
  <2>. QED
    BY <2>1 DEF Orderly, PoolClosed, Closing
<1>11. CASE JoinEnds
  <2>1. /\ UNCHANGED <<tasks, run, sched, lock, snap, writing, clash, disk>>
        /\ stop = "join" /\ stop' = "drain" /\ sched \in {"exited", "dead"}
    BY <1>11 DEF JoinEnds, memory, file
  <2>2. Backed
    BY <2>1 DEF IInv, Agreement, RunningIsBacked, PoolClosed, Backed
  <2>. QED
    BY <2>1, <2>2 DEF Orderly, PoolClosed, Closing, Backed
<1>12. CASE PoolDrained
  <2>1. /\ UNCHANGED <<tasks, run, sched, lock, snap, writing, clash, disk>>
        /\ stop = "drain" /\ stop' = "read" /\ \A r \in Runs : run[r] = "none"
    BY <1>12 DEF PoolDrained, PoolIdle, memory, file
  <2>2. lock = Free
    <3>1. lock.by # "worker" /\ lock.by # "scheduler"
      BY <2>1 DEF IInv, Agreement, SaverIsSettled, Orderly, PoolClosed
    <3>. QED
      BY <1>0, <2>1, <3>1 DEF Orderly
  <2>. QED
    BY <2>1, <2>2 DEF Orderly, PoolClosed, Closing, Backed
<1>13. CASE FinalRead
  <2>1. /\ UNCHANGED <<tasks, run, sched, lock, writing, clash, disk>>
        /\ stop = "read" /\ stop' = "open" /\ snap' = tasks
    BY <1>13 DEF FinalRead, memory, file
  <2>. QED
    BY <2>1 DEF Orderly, PoolClosed, Closing, Backed
<1>14. CASE FinalOpen
  <2>1. /\ UNCHANGED <<tasks, run, sched, lock, snap, writing>>
        /\ stop = "open" /\ stop' = "writing" /\ clash' = (clash \/ writing)
    BY <1>14 DEF FinalOpen, memory
  <2>. QED
    BY <2>1 DEF Orderly, PoolClosed, Closing, Backed
<1>15. CASE FinalWrite
  <2>1. /\ UNCHANGED <<tasks, run, sched, lock, snap, writing>>
        /\ stop = "writing" /\ stop' = "saved" /\ clash' = (clash /\ writing)
        /\ disk' = Whole(snap) \/ clash
    BY <1>15 DEF FinalWrite, memory
  <2>. QED
    BY <2>1 DEF Orderly, PoolClosed, Closing, Backed
<1>16. CASE FinalError
  <2>1. /\ UNCHANGED <<tasks, run, sched, lock, snap, writing>>
        /\ stop \in {"open", "writing"} /\ stop' = "raised" /\ clash' = (clash /\ writing)
    BY <1>16 DEF FinalError, memory
  <2>. QED
    BY <2>1 DEF Orderly, PoolClosed, Closing, Backed
<1>17. CASE Exit \/ Crash
  BY <1>17 DEF Exit, Crash, Halt, Orderly, PoolClosed, Closing, Free
<1>18. CASE Restart
  <2>1. UNCHANGED <<lock, stop, snap, writing, clash, disk>> /\ stop = "no"
    BY <1>18 DEF Restart, shutdown, file, IInv, Agreement, DownIsIdle
  <2>. QED
    BY <2>1 DEF Orderly, PoolClosed, Closing
<1>19. CASE UNCHANGED vars
  BY <1>19 DEF vars, memory, shutdown, file, Orderly, PoolClosed, Closing, Backed
<1>. QED
  BY <1>1, <1>2, <1>3, <1>4, <1>5, <1>6, <1>7, <1>9, <1>10, <1>11, <1>12, <1>13, <1>14, <1>15,
     <1>16, <1>17, <1>18, <1>19 DEF Next, Scheduler, Saving, Stopping

\* After an orderly stop the file is whole, holds the final table and no task
\* that was left running, also when earlier saves failed or the scheduler died.
THEOREM OrderlyStopsLoseNothing ==
  ASSUME ~LateRequests, ~JoinTimeouts
  PROVE  Spec => []OrderlyStopKeepsAll
<1>1. IInv /\ Orderly /\ [Next]_vars => Orderly'
  BY OrderlyStep
<1>2. Orderly => OrderlyStopKeepsAll
  <2> SUFFICES ASSUME Orderly, stop = "saved"
               PROVE  disk = Whole(tasks) /\ \A t \in Ids : tasks[t].status # "running"
    BY DEF OrderlyStopKeepsAll
  <2>1. Backed /\ \A r \in Runs : run[r] = "none"
    BY DEF Orderly, PoolClosed, Closing
  <2>2. ASSUME NEW t \in Ids, tasks[t].status = "running" PROVE FALSE
    <3>1. tasks[t].attempt \in Attempts /\ run[<<t, tasks[t].attempt>>] \in Unsettled
      BY <2>1, <2>2 DEF Backed
    <3>2. <<t, tasks[t].attempt>> \in Runs
      BY <3>1 DEF Runs
    <3>. QED
      BY <2>1, <3>1, <3>2 DEF Unsettled
  <2>. QED
    BY <2>2 DEF Orderly
<1>. QED
  BY <1>1, <1>2, OrderlyInit, AlwaysIInv, PTL DEF Spec

-----------------------------------------------------------------------------
\* The controller implements TaskService

\* The steps of TaskService from a table ts to a table us, with the operators
\* of the controller.
AcceptStep(ts, us) == \E t \in Ids, r \in 0 .. MaxRetries :
  /\ ts[t] = NoTask /\ Cardinality(ActiveIn(ts)) < MaxQueue
  /\ us = [ts EXCEPT ![t] = NewTask(r)]
CancelStep(ts, us) == \E t \in ActiveIn(ts) : us = [ts EXCEPT ![t] = Cancelled(ts[t])]
DispatchStep(ts, us) == \E S \in SUBSET {t \in Ids : ts[t].status \in Waiting} :
  /\ Cardinality(S) + Cardinality(RunningIn(ts)) <= WorkerCount
  /\ us = [t \in Ids |-> IF t \in S THEN Started(ts[t]) ELSE ts[t]]
ConcludeStep(ts, us) == \E t \in RunningIn(ts), p \in {"ok", "err"} :
  us = [ts EXCEPT ![t].status = Outcome(ts[t], p)]
Changes(ts, us) == AcceptStep(ts, us) \/ CancelStep(ts, us) \/ DispatchStep(ts, us) \/ ConcludeStep(ts, us)

\* The holder of the lock has made one such step that clients do not see yet;
\* nobody else changes the table behind their back.
Tracks == up => IF lock = Free THEN tasks = seen ELSE Changes(seen, tasks)

\* The copy of Cardinality that the instance brings in is the same operator.
LEMMA SameCardinality == \A S : Service!Cardinality(S) = Cardinality(S)
BY DEF Service!Cardinality, Cardinality

\* A task that is accepted is queued, without an attempt and not cancelled.
LEMMA AcceptIsAbstract ==
  ASSUME seen \in Table, AcceptStep(seen, seen')
  PROVE  Service!Next
<1>1. PICK t \in Ids, r \in 0 .. MaxRetries :
        /\ seen[t] = NoTask /\ Cardinality(ActiveIn(seen)) < MaxQueue
        /\ seen' = [seen EXCEPT ![t] = NewTask(r)]
  BY DEF AcceptStep
<1>2. Service!In({"queued", "retrying", "running"}) = ActiveIn(seen)
  BY DEF Service!In, ActiveIn, Active, Waiting
<1>3. seen[t].status = "absent"
  BY <1>1 DEF NoTask
<1>4. Service!Accept(t, r)
  BY <1>1, <1>2, <1>3, SameCardinality DEF Service!Accept, NewTask
<1>. QED
  BY <1>4 DEF Service!Next

LEMMA CancelIsAbstract ==
  ASSUME seen \in Table, CancelStep(seen, seen')
  PROVE  Service!Next
<1>1. PICK t \in ActiveIn(seen) : seen' = [seen EXCEPT ![t] = Cancelled(seen[t])]
  BY DEF CancelStep
<1>2. t \in Ids /\ seen \in [Ids -> Task]
  BY DEF ActiveIn, Table, SoundTask
<1>3. CASE seen[t].status \in Waiting
  <2>1. seen' = [seen EXCEPT ![t] = [seen[t] EXCEPT !.status = "cancelled"]]
    BY <1>1, <1>3 DEF Cancelled
  <2>2. seen' = [seen EXCEPT ![t].status = "cancelled"]
    BY <2>1
  <2>. QED
    BY <1>2, <1>3, <2>2 DEF Service!Next, Service!Cancel, Service!In, Service!Set, Waiting
<1>4. CASE seen[t].status \notin Waiting
  <2>1. seen[t].status = "running"
    BY <1>1, <1>4 DEF ActiveIn, Active
  <2>2. seen' = [seen EXCEPT ![t] = [seen[t] EXCEPT !.cancel = TRUE]]
    BY <1>1, <1>4 DEF Cancelled
  <2>3. seen' = [seen EXCEPT ![t].cancel = TRUE]
    BY <2>2
  <2>. QED
    BY <1>2, <2>1, <2>3 DEF Service!Next, Service!Cancel, Service!In
<1>. QED
  BY <1>3, <1>4

LEMMA DispatchIsAbstract ==
  ASSUME seen \in Table, DispatchStep(seen, seen')
  PROVE  Service!Next
<1>1. PICK S \in SUBSET {t \in Ids : seen[t].status \in Waiting} :
        /\ Cardinality(S) + Cardinality(RunningIn(seen)) <= WorkerCount
        /\ seen' = [t \in Ids |-> IF t \in S THEN Started(seen[t]) ELSE seen[t]]
  BY DEF DispatchStep
<1>2. Service!In({"running"}) = RunningIn(seen)
  BY DEF Service!In, RunningIn
<1>3. S \in SUBSET Service!In({"queued", "retrying"})
  BY DEF Service!In, Waiting
<1>4. \A t \in Ids : seen[t] \in Task /\ Started(seen[t]) = [seen[t] EXCEPT !.status = "running", !.attempt = @ + 1]
  BY DEF Table, SoundTask, Started
<1>5. seen' = [t \in Ids |-> IF t \in S
                 THEN [seen[t] EXCEPT !.status = "running", !.attempt = @ + 1] ELSE seen[t]]
  BY <1>1, <1>4, Zenon
<1>6. Service!Dispatch(S)
  BY <1>1, <1>2, <1>5, SameCardinality, Zenon DEF Service!Dispatch
<1>. QED
  BY <1>3, <1>6 DEF Service!Next

LEMMA ConcludeIsAbstract ==
  ASSUME seen \in Table, ConcludeStep(seen, seen')
  PROVE  Service!Next
<1>1. PICK t \in RunningIn(seen), p \in {"ok", "err"} : seen' = [seen EXCEPT ![t].status = Outcome(seen[t], p)]
  BY DEF ConcludeStep
<1>2. t \in Ids /\ t \in Service!In({"running"})
  BY DEF RunningIn, Service!In
<1>3. seen[t].attempt \in Nat /\ seen[t].retries \in Nat
  BY <1>2, HiveAssumption DEF Table, SoundTask, Task
<1>4. ASSUME seen[t].cancel PROVE Service!Conclude(t)
  BY <1>1, <1>2, <1>4 DEF Service!Conclude, Service!Set, Outcome
<1>5. ASSUME ~seen[t].cancel, p = "ok" PROVE Service!Conclude(t)
  BY <1>1, <1>2, <1>5 DEF Service!Conclude, Service!Set, Outcome
<1>6. ASSUME ~seen[t].cancel, p # "ok", seen[t].attempt <= seen[t].retries PROVE Service!Conclude(t)
  BY <1>1, <1>2, <1>6 DEF Service!Conclude, Service!Set, Outcome
<1>7. ASSUME ~seen[t].cancel, p # "ok", ~(seen[t].attempt <= seen[t].retries) PROVE Service!Conclude(t)
  BY <1>1, <1>2, <1>3, <1>7 DEF Service!Conclude, Service!Set, Outcome
<1>8. Service!Conclude(t)
  BY <1>4, <1>5, <1>6, <1>7
<1>. QED
  BY <1>2, <1>8 DEF Service!Next

LEMMA ChangeIsAbstract ==
  ASSUME seen \in Table, Changes(seen, seen')
  PROVE  Service!Next
BY AcceptIsAbstract, CancelIsAbstract, DispatchIsAbstract, ConcludeIsAbstract DEF Changes

\* What the scheduler dispatches in one pass fits the workers.
LEMMA TickChanges ==
  ASSUME IInv, WorkersFit, sched = "ready", NEW S \in SUBSET Chosen, tasks' = MarkRunning(S)
  PROVE  DispatchStep(tasks, tasks')
<1>1. /\ S \in SUBSET {t \in Ids : tasks[t].status \in Waiting}
      /\ S \in SUBSET Ids /\ Chosen \in SUBSET Ids /\ LiveFutures \in SUBSET Ids
      /\ RunningIn(tasks) \in SUBSET Ids /\ RunningIn(tasks) \in SUBSET LiveFutures
  BY RunningIsLive DEF Chosen, Runnable, LiveFutures, RunningIn
<1>2. /\ Cardinality(S) <= Cardinality(Chosen)
      /\ Cardinality(RunningIn(tasks)) <= Cardinality(LiveFutures)
  BY <1>1, Fewer
<1>3. /\ Cardinality(S) \in Nat /\ Cardinality(Chosen) \in Nat
      /\ Cardinality(RunningIn(tasks)) \in Nat /\ Cardinality(LiveFutures) \in Nat
  BY <1>1, SetsOfIds
<1>4. Cardinality(S) + Cardinality(RunningIn(tasks)) <= WorkerCount
  <2>1. CASE S = {}
    BY <1>3, <2>1, FS_EmptySet, HiveAssumption DEF WorkersFit
  <2>2. CASE S # {}
    BY <1>2, <1>3, <2>2, ChosenFit, HiveAssumption
  <2>. QED
    BY <2>1, <2>2
<1>. QED
  BY <1>1, <1>4 DEF DispatchStep, MarkRunning

\* Every locked section is one step of the service.
LEMMA SectionChanges ==
  ASSUME IInv, WorkersFit, Request \/ Tick \/ TickRefused \/ \E r \in Runs : Settle(r)
  PROVE  Changes(tasks, tasks')
<1>0. tasks \in [Ids -> Task] /\ issued \in 0 .. MaxTasks
  BY DEF IInv, Sound, Table, SoundTask
<1>1. ASSUME NEW r \in 0 .. MaxRetries, SubmitTask(r) PROVE AcceptStep(tasks, tasks')
  <2>1. issued + 1 \in Ids /\ issued + 1 > issued
    BY <1>0, <1>1, HiveAssumption DEF SubmitTask, Ids
  <2>2. tasks[issued + 1] = NoTask
    BY <2>1 DEF IInv, Agreement, NextIsFresh, Fresh
  <2>3. ActiveTasks = ActiveIn(tasks)
    BY DEF ActiveTasks, ActiveIn
  <2>. QED
    BY <1>1, <2>1, <2>2, <2>3 DEF SubmitTask, AcceptStep
<1>2. ASSUME NEW t \in Ids, CancelTask(t) PROVE CancelStep(tasks, tasks')
  <2>1. t \in ActiveIn(tasks)
    BY <1>2 DEF CancelTask, Cancellable, ActiveIn
  <2>. QED
    BY <1>2, <2>1 DEF CancelTask, CancelStep
<1>3. Tick => DispatchStep(tasks, tasks')
  BY TickChanges DEF Tick
<1>4. TickRefused => DispatchStep(tasks, tasks')
  <2> SUFFICES ASSUME TickRefused PROVE DispatchStep(tasks, tasks')
    OBVIOUS
  <2>1. PICK t \in Chosen : tasks' = MarkRunning({t})
    BY DEF TickRefused
  <2>2. {t} \in SUBSET Chosen /\ sched = "ready"
    BY DEF TickRefused
  <2>. QED
    BY <2>1, <2>2, TickChanges
<1>5. ASSUME NEW r \in Runs, Settle(r) PROVE ConcludeStep(tasks, tasks')
  <2>1. run[r] \in {"ok", "err"} /\ tasks' = [tasks EXCEPT ![r[1]].status = Outcome(tasks[r[1]], run[r])]
    BY <1>5 DEF Settle
  <2>2. r[1] \in RunningIn(tasks)
    BY <2>1, RunParts DEF IInv, Agreement, UnsettledRunIsCurrent, Unsettled, RunningIn
  <2>. QED
    BY <2>1, <2>2 DEF ConcludeStep
<1>. QED
  BY <1>1, <1>2, <1>3, <1>4, <1>5 DEF Request, Changes

LEMMA TracksStep ==
  ASSUME IInv, WorkersFit, Tracks, [Next]_vars
  PROVE  Tracks' /\ (up /\ up' => [Service!Next]_seen)
<1>0. seen \in Table /\ seen' \in Table
  BY SoundStep DEF IInv, Sound
<1>1. CASE Request \/ Tick \/ \E r \in Runs : Settle(r)
  <2>a. ASSUME NEW r \in 0 .. MaxRetries, SubmitTask(r) PROVE up /\ lock = Free /\ lock' # Free /\ seen' = seen
    BY <2>a DEF SubmitTask, Acquire, Free, clients
  <2>b. ASSUME NEW t \in Ids, CancelTask(t) PROVE up /\ lock = Free /\ lock' # Free /\ seen' = seen
    BY <2>b DEF CancelTask, Acquire, Free, clients
  <2>c. Tick => up /\ lock = Free /\ lock' # Free /\ seen' = seen
    BY DEF Tick, Acquire, Free, clients
  <2>d. ASSUME NEW r \in Runs, Settle(r) PROVE up /\ lock = Free /\ lock' # Free /\ seen' = seen
    BY <2>d DEF Settle, Acquire, Free, clients
  <2>1. up /\ lock = Free /\ lock' # Free /\ seen' = seen
    BY <1>1, <2>a, <2>b, <2>c, <2>d DEF Request
  <2>2. Changes(tasks, tasks')
    BY <1>1, SectionChanges
  <2>. QED
    BY <2>1, <2>2 DEF Tracks
<1>2. CASE TickRefused
  <2>1. up /\ lock = Free /\ lock' = Free /\ seen' = tasks'
    BY <1>2 DEF TickRefused
  <2>2. Changes(tasks, tasks')
    BY <1>2, SectionChanges
  <2>3. tasks = seen
    BY <2>1 DEF Tracks
  <2>. QED
    BY <1>0, <2>1, <2>2, <2>3, ChangeIsAbstract DEF Tracks
<1>3. CASE PersistWrite \/ PersistError
  <2>1. up /\ lock' = Free /\ seen' = tasks /\ tasks' = tasks
    BY <1>3 DEF PersistWrite, PersistError, Release
  <2>2. CASE lock = Free
    BY <2>1, <2>2 DEF Tracks
  <2>3. CASE lock # Free
    <3>1. Changes(seen, seen')
      BY <2>1, <2>3 DEF Tracks
    <3>. QED
      BY <1>0, <2>1, <3>1, ChangeIsAbstract DEF Tracks
  <2>. QED
    BY <2>2, <2>3
<1>4. CASE \/ CheckShutdown \/ PersistOpen \/ (Stopping /\ ~Exit)
           \/ \E r \in Runs : Worker(r) /\ ~Settle(r)
           \/ \E t \in Ids : BackoffElapses(t)
           \/ UNCHANGED vars
  <2>1. UNCHANGED <<up, tasks, lock, seen>>
    BY <1>4 DEF CheckShutdown, PersistOpen, Stopping, StopRequested, JoinEnds, PoolDrained, FinalRead,
       FinalOpen, FinalWrite, FinalError, Worker, ExecuteBegin, ActionEnds, ExecuteEnds, BackoffElapses,
       vars, memory, clients
  <2>. QED
    BY <2>1 DEF Tracks
<1>5. CASE Exit \/ Crash
  BY <1>5 DEF Exit, Crash, Halt, Tracks
<1>6. CASE Restart
  <2>1. ~up /\ lock' = lock /\ seen' = tasks'
    BY <1>6 DEF Restart
  <2>. QED
    BY <2>1 DEF IInv, Agreement, DownIsIdle, Tracks
<1>. QED
  BY <1>1, <1>2, <1>3, <1>4, <1>5, <1>6 DEF Next, Scheduler, Saving, Stopping

\* What a restart would load is what clients have seen, or nothing.
Saved == disk.whole => Recover(disk.tasks) = Recover(seen)

LEMMA SavedStep ==
  ASSUME MaxFaults = 0, ~LateRequests, ~JoinTimeouts, IInv, Orderly, Tracks, Saved, [Next]_vars
  PROVE  Saved' /\ (Restart => [Service!Next]_seen)
<1>0. disk \in [whole : BOOLEAN, tasks : Table] /\ faults \in Nat /\ seen \in Table
  BY DEF IInv, Sound
<1>1. CASE \/ Request \/ CheckShutdown \/ Tick \/ (\E r \in Runs : Worker(r))
           \/ (\E t \in Ids : BackoffElapses(t)) \/ Exit \/ Crash
           \/ StopRequested \/ JoinEnds \/ PoolDrained \/ FinalRead
           \/ UNCHANGED vars
  <2>1. disk' = disk /\ seen' = seen /\ (~Restart \/ seen' = seen)
    BY <1>1 DEF Request, SubmitTask, CancelTask, CheckShutdown, Tick, Worker, ExecuteBegin, ActionEnds,
       Settle, ExecuteEnds, BackoffElapses, Exit, Crash, Halt, StopRequested, JoinEnds, PoolDrained,
       FinalRead, vars, file, clients
  <2>. QED
    BY <2>1 DEF Saved
<1>2. ~TickRefused
  BY DEF TickRefused, Orderly
<1>3. CASE PersistOpen \/ FinalOpen
  <2>1. ~disk'.whole /\ up
    BY <1>3 DEF PersistOpen, FinalOpen, Torn
  <2>. QED
    BY <2>1 DEF Saved, Restart
<1>4. CASE PersistWrite
  <2>1. disk' = Whole(tasks) /\ seen' = tasks /\ up
    BY <1>4 DEF PersistWrite, Release, Document, Orderly
  <2>. QED
    BY <2>1 DEF Saved, Whole, Restart
<1>5. ~PersistError /\ ~FinalError
  BY <1>0 DEF PersistError, FinalError
<1>6. CASE FinalWrite
  <2>1. up /\ lock = Free /\ snap = tasks /\ disk' = Whole(snap) /\ seen' = seen
    BY <1>6 DEF FinalWrite, Orderly, Closing, clients
  <2>2. tasks = seen
    BY <2>1 DEF Tracks
  <2>. QED
    BY <2>1, <2>2 DEF Saved, Whole, Restart
<1>7. CASE Restart
  <2>1. disk' = disk /\ seen' = Loaded(disk)
    BY <1>7 DEF Restart, file
  <2>2. Saved'
    <3>1. ASSUME disk.whole PROVE Recover(disk.tasks) = Recover(seen')
      BY <1>0, <2>1, <3>1, RecoverTwice DEF Loaded
    <3>. QED
      BY <2>1, <3>1 DEF Saved
  <2>3. CASE disk.whole
    <3>1. seen' = Recover(seen)
      BY <2>1, <2>3 DEF Loaded, Saved
    <3>2. Service!Reload
      BY <3>1 DEF Service!Reload, Service!In, Recover, RecoverTask
    <3>. QED
      BY <2>2, <3>2 DEF Service!Next
  <2>4. CASE ~disk.whole
    <3>1. seen' = Service!Empty
      BY <2>1, <2>4 DEF Loaded, Nothing, NoTask, Service!Empty, Service!None
    <3>. QED
      BY <2>2, <3>1 DEF Service!Next, Service!Reload
  <2>. QED
    BY <2>3, <2>4
<1>. QED
  BY <1>1, <1>2, <1>3, <1>4, <1>5, <1>6, <1>7 DEF Next, Scheduler, Saving, Stopping

LEMMA AlwaysWorkersFit == Spec => []WorkersFit
<1>1. Init => WorkersFit
  <2>. SUFFICES ASSUME Init PROVE WorkersFit
    OBVIOUS
  <2>1. RunningIn(tasks) = {}
    BY DEF Init, RunningIn, Nothing, NoTask
  <2>. QED
    BY <2>1, FS_EmptySet, HiveAssumption DEF WorkersFit
<1>. QED
  BY <1>1, WorkersFitStep, AlwaysIInv, PTL DEF Spec

\* Whatever requests, passes, runs, failing saves and a closed pool interleave,
\* clients of a living controller see one operation of TaskService at a time.
THEOREM OneOperationAtATime == Spec => [][up /\ up' => [Service!Next]_seen]_vars
<1>1. Init => Tracks
  BY DEF Init, Tracks
<1>2. IInv /\ WorkersFit /\ Tracks /\ [Next]_vars => Tracks' /\ [up /\ up' => [Service!Next]_seen]_vars
  BY TracksStep
<1>. QED
  BY <1>1, <1>2, AlwaysIInv, AlwaysWorkersFit, PTL DEF Spec

\* The controller implements TaskService, crashes and restarts included, when no
\* save fails: a failed one would let a restart bring back an older table.
THEOREM ControllerImplementsService ==
  ASSUME MaxFaults = 0, ~LateRequests, ~JoinTimeouts
  PROVE  Spec => ImplementsService
<1>1. Init => Service!Init /\ Tracks /\ Saved
  BY DEF Init, Service!Init, Service!Empty, Service!None, Nothing, NoTask, Tracks, Saved, Whole
<1>2. IInv /\ WorkersFit /\ Orderly /\ Tracks /\ Saved /\ [Next]_vars =>
        Tracks' /\ Saved' /\ Orderly' /\ [Service!Next]_seen
  <2> SUFFICES ASSUME IInv, WorkersFit, Orderly, Tracks, Saved, [Next]_vars
               PROVE  Tracks' /\ Saved' /\ Orderly' /\ [Service!Next]_seen
    OBVIOUS
  <2>1. Tracks' /\ (up /\ up' => [Service!Next]_seen)
    BY TracksStep
  <2>2. Saved' /\ (Restart => [Service!Next]_seen)
    BY SavedStep
  <2>3. CASE ~(up /\ up') /\ ~Restart
    <3>a. Request => up /\ up'
      BY DEF Request, SubmitTask, CancelTask, Acquire
    <3>b. Scheduler => up /\ up'
      BY DEF Scheduler, CheckShutdown, Tick, TickRefused, Acquire
    <3>c. ASSUME NEW r \in Runs, Worker(r) PROVE up /\ up'
      BY <3>c DEF Worker, ExecuteBegin, ActionEnds, Settle, ExecuteEnds, Acquire
    <3>d. PersistOpen \/ PersistWrite => up /\ up'
      BY DEF PersistOpen, PersistWrite, Release
    <3>e. PersistError => up /\ up'
      BY DEF PersistError, Release
    <3>f. Stopping => (up /\ up') \/ Exit
      BY DEF Stopping, StopRequested, JoinEnds, PoolDrained, FinalRead, FinalOpen, FinalWrite, FinalError
    <3>1. Exit \/ Crash \/ (\E t \in Ids : BackoffElapses(t)) \/ UNCHANGED vars
      BY <2>3, <3>a, <3>b, <3>c, <3>d, <3>e, <3>f DEF Next, Saving
    <3>2. seen' = seen
      BY <3>1 DEF Exit, Crash, Halt, BackoffElapses, vars, clients
    <3>. QED
      BY <2>1, <2>2, <3>2, OrderlyStep
  <2>. QED
    BY <2>1, <2>2, <2>3, OrderlyStep
<1>. QED
  BY <1>1, <1>2, OrderlyInit, AlwaysIInv, AlwaysWorkersFit, PTL DEF Spec, ImplementsService, Service!Spec
=============================================================================
