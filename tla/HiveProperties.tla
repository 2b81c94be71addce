--------------------------- MODULE HiveProperties ---------------------------
(***************************************************************************)
(* What the hive controller must guarantee, stated over the state machine  *)
(* of module Hive.                                                         *)
(***************************************************************************)
EXTENDS Hive

\* Every variable stays in its type.
TypeOK ==
  /\ up \in BOOLEAN
  /\ tasks \in [Ids -> Task] /\ waiting \in SUBSET Ids
  /\ futures \in [Ids -> 0 .. MaxRetries + 1]
  /\ run \in [Runs -> Phase]
  /\ sched \in {"check", "ready", "exited", "dead", "off"}
  /\ lock \in [by : Holders, id : 0 .. MaxTasks, attempt : 0 .. MaxRetries + 1]
  /\ writing \in BOOLEAN /\ clash \in BOOLEAN
  /\ stop \in {"no", "join", "drain", "read", "open", "writing", "saved", "raised"}
  /\ snap \in [Ids -> Task]
  /\ disk \in [whole : BOOLEAN, tasks : [Ids -> Task]]
  /\ issued \in 0 .. MaxTasks
  /\ crashes \in Nat /\ stops \in Nat /\ faults \in Nat
  /\ seen \in [Ids -> Task] /\ acked \in SUBSET Ids /\ cancels \in SUBSET Ids

-----------------------------------------------------------------------------
\* Scheduling

\* A run that has not yet recorded its outcome is the task's current attempt,
\* the task is "running", and the scheduler still holds its future: no late
\* run of an earlier attempt can write into a task that was dispatched again.
UnsettledRunIsCurrent ==
  \A r \in Runs : run[r] \in Unsettled =>
     /\ tasks[r[1]].status = "running"
     /\ tasks[r[1]].attempt = r[2]
     /\ futures[r[1]] = r[2]

\* A task shown as "running" really has a run that will record its outcome, so
\* nothing is stuck in "running"; only a scheduler that died when the closed
\* pool refused its task leaves one behind.
RunningIsBacked ==
  ~PoolClosed \/ sched # "dead" => \A t \in Ids : tasks[t].status = "running" =>
     /\ tasks[t].attempt \in Attempts
     /\ run[<<t, tasks[t].attempt>>] \in Unsettled

\* One task is never executed by two runs at a time.
NoDoubleExecution ==
  \A r, q \in Runs : run[r] \in Unsettled /\ run[q] \in Unsettled /\ r[1] = q[1] => r = q

\* At most worker_count tasks are "running" at a time, whatever retries,
\* cancellations and audit records of earlier runs are in flight.
RunningBound == Cardinality({t \in Ids : tasks[t].status = "running"}) <= WorkerCount

\* The table never holds more than max_queue_size unfinished tasks, not even
\* after a restart has put recovered ones back.
QueueBound == Cardinality(ActiveTasks) <= MaxQueue

WithinBudget(k) == /\ k.attempt <= k.retries + 1
                   /\ k.status \in Waiting => k.attempt <= k.retries

\* A task is tried at most once more than its retry budget says, and is only
\* put back for a retry while budget is left; restarts grant no extra attempt.
AttemptBound == \A t \in Ids : WithinBudget(tasks[t])

\* A finished task is never touched again by the process that finished it.
FinishedStays ==
  [][\A t \in Ids : up /\ up' /\ tasks[t].status \in Terminal => tasks'[t] = tasks[t]]_vars

-----------------------------------------------------------------------------
\* Cancellation

\* A cancellation that was answered with success is never undone: the task
\* never succeeds and is never run again, also after a crash and restart.
CancelHonoured ==
  \A t \in cancels :
     \/ tasks[t].status \in {"absent", "cancelled", "failed"}
     \/ tasks[t].status = "running" /\ tasks[t].cancel

-----------------------------------------------------------------------------
\* The state file

\* What a restart would load is what a client can see: as long as no save has
\* failed, whenever the lock is free the file holds the table.
DurableWhenUnlocked ==
  (up /\ lock = Free /\ faults = 0 /\ stop \in {"no", "join"})
     => Loaded(disk) = Recover(tasks)

\* An attempt is executed at most once, also across crashes: by the time a body
\* starts the dispatch is in the file (the run must take the lock first), so a
\* restart fails the task instead of running the same attempt again.
StartedIsDurable ==
  \A r \in Runs : run[r] \in {"body", "ok", "err"} /\ disk.whole /\ faults = 0 =>
     /\ disk.tasks[r[1]].status = "running"
     /\ disk.tasks[r[1]].attempt = r[2]

\* After an orderly stop the file is whole, holds the final table, and no task
\* in it is left "running" to be failed by the next start.
OrderlyStopKeepsAll ==
  stop = "saved" => /\ disk = Whole(tasks)
                    /\ \A t \in Ids : tasks[t].status # "running"

\* Hardening checklist of README.md: "Persist and recover task state".  Every
\* submission answered with 201 is still known to the running controller.
AcceptedTasksRecovered == up => \A t \in acked : tasks[t].status # "absent"

-----------------------------------------------------------------------------
\* Refinement

\* The controller implements TaskService: what clients see under the lock
\* changes by one abstract operation at a time, through every interleaving of
\* threads and through every crash and restart.
Service == INSTANCE TaskService WITH table <- seen
ImplementsService == Service!Spec

-----------------------------------------------------------------------------
\* Liveness

\* The scheduler polls for ever and a thread that waits for the lock gets it:
\* threading.Lock is not fair, but the scheduler sleeps at least 10 ms between
\* two ticks and requests are finite.  Bodies end: sleeps last at most 30 s,
\* containers at most 300 s.
SchedulerStep == CheckShutdown \/ Tick
SaveStep      == PersistOpen \/ PersistWrite
StopStep      == JoinEnds \/ PoolDrained \/ FinalRead \/ FinalOpen \/ FinalWrite \/ Exit

Fairness ==
  /\ SF_vars(SchedulerStep) /\ WF_vars(SaveStep) /\ WF_vars(StopStep)
  /\ \A r \in Runs : SF_vars(Worker(r))
  /\ \A t \in Ids : WF_vars(BackoffElapses(t))

FairSpec == Spec /\ Fairness

\* Until the controller is stopped or dies every task that is in the table,
\* recovered ones included, is finished: no task waits for ever for a slot, a
\* retry or a worker.
EveryTaskFinishes ==
  \A t \in Ids :
    tasks[t].status \in Active ~> (tasks[t].status \in Terminal \/ stop # "no" \/ ~up)

\* A cancelled running task does not keep its slot: it ends up cancelled, also
\* when stop() is under way; only a crash comes first.
CancelTakesEffect ==
  \A t \in Ids :
    t \in cancels /\ tasks[t].status = "running" ~> (tasks[t].status = "cancelled" \/ ~up)

\* stop() returns: the scheduler, the pool and the last save never wait for
\* each other for ever.
StopReturns == stop = "join" ~> ~up
=============================================================================
