-------------------------------- MODULE Hive --------------------------------
(***************************************************************************)
(* The hive controller of freetalon/hive.py: the task table, the lock that *)
(* guards it, the scheduler thread, the thread pool, the state file, the   *)
(* shutdown sequence and the process that may crash at any step and be     *)
(* started again (cmd_serve in freetalon/cli.py).                          *)
(*                                                                         *)
(* A task is a number: uuids are never reused and the dict of tasks keeps  *)
(* the order of insertion, so the i-th accepted task is task i.  A payload *)
(* is reduced to its retry budget; what an action computes is reduced to   *)
(* whether it returns or raises.                                           *)
(*                                                                         *)
(* A definition whose name ends in _Bug is a slip the code could contain   *)
(* at that place; none is used by the specification.                       *)
(***************************************************************************)
EXTENDS Naturals, FiniteSets

CONSTANTS MaxTasks,     \* tasks ever accepted (a bound on the model)
          WorkerCount,  \* tuning.worker_count
          MaxQueue,     \* tuning.max_queue_size
          MaxRetries,   \* largest retry budget the sanitizer lets through
          MaxCrashes,   \* process crashes (a bound on the model)
          MaxStops,     \* SIGTERMs (a bound on the model)
          MaxFaults,    \* failing writes of the state file (a bound)
          LateRequests, \* may a request be in progress after server.stop()?
          JoinTimeouts  \* may join(timeout=3) return before the scheduler?

ASSUME HiveAssumption ==
  /\ MaxTasks \in Nat
  /\ WorkerCount \in Nat \ {0}
  /\ MaxQueue \in Nat \ {0}
  /\ MaxRetries \in Nat
  /\ MaxCrashes \in Nat /\ MaxStops \in Nat /\ MaxFaults \in Nat
  /\ LateRequests \in BOOLEAN /\ JoinTimeouts \in BOOLEAN

Ids      == 1 .. MaxTasks
Attempts == 1 .. MaxRetries + 1
Runs     == Ids \X Attempts        \* one call of _execute_task each

Waiting  == {"queued", "retrying"}
Active   == Waiting \union {"running"}
Terminal == {"succeeded", "failed", "cancelled"}
Status   == {"absent"} \union Active \union Terminal

Task   == [status : Status, attempt : 0 .. MaxRetries + 1,
           retries : 0 .. MaxRetries, cancel : BOOLEAN]
NoTask  == [status |-> "absent", attempt |-> 0, retries |-> 0, cancel |-> FALSE]
NewTask(r) == [status |-> "queued", attempt |-> 0, retries |-> r, cancel |-> FALSE]
Nothing == [t \in Ids |-> NoTask]

\* The body of a run executes between "pending" and the locked section that
\* records its outcome; "tail" is the audit call after it; "none" is a run
\* not submitted or over, so that fut.done() reads "none".
Unsettled == {"pending", "body", "ok", "err"}
Phase     == Unsettled \union {"saving", "tail", "none"}
OnThread  == Phase \ {"pending", "none"}

Holders == {"nobody", "submit", "cancel", "scheduler", "worker"}
Free    == [by |-> "nobody", id |-> 0, attempt |-> 0]

\* What a state file holds: a complete JSON document, or the prefix of one
\* that open("w") and an unfinished dump leave.
Torn      == [whole |-> FALSE, tasks |-> Nothing]
Whole(ts) == [whole |-> TRUE, tasks |-> ts]

VARIABLES up,       \* is the process running?
          tasks,    \* self._tasks
          waiting,  \* tasks whose next_run_at still lies in the future
          futures,  \* self._futures: the attempt each entry belongs to, or 0
          run,      \* phase of every _execute_task call
          sched,    \* the scheduler thread
          lock,     \* self._lock: who is inside a section that saves the state
          writing,  \* the lock holder has the state file open
          stop,     \* where HiveController.stop() is
          snap,     \* the tasks stop() has read for its last save
          clash,    \* two writers have had the state file open at once
          disk      \* the state file

\* Bookkeeping of the model and of what clients were told.
VARIABLES issued, crashes, stops, faults,
          seen,     \* the task table at the last release of the lock
          acked,    \* submissions answered with 201
          cancels   \* cancellations answered with 200

counters == <<issued, crashes, stops, faults>>
clients  == <<seen, acked, cancels>>
memory   == <<tasks, waiting, futures, run>>
shutdown == <<stop, snap>>
file     == <<writing, clash, disk>>
vars     == <<up, memory, sched, lock, shutdown, file, counters, clients>>

-----------------------------------------------------------------------------

\* _load_state: a task that was running is failed, a file that does not parse
\* leaves the table empty.
RecoverTask_Bug(k) == k
RecoverTask(k) == IF k.status = "running" THEN [k EXCEPT !.status = "failed"] ELSE k
Recover(ts)    == [t \in Ids |-> RecoverTask(ts[t])]
Loaded(d)      == IF d.whole THEN Recover(d.tasks) ELSE Nothing

Init ==
  /\ up = TRUE /\ sched = "check" /\ lock = Free
  /\ tasks = Nothing /\ waiting = {} /\ futures = [t \in Ids |-> 0]
  /\ run = [r \in Runs |-> "none"]
  /\ stop = "no" /\ snap = Nothing
  /\ writing = FALSE /\ clash = FALSE /\ disk = Whole(Nothing)
  /\ issued = 0 /\ crashes = 0 /\ stops = 0 /\ faults = 0
  /\ seen = Nothing /\ acked = {} /\ cancels = {}

PoolClosed == stop \notin {"no", "join"}
Serving    == up /\ (stop = "no" \/ LateRequests)

ActiveTasks_Bug == {t \in Ids : tasks[t].status \in Waiting}
ActiveTasks     == {t \in Ids : tasks[t].status \in Active}

\* The lock is free, and the caller takes it; the section ends in a save.
Acquire(by, t, a) ==
  /\ up /\ lock = Free
  /\ lock' = [by |-> by, id |-> t, attempt |-> a]

-----------------------------------------------------------------------------
\* Requests

\* An insertion while stop() iterates over the dict without the lock may make
\* that iteration raise RuntimeError.
SubmitTask(r) ==
  LET t == issued + 1 IN
  /\ Serving /\ issued < MaxTasks
  /\ Cardinality(ActiveTasks) < MaxQueue
  /\ Acquire("submit", t, 0)
  /\ tasks' = [tasks EXCEPT ![t] = NewTask(r)]
  /\ issued' = t
  /\ \/ stop' = stop
     \/ stop = "read" /\ stop' = "raised"
  /\ UNCHANGED <<up, waiting, futures, run, sched, snap, file, crashes, stops, faults, clients>>

Cancelled_Bug(k) == [k EXCEPT !.status = "cancelled"]
Cancelled(k) == IF k.status \in Waiting THEN [k EXCEPT !.status = "cancelled"]
                ELSE [k EXCEPT !.cancel = TRUE]

Cancellable_Bug(t) == tasks[t].status # "absent"
Cancellable(t)     == tasks[t].status \in Active

CancelTask(t) ==
  /\ Serving /\ Cancellable(t)
  /\ Acquire("cancel", t, 0)
  /\ tasks' = [tasks EXCEPT ![t] = Cancelled(@)]
  /\ UNCHANGED <<up, waiting, futures, run, sched, shutdown, file, counters, clients>>

-----------------------------------------------------------------------------
\* The scheduler thread

CheckShutdown_Bug ==
  /\ up /\ sched = "check" /\ sched' = "ready"
  /\ UNCHANGED <<up, memory, lock, shutdown, file, counters, clients>>

CheckShutdown ==
  /\ up /\ sched = "check"
  /\ sched' = IF stop = "no" THEN "ready" ELSE "exited"
  /\ UNCHANGED <<up, memory, lock, shutdown, file, counters, clients>>

LiveFutures_Bug == {t \in Ids : futures[t] # 0}
LiveFutures == {t \in Ids : futures[t] # 0 /\ run[<<t, futures[t]>>] # "none"}
Runnable == {t \in Ids : tasks[t].status \in Waiting /\ ~tasks[t].cancel /\ t \notin waiting}
Chosen_Bug == {t \in Runnable : Cardinality({u \in Runnable : u < t}) < WorkerCount}
Chosen == {t \in Runnable :
             Cardinality({u \in Runnable : u < t}) + Cardinality(LiveFutures) < WorkerCount}

Started_Bug(k) == [k EXCEPT !.attempt = @ + 1]
Started(k)     == [k EXCEPT !.status = "running", !.attempt = @ + 1]

MarkRunning(S) == [t \in Ids |-> IF t \in S THEN Started(tasks[t]) ELSE tasks[t]]

\* One pass of the loop: completed futures are dropped, the free slots are
\* filled in the order of insertion, then the state is saved.
Tick ==
  /\ sched = "ready"
  /\ ~PoolClosed \/ Chosen = {}
  /\ Acquire("scheduler", 0, 0)
  /\ tasks' = MarkRunning(Chosen)
  /\ futures' = [t \in Ids |-> IF t \in Chosen THEN tasks[t].attempt + 1
                               ELSE IF t \in LiveFutures THEN futures[t] ELSE 0]
  /\ run' = [r \in Runs |-> IF r[1] \in Chosen /\ r[2] = tasks[r[1]].attempt + 1
                              THEN "pending" ELSE run[r]]
  /\ UNCHANGED <<up, waiting, sched, shutdown, file, counters, clients>>

\* The pool has been shut down: submit() raises on the first chosen task, after
\* its status was changed; the thread ends, the state is not saved.
TickRefused ==
  /\ up /\ sched = "ready" /\ lock = Free
  /\ PoolClosed
  /\ \E t \in Chosen :
       /\ \A u \in Chosen : t <= u
       /\ tasks' = MarkRunning({t})
  /\ futures' = [t \in Ids |-> IF t \in LiveFutures THEN futures[t] ELSE 0]
  /\ seen' = tasks'
  /\ sched' = "dead"
  /\ UNCHANGED <<up, waiting, run, lock, shutdown, file, counters, acked, cancels>>

-----------------------------------------------------------------------------
\* The pool's threads: _execute_task

\* The pool's queue is FIFO; nothing here depends on which pending run is next.
BusyThreads == Cardinality({q \in Runs : run[q] \in OnThread})

ExecuteBegin_Bug(r) ==
  /\ up /\ run[r] = "pending" /\ BusyThreads < WorkerCount
  /\ run' = [run EXCEPT ![r] = "body"]
  /\ UNCHANGED <<up, tasks, waiting, futures, sched, lock, shutdown, file, counters, clients>>

ExecuteBegin(r) ==
  /\ up /\ run[r] = "pending" /\ lock = Free
  /\ BusyThreads < WorkerCount
  /\ run' = [run EXCEPT ![r] = "body"]
  /\ UNCHANGED <<up, tasks, waiting, futures, sched, lock, shutdown, file, counters, clients>>

ActionEnds(r) ==
  /\ up /\ run[r] = "body"
  /\ \E outcome \in {"ok", "err"} : run' = [run EXCEPT ![r] = outcome]
  /\ UNCHANGED <<up, tasks, waiting, futures, sched, lock, shutdown, file, counters, clients>>

RetryBeforeCancel_Bug(k, phase) ==
  IF phase = "err" /\ k.attempt <= k.retries THEN "retrying"
  ELSE IF k.cancel THEN "cancelled" ELSE IF phase = "ok" THEN "succeeded" ELSE "failed"
ExtraRetry_Bug(k, phase) ==
  IF k.cancel THEN "cancelled" ELSE IF phase = "ok" THEN "succeeded"
  ELSE IF k.attempt <= k.retries + 1 THEN "retrying" ELSE "failed"

Outcome(k, phase) ==
  IF k.cancel THEN "cancelled"
  ELSE IF phase = "ok" THEN "succeeded"
  ELSE IF k.attempt <= k.retries THEN "retrying"
  ELSE "failed"

\* The locked section that records the outcome.  backoff_seconds may be 0: the
\* next run may be due at once.
Settle(r) ==
  LET t == r[1] IN
  /\ run[r] \in {"ok", "err"}
  /\ Acquire("worker", t, r[2])
  /\ tasks' = [tasks EXCEPT ![t].status = Outcome(tasks[t], run[r])]
  /\ \/ waiting' = waiting
     \/ tasks'[t].status = "retrying" /\ waiting' = waiting \union {t}
  /\ run' = [run EXCEPT ![r] = "saving"]
  /\ UNCHANGED <<up, futures, sched, shutdown, file, counters, clients>>

ExecuteEnds(r) ==
  /\ up /\ run[r] = "tail"
  /\ run' = [run EXCEPT ![r] = "none"]
  /\ UNCHANGED <<up, tasks, waiting, futures, sched, lock, shutdown, file, counters, clients>>

BackoffElapses(t) ==
  /\ t \in waiting
  /\ waiting' = waiting \ {t}
  /\ UNCHANGED <<up, tasks, futures, run, sched, lock, shutdown, file, counters, clients>>

-----------------------------------------------------------------------------
\* _persist_state, called with the lock held by every section above

Document_Bug == Whole(seen)
Document     == Whole(tasks)

PersistOpen ==
  /\ up /\ lock # Free /\ ~writing
  /\ writing' = TRUE /\ clash' = (clash \/ stop = "writing")
  /\ disk' = Torn
  /\ UNCHANGED <<up, memory, sched, lock, shutdown, counters, clients>>

\* Where the thread that held the lock goes on; after(x) is the worker's phase.
Release(worker_phase, scheduler_state) ==
  /\ lock' = Free /\ writing' = FALSE
  /\ seen' = tasks
  /\ run' = IF lock.by = "worker"
              THEN [run EXCEPT ![<<lock.id, lock.attempt>>] = worker_phase] ELSE run
  /\ sched' = IF lock.by = "scheduler" THEN scheduler_state ELSE sched
  /\ UNCHANGED <<up, tasks, waiting, futures, shutdown, issued, crashes, stops>>

\* The dump is complete and the file closed.  If stop() has the file open too,
\* the last writer may leave the tail of the longer document behind its own.
PersistWrite ==
  /\ up /\ writing
  /\ \/ disk' = Document
     \/ clash /\ disk' = Torn
  /\ clash' = (clash /\ stop = "writing")
  /\ acked' = IF lock.by = "submit" THEN acked \union {lock.id} ELSE acked
  /\ cancels' = IF lock.by = "cancel" THEN cancels \union {lock.id} ELSE cancels
  /\ Release("tail", "check")
  /\ UNCHANGED faults

\* open() or write() raises OSError: nobody is answered, the scheduler thread
\* ends, a worker's call ends without its audit record.
PersistError ==
  /\ up /\ lock # Free /\ faults < MaxFaults
  /\ faults' = faults + 1
  /\ clash' = (clash /\ stop = "writing")
  /\ Release("none", "dead")
  /\ UNCHANGED <<disk, acked, cancels>>

-----------------------------------------------------------------------------
\* HiveController.stop() and the end of the process

\* server.stop(), then self._shutdown.set().  The server does not wait for the
\* requests it is still serving.
StopRequested ==
  /\ up /\ stop = "no" /\ stops < MaxStops
  /\ LateRequests \/ lock.by \notin {"submit", "cancel"}
  /\ stop' = "join" /\ stops' = stops + 1
  /\ UNCHANGED <<up, memory, sched, lock, snap, file, issued, crashes, faults, clients>>

JoinEnds ==
  /\ up /\ stop = "join"
  /\ sched \in {"exited", "dead"} \/ JoinTimeouts
  /\ stop' = "drain"
  /\ UNCHANGED <<up, memory, sched, lock, snap, file, counters, clients>>

\* shutdown(wait=True) waits for every submitted run, queued ones included.
PoolIdle_Bug == BusyThreads = 0
PoolIdle     == \A r \in Runs : run[r] = "none"

PoolDrained ==
  /\ up /\ stop = "drain" /\ PoolIdle
  /\ stop' = "read"
  /\ UNCHANGED <<up, memory, sched, lock, snap, file, counters, clients>>

\* The last save runs without the lock.
FinalRead ==
  /\ up /\ stop = "read"
  /\ stop' = "open" /\ snap' = tasks
  /\ UNCHANGED <<up, memory, sched, lock, file, counters, clients>>

FinalOpen ==
  /\ up /\ stop = "open"
  /\ stop' = "writing"
  /\ clash' = (clash \/ writing) /\ disk' = Torn
  /\ UNCHANGED <<up, memory, sched, lock, snap, writing, counters, clients>>

FinalWrite ==
  /\ up /\ stop = "writing"
  /\ stop' = "saved"
  /\ \/ disk' = Whole(snap)
     \/ clash /\ disk' = Torn
  /\ clash' = (clash /\ writing)
  /\ UNCHANGED <<up, memory, sched, lock, snap, writing, counters, clients>>

FinalError ==
  /\ up /\ stop \in {"open", "writing"} /\ faults < MaxFaults
  /\ stop' = "raised" /\ faults' = faults + 1
  /\ clash' = (clash /\ writing)
  /\ UNCHANGED <<up, memory, sched, lock, snap, writing, disk, issued, crashes, stops, clients>>

\* The process is gone, with its daemon threads wherever they are; the state
\* file stays as they left it.
Halt ==
  /\ up' = FALSE /\ sched' = "off" /\ lock' = Free
  /\ tasks' = Nothing /\ futures' = [t \in Ids |-> 0] /\ run' = [r \in Runs |-> "none"]
  /\ stop' = "no" /\ snap' = Nothing /\ writing' = FALSE /\ clash' = FALSE
  /\ UNCHANGED <<waiting, disk, issued, stops, faults, clients>>

Exit ==
  /\ up /\ stop \in {"saved", "raised"}
  /\ Halt
  /\ UNCHANGED crashes

Crash ==
  /\ up /\ crashes < MaxCrashes
  /\ crashes' = crashes + 1
  /\ Halt

\* A new process: HiveController.__init__ loads the state, start() starts the
\* scheduler.  next_run_at is wall-clock time and survives with its task.
Restart ==
  /\ ~up
  /\ up' = TRUE /\ sched' = "check"
  /\ tasks' = Loaded(disk) /\ seen' = tasks'
  /\ waiting' = {t \in waiting : tasks'[t].status = "retrying"}
  /\ UNCHANGED <<futures, run, lock, shutdown, file, counters, acked, cancels>>

-----------------------------------------------------------------------------

Request   == (\E r \in 0 .. MaxRetries : SubmitTask(r)) \/ (\E t \in Ids : CancelTask(t))
Scheduler == CheckShutdown \/ Tick \/ TickRefused
Worker(r) == ExecuteBegin(r) \/ ActionEnds(r) \/ Settle(r) \/ ExecuteEnds(r)
Saving    == PersistOpen \/ PersistWrite \/ PersistError
Stopping  == StopRequested \/ JoinEnds \/ PoolDrained \/ FinalRead \/ FinalOpen
             \/ FinalWrite \/ FinalError \/ Exit

Next ==
  \/ Request
  \/ Scheduler
  \/ \E r \in Runs : Worker(r)
  \/ \E t \in Ids : BackoffElapses(t)
  \/ Saving
  \/ Stopping
  \/ Crash \/ Restart

Spec == Init /\ [][Next]_vars
=============================================================================
