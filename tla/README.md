# FreeTalon: specifications, model checking and proofs

This directory specifies the stateful parts of FreeTalon in TLA+: the hive
controller with its docker tasks, its HTTP API and its command line; the plan
executor with the planner and the dashboard's message handler in front of it; the
claw orchestrator, the browser claw, and the approval gate of the network claw.
All are model-checked with TLC on small instances. Their safety, and that the hive
implements its abstract specification, is proved with TLAPS for every value of their
constants; liveness is model-checked only.
`PROJECT.json` lists runs, mutants, the source lines every definition stands for,
findings, hazards and theorems.

To check: `tlc -config hive_restart.cfg MC_Hive.tla`, `tlapm HiveProofs.tla`.

## 1. Inventory of the system

FreeTalon has two halves that share no state.

| component | state | operations | who touches it |
|---|---|---|---|
| **hive controller** `freetalon/hive.py` | `_tasks`, `_futures`, `_lock`, `_shutdown`, the pool, the JSON state file | `submit_task`, `cancel_task`, `status`, the scheduler loop, `_execute_task`, `_persist_state`, `_load_state`, `start`, `stop` | one thread per HTTP request, the scheduler thread, `worker_count` pool threads, the main thread in `stop()` |
| **hive HTTP API** `freetalon/api.py` | `_httpd` and its thread | routes requests to the controller; POST `/shutdown` stops the server | `ThreadingHTTPServer` with daemon threads |
| **command line** `freetalon/cli.py` | the pid file | `start`, `serve`, `stop`, `status` | several processes |
| **plan executor** `orchestrator/executor.py`, `state_store.py`, `models.py` | the plan row in SQLite, `_injection_counts`, one asyncio task per node in flight | `run`, `_execute_node`, `_inject_subdag`, `_handle_missing_capability` | asyncio tasks of one loop; other programs through the database |
| **planner** `orchestrator/planner.py` | none that outlives a call | builds a plan, normalises its DAG, twice | the dashboard |
| **tool registry and scaffolder** | the handler table; drafts below `generated/proposed_tools` | resolve, register, propose | the executor |
| **network claw gate** `orchestrator/claws/network.py` | approval, sanitised configuration, the audit log (`freetalon/audit.py`) | sanitise, render, approve, apply | executor handlers, an operator out of band |
| **claw orchestrator** `orchestrator.py` | containers, log threads and log queues under one lock | spawn, stop, kill all, drain logs, list | UI callbacks, one log thread per claw, docker |
| **browser claw** `claw_browser.py` | a command queue and one-place result queues | POST command, Playwright loop | HTTP threads, the Playwright thread |
| **docker manager** `freetalon/docker_manager.py` | containers | create, start, kill, remove | the hive's docker_claw body |
| **dashboard** `dashboard.py` | page state | chat, start a plan, poll claws | browser sessions |
| **resource limits, tuning** | none | clamping arithmetic | at start-up and spawn |
| configuration, security, intake, engines, mesh recon, bootstrap, installer, scripts | none that others share | validation, parsing, I/O | — |

Interaction: an HTTP thread calls the controller, which takes `_lock`; the
scheduler thread takes the same lock once per poll, marks tasks running and
submits them to the pool; a pool thread takes it before and after the body. All
of them rewrite the whole state file under the lock; `stop()` rewrites it
without. In the other half the dashboard saves a plan and runs an `Executor`,
which loads the plan from the store before every decision and starts all
runnable nodes as tasks behind a semaphore; a handler's outcome is written to a
freshly loaded plan, and a handler may ask for prerequisites, which a
`subdag_planner` adds to the plan. The dashboard also drives the claw orchestrator:
spawns, stops and the kill switch run in threads of their own, a timer lists the
claws and drains their log queues, and every container has a log thread. A
browser claw is itself a program with HTTP threads and one Playwright loop that
talk through a command queue.

What is hard there, and what makes each part correct:

* **Hive.** A task can be dispatched again while the earlier call of
  `_execute_task` is still in its audit call; a cancellation can arrive between
  the two locked sections of a run; the process can die between `open("w")` and
  the end of the dump; `join(timeout=3)` can return while the scheduler sleeps.
  Correct means: no task in two unsettled runs, worker and queue limits kept, no
  attempt beyond the budget, a finished task never touched, an answered
  cancellation never undone, file and table equal whenever the lock is free, no
  attempt executed twice across a crash, every task eventually finished, and
  `stop()` returning.
* **Executor.** Siblings settle out of order and write to one stored plan;
  injection rewires a DAG while it runs; a run may find a plan another one left
  half-way. Correct means: the plan stays a DAG, prerequisites are completed
  before a handler works, outcomes are final, a node stored as running is being
  handled, a run ends and has decided the plan.
* **Claws.** A container runs before it is in the table; the kill switch empties
  the table first and removes afterwards; listing looks at the containers
  outside the lock and drops tasks by id; a log thread finds or makes its queue
  without the lock; calls to the daemon fail, some after they took effect. Correct means:
  no running container unknown to the program but for such an error, a kill switch that has
  returned has worked, no log line lost.
* **Browser claw.** Both ends give up on a command that is still on the queue and
  will be executed; some commands have no bound. Correct means: an answer belongs to its command,
  every HTTP thread returns, a close ends the process unless it waits behind one of those.
* **Gate.** Calls overlap, sessions break with half of the lines sent, writes of
  the audit log fail, the process dies. Correct means: only what an operator
  confirmed reaches a device, and the log accounts for every device touched.
* **Docker task.** Deadline, cancellation, the end of the program and a daemon that
  raises meet in one loop, and all attempts share one container name. Correct
  means: nothing left behind, no result from a killed program, the task ends, and the
  limits asked for fit the host.
* **Planner and page.** A heap over in-degrees must reject exactly the malformed
  answers and keep their order where it can; the page must take the next message
  however the last one ended.
* **Process.** `start`, `stop`, signals, POST `/shutdown` and a pid file whose
  look-up, reading, removal and writing are separate steps. Correct means: one
  controller born by `start` at a time, reachable through the file; "stopped" is true; a
  signalled server ends.

## 2. Modules

| module | what it is |
|---|---|
| `Hive` | the hive as a state machine, one action per locked section, per step outside the lock, and per step of `stop()` |
| `HiveProperties` | its type invariant, safety, action and liveness properties, fairness |
| `TaskService` | what a client of the hive sees: a table changed by one operation at a time; `Hive` implements it |
| `MC_Hive` | the module TLC is given |
| `HiveProofs` | type, budget, agreement of tasks, runs and futures, finality; the two limits; cancellations, durability, and that `Hive` implements `TaskService` |
| `Executor` | the executor, its tasks, the stored plan, injection, crashes, foreign writes |
| `ExecutorProperties`, `MC_Executor` | its properties; its instances (with the symmetry of the executors) |
| `ExecutorProofs` | the plan stays a DAG, prerequisites, finality, decided returns, no orphaned node |
| `Pipeline`, `MC_Pipeline`, `PipelineProofs` | the page's message handler, intake, planner; a reference definition of the order; the drafts; that the planner agrees with the reference |
| `Claws`, `MC_Claws`, `ClawsProofs` | the claw orchestrator; its instances; table, kill switch and log lines |
| `BrowserClaw`, `MC_BrowserClaw`, `BrowserProofs` | the browser claw and its callers; whose answer it is |
| `Gate`, `MC_Gate`, `GateProofs` | the approval gate; payloads; approval and outcome on record |
| `DockerClaw`, `MC_DockerClaw` | a docker_claw task with all its attempts; hosts |
| `Limits` | the arithmetic of memory, CPU, workers and queue, used by `DockerClaw` |
| `DockerProofs` | nothing left behind, genuine results, limits on every host |
| `Lifecycle`, `MC_Lifecycle`, `LifecycleProofs` | server processes, the pid file, `start` and `stop`; the file names the one controller, "stopped" is true |

`DockerClaw` extends `Limits`, and the containers of its attempts are sized by it. The other
components meet through what one calls the other with: a body that returns or raises
(`Hive`, detailed in `DockerClaw`), a plan in the store (`Pipeline` ends where
`Executor.Send` begins), `controller.stop()` (`Lifecycle` relies on `StopReturns` of
`HiveProperties`), and a claw's container (`Claws` and `BrowserClaw`).

Operators ending in `_Bug` are slips the code might contain; no specification
uses them. They show that the property is not true of just any program: with the slip in
place of the original, TLC finds the property violated.

### How `Hive` corresponds to the code

* A task is the position of its insertion (uuids are never reused, dicts keep
  insertion order); of the record only status, attempt, retry budget and the
  cancel flag remain. A payload is its retry budget, an action's result is
  "returned" or "raised".
* `lock` is `_lock` while its holder is inside a section that ends in a save.
  `SubmitTask`, `CancelTask`, `Tick`, `Settle` change the table and keep the
  lock; `PersistOpen` truncates the file, `PersistWrite` completes it, records
  what the client is told and releases the lock; `PersistError` is an `OSError`
  of either and unwinds the holder. Between the two the process can crash:
  `disk` is then torn and `_load_state` starts with an empty table.
* `run[<<t, a>>]` is the call of `_execute_task` for attempt `a`: `pending` in
  the pool's queue, `body`, `ok`/`err`, `saving`, `tail` (the audit call after
  the lock was released), `none`. `futures[t]` is the attempt whose future the
  scheduler holds, so `fut.done()` is `run = "none"`. The code counts free slots from
  futures, not from running tasks, and the model does the same.
* `waiting` are the tasks whose `next_run_at` lies in the future. It is wall
  clock time, so it survives a restart.
* `stop` is where `HiveController.stop()` is: `join`, `drain`, then the unlocked
  save in three steps (`FinalRead`, `FinalOpen`, `FinalWrite`). With
  `LateRequests` a request may still be inside the controller after
  `server.stop()` (its threads are daemons nobody joins); an insertion during
  the unlocked read may raise `RuntimeError` in `stop()`. With `JoinTimeouts`
  the scheduler may outlive the join, and `TickRefused` is its tick on the
  closed pool.
* Two writers of the file at once (`clash`) leave the text of the last one or a
  document with a foreign tail, which does not parse.

Left out: failures of the audit log; the FIFO order inside the pool (more
interleavings than the code has); `start()` after `stop()` in one process, which `cmd_serve`
never does; heartbeats. The docker_claw body is `DockerClaw`'s.

### How `Executor` corresponds to the code

* Everything runs on one asyncio loop and the store is synchronous, so a step is
  the code between two awaits: `Pass` is one round of the loop of `run()`,
  `BeginNode` the start of `_execute_node` once the semaphore is free,
  `HandlerReturns`, `HandlerRaises`, `HandlerAsks` the code after the handler
  (a result, an exception, a `DependencyMissing` signal). `gather()` is the barrier
  `BatchOver`.
* A node is a number in order of appending; ids made by `_inject_subdag` are fresh,
  which is `LastId`. `Dags(k)` are the graphs the planner produces: in
  topological order. `READY` is never stored and behaves as `DRAFT`, so both are
  "draft".
* A sub-DAG is anything a `subdag_planner` may return (`SubDags`): the code checks none of
  its dependencies. Those among the sub-nodes (`own`) may be in a circle and are
  remapped; all others (`foreign`) are kept by `id_map.get(d, d)`, whether they name a node of the
  plan, the node that asks, or no node at all (`NoNode`, and the numbers not in use
  yet). The history variable `proper` says that every sub-DAG so far was a proper one
  (`IsProper`): free of circles, and outside itself on nodes that do not wait for the asking
  node. `PlanIsDag` is about these. What an improper one leads to is in the model:
  the plan may stall, and `ReturnsDecided` says how such a run ends. Ids of the sub-nodes
  are taken as distinct.
* An injection adds at most `MaxSub` nodes and fits into `MaxNodes`. In the code nothing
  bounds injections by injected nodes, since `_injection_counts` starts at 0 for a
  new id, so `RunEnds` makes no promise once the plan is `Full`.
* Which handler the registry finds is a free choice: found, missing with or
  without a scaffolder (`needs_tool`, `failed`), or an `OSError` of the
  scaffolder (`ScaffoldFaults`).
* `Run` is `run()` of the stored plan, `Send` is the dashboard's save of a
  new plan under the id its intent determines, followed by `run()`; with a `Planner` it does
  not replace a plan under an active run, as the dashboard gives its executors none. `Overlap`
  allows two runs of the plan at once (two pages, two programs). `Crash`
  ends every run and keeps the store; `External` cancels or deletes the row.

Left out: node inputs and results, texts of errors, failing saves of the store, and
the files of the scaffolder.

### How the other modules correspond to the code

* `Pipeline`. `at` is where `_send` is. A plan node is its id, its dependencies and its
  position in the answer, which stands for all other fields. `Check`, `Pop` and
  `Drained` are the checks, one turn of the loop, and the end of
  `normalize_plan_nodes`; it runs twice (`pass`), since the parser and
  `build_plan` both call it. The reference (`WellFormed`, `FirstOrder`) does not use
  in-degrees or a heap.
* `Claws`. The four spawn methods have the same shape; the map names one of them per
  step: `Started` (`containers.run` returned), `Register` (under the lock),
  `StartLogThread`, for a browser `BrowserReady`. `LogFindsQueue` and
  `LogStoresQueue` are the two halves of a `defaultdict` look-up without the lock.
  A call to the daemon fails with `APIError`, which the code expects (`DaemonError`), or with
  an error of the transport, which it does not and after which the daemon may have done its
  work (`TransportError`; `SpawnRaises` may leave a running container). `BrowserReady` may give
  up, which leaves the claw tracked (`unready`).
  `TakeOut` is the locked section of `kill_all` and `stop_claw`, `ForceRemove`
  the kill and remove with their swallowed errors, `RemoveRaises` the error that
  escapes them and ends the call; what it had still to remove is `LeftBehind`. `ListSnapshot`, `ListReload`, `ListPrune` are `list_claws`, `ListRaises` its abrupt end, and
  `DrainLine` and `DrainedTask` the page's loop over `drain_logs`.
* `BrowserClaw`. `slot[r]` is the one-place queue made for request r, `bus` is
  `_cmd_bus`, `loop` the main thread. A command is reduced to what the loop tells apart: `bounded` by
  a time the code fixes (navigate, click, type, screenshot, get_url, list_screenshots), `unbounded`
  (evaluate, scroll, get_text, and wait_for_selector, whose timeout is its caller's),
  unknown, a name that cannot be looked up, which ends the loop, and close.
* `Gate`. `Begin` is the sanitiser, `Render` and `Decide` the plan made anew by the handler and the
  comparison of its digest, `SendLine` one line of the session. A digest
  stands for the content it is made from. Every `Log` may fail. The audit entry of the
  operator's own `render_plan` is left out, as no property is about it.
* `DockerClaw`. `at` is where `_run_docker_claw` is; `CancelKill` holds the hive's
  lock as the code does; the daemon may raise at every call; `spoilt` records the attempts whose
  container docker failed to start or to remove. `holding` is what the attempt's manager has in its
  table.
* `Lifecycle`. `proc` is where `cmd_serve` is, `stopper` where each of the two
  threads in `HiveAPIServer.stop` is: every read of `_httpd` and `_thread` is a step, as
  the other thread may clear them in between. There is one workspace and every server is born
  by `start`: `serve` given as a command writes no pid file, and workspaces that share the
  default `--state-path` (`cli.py:239-240`) share a state file; neither is in the model, so
  `RunningIsNamed` does not say that a state file has one owner.

## 3. Runs

| run | instance | states | properties |
|---|---|---|---|
| `hive_schedule` | 3 tasks, 2 workers, queue 2, 1 retry | 1.4 M | `NoDoubleExecution`, `QueueBound`, `AttemptBound`, `FinishedStays` |
| `hive_faults` | 2 tasks, 1 worker, queue 2, 1 retry; one crash, stop and failing save each, late requests, expiring join | 2.1 M | `TypeOK`, `UnsettledRunIsCurrent`, `RunningIsBacked`, `RunningBound` |
| `hive_restart` | the same, one crash and one orderly stop, fair | 85 k | `CancelHonoured`, `DurableWhenUnlocked`, `StartedIsDurable`, `OrderlyStopKeepsAll`, `ImplementsService`, `EveryTaskFinishes`, `CancelTakesEffect`, `StopReturns` |
| `exec_plan` | 2 overlapping runs; 1 planned and up to 3 nodes, sub-DAGs of 1 with 1 foreign dependency, 1 injection per node, concurrency 1, fair | 129 k | `RunningIsHandled`, `RunEnds` |
| `exec_faults` | 2 runs one after the other, 2 planned and up to 3 nodes, sub-DAGs of 2 with 1 foreign dependency each, concurrency 2, scaffolder faults, one crash, one foreign write | 428 k | `PlanIsDag`, `PrerequisitesFirst`, `OutcomeStays`, `ReturnsDecided` |
| `claws_kill` | 2 tasks, 2 spawns of browser claws, 1 removal, 1 line, 1 error of either kind, starts that fail late, fresh ids | 2.5 M | `RunningIsKnown`, `KillSwitchComplete`, `LinesReachViewer` |
| `browser_bus` | 2 commands of any kind, fair | 11 k | `AnswerIsOwn`, `HandlersReturn`, `CloseEndsClaw` |
| `gate` | 2 calls, 11 payloads, 2 lines, 1 failing write of the log | 60 k | `OnlyConfirmedPushed`, `ApprovalOnRecord`, `OutcomeOnRecord` |
| `docker_claw` | 3 attempts, 2 daemon errors, 5 hosts, 3 profiles, fair | 117 k | `AttemptLeavesNothing`, `LimitsFit`, `ResultIsGenuine`, `TaskEnds` |
| `pipeline` | every answer of two nodes, every graph of three, of four without self dependencies, fair | 22.5 k | `PlanIsReference`, `PageComesBack` |
| `lifecycle` | 3 servers, one shell, fair | 150 k | `RunningIsNamed`, `StoppedIsDown`, `SignalledEnds` |
| `exec_crash` | the smallest instance that shows the finding, fair | 83 | `RunEnds`, violated (section 6) |

Why these bounds. *Hive:* two tasks on one worker already make one wait for a slot,
retry while the other runs, and be cancelled in every phase; three tasks on two
workers add a full queue and two runs in the pool at once. One retry gives two
attempts, enough for an old run to meet a new one. Each crash, stop
or fault is an event whose every position is explored. *Executor:* two planned nodes give siblings
in one batch and injection into a plan whose other node settles meanwhile; sub-DAGs of
two have an inner edge, two ends or a circle, one foreign dependency may name the asking node, a
sibling, an earlier injection or nothing; from one planned node a sub-DAG of
one leaves room for one nested injection before the plan is full. Two
runs one after the other give a plan found as another run left it, two at once one that polls for
the other's nodes. *Claws:* two claws are the
one a removal or a listing is about and the one spawned meanwhile; browser claws
have all the steps of the others; one error lets one claw of two fail, or ends a removal before the
second. *Browser:* a
command that timed out and the one after it. *Gate:* payloads on
both sides of each limit (ports 0, 1 to 65535, 65536; no, two, three lines), in pairs that differ in
one field; two calls share a device. *Docker:* three attempts show what the first
leaves for the next and the next for the last; the hosts sit at the limits of each
clamp (40 MiB to 256 GiB, 1 to 64 cores). *Pipeline:* four nodes allow
two ready nodes at different depths and ids that are not in order. *Lifecycle:* three processes are
one that ended, one that runs and one that is started; one shell, because two
concurrent `start`s do start two controllers (nothing excludes them before the port is bound).
What the bounds might hide from a safety property is covered by its proof (section 5); for
liveness the bounds are all there is.

Deadlock is checked in `hive_restart`, `hive_schedule`, `pipeline` and `lifecycle`. It is off where the
system really stops: a dead scheduler with every bound used up, a plan whose
runs are over, calls that have all returned.

### Fairness

*Hive.* The scheduler's steps and each run's steps are strongly fair, since they compete
for `_lock`. `threading.Lock` promises no order, but the scheduler
sleeps at least 10 ms (`config.py:121`) between two passes, requests are
finite and every section is short, so a thread that waits gets the lock. Bodies
end: sleeps are limited to 30 s, containers to 300 s. Saves and the
steps of `stop()` are weakly fair, as they run on their own thread. No
fairness is assumed of requests, SIGTERM, crashes or faults. `hive_restart` has no
failing save: with one the scheduler thread dies and tasks do stay queued.

*Executor.* asyncio resumes whatever is ready and its semaphore is first come
first served, hence strong fairness of `BeginNode`; handlers are assumed to
return, docker handlers by their timeout, others by contract.

*Browser claw.* Threads are scheduled, the timeouts of both ends elapse, and a command
to which the code sets a time ends. The others may
never end, so `CloseEndsClaw` excuses a close behind one; `HandlersReturn` does not need it.

*Docker task.* The body's thread runs, the clock reaches the deadline, and whoever
has the lock releases it; the body's check of the cancel flag competes for the
lock and is strongly fair, with the same reason as in the hive. The program need not end.

*Pipeline.* The handler goes on: the model's requests have timeouts, the loop of the
planner pops a node per turn, and a run ends or not as `Executor` says; here it ends.

*Lifecycle.* The threads of a process are scheduled, `cmd_serve` looks at its flag
every quarter of a second, and `controller.stop()` returns. Commands and signals owe nothing.

## 4. Abstract specification

`TaskService` has one variable, the table a client reads under the lock, and the
operations `Accept`, `Cancel`, `Dispatch`, `Conclude`, `Reload`. `Hive`
implements it through `table <- seen`, where `seen` is the table at the last
release of the lock. This says that all threads together look like a
sequence of single operations with their preconditions — including the worker
limit — and that a crash shows only as a `Reload` that fails the running tasks or, because the
file is rewritten in place, loses all. The refinement is checked by
`hive_restart` and proved by `ControllerImplementsService`, both without failing
saves and without the two ways in which `stop()` may save an older table: those
are real losses which no `Reload` explains (section 6). `OneOperationAtATime`
proves the part that needs no such restriction: every step of a living process
is one operation of `TaskService` or changes nothing a client sees.

## 5. Proofs

| module | theorem | property | assumes |
|---|---|---|---|
| `HiveProofs` | `TypeCorrect`, `BudgetsKept` | `TypeOK`, `AttemptBound` | |
| | `RunsAreCurrent`, `RunningTasksAreBacked`, `NeverTwice` | `UnsettledRunIsCurrent`, `RunningIsBacked`, `NoDoubleExecution` | |
| | `FinishedTasksStay` | `FinishedStays` | |
| | `QueueIsBounded`, `WorkersAreBounded` | `QueueBound`, `RunningBound` | |
| | `FileHoldsTable`, `StartsAreDurable` | `DurableWhenUnlocked`, `StartedIsDurable` | |
| | `CancelsAreHonoured` | `CancelHonoured` | `~LateRequests` |
| | `OrderlyStopsLoseNothing` | `OrderlyStopKeepsAll` | `~LateRequests`, `~JoinTimeouts` |
| | `OneOperationAtATime` | every step is one of `TaskService` | |
| | `ControllerImplementsService` | `ImplementsService` | the two, `MaxFaults = 0` |
| `ExecutorProofs` | `TypeCorrect`, `PlanStaysDag` | `TypeOK`, `PlanIsDag` | |
| | `PrerequisitesComeFirst`, `OutcomesStay` | `PrerequisitesFirst`, `OutcomeStays` | `~Overlap` |
| | `ReturnsAreDecided` | `ReturnsDecided` | `~Overlap` |
| | `RunningHandled` | `RunningIsHandled` | `~(Scaffolder /\ ScaffoldFaults)` |
| `PipelineProofs` | `TypeCorrect`, `PlansAreReference` | `TypeOK`, `PlanIsReference` | |
| `GateProofs` | `OnlyConfirmedIsPushed`, `ApprovalIsOnRecord`, `OutcomesAreOnRecord` | `OnlyConfirmedPushed`, `ApprovalOnRecord`, `OutcomeOnRecord` | |
| `ClawsProofs` | `RunningClawsAreKnown`, `KillSwitchWorks`, `LinesAreNotLost` | `RunningIsKnown`, `KillSwitchComplete`, `LinesReachViewer` | `~ReuseIds` |
| `BrowserProofs` | `AnswersAreOwn` | `AnswerIsOwn` | |
| `DockerProofs` | `AttemptsLeaveNothing`, `ResultsAreGenuine`, `LimitsAlwaysFit` | `AttemptLeavesNothing`, `ResultIsGenuine`, `LimitsFit` | |
| `LifecycleProofs` | `TypeCorrect` | `TypeOK` | |
| | `RunningServerIsNamed`, `StoppedServerIsDown` | `RunningIsNamed`, `StoppedIsDown` | `OneShell` |

No bound of the instances is used. All theorems assume what the modules assume of
their constants (`HiveAssumption`, `GateAssumption`, `DraftsAssumption`, ...: numbers of the
right sort, payloads and answers of the right shape). The last column names what some need besides:

* `~LateRequests`: no request is inside the controller when `stop()` makes its
  unlocked save; `~JoinTimeouts`: the scheduler's last pass ends within
  `join(timeout=3)`. Both hold of a server that is stopped at rest with a poll
  interval below three seconds, and `hive_late_loses` shows what happens
  otherwise. The two durability theorems and the limits need neither.
* `MaxFaults = 0`: no save fails. After one that does, the table and what clients saw
  of it differ, and a crash then loads an older one.
* `~Overlap`: one run of a plan at a time, as on one page, whose input is disabled while its plan
  runs; `exec_overlap` shows two handlers on one node with two.
* `~(Scaffolder /\ ScaffoldFaults)`: no `OSError` escapes from `propose()`; `exec_escape` shows one.
* `~ReuseIds`: a task id is used for one claw, as the dashboard proposes; `claws_respawn` shows an id used again.
* `OneShell`: commands are given one at a time; two `start`s at once do start two controllers.

Where an assumption is absent the theorem covers both values of the constant.

### The hive

The argument has layers, each an invariant that is inductive given the ones before:

1. `Sound`: types, with every task record in `tasks`, `snap`, `seen` and in the file
   within its budget. The copies are needed because a restart turns the file
   into the table and the last save turns `snap` into the file.
2. `Agreement`: tasks, runs and futures agree. "Every unsettled run is the current
   attempt of a running task" and "every running task has such a run" need each
   other: a dispatch is safe because a waiting task has no unsettled run, and the
   end of a run is safe because no other run of the task exists. They also need
   `SaverIsSettled` (which run a release of the lock moves on),
   `NextIsFresh` (a submission fills a place that is free in the table, in
   `snap` and in the file), and `DownIsIdle`. `IInv == Sound /\ Agreement`.
3. `QueuesFit`: the queue limit in all three tables. Only an acceptance makes a task
   active.
4. `WorkersFit`: the worker limit. The code counts futures; by layer 2 each running
   task holds its own live future (`RunningIsLive`), and the chosen tasks
   have ranks below the free slots, so by the last of them there are no more of
   them than slots (`LastTask`, `ChosenFit`).

5. `Durable`: with no save failed so far, the file holds the table except while
   the holder of the lock is between its change and its save, and while the file is torn.
   `Dispatched` adds that a run past its first locked section was saved as
   running; it must take the lock first, which the scheduler releases after its save.
6. `Pledged`: a task whose cancellation was answered is `Kept` (finished without success,
   or running with its flag set) in the table, in the file, and in
   what `stop()` is going to write. All three are needed, as a restart
   or the last save makes the others the table.
7. `Orderly`, `Backed`: once `stop()` has drained the pool no task is running and
   nobody can change the table, so the one it writes is the one it read.

`FinishedStays` is an action property: in each action the tasks that change are not
terminal, which for `Settle` follows from layer 2.

*The refinement.* The initial tables agree. In a step that releases the lock,
`seen` becomes the table its holder has made, and `Tracks` records which operation of
`TaskService` leads there from `seen`, guard included: a submission into a
free place of a queue below its limit, a dispatch of waiting tasks within the
free workers (`WorkersFit` again), an outcome the current attempt allows. All
other steps of a living process leave `seen` alone. A crash and the restart after it are
together one `Reload`, since `seen` then becomes `Loaded(disk)`; `Saved`
says that this is `seen` recovered, or nothing if the file is torn.

### The executor

`IInv` has five parts. `Sound` is the types and what each place of a run implies.
`OneRun` says that without `Overlap` at most one run is active. `PlanIsDag` is stated for
sets: every non-empty set of nodes has one that depends on none of the set. A proper
injection preserves it (`InjectedDag`): in a set with new nodes, take the
old ones that the sub-DAG may depend on, a set closed under dependency and without the asking node;
if there are any, one of them depends on none of the set, else the new node of least rank
does, or, if there are only old ones, one that the plan had already. `RankEnds` gives
the first and last node of a sub-DAG. `Ordered` has four parts: a node with a task is a node
of the plan (`Owned`); for runs that do not overlap, such a node has its
prerequisites completed (`Working`), completed nodes are closed under dependency (`Closed`), and,
with proper sub-DAGs, what was injected for a node is among its dependencies, direct or
not (`Reached`, without which `PrerequisitesFirst` would not follow for injected nodes:
an injected node leads to an end of its sub-DAG, and the asking node depends on all ends). They survive
an injection because the asking
node is running before it and a draft after it, never completed. `Begun` says that a run which goes on
has set the plan running. `OutcomeStays` and `ReturnsDecided` are action
properties on top: a step that changes a decided node is none of a
handler's, and a round that finds nothing to run and nothing in flight has a
failed node, or all are completed, because of the drafts of a DAG one depends on none of them
(`StalledIsDecided`); if the plan is no DAG, all others may be drafts that wait. `RunningHandled`
shows its property inductive with `IInv`,
overlapping runs included: only the step that starts a handler marks a node
running, and every way out of a handler marks it again.

### The planner

The loop over heap and in-degrees is an iteration over states, so a loop invariant
replaces induction over graphs. `Looping`: nothing is popped twice, what is popped
contains what it depends on (`Closed`), in-degrees count the dependencies not
popped yet, the heap is exactly what can go (`Free`), and every popped node was the
first of those that could go before it (`Takes`). `NextFree` shows that
counting down finds the nodes the popped one was the last to hold back.
If the heap runs dry early the nodes left over hold each other back, so the
answer has a circle (`StuckIsMalformed`); if all are popped, the first of any set of nodes in the
order depends on none of the set (`DrainedIsFirstOrder`). `Settles`
describes what the first pass stores; in the second pass the next node in line is always the first
that can go (`NextInLine`), hence it changes nothing and rejects nothing. Counting ids to
find duplicates is right by the pigeonhole principle (`RefusedIsUnclean`). The provers
know nothing of the community modules' `SortSeq`, so `Pipeline` defines `Sorted` by ranks,
and `SortedProperties` shows that it sorts.

### The gate

The invariant follows one call through its places. Before the gate it has touched
no device and has no denial on record (`CleanBefore`); it carries an approval the
operator gave, or none (`GivenApproval`); past the gate its configuration is
confirmed and its approval on record (`ClearedPast`), and so it stays for whatever has
touched a device (`ClearedTouched`). The one step that matters is `Decide`: a digest
that matches a confirmed plan's is that of this very configuration
(`ApprovedIsConfirmed`). The outcome needs a second invariant on top (`Recorded`):
nothing is sent before the session is open, and "sent" means every line.

### The claws

"A running container is known" is not inductive. It needs that ids are used once
(`OneEach`), that an entry belongs to its task and to a call past its registration
(`Entries`), and that a task marked stale stands for a container that is down
(`StaleAreDown`), so that dropping it by its id drops no other claw. `Owed`, which implies the
kill switch's property, then follows: what a press owes was known when it was pressed, and
what is taken out of the table is on the list of the call that took it, which is empty when the
call returns and kept when an error ends it (`Holders`). `Lines` is a
third invariant: a log thread holds the queue of its task or none (`Threading`), and
what it has passed on is counted once, on the screen or in that queue (`Counted`).

### The browser claw

What lies in a slot is an answer to the request the slot belongs to (`SlotsHold`), and what the
loop is about to put is one to the request it holds (`LoopHolds`).

### The docker task and the limits

Containers of earlier attempts are gone or excused (`OthersGone`); nobody but the body kills
the program, and after a kill it does not look at it again (`Untouched`). The
limits are arithmetic: one lemma per rounding or clamp (`DockerMemFacts`,
`MemoryFacts`, `QuotaFacts`, `WorkersFacts`).

### The process

`Sound`, for any number of shells, is the types and `Listens`: a socket is bound by a process that
is between its start and its end. With one shell, whatever is alive is `Known` (`OneAlive`): it
is nobody while `start` spawns, then the process it has spawned, and otherwise the one
the pid file names. The file is written and removed late, but no other command
can look at it in between. `NoFile` says that a `stop` which reported success has left no file.

### Only model-checked

All liveness properties (`EveryTaskFinishes`, `CancelTakesEffect`, `StopReturns`, `RunEnds`,
`HandlersReturn`, `CloseEndsClaw`, `TaskEnds`, `PageComesBack`, `SignalledEnds`):
TLAPS has no rules for fairness and `ENABLED` that its backends could use. Every
invariant and every action property of the runs is proved.

## 6. Findings

`PROJECT.json` lists the first. The others were found with configurations kept here and
are reproduced with `tlc -config <name>.cfg MC_<module>.tla`; each violates one property.

1. `exec_crash` (`MC_Executor`, `RunEnds`): a node left `running` by a crash is neither
   dispatched nor reset; the next run of the plan sleeps and polls for ever, though
   `state_store.py:3` speaks of recovering in-flight plans after a restart.
2. `hive_crash_loses` (`MC_Hive`): `_persist_state` truncates the state file in place
   (`hive.py:377`); a crash before the dump is complete leaves a document that
   `_load_state` silently ignores, and every accepted task is gone. README.md:205 has
   "[x] Persist and recover task state".
3. `hive_late_loses` (`MC_Hive`): no crash needed. `stop()` saves without the lock
   (`hive.py:89`); a request still in `submit_task` is saved and answered 201 and then
   overwritten by the older table.
4. `exec_escape` (`MC_Executor`): an `OSError` of the scaffolder is raised inside an
   `except` clause of `_execute_node`, passes the sibling `except Exception`, and is swallowed by
   `gather()`; the docstring says all exceptions are recorded as node failures.
5. `exec_overlap` (`MC_Executor`): the "race guard" lets a node that another run has
   marked running pass, so two runs of a plan execute one node together.
6. `claws_respawn` (`MC_Claws`): when a task id is used again, `list_claws`
   may drop the new claw for the sake of the old one, and the kill switch no
   longer reaches it. The dashboard proposes a fresh id, which the operator may overwrite.
7. `exec_stall` (`MC_Executor`, `StallsRaise`): a sub-node may depend on the node that asks or on an
   id nobody has; the plan then stalls and `run()` returns it as "running", where its
   docstring (`executor.py:172-174`) has `ExecutorError` raised "if no progress can be
   made (cyclic / unfulfillable dependencies)".
8. `claws_abort` (`MC_Claws`, `PressingAgainHelps`): `kill_all` empties the table first; an error
   other than `APIError` for one container (a timeout of the daemon) ends its loop, and
   the kill switch, pressed again, finds nothing to remove while the others run.
9. `gate_replay` (`MC_Gate`): an approval is a digest of the content and is not used up,
   so one confirmation serves any number of calls; the module's docstring says
   nothing is pushed "without explicit per-change human confirmation".

Behaviour seen while modelling and not counted: the status of a plan cancelled from
outside is overwritten by the one derived from its nodes (`ReturnsDecided`
exempts it; no document says which should win); nested injections are bounded per
node only, so nodes that ask in turn grow the plan without end (`RunEnds` exempts a full plan); a
container whose start fails after it took effect runs untracked (`RunningIsKnown` exempts it); POST `/shutdown` stops the API and leaves the process
and its controller running; the two threads in `HiveAPIServer.stop` can trip over each
other, and then `controller.stop()` and the removal of the pid file are skipped; a second server starts its
controller before it learns that the port is taken; a docker container that was created and
did not start keeps its name, and every retry fails on it; a crash of the hive leaves the
container of a running task behind; a failing `save` of the plan leaves the page's input disabled.

## 7. Not modelled, and the plan

Not modelled, because they keep no state that steps of several actors share: configuration and
sanitizers (field validation; the bounds appear as constants), engines
(stubs that raise), mesh recon (parses the output of commands), bootstrap, installer, scripts,
prompts, page layout, the files a scaffolder drafts, the detection of GPUs.

Left out of modelled parts: node inputs and results; failing saves of the plan
store; failures of the hive's audit log; heartbeats; the reuse of process ids; commands of the
shell that die half-way; docker networks; what a browser command does to its page.

Next: failing saves of the plan store in `Executor`, with what then remains of
`RunningIsHandled`; heartbeats in `Hive`; which of the executor's theorems survive
overlapping runs.
