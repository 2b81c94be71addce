-------------------------------- MODULE Claws --------------------------------
(***************************************************************************)
(* The claw orchestrator of src/orchestrator.py: the table of tracked      *)
(* containers and the lock that guards it, the calls that spawn and remove *)
(* containers in threads of their own, the log thread of every container,  *)
(* and the dashboard's timer that lists the claws and drains their logs.   *)
(*                                                                         *)
(* The s-th spawn call creates at most one container, and its log thread   *)
(* at most one queue: both are called s.  Log lines are the id of the      *)
(* container that wrote them.  The networks (created when missing, removed *)
(* on a best-effort basis by cleanup_network) and _log_threads, which is   *)
(* written but never read, are left out.                                   *)
(*                                                                         *)
(* A call to the daemon fails in one of two ways: with APIError, which the *)
(* orchestrator expects, or with an error of the transport (a timeout, a   *)
(* lost connection), which it does not; after the latter the daemon may    *)
(* have done what it was asked to.                                         *)
(***************************************************************************)
EXTENDS Naturals, Sequences, FiniteSets

CONSTANTS Tasks,      \* task ids
          Kinds,      \* container kinds: the prefix of the container's name
          MaxSpawns,  \* spawn calls (a bound on the model)
          Removers,   \* calls of kill_all and stop_claw (a bound)
          MaxLines,   \* lines a container writes (a bound)
          MaxErrors,  \* daemon calls of a removal or a listing that fail (a bound)
          ReuseIds    \* may a task id be used again once its spawn has returned?

ASSUME ClawsAssumption ==
  /\ Kinds \subseteq {"claw", "browser", "media", "upload"}
  /\ MaxSpawns \in Nat /\ MaxLines \in Nat /\ MaxErrors \in Nat
  /\ ReuseIds \in BOOLEAN

Spawns == 1 .. MaxSpawns
None   == 0
NoTask == "no task"

VARIABLES spawn,    \* spawn calls: where each one is, its task and kind
          ctr,      \* the docker daemon: state of each container
          table,    \* self._containers: the container tracked for a task
          queues,   \* self._log_queues: the queue a task's lines are read from
          content,  \* the lines in each queue object
          log,      \* log threads: phase and the queue each one holds
          remover,  \* calls that remove: phase and containers left to remove
          lister,   \* the dashboard's timer inside list_claws and drain_logs
          written, shown, \* lines written by, and shown of, each container
          errors, failed  \* errors so far, and the containers APIError hit

daemon == <<errors, failed>>
logs   == <<queues, content, log, written, shown>>
vars   == <<spawn, ctr, table, logs, remover, lister, daemon>>

IdleSpawn  == [at |-> "idle", task |-> NoTask, kind |-> "claw"]
IdleLister == [at |-> "idle", todo |-> {}, listed |-> {}, stale |-> {}]

Init ==
  /\ spawn = [s \in Spawns |-> IdleSpawn]
  /\ ctr = [s \in Spawns |-> "none"]
  /\ table = [t \in Tasks |-> None] /\ queues = [t \in Tasks |-> None]
  /\ content = [s \in Spawns |-> <<>>]
  /\ log = [s \in Spawns |-> [at |-> "none", queue |-> None]]
  /\ remover = [r \in Removers |-> [at |-> "idle", todo |-> {}, owed |-> {}]]
  /\ lister = IdleLister
  /\ written = [s \in Spawns |-> 0] /\ shown = [s \in Spawns |-> 0]
  /\ errors = 0 /\ failed = {}

TaskOf(s) == spawn[s].task
Goto(s, place) == spawn' = [spawn EXCEPT ![s].at = place]
DaemonError(s) == errors < MaxErrors /\ errors' = errors + 1 /\ failed' = failed \union {s}
TransportError == errors < MaxErrors /\ errors' = errors + 1 /\ UNCHANGED failed

-----------------------------------------------------------------------------
\* Spawning: spawn_claw, spawn_browser_claw, spawn_media_claw, spawn_upload_claw

Fresh(t) == \A u \in Spawns :
  TaskOf(u) = t => ReuseIds /\ spawn[u].at \in {"returned", "raised", "unready"}

CallSpawn(s, t, kind) ==
  /\ spawn[s].at = "idle" /\ \A u \in Spawns : u < s => spawn[u].at # "idle"
  /\ Fresh(t)
  /\ spawn' = [spawn EXCEPT ![s] = [at |-> "run", task |-> t, kind |-> kind]]
  /\ UNCHANGED <<ctr, table, logs, remover, lister, daemon>>

\* Docker gives a name to one container at a time, whatever its state.
NameFree(s) == \A u \in Spawns :
  TaskOf(u) = TaskOf(s) /\ spawn[u].kind = spawn[s].kind => ctr[u] \in {"none", "gone"}

Started(s) ==
  /\ spawn[s].at = "run" /\ NameFree(s)
  /\ ctr' = [ctr EXCEPT ![s] = "running"]
  /\ Goto(s, "register")
  /\ UNCHANGED <<table, logs, remover, lister, daemon>>

\* The path is refused, the image or the name is refused, the container is
\* created and does not start, or it starts and the answer of the daemon is lost:
\* the call raises with nothing registered.
SpawnRaises(s) ==
  /\ spawn[s].at = "run"
  /\ \/ ctr' = ctr
     \/ NameFree(s) /\ \E state \in {"created", "running"} : ctr' = [ctr EXCEPT ![s] = state]
  /\ Goto(s, "raised")
  /\ UNCHANGED <<table, logs, remover, lister, daemon>>

Register(s) ==
  /\ spawn[s].at = "register"
  /\ table' = [table EXCEPT ![TaskOf(s)] = s]
  /\ Goto(s, "thread")
  /\ UNCHANGED <<ctr, logs, remover, lister, daemon>>

\* A browser claw is returned only once its server answers.
StartLogThread(s) ==
  /\ spawn[s].at = "thread"
  /\ log' = [log EXCEPT ![s].at = "starting"]
  /\ Goto(s, IF spawn[s].kind = "browser" THEN "ready" ELSE "returned")
  /\ UNCHANGED <<ctr, table, queues, content, written, shown, remover, lister, daemon>>

\* The server is looked for through the table, under the task's id.
Reachable(t) == table[t] # None /\ ctr[table[t]] = "running"
BrowserReady(s) ==
  /\ spawn[s].at = "ready"
  /\ \/ Reachable(TaskOf(s)) /\ Goto(s, "returned")
     \/ Goto(s, "unready")  \* raises, not ready in time; the claw stays tracked
  /\ UNCHANGED <<ctr, table, logs, remover, lister, daemon>>

-----------------------------------------------------------------------------
\* The log thread: _stream_logs

\* The queue is looked up once, without the lock; defaultdict builds a missing
\* one first and stores it afterwards.
LogFindsQueue(s) ==
  LET q == queues[TaskOf(s)] IN
  /\ log[s].at = "starting"
  /\ log' = [log EXCEPT ![s] = IF q = None THEN [at |-> "creating", queue |-> None]
                               ELSE [at |-> "streaming", queue |-> q]]
  /\ UNCHANGED <<spawn, ctr, table, queues, content, written, shown, remover, lister, daemon>>

LogStoresQueue_Bug(s) ==
  /\ log[s].at = "creating"
  /\ log' = [log EXCEPT ![s] = [at |-> "streaming", queue |-> s]]
  /\ UNCHANGED <<spawn, ctr, table, queues, content, written, shown, remover, lister, daemon>>

LogStoresQueue(s) ==
  /\ log[s].at = "creating"
  /\ queues' = [queues EXCEPT ![TaskOf(s)] = s]
  /\ log' = [log EXCEPT ![s] = [at |-> "streaming", queue |-> s]]
  /\ UNCHANGED <<spawn, ctr, table, content, written, shown, remover, lister, daemon>>

\* The stream delivers what a container wrote even after it has stopped; the
\* end of the thread changes nothing.
LogLine(s) ==
  /\ log[s].at = "streaming" /\ written[s] < MaxLines
  /\ content' = [content EXCEPT ![log[s].queue] = Append(@, s)]
  /\ written' = [written EXCEPT ![s] = @ + 1]
  /\ UNCHANGED <<spawn, ctr, table, queues, log, shown, remover, lister, daemon>>

-----------------------------------------------------------------------------
\* Removing: kill_all and stop_claw

Tracked == {table[t] : t \in Tasks} \ {None}

Clear(f, S) == [t \in Tasks |-> IF t \in S THEN None ELSE f[t]]

\* One locked section takes the entries of S out of the table; owed is what
\* the caller may expect to be gone when the call returns.
TakeOut(r, S, owed) ==
  /\ remover[r].at = "idle"
  /\ remover' = [remover EXCEPT ![r] = [at |-> "removing", owed |-> owed,
                                        todo |-> {table[t] : t \in S} \ {None}]]
  /\ table' = Clear(table, S)
  /\ queues' = Clear(queues, S)
  /\ UNCHANGED <<spawn, ctr, content, log, written, shown, lister, daemon>>

Returned == {s \in Spawns : spawn[s].at = "returned"}
KillAll(r)     == TakeOut(r, Tasks, Returned)
StopClaw(r, t) == TakeOut(r, {t}, {table[t]} \ {None})

\* _force_remove: kill(), then remove(force=True); each may raise APIError,
\* which is swallowed.  A kill of a container that does not run raises too.
Removes(r, s) == remover[r].at = "removing" /\ s \in remover[r].todo

ForceRemove_Bug(r, s) ==
  /\ Removes(r, s)
  /\ \/ ctr' = [ctr EXCEPT ![s] = "gone"] /\ UNCHANGED daemon
        /\ remover' = [remover EXCEPT ![r].todo = @ \ {s}]
     \/ DaemonError(s) /\ ctr' = ctr
        /\ remover' = [remover EXCEPT ![r].todo = {}]
  /\ UNCHANGED <<spawn, table, logs, lister>>

ForceRemove(r, s) ==
  /\ Removes(r, s)
  /\ remover' = [remover EXCEPT ![r].todo = @ \ {s}]
  /\ \/ ctr' = [ctr EXCEPT ![s] = "gone"] /\ UNCHANGED daemon
     \/ DaemonError(s) /\ ctr' = ctr
     \/ DaemonError(s) /\ ctr' = [ctr EXCEPT ![s] = IF @ = "gone" THEN @ ELSE "exited"]
  /\ UNCHANGED <<spawn, table, logs, lister>>

\* Any other error escapes and ends the call: what it has taken out of the table
\* and not removed yet is left behind.
RemoveRaises(r, s) ==
  /\ Removes(r, s) /\ TransportError
  /\ \E state \in {ctr[s], IF ctr[s] = "gone" THEN "gone" ELSE "exited", "gone"} :
       ctr' = [ctr EXCEPT ![s] = state]
  /\ remover' = [remover EXCEPT ![r].at = "raised"]
  /\ UNCHANGED <<spawn, table, logs, lister>>

ReturnRemoval_Bug(r) ==
  /\ remover[r].at = "removing" /\ remover[r].todo = {}
  /\ remover' = [remover EXCEPT ![r].at = "returned"]
  /\ table' = Clear(table, Tasks)
  /\ UNCHANGED <<spawn, ctr, logs, lister, daemon>>

ReturnRemoval(r) ==
  /\ remover[r].at = "removing" /\ remover[r].todo = {}
  /\ remover' = [remover EXCEPT ![r].at = "returned"]
  /\ UNCHANGED <<spawn, ctr, table, logs, lister, daemon>>

-----------------------------------------------------------------------------
\* The dashboard's timer: list_claws, then drain_logs for each claw it returned

ListSnapshot ==
  /\ lister.at = "idle"
  /\ lister' = [at |-> "reload", todo |-> Tracked, stale |-> {},
                listed |-> {t \in Tasks : table[t] # None}]
  /\ UNCHANGED <<spawn, ctr, table, logs, remover, daemon>>

\* A container that is gone, or whose reload raises APIError, is stale.
ListReload(s) ==
  /\ lister.at = "reload" /\ s \in lister.todo
  /\ \/ /\ UNCHANGED daemon
        /\ lister' = [lister EXCEPT !.todo = @ \ {s},
                        !.stale = IF ctr[s] = "gone" THEN @ \union {TaskOf(s)} ELSE @]
     \/ /\ DaemonError(s)
        /\ lister' = [lister EXCEPT !.todo = @ \ {s}, !.stale = @ \union {TaskOf(s)}]
  /\ UNCHANGED <<spawn, ctr, table, logs, remover>>

\* Any other error escapes from list_claws; the timer calls it again.
ListRaises(s) ==
  /\ lister.at = "reload" /\ s \in lister.todo /\ TransportError
  /\ lister' = IdleLister
  /\ UNCHANGED <<spawn, ctr, table, logs, remover>>

NextTask(S) == IF S = {} THEN IdleLister
               ELSE [at |-> "drain", todo |-> {}, stale |-> {}, listed |-> S]

\* Under the lock again, the stale tasks are dropped by their id.
ListPrune ==
  /\ lister.at = "reload" /\ lister.todo = {}
  /\ table' = Clear(table, lister.stale)
  /\ lister' = NextTask(lister.listed)
  /\ UNCHANGED <<spawn, ctr, logs, remover, daemon>>

Shown(t) ==
  /\ shown' = [shown EXCEPT ![Head(content[queues[t]])] = @ + 1]
  /\ content' = [content EXCEPT ![queues[t]] = Tail(@)]
  /\ UNCHANGED queues

HasLines(t) == queues[t] # None /\ content[queues[t]] # <<>>

DrainLine(t) ==
  /\ lister.at = "drain" /\ t \in lister.listed /\ HasLines(t)
  /\ Shown(t)
  /\ UNCHANGED <<spawn, ctr, table, log, written, remover, lister, daemon>>

DrainedTask(t) ==
  /\ lister.at = "drain" /\ t \in lister.listed /\ ~HasLines(t)
  /\ lister' = NextTask(lister.listed \ {t})
  /\ UNCHANGED <<spawn, ctr, table, logs, remover, daemon>>

-----------------------------------------------------------------------------
\* Outside the process: a container's program ends, an operator removes one.

ContainerExits(s) ==
  /\ ctr[s] = "running" /\ ctr' = [ctr EXCEPT ![s] = "exited"]
  /\ UNCHANGED <<spawn, table, logs, remover, lister, daemon>>

ContainerVanishes(s) ==
  /\ ctr[s] \in {"created", "running", "exited"} /\ ctr' = [ctr EXCEPT ![s] = "gone"]
  /\ UNCHANGED <<spawn, table, logs, remover, lister, daemon>>

Spawner(s) == Started(s) \/ SpawnRaises(s) \/ Register(s) \/ StartLogThread(s) \/ BrowserReady(s)
Logger(s)  == LogFindsQueue(s) \/ LogStoresQueue(s) \/ LogLine(s)
Listing    == ListSnapshot \/ (\E s \in Spawns : ListReload(s) \/ ListRaises(s)) \/ ListPrune
              \/ (\E t \in Tasks : DrainLine(t) \/ DrainedTask(t))

Next ==
  \/ \E s \in Spawns, t \in Tasks, k \in Kinds : CallSpawn(s, t, k)
  \/ \E s \in Spawns : Spawner(s) \/ Logger(s) \/ ContainerExits(s) \/ ContainerVanishes(s)
  \/ \E r \in Removers : KillAll(r) \/ (\E t \in Tasks : StopClaw(r, t)) \/ ReturnRemoval(r)
  \/ \E r \in Removers, s \in Spawns : ForceRemove(r, s) \/ RemoveRaises(r, s)
  \/ Listing

Spec == Init /\ [][Next]_vars

-----------------------------------------------------------------------------
\* Properties

\* Type invariant.
TypeOK ==
  /\ spawn \in [Spawns -> [at : {"idle", "run", "register", "thread", "ready", "returned", "unready",
                                 "raised"},
                           task : Tasks \union {NoTask}, kind : Kinds \union {"claw"}]]
  /\ ctr \in [Spawns -> {"none", "created", "running", "exited", "gone"}]
  /\ table \in [Tasks -> Spawns \union {None}] /\ queues \in [Tasks -> Spawns \union {None}]
  /\ content \in [Spawns -> Seq(Spawns)]
  /\ log \in [Spawns -> [at : {"none", "starting", "creating", "streaming"},
                         queue : Spawns \union {None}]]
  /\ remover \in [Removers -> [at : {"idle", "removing", "returned", "raised"},
                               todo : SUBSET Spawns, owed : SUBSET Spawns]]
  /\ lister \in [at : {"idle", "reload", "drain"}, todo : SUBSET Spawns,
                 listed : SUBSET Tasks, stale : SUBSET Tasks]
  /\ written \in [Spawns -> 0 .. MaxLines] /\ shown \in [Spawns -> 0 .. MaxLines]
  /\ errors \in 0 .. MaxErrors /\ failed \subseteq Spawns

Todo(place)  == UNION {remover[r].todo : r \in {q \in Removers : remover[q].at = place}}
BeingRemoved == Todo("removing")
LeftBehind   == Todo("raised")

\* No container is lost without an error: a running container is in the table, or
\* held by the spawn call that is about to enter it, or by a call that is
\* removing it.  The exceptions are a spawn whose start failed after it took
\* effect, a removal that was ended by an error, and a container the daemon
\* raised APIError for.
RunningIsKnown ==
  \A s \in Spawns : ctr[s] = "running" =>
    \/ s \in Tracked \union BeingRemoved \/ spawn[s].at = "register"
    \/ spawn[s].at = "raised" \/ s \in LeftBehind \union failed

\* When the kill switch (or stop_claw) has returned, every claw whose spawn
\* had returned before it was pressed is down or with another removal, one
\* APIError not keeping the others alive, whatever was spawned, listed or
\* stopped meanwhile; unless an earlier removal was ended by an error.
KillSwitchComplete ==
  \A r \in Removers : remover[r].at = "returned" =>
    \A s \in remover[r].owed : ctr[s] = "running" =>
      s \in BeingRemoved \union LeftBehind \union failed

\* "Kill and remove all tracked containers" (kill_all): pressed again after an
\* error, the kill switch reaches what the first press has left behind.
PressingAgainHelps ==
  \A r \in Removers : remover[r].at = "returned" =>
    \A s \in remover[r].owed : ctr[s] = "running" => s \in BeingRemoved \union failed

\* No line of a tracked claw is lost or shown twice: each line its log thread
\* has read is on the screen or in the queue the next tick drains.
LinesReachViewer ==
  \A t \in Tasks : table[t] # None =>
    LET s == table[t] IN
    written[s] = shown[s] +
      (IF queues[t] = None THEN 0
       ELSE Cardinality({i \in DOMAIN content[queues[t]] : content[queues[t]][i] = s}))
=============================================================================
