------------------------------ MODULE Executor ------------------------------
(***************************************************************************)
(* The plan executor of freetalon/orchestrator/executor.py on the store of *)
(* freetalon/orchestrator/state_store.py: calls of Executor.run, the tasks *)
(* each call creates for the nodes of a plan, the injection of             *)
(* prerequisite nodes, and the stored plan all of them load, change and    *)
(* save.                                                                   *)
(*                                                                         *)
(* Everything runs on one asyncio loop and the store is synchronous, so a  *)
(* step is the code between two awaits: the semaphore, the handler, gather *)
(* and sleep.  There is one plan; its nodes are numbered as they are       *)
(* appended, and a new id never collides with an old one.  What a handler  *)
(* computes is reduced to how it ends.  A sub-DAG is whatever the planner  *)
(* returns: the code checks none of its dependencies.                      *)
(*                                                                         *)
(* A definition whose name ends in _Bug is a slip the code could contain   *)
(* at that place; none is used by the specification.                       *)
(***************************************************************************)
EXTENDS Naturals, FiniteSets

CONSTANTS Executors,      \* Executor objects; each runs the plan once
          MaxPlan,        \* nodes of a plan as planned
          MaxNodes,       \* nodes of a plan with the injected ones (a bound)
          MaxSub,         \* nodes of one sub-DAG (a bound)
          MaxForeign,     \* ids outside the sub-DAG a sub-node depends on (a bound)
          MaxConcurrency, \* max_concurrency
          MaxInjections,  \* MAX_INJECTION_ATTEMPTS
          Planner,        \* is a subdag_planner given?
          Scaffolder,     \* is a scaffolder given?
          ScaffoldFaults, \* may propose() raise an OSError?
          Overlap,        \* may two runs of the plan be active together?
          MaxCrashes,     \* process crashes (a bound)
          MaxExternals    \* writes to the store by other programs (a bound)

ASSUME ExecutorAssumption ==
  /\ MaxPlan \in Nat /\ MaxNodes \in Nat /\ MaxPlan <= MaxNodes /\ MaxSub \in Nat
  /\ MaxForeign \in Nat
  /\ MaxConcurrency \in Nat \ {0} /\ MaxInjections \in Nat
  /\ {Planner, Scaffolder, ScaffoldFaults, Overlap} \subseteq BOOLEAN
  /\ MaxCrashes \in Nat /\ MaxExternals \in Nat

Nodes    == 1 .. MaxNodes
NoNode   == 0                             \* an id that no node ever has
Ids      == Nodes \union {NoNode}
Terminal == {"completed", "failed", "cancelled", "needs_tool"}
NodeStatus == {"absent", "draft", "running"} \union Terminal
Active   == {"gather", "sleep"}           \* where a run that goes on is

\* The dependencies of k nodes as the planner normalises them: in topological
\* order, so a node depends on earlier ones only.
Dags(k) == {d \in [1 .. k -> SUBSET (1 .. k)] : \A i \in 1 .. k : d[i] \subseteq 1 .. (i - 1)}

Plan == [status : {"gone", "draft", "running"} \union Terminal,
         node : [Nodes -> NodeStatus], deps : [Nodes -> SUBSET Ids]]
Gone == [status |-> "gone", node |-> [n \in Nodes |-> "absent"], deps |-> [n \in Nodes |-> {}]]
NewPlan(k, d) ==
  [status |-> "draft",
   node   |-> [n \in Nodes |-> IF n <= k THEN "draft" ELSE "absent"],
   deps   |-> [n \in Nodes |-> IF n <= k THEN d[n] ELSE {}]]

VARIABLES plan,       \* the row of the plan in the store; Gone if there is none
          phase,      \* where each call of run() is
          task,       \* the asyncio task a call has for each node
          injections, \* _injection_counts of each Executor
          origin,     \* the node for which a node was injected, 0 for a planned one
          proper,     \* history: every sub-DAG put into the plan was a proper one
          crashes, externals

calls   == <<phase, task, injections>>
history == <<origin, proper>>
vars    == <<plan, calls, history, crashes, externals>>

Init ==
  /\ plan = Gone
  /\ phase = [e \in Executors |-> "new"]
  /\ task = [e \in Executors |-> [n \in Nodes |-> "none"]]
  /\ injections = [e \in Executors |-> [n \in Nodes |-> 0]]
  /\ origin = [n \in Nodes |-> 0] /\ proper = TRUE
  /\ crashes = 0 /\ externals = 0

-----------------------------------------------------------------------------
\* Questions about a plan

Present(p) == {n \in Nodes : p.node[n] # "absent"}
With(p, s) == {n \in Nodes : p.node[n] \in s}

Runnable(p) == {n \in With(p, {"draft"}) : p.deps[n] \subseteq With(p, {"completed"})}

Derived_Bug(p) ==
  IF With(p, {"failed"}) # {} THEN "failed"
  ELSE IF With(p, {"cancelled"}) # {} THEN "cancelled"
  ELSE IF Present(p) \subseteq With(p, Terminal) THEN "completed"
  ELSE "running"

\* _derive_plan_status
Derived(p) ==
  IF With(p, {"failed"}) # {} THEN "failed"
  ELSE IF With(p, {"cancelled"}) # {} THEN "cancelled"
  ELSE IF With(p, {"needs_tool"}) # {} THEN "failed"
  ELSE IF Present(p) \subseteq With(p, Terminal) THEN "completed"
  ELSE "running"

-----------------------------------------------------------------------------
\* Executor.run

Halts_Bug(p) == p.status \in Terminal \/ Present(p) \subseteq With(p, Terminal)
Halts(p)     == p.status \in Terminal \/ (Runnable(p) = {} /\ With(p, {"running"}) = {})
GoTo(e, s)   == phase' = [phase EXCEPT ![e] = s]

\* One pass of the loop on the plan p, up to its next await: the run raises,
\* returns, starts a task for every runnable node, or sleeps while nodes are
\* running.
Pass(e, p) ==
  \/ /\ p = Gone
     /\ plan' = p /\ GoTo(e, "raised") /\ UNCHANGED task
  \/ /\ p # Gone /\ Halts(p)
     /\ plan' = [p EXCEPT !.status = Derived(p)]
     /\ GoTo(e, "done") /\ UNCHANGED task
  \/ /\ ~Halts(p) /\ Runnable(p) # {}
     /\ task' = [task EXCEPT ![e] = [n \in Nodes |-> IF n \in Runnable(p) THEN "queued" ELSE "none"]]
     /\ plan' = p /\ GoTo(e, "gather")
  \/ /\ ~Halts(p) /\ Runnable(p) = {}
     /\ plan' = p /\ GoTo(e, "sleep") /\ UNCHANGED task

Alone       == \A x \in Executors : phase[x] \notin Active
MayStart(e) == phase[e] = "new" /\ (Overlap \/ Alone)

\* run(): the first pass follows the save of RUNNING without an await.
Run(e) ==
  /\ MayStart(e)
  /\ Pass(e, IF plan = Gone THEN Gone ELSE [plan EXCEPT !.status = "running"])
  /\ UNCHANGED <<injections, history, crashes, externals>>

\* The dashboard: saves a new plan, under the id that the intent determines,
\* and runs it.  A plan whose handlers may still inject nodes is not replaced.
Send(e) ==
  /\ MayStart(e) /\ (Planner => Alone)
  /\ \E k \in 0 .. MaxPlan : \E d \in Dags(k) :
       Pass(e, [NewPlan(k, d) EXCEPT !.status = "running"])
  /\ origin' = [n \in Nodes |-> 0] /\ proper' = TRUE
  /\ UNCHANGED <<injections, crashes, externals>>

\* gather() returns when the last task of the batch has ended, sleep() after
\* 50 ms.
BatchOver(e) == \A n \in Nodes : task[e][n] = "none"
NextPass(e) ==
  /\ phase[e] \in Active /\ BatchOver(e)
  /\ Pass(e, plan)
  /\ UNCHANGED <<injections, history, crashes, externals>>

-----------------------------------------------------------------------------
\* Executor._execute_node

InHandler(e)   == {n \in Nodes : task[e][n] = "handler"}
Mark(n, s)     == plan' = [plan EXCEPT !.node[n] = s]
TaskIs(e, n, s) == task' = [task EXCEPT ![e][n] = s]

Settle(n, s) == IF plan.node[n] = "absent" THEN UNCHANGED plan ELSE Mark(n, s)

MissingTool == IF Scaffolder THEN "needs_tool" ELSE "failed"

Skip(e, n)     == TaskIs(e, n, "none") /\ UNCHANGED plan
Dispatch(e, n) == Mark(n, "running") /\ TaskIs(e, n, "handler")
MissesTool(e, n) == Mark(n, MissingTool) /\ TaskIs(e, n, "none")

\* An error of propose() other than a refused name, say of one of the files it
\* writes, escapes and is swallowed by gather().
ScaffoldEscapes(e, n) ==
  Scaffolder /\ ScaffoldFaults /\ Mark(n, "running") /\ TaskIs(e, n, "none")

\* ToolRegistry.resolve: a handler is registered for the capability, or not.
Resolve(e, n) == Dispatch(e, n) \/ MissesTool(e, n) \/ ScaffoldEscapes(e, n)

\* The semaphore is free: the node is marked and its handler called, unless the
\* node is over or gone, or no handler is registered.
BeginNode(e, n) ==
  /\ task[e][n] = "queued"
  /\ Cardinality(InHandler(e)) < MaxConcurrency
  /\ \/ plan.node[n] \in Terminal \union {"absent"} /\ Skip(e, n)
     \/ plan.node[n] \in {"draft", "running"} /\ Resolve(e, n)
  /\ UNCHANGED <<phase, injections, history, crashes, externals>>

HandlerReturns(e, n) ==
  /\ task[e][n] = "handler" /\ TaskIs(e, n, "none")
  /\ Settle(n, "completed")
  /\ UNCHANGED <<phase, injections, history, crashes, externals>>

HandlerRaises_Bug(e, n) ==
  /\ task[e][n] = "handler" /\ TaskIs(e, n, "none")
  /\ UNCHANGED <<plan, phase, injections, history, crashes, externals>>

HandlerRaises(e, n) ==
  /\ task[e][n] = "handler" /\ TaskIs(e, n, "none")
  /\ Settle(n, "failed")
  /\ UNCHANGED <<phase, injections, history, crashes, externals>>

\* What a sub-DAG planner may return: k nodes, each with the ones among them it
\* depends on, and other ids it names, of nodes of the plan or of none.
SubDags(k) ==
  [1 .. k -> [own : SUBSET (1 .. k), foreign : {S \in SUBSET Ids : Cardinality(S) <= MaxForeign}]]

\* Sub-node i is appended as node m + i; ids that are not of the sub-DAG are kept.
NewDeps_Bug(m, d, i) == d[i].own \union d[i].foreign
NewDeps(m, d, i)     == {m + j : j \in d[i].own} \union d[i].foreign

\* The sub-nodes nothing in the sub-DAG depends on.
Ends_Bug(m, k, d) == {m + i : i \in {j \in 1 .. k : d[j].own = {}}}
Ends(m, k, d)     == {x \in (m + 1) .. (m + k) : \A j \in 1 .. k : x \notin NewDeps(m, d, j)}

\* The last id in use; new ids come after it.
LastId_Bug(p) == Cardinality(Present(p)) - 1
LastId(p)     == Cardinality(Present(p))

\* _inject_subdag: the k sub-nodes follow the m nodes of the plan, and n waits
\* for the last ones of them.
Injected(p, n, k, d) ==
  LET m   == LastId(p)
      new == (m + 1) .. (m + k)
  IN  [p EXCEPT
         !.node = [x \in Nodes |-> IF x \in new \union {n} THEN "draft" ELSE @[x]],
         !.deps = [x \in Nodes |-> IF x \in new THEN NewDeps(m, d, x - m)
                                   ELSE IF x = n THEN @[x] \union Ends(m, k, d)
                                   ELSE @[x]]]

\* A sub-DAG as one should be: its nodes have an order, and outside they depend
\* on nodes of the plan that do not wait for the node that asks.
IsProper(p, n, k, d) ==
  /\ \E rank \in [1 .. k -> 1 .. k] : \A i \in 1 .. k : \A j \in d[i].own : rank[j] < rank[i]
  /\ \E S \in SUBSET (Present(p) \ {n}) :
       /\ \A x \in S : p.deps[x] \subseteq S
       /\ \A i \in 1 .. k : d[i].foreign \subseteq S

Inject(n, k, d) ==
  /\ LastId(plan) + k <= MaxNodes
  /\ plan' = Injected(plan, n, k, d)
  /\ origin' = [x \in Nodes |-> IF x \in Present(plan') \ Present(plan) THEN n ELSE origin[x]]
  /\ proper' = (proper /\ IsProper(plan, n, k, d))

TooMany(e, n)     == injections[e][n] >= MaxInjections

\* The handler reports DependencyMissing: the node fails without a planner, over
\* the limit or when the planner raises; otherwise it waits for the sub-DAG.
HandlerAsks(e, n) ==
  /\ task[e][n] = "handler" /\ TaskIs(e, n, "none")
  /\ \/ /\ ~Planner \/ TooMany(e, n)
        /\ Settle(n, "failed") /\ UNCHANGED <<injections, history>>
     \/ /\ Planner /\ ~TooMany(e, n)
        /\ injections' = [injections EXCEPT ![e][n] = @ + 1]
        /\ \/ Settle(n, "failed") /\ UNCHANGED history
           \/ /\ plan # Gone
              /\ \E k \in 0 .. MaxSub : \E d \in SubDags(k) : Inject(n, k, d)
  /\ UNCHANGED <<phase, crashes, externals>>

-----------------------------------------------------------------------------
\* The world around

\* The process dies with its runs; the store keeps the plan.
Crash ==
  /\ crashes < MaxCrashes /\ \E e \in Executors : phase[e] \in Active
  /\ crashes' = crashes + 1
  /\ phase' = [e \in Executors |-> IF phase[e] \in Active THEN "crashed" ELSE phase[e]]
  /\ task' = [e \in Executors |-> [n \in Nodes |-> "none"]]
  /\ UNCHANGED <<plan, injections, history, externals>>

\* Another user of the store cancels or deletes the plan.
External ==
  /\ externals < MaxExternals /\ plan # Gone
  /\ externals' = externals + 1
  /\ \/ plan' = [plan EXCEPT !.status = "cancelled"]
     \/ plan' = Gone
  /\ UNCHANGED <<calls, history, crashes>>

HandlerEnds(e, n) == HandlerReturns(e, n) \/ HandlerRaises(e, n) \/ HandlerAsks(e, n)

Next ==
  \/ \E e \in Executors : Run(e) \/ Send(e) \/ NextPass(e)
  \/ \E e \in Executors, n \in Nodes : BeginNode(e, n) \/ HandlerEnds(e, n)
  \/ Crash
  \/ External

Spec == Init /\ [][Next]_vars

\* asyncio wakes a task whose wait is over, its semaphore is first come first
\* served, and handlers end: docker ones by their timeout, others by contract.
Fairness ==
  /\ \A e \in Executors : WF_vars(NextPass(e))
  /\ \A e \in Executors, n \in Nodes : SF_vars(BeginNode(e, n)) /\ WF_vars(HandlerEnds(e, n))

FairSpec == Spec /\ Fairness
=============================================================================
