------------------------- MODULE ExecutorProperties -------------------------
(***************************************************************************)
(* What a run of a plan must guarantee, stated over the state machine of   *)
(* module Executor.                                                        *)
(***************************************************************************)
EXTENDS Executor

\* Every variable stays in its type.
TypeOK ==
  /\ plan \in Plan
  /\ phase \in [Executors -> Active \union {"new", "done", "raised", "crashed"}]
  /\ task \in [Executors -> [Nodes -> {"none", "queued", "handler"}]]
  /\ injections \in [Executors -> [Nodes -> 0 .. MaxInjections]]
  /\ origin \in [Nodes -> 0 .. MaxNodes] /\ proper \in BOOLEAN
  /\ crashes \in 0 .. MaxCrashes /\ externals \in 0 .. MaxExternals

\* Injection keeps the plan a DAG, in which every dependency is a node and no set
\* of nodes waits for itself in a circle, as long as each sub-DAG that was put
\* into it was proper by itself: remapping its ids, keeping its references to
\* nodes of the plan and wiring its ends to the node that asked add no circle.
\* An improper one is stored as it is, and then nothing is promised.
IsDag(p) ==
  /\ \A n \in Nodes : p.deps[n] \subseteq Present(p)
  /\ \A S \in (SUBSET Nodes) \ {{}} : \E n \in S : p.deps[n] \intersect S = {}

PlanIsDag == proper => IsDag(plan)

\* While a handler works on a node, everything the node depends on is completed,
\* and so is everything that was ever injected for it.  The latter needs proper
\* sub-DAGs: one that is a circle has no end the node could wait for.
PrerequisitesFirst ==
  plan # Gone =>
    \A e \in Executors, n \in Nodes : task[e][n] = "handler" =>
      /\ plan.deps[n] \subseteq With(plan, {"completed"})
      /\ proper => \A x \in Nodes : origin[x] = n => plan.node[x] = "completed"

\* The outcome of a node is final: only a new plan or a deletion removes it,
\* neither a later run nor the end of a sibling does.
OutcomeStays ==
  [][\A n \in Nodes : plan.node[n] \in Terminal =>
       \/ plan'.node[n] = plan.node[n]
       \/ plan' = Gone
       \/ \E e \in Executors : Send(e)]_vars

\* "All exceptions are caught and recorded as node failures" (_execute_node):
\* a node stored as running is being handled, so its end will be recorded.
RunningIsHandled ==
  crashes = 0 => \A n \in Nodes : plan.node[n] = "running" =>
                   \E e \in Executors : task[e][n] = "handler"

\* A run that returns has decided the plan: completed with every node
\* completed, or failed because of some node.  It stalls, and returns a plan that
\* is still "running", only if an improper sub-DAG is in it: a DAG never does.
Decided(p) ==
  \/ p.status = "completed" /\ Present(p) \subseteq With(p, {"completed"})
  \/ p.status = "failed" /\ With(p, {"failed", "needs_tool"}) # {}

Stalled(p) == p.status = "running" /\ Present(p) = With(p, {"draft", "completed"})

ReturnsDecided ==
  [][\A e \in Executors : phase[e] \in Active /\ phase'[e] = "done" /\ plan.status # "cancelled"
       => Decided(plan') \/ (~proper /\ Stalled(plan'))]_vars

\* "If no progress can be made (cyclic / unfulfillable dependencies)" run()
\* raises ExecutorError, says its docstring: it does not return a plan that is
\* still running.
StallsRaise ==
  [][\A e \in Executors : phase[e] \in Active /\ phase'[e] = "done"
       => plan'.status # "running"]_vars

\* Every run comes to an end: its batches do, the nodes of other runs it polls
\* for do, and MAX_INJECTION_ATTEMPTS stops a node that keeps asking.  That limit
\* counts per node and an injected node starts at 0, so nothing is said of a run
\* whose injected nodes have filled the plan by asking in turn.
Full   == LastId(plan) + MaxSub > MaxNodes
RunEnds == \A e \in Executors : phase[e] \in Active ~> phase[e] \notin Active \/ Full

\* "Node was already handled (race guard)" in _execute_node: two runs of a plan
\* do not have the same node handled at the same time.
NoDoubleDispatch ==
  \A e, f \in Executors, n \in Nodes :
     task[e][n] = "handler" /\ task[f][n] = "handler" => e = f
=============================================================================
