------------------------------- MODULE Pipeline -------------------------------
(***************************************************************************)
(* The way of a message from the dashboard page to a stored plan: _send in *)
(* dashboard.py, intake_request, and the planner, which normalises what    *)
(* the language model answered, twice.                                     *)
(*                                                                         *)
(* A node is its id, its dependencies and an objective; the objective      *)
(* stands for every field that normalisation carries along, and is the     *)
(* position of the node in the answer.  Ids are numbers: "node-7" is 7,    *)
(* and so is any other name the language model may have made up.  The run  *)
(* of the stored plan is Executor's; here it ends in whatever way.         *)
(***************************************************************************)
EXTENDS Integers, Sequences, FiniteSets, SequencesExt

CONSTANT Drafts     \* "nodes" arrays the language model may answer

ASSUME DraftsAssumption == Drafts \subseteq Seq([id : Nat, deps : Seq(Nat)])

VARIABLES at,        \* where _send of the page is
          running,   \* plan_running, and with it the disabled input
          available, \* _PIPELINE_AVAILABLE
          draft,     \* the array the language model answered
          pass,      \* normalize_plan_nodes runs in the parser and in the builder
          nodes,     \* the nodes being normalised
          indegree, ready, ordered   \* its loop, on positions of nodes

loop == <<indegree, ready, ordered>>
vars == <<at, running, available, draft, pass, nodes, loop>>

Init ==
  /\ at = "idle" /\ running = FALSE /\ available \in BOOLEAN
  /\ draft = <<>> /\ pass = 0 /\ nodes = <<>>
  /\ indegree = <<>> /\ ready = {} /\ ordered = <<>>

Forget == draft' = <<>> /\ pass' = 0 /\ nodes' = <<>>
          /\ indegree' = <<>> /\ ready' = {} /\ ordered' = <<>>

-----------------------------------------------------------------------------
\* dashboard._send

Send ==
  /\ at = "idle" /\ ~running
  /\ at' = "scroll" /\ running' = TRUE
  /\ UNCHANGED <<available, draft, pass, nodes, loop>>

ReEnable_Bug == at' = "idle" /\ running' = running /\ Forget
ReEnable     == at' = "idle" /\ running' = FALSE /\ Forget

\* An exception outside the try blocks ends _send without _re_enable.
Escapes == at' = "escaped" /\ running' = running /\ Forget

\* run_javascript raises when the browser does not answer in time.
Scroll ==
  /\ at = "scroll" /\ UNCHANGED available
  /\ \/ available /\ at' = "intake" /\ UNCHANGED <<running, draft, pass, nodes, loop>>
     \/ ~available /\ ReEnable
     \/ Escapes

\* Backend errors, timeouts and answers that are no TaskIntent are all caught.
Intake ==
  /\ at = "intake" /\ UNCHANGED available
  /\ \/ at' = "plan" /\ UNCHANGED <<running, draft, pass, nodes, loop>>
     \/ ReEnable

PlannerAnswers(d) ==
  /\ at = "plan" /\ at' = "check" /\ pass' = 1
  /\ draft' = d
  /\ nodes' = [i \in DOMAIN d |-> [id |-> d[i].id, deps |-> d[i].deps, objective |-> i]]
  /\ UNCHANGED <<running, available, loop>>

\* No answer, or one that parse_planner_response refuses for its shape.
PlannerFails == at = "plan" /\ ReEnable /\ UNCHANGED available

-----------------------------------------------------------------------------
\* normalize_plan_nodes

Ids == {nodes[i].id : i \in DOMAIN nodes}
PositionOf(id) == CHOOSE i \in DOMAIN nodes : nodes[i].id = id
Depends(i) == {PositionOf(id) : id \in ToSet(nodes[i].deps)}

Refused ==
  \/ nodes = <<>>
  \/ Cardinality(Ids) # Len(nodes)
  \/ \E i \in DOMAIN nodes : nodes[i].id \in ToSet(nodes[i].deps) \/ ~(ToSet(nodes[i].deps) \subseteq Ids)

Indegree(i) == Cardinality(Depends(i))

Check ==
  /\ at = "check"
  /\ IF Refused
     THEN at' = "rejected" /\ UNCHANGED loop
     ELSE /\ at' = "loop" /\ ordered' = <<>>
          /\ indegree' = [i \in DOMAIN nodes |-> Indegree(i)]
          /\ ready' = {i \in DOMAIN nodes : Indegree(i) = 0}
  /\ UNCHANGED <<running, available, draft, pass, nodes>>

\* The heap orders the ready nodes by their place in the answer.
Pop ==
  /\ at = "loop" /\ ready # {}
  /\ LET current == CHOOSE i \in ready : \A j \in ready : i <= j
         left(i) == indegree[i] - (IF current \in Depends(i) THEN 1 ELSE 0)
     IN /\ ordered' = Append(ordered, current)
        /\ indegree' = [i \in DOMAIN nodes |-> left(i)]
        /\ ready' = (ready \ {current}) \union {i \in DOMAIN nodes : indegree[i] > 0 /\ left(i) = 0}
  /\ UNCHANGED <<at, running, available, draft, pass, nodes>>

\* The elements of a finite set of numbers in increasing order.
Sorted(S) ==
  [k \in 1 .. Cardinality(S) |-> CHOOSE x \in S : Cardinality({y \in S : y < x}) = k - 1]

Renumbered_Bug ==
  [k \in DOMAIN ordered |-> [id |-> k, objective |-> nodes[ordered[k]].objective,
                             deps |-> Sorted(Depends(ordered[k]))]]
Renumbered ==
  [k \in DOMAIN ordered |-> [id |-> k, objective |-> nodes[ordered[k]].objective,
     deps |-> Sorted({j \in DOMAIN ordered : ordered[j] \in Depends(ordered[k])})]]

Drained ==
  /\ at = "loop" /\ ready = {}
  /\ IF Len(ordered) # Len(nodes)
     THEN at' = "rejected" /\ UNCHANGED <<pass, nodes>>
     ELSE /\ nodes' = Renumbered
          /\ \/ pass = 1 /\ pass' = 2 /\ at' = "check"
             \/ pass = 2 /\ pass' = 2 /\ at' = "save"
  /\ indegree' = <<>> /\ ready' = {} /\ ordered' = <<>>
  /\ UNCHANGED <<running, available, draft>>

-----------------------------------------------------------------------------
\* dashboard._send again

Rejected == at = "rejected" /\ ReEnable /\ UNCHANGED available

\* The store may be locked or its disk full, and save is in no try block.
Save ==
  /\ at = "save" /\ UNCHANGED available
  /\ \/ at' = "run" /\ UNCHANGED <<running, draft, pass, nodes, loop>>
     \/ Escapes

RunEnds == at = "run" /\ ReEnable /\ UNCHANGED available

\* Reloading builds a new page; only that brings a disabled input back.
Reload == at \in {"idle", "escaped"} /\ ReEnable /\ UNCHANGED available

Handler == Scroll \/ Intake \/ PlannerFails \/ Check \/ Pop \/ Drained \/ Rejected
           \/ Save \/ RunEnds

Next == Send \/ Reload \/ Handler \/ \E d \in Drafts : PlannerAnswers(d)

Spec == Init /\ [][Next]_vars
\* The event loop and its threads run what is runnable, the model's requests
\* time out (so Handler is enabled wherever PlannerAnswers is), and a run of a
\* plan ends (Executor says when).
FairSpec == Spec /\ WF_vars(Handler)

-----------------------------------------------------------------------------
\* The planner's reference, on the answer itself

Needs(d, i) == {j \in DOMAIN d : d[j].id \in ToSet(d[i].deps)}

WellFormed(d) ==
  /\ d # <<>>
  /\ \A i, j \in DOMAIN d : d[i].id = d[j].id => i = j
  /\ \A i \in DOMAIN d : ToSet(d[i].deps) \subseteq {d[j].id : j \in DOMAIN d}
  /\ \A S \in (SUBSET DOMAIN d) \ {{}} : \E i \in S : Needs(d, i) \intersect S = {}

\* The one topological order that always takes the earliest node that can go.
FirstOrder(d, order) ==
  /\ Len(order) = Len(d)
  /\ \A k \in DOMAIN order :
       LET before == {order[j] : j \in 1 .. k - 1}
           free   == {i \in (DOMAIN d) \ before : Needs(d, i) \subseteq before}
       IN order[k] \in free /\ \A i \in free : order[k] <= i

-----------------------------------------------------------------------------
\* Properties

\* Type invariant.
TypeOK ==
  /\ at \in {"idle", "scroll", "intake", "plan", "check", "loop", "rejected", "save", "run", "escaped"}
  /\ running \in BOOLEAN /\ available \in BOOLEAN /\ draft \in Drafts \union {<<>>}
  /\ pass \in 0 .. 2 /\ ready \subseteq DOMAIN nodes /\ ToSet(ordered) \subseteq DOMAIN nodes
  /\ \A i \in DOMAIN nodes : nodes[i].objective \in DOMAIN draft
  /\ DOMAIN indegree \subseteq DOMAIN nodes /\ \A i \in DOMAIN indegree : indegree[i] \in Nat

\* A plan that reaches the store came from a well-formed answer; its nodes are
\* those of the answer in its first topological order, numbered from one, and
\* every dependency of the answer, once and only once, points backwards: the
\* second normalisation changes nothing the first one established.
AcceptedIsFirstOrder ==
  at \in {"save", "run"} =>
    /\ WellFormed(draft)
    /\ FirstOrder(draft, [k \in DOMAIN nodes |-> nodes[k].objective])
    /\ \A k \in DOMAIN nodes :
         /\ nodes[k].id = k
         /\ {nodes[j].objective : j \in ToSet(nodes[k].deps)} = Needs(draft, nodes[k].objective)
         /\ \A a, b \in DOMAIN nodes[k].deps : a < b => nodes[k].deps[a] < nodes[k].deps[b]

\* The planner rejects an answer only for what is wrong with the answer: a
\* dependency listed twice, or an odd order of the nodes, is not.
RejectedIsMalformed == at = "rejected" => ~WellFormed(draft)

\* The loop over heap and indegrees, run twice, decides and orders exactly as the
\* reference does.
PlanIsReference == AcceptedIsFirstOrder /\ RejectedIsMalformed

\* However a message ends, its page takes the next one, unless an exception
\* escaped from one of the two places of _send that nothing guards.
PageComesBack == running ~> (~running \/ at = "escaped")
=============================================================================
