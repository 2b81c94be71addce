--------------------------- MODULE ExecutorProofs ---------------------------
(***************************************************************************)
(* Proofs about the plan executor, for any number of executors, nodes,     *)
(* injections, crashes and foreign writes to the store, and for sub-DAGs   *)
(* that need not be DAGs.  What needs that runs of the plan do not overlap *)
(* assumes ~Overlap: the dashboard disables its input while a plan runs.   *)
(***************************************************************************)
EXTENDS ExecutorProperties, FiniteSetTheorems, WellFoundedInduction, TLAPS

Phases == Active \union {"new", "done", "raised", "crashed"}
Places == {"none", "queued", "handler"}

\* The nodes in use are the first ones, the others have no dependencies; a node
\* never has the status cancelled.
Filled(p) == /\ \E k \in 0 .. MaxNodes : Present(p) = 1 .. k
             /\ \A n \in Nodes : p.node[n] = "absent" => p.deps[n] = {}
             /\ \A n \in Nodes : p.node[n] # "cancelled"
             /\ p.status = "gone" => p = Gone

\* Types, and what keeps the steps within them: nodes are numbered without
\* gaps, and only a run that gathers has tasks.
Sound ==
  /\ TypeOK
  /\ Filled(plan)
  /\ \A e \in Executors, n \in Nodes : task[e][n] # "none" => phase[e] = "gather"

\* One run at a time: every active run is the only one.
OneRun == ~Overlap => \A e, f \in Executors : phase[e] \in Active /\ phase[f] \in Active => e = f

Completed(p) == With(p, {"completed"})

\* A node that has a task is in the plan, if no other run may replace the plan.
Owned ==
  Planner \/ ~Overlap =>
    (plan # Gone => \A e \in Executors, n \in Nodes : task[e][n] # "none" => n \in Present(plan))

\* It has its dependencies behind it; while its handler works it is stored as
\* running.
Held ==
  plan # Gone =>
    \A e \in Executors, n \in Nodes : task[e][n] # "none" =>
      /\ plan.deps[n] \subseteq Completed(plan)
      /\ task[e][n] = "handler" => plan.node[n] = "running"

Working == ~Overlap => Held

\* A completed node has completed dependencies.
Closed == \A n \in Completed(plan) : plan.deps[n] \subseteq Completed(plan)

\* Whatever was injected for a node is among its dependencies, direct or not:
\* it is in each set of nodes that holds the direct ones of that node and of
\* each of its members.
Reaching(p, o) ==
  \A n, x \in Nodes : o[x] = n =>
    \A S \in SUBSET Nodes :
      p.deps[n] \subseteq S /\ (\A y \in S : p.deps[y] \subseteq S) => x \in S

Reached == proper /\ plan # Gone => Reaching(plan, origin)

\* A run that is going on has set the plan running.
Begun ==
  ~Overlap => \A e \in Executors : phase[e] \in Active =>
                plan.status \in {"gone", "running", "cancelled"}

Ordered == Owned /\ Working /\ (~Overlap => Closed) /\ (~Overlap => Reached)

IInv == Sound /\ OneRun /\ PlanIsDag /\ Ordered /\ Begun

-----------------------------------------------------------------------------
\* Sets of nodes

LEMMA NodesFinite == /\ IsFiniteSet(Nodes)
                     /\ \A S \in SUBSET Nodes : IsFiniteSet(S)
<1>1. IsFiniteSet(Nodes)
  BY ExecutorAssumption, FS_Interval DEF Nodes
<1>. QED
  BY <1>1, FS_Subset

\* A set of nodes has a first member and a last one: of the sets of members
\* before (or after) one of them, a smallest one is empty.
LEMMA FirstNode ==
  ASSUME NEW S \in SUBSET Nodes, S # {}
  PROVE  \E m \in S : \A u \in S : m <= u
<1> DEFINE Before(t) == {u \in S : u < t}
           F == {Before(t) : t \in S}
           R == StrictSubsetOrdering(Nodes)
<1>0. S \subseteq Nat
  BY ExecutorAssumption DEF Nodes
<1>1. F \subseteq FiniteSubsetsOf(Nodes) /\ F # {}
  BY NodesFinite DEF FiniteSubsetsOf
<1>2. PICK A \in F : \A B \in F : ~(<<B, A>> \in R)
  <2>1. IsWellFoundedOn(R, FiniteSubsetsOf(Nodes))
    BY NodesFinite, FS_StrictSubsetOrderingWellFounded
  <2>. HIDE DEF F, R
  <2>. QED
    BY <1>1, <2>1, WFMin
<1>3. PICK m \in S : A = Before(m)
  BY <1>2
<1>4. ASSUME NEW u \in S, ~(m <= u) PROVE FALSE
  <2>1. u < m /\ u \in Before(m) /\ u \notin Before(u)
    BY <1>0, <1>4
  <2>2. Before(u) \subseteq Before(m)
    <3>. SUFFICES ASSUME NEW v \in S, v < u PROVE v < m
      OBVIOUS
    <3>. QED
      BY <1>0, <2>1
  <2>3. <<Before(u), Before(m)>> \in R
    BY <2>1, <2>2 DEF StrictSubsetOrdering
  <2>. QED
    BY <1>2, <1>3, <2>3
<1>. QED
  BY <1>4

LEMMA LastNode ==
  ASSUME NEW S \in SUBSET Nodes, S # {}
  PROVE  \E m \in S : \A u \in S : u <= m
<1> DEFINE After(t) == {u \in S : u > t}
           F == {After(t) : t \in S}
           R == StrictSubsetOrdering(Nodes)
<1>0. S \subseteq Nat
  BY ExecutorAssumption DEF Nodes
<1>1. F \subseteq FiniteSubsetsOf(Nodes) /\ F # {}
  BY NodesFinite DEF FiniteSubsetsOf
<1>2. PICK A \in F : \A B \in F : ~(<<B, A>> \in R)
  <2>1. IsWellFoundedOn(R, FiniteSubsetsOf(Nodes))
    BY NodesFinite, FS_StrictSubsetOrderingWellFounded
  <2>. HIDE DEF F, R
  <2>. QED
    BY <1>1, <2>1, WFMin
<1>3. PICK m \in S : A = After(m)
  BY <1>2
<1>4. ASSUME NEW u \in S, ~(u <= m) PROVE FALSE
  <2>1. u > m /\ u \in After(m) /\ u \notin After(u)
    BY <1>0, <1>4
  <2>2. After(u) \subseteq After(m)
    <3>. SUFFICES ASSUME NEW v \in S, v > u PROVE v > m
      OBVIOUS
    <3>. QED
      BY <1>0, <2>1
  <2>3. <<After(u), After(m)>> \in R
    BY <2>1, <2>2 DEF StrictSubsetOrdering
  <2>. QED
    BY <1>2, <1>3, <2>3
<1>. QED
  BY <1>4

\* Among numbered things there are a lowest and a highest one.
LEMMA RankEnds ==
  ASSUME NEW k \in Nat, k <= MaxNodes, NEW rank \in [1 .. k -> 1 .. k], NEW I \in SUBSET (1 .. k), I # {}
  PROVE  /\ \E i \in I : \A j \in I : ~(rank[j] < rank[i])
         /\ \E i \in I : \A j \in I : ~(rank[i] < rank[j])
<1> DEFINE R == {rank[i] : i \in I}
<1>1. R \in SUBSET Nodes /\ R # {}
  <2>1. 1 .. k \subseteq Nodes
    BY ExecutorAssumption DEF Nodes
  <2>2. \A i \in I : rank[i] \in 1 .. k
    OBVIOUS
  <2>. QED
    BY <2>1, <2>2
<1>2. PICK a \in R : \A u \in R : a <= u
  BY <1>1, FirstNode
<1>3. PICK b \in R : \A u \in R : u <= b
  BY <1>1, LastNode
<1>4. \A u, v \in R : u <= v => ~(v < u)
  <2>1. R \subseteq Int
    BY <1>1, ExecutorAssumption DEF Nodes
  <2> HIDE DEF R
  <2>. QED
    BY <2>1
<1>5. \A j \in I : rank[j] \in R
  OBVIOUS
<1>6. PICK i \in I : rank[i] = a
  BY <1>2
<1>7. PICK h \in I : rank[h] = b
  BY <1>3
<1> HIDE DEF R
<1>8. \A j \in I : ~(rank[j] < rank[i])
  BY <1>2, <1>4, <1>5, <1>6
<1>9. \A j \in I : ~(rank[h] < rank[j])
  BY <1>3, <1>4, <1>5, <1>7
<1>. QED
  BY <1>8, <1>9, Zenon

-----------------------------------------------------------------------------
\* Facts about plans

\* No plan: nothing is present, and the empty plan is well formed.
LEMMA GonePlan == /\ Gone \in Plan /\ Filled(Gone) /\ IsDag(Gone)
                  /\ \A n \in Nodes : Gone.node[n] = "absent" /\ Gone.deps[n] = {}
<1>1. \A n \in Nodes : Gone.node[n] = "absent" /\ Gone.deps[n] = {}
  BY DEF Gone
<1>2. Gone \in Plan
  BY DEF Gone, Plan, NodeStatus
<1>3. Filled(Gone)
  <2>1. Present(Gone) = 1 .. 0
    BY <1>1 DEF Present
  <2>. QED
    BY <1>1, <2>1, ExecutorAssumption DEF Filled
<1>4. IsDag(Gone)
  BY <1>1 DEF IsDag
<1>. QED
  BY <1>1, <1>2, <1>3, <1>4

\* Another status leaves the nodes of a plan alone.
LEMMA StatusFacts ==
  ASSUME NEW p \in Plan, NEW s \in {"running"} \union Terminal, Filled(p)
  PROVE  LET q == [p EXCEPT !.status = s] IN
         /\ q \in Plan /\ Filled(q) /\ q # Gone
         /\ q.status = s /\ q.node = p.node /\ q.deps = p.deps
         /\ Present(q) = Present(p) /\ Completed(q) = Completed(p)
         /\ (IsDag(p) => IsDag(q))
<1> DEFINE q == [p EXCEPT !.status = s]
<1>1. q \in Plan /\ q.status = s /\ q.node = p.node /\ q.deps = p.deps
  BY DEF Plan
<1>2. Present(q) = Present(p) /\ Completed(q) = Completed(p)
  BY <1>1 DEF Present, Completed, With
<1>3. s # "gone" /\ q # Gone
  BY <1>1 DEF Gone, Terminal
<1>4. Filled(q)
  BY <1>1, <1>2, <1>3 DEF Filled
<1>5. IsDag(p) => IsDag(q)
  BY <1>1, <1>2 DEF IsDag
<1>. QED
  BY <1>1, <1>2, <1>3, <1>4, <1>5

\* A plan as the planner made it is a well-formed DAG of draft nodes.
LEMMA NewPlanFacts ==
  ASSUME NEW k \in 0 .. MaxPlan, NEW d \in Dags(k)
  PROVE  LET p == NewPlan(k, d) IN
         /\ p \in Plan /\ Filled(p) /\ IsDag(p)
         /\ \A n \in Nodes : p.node[n] \in {"draft", "absent"}
<1> DEFINE p == NewPlan(k, d)
<1>0. k \in 0 .. MaxNodes /\ 1 .. k \subseteq Nodes
  BY ExecutorAssumption DEF Nodes
<1>1. /\ p.status = "draft"
      /\ \A n \in Nodes : /\ p.node[n] = (IF n <= k THEN "draft" ELSE "absent")
                          /\ p.deps[n] = (IF n <= k THEN d[n] ELSE {})
  BY DEF NewPlan
<1>2. \A n \in 1 .. k : d[n] \subseteq 1 .. (n - 1) /\ d[n] \subseteq 1 .. k
  BY DEF Dags
<1>3. \A n \in Nodes : n <= k <=> n \in 1 .. k
  BY <1>0, ExecutorAssumption DEF Nodes
<1>4. p \in Plan
  <2>1. [n \in Nodes |-> IF n <= k THEN "draft" ELSE "absent"] \in [Nodes -> NodeStatus]
    BY DEF NodeStatus
  <2>2. [n \in Nodes |-> IF n <= k THEN d[n] ELSE {}] \in [Nodes -> SUBSET Ids]
    BY <1>0, <1>2, <1>3 DEF Ids
  <2>. QED
    BY <2>1, <2>2 DEF Plan, NewPlan
<1>. HIDE DEF p
<1>5. Present(p) = 1 .. k
  BY <1>0, <1>1, <1>3 DEF Present
<1>6. Filled(p)
  BY <1>0, <1>1, <1>5 DEF Filled
<1>7. IsDag(p)
  <2>1. \A n \in Nodes : p.deps[n] \subseteq Present(p)
    BY <1>1, <1>2, <1>3, <1>5
  <2>2. ASSUME NEW S \in (SUBSET Nodes) \ {{}} PROVE \E n \in S : p.deps[n] \intersect S = {}
    <3>1. PICK m \in S : \A u \in S : m <= u
      BY FirstNode
    <3>2. m \in Nodes /\ p.deps[m] \subseteq 1 .. (m - 1)
      BY <1>1, <1>2, <1>3
    <3>3. \A u \in S : u \notin 1 .. (m - 1)
      BY <3>1, <3>2, ExecutorAssumption DEF Nodes
    <3>. QED
      BY <3>2, <3>3
  <2>. QED
    BY <2>1, <2>2 DEF IsDag
<1>8. \A n \in Nodes : p.node[n] \in {"draft", "absent"}
  BY <1>1
<1>. QED
  BY <1>4, <1>6, <1>7, <1>8 DEF p

\* The derived status is a terminal one or running.
LEMMA DerivedStatus == \A p : Derived(p) \in {"running"} \union Terminal
BY DEF Derived, Terminal

\* Marking a node of the plan leaves every other node and all edges alone.
LEMMA MarkFacts ==
  ASSUME plan \in Plan, Filled(plan), NEW n \in Present(plan),
         NEW s \in {"running", "completed", "failed", "needs_tool"}, Mark(n, s)
  PROVE  /\ plan' \in Plan /\ Filled(plan') /\ plan' # Gone
         /\ plan'.status = plan.status /\ plan'.deps = plan.deps
         /\ Present(plan') = Present(plan)
         /\ \A x \in Nodes : plan'.node[x] = IF x = n THEN s ELSE plan.node[x]
         /\ (IsDag(plan) => IsDag(plan'))
<1>0. n \in Nodes
  BY DEF Present
<1>1. /\ plan' \in Plan /\ plan'.status = plan.status /\ plan'.deps = plan.deps
      /\ \A x \in Nodes : plan'.node[x] = IF x = n THEN s ELSE plan.node[x]
  BY <1>0 DEF Plan, NodeStatus, Terminal, Mark
<1>2. Present(plan') = Present(plan)
  BY <1>0, <1>1 DEF Present
<1>3. plan.status # "gone" /\ plan' # Gone
  BY <1>0, <1>1, GonePlan DEF Filled, Present
<1>4. Filled(plan')
  BY <1>1, <1>2, <1>3 DEF Filled
<1>5. IsDag(plan) => IsDag(plan')
  BY <1>1, <1>2 DEF IsDag
<1>. QED
  BY <1>1, <1>2, <1>3, <1>4, <1>5

\* The last id in use is the number of nodes.
LEMMA LastIdFacts ==
  ASSUME NEW p \in Plan, NEW m \in 0 .. MaxNodes, Present(p) = 1 .. m
  PROVE  LastId(p) = m
<1>1. m \in Int /\ 1 \in Int /\ m >= 0
  BY ExecutorAssumption
<1>2. Cardinality(1 .. m) = IF 1 > m THEN 0 ELSE m - 1 + 1
  BY <1>1, FS_Interval
<1>3. Cardinality(1 .. m) = m
  BY <1>1, <1>2
<1>. QED
  BY <1>3 DEF LastId

\* The dependencies of a sub-node are ids, the ends are new nodes.
LEMMA SubDagIds ==
  ASSUME NEW m \in Nat, NEW k \in Nat, m + k <= MaxNodes, NEW d \in SubDags(k)
  PROVE  /\ \A i \in 1 .. k : d[i].own \subseteq 1 .. k /\ d[i].foreign \subseteq Ids
         /\ \A i \in 1 .. k : NewDeps(m, d, i) \subseteq Ids
         /\ Ends(m, k, d) \subseteq (m + 1) .. (m + k)
<1>1. \A i \in 1 .. k : d[i].own \subseteq 1 .. k /\ d[i].foreign \subseteq Ids
  BY DEF SubDags
<1>2. \A j \in 1 .. k : m + j \in Ids
  BY ExecutorAssumption DEF Ids, Nodes
<1>. QED
  BY <1>1, <1>2 DEF NewDeps, Ends

\* What _inject_subdag does to each node: k new ones follow the m old ones.
LEMMA InjectedForm ==
  ASSUME NEW p \in Plan, Filled(p), NEW m \in 0 .. MaxNodes, Present(p) = 1 .. m,
         NEW n \in 1 .. m, NEW k \in Nat, m + k <= MaxNodes, NEW d \in SubDags(k)
  PROVE  LET q == Injected(p, n, k, d) IN
         /\ q \in Plan /\ Filled(q) /\ q # Gone /\ q.status = p.status
         /\ Present(q) = 1 .. (m + k)
         /\ \A x \in Nodes : x \notin (m + 1) .. (m + k) /\ x # n =>
              q.node[x] = p.node[x] /\ q.deps[x] = p.deps[x]
         /\ q.node[n] = "draft" /\ q.deps[n] = p.deps[n] \union Ends(m, k, d)
         /\ \A x \in (m + 1) .. (m + k) :
              q.node[x] = "draft" /\ q.deps[x] = NewDeps(m, d, x - m)
<1> DEFINE q == Injected(p, n, k, d)
           new == (m + 1) .. (m + k)
           node == [x \in Nodes |-> IF x \in new \union {n} THEN "draft" ELSE p.node[x]]
           deps == [x \in Nodes |-> IF x \in new THEN NewDeps(m, d, x - m)
                                    ELSE IF x = n THEN p.deps[x] \union Ends(m, k, d)
                                    ELSE p.deps[x]]
<1>0. m \in Nat /\ k \in Nat /\ MaxNodes \in Nat /\ n \in Nodes /\ new \subseteq Nodes /\ n \notin new
  BY ExecutorAssumption DEF Nodes
<1>1. q = [p EXCEPT !.node = node, !.deps = deps]
  BY LastIdFacts DEF Injected
<1>2. node \in [Nodes -> NodeStatus]
  BY DEF Plan, NodeStatus
<1>4. deps \in [Nodes -> SUBSET Ids]
  <2>1. \A x \in new : x - m \in 1 .. k
    BY <1>0
  <2>2. \A x \in new : NewDeps(m, d, x - m) \subseteq Ids
    BY <1>0, <2>1, SubDagIds
  <2>3. Ends(m, k, d) \subseteq Ids
    BY <1>0, SubDagIds DEF Ids
  <2>4. \A x \in Nodes : p.deps[x] \subseteq Ids
    BY DEF Plan
  <2>. QED
    BY <2>2, <2>3, <2>4
<1> HIDE DEF node, deps
<1>5. q \in Plan /\ q.status = p.status /\ q.node = node /\ q.deps = deps
  BY <1>1, <1>2, <1>4 DEF Plan
<1> HIDE DEF q
<1>6. /\ \A x \in Nodes : node[x] = IF x \in new \union {n} THEN "draft" ELSE p.node[x]
      /\ \A x \in Nodes : x \notin new /\ x # n => deps[x] = p.deps[x]
      /\ \A x \in new : deps[x] = NewDeps(m, d, x - m)
      /\ deps[n] = p.deps[n] \union Ends(m, k, d)
  BY <1>0 DEF node, deps
<1>7. Present(q) = 1 .. (m + k)
  <2>1. \A x \in Nodes : p.node[x] # "absent" <=> x \in 1 .. m
    BY DEF Present
  <2>2. \A x \in Nodes : x \in 1 .. (m + k) <=> x \in 1 .. m \/ x \in new
    BY <1>0 DEF Nodes
  <2>3. 1 .. (m + k) \subseteq Nodes
    BY <1>0 DEF Nodes
  <2>4. \A x \in Nodes : q.node[x] # "absent" <=> x \in 1 .. (m + k)
    BY <1>5, <1>6, <2>1, <2>2
  <2>. QED
    BY <2>3, <2>4 DEF Present
<1>8. p.status # "gone" /\ q # Gone
  <2>1. p # Gone /\ q.node[n] # "absent"
    BY <1>0, <1>5, <1>6, GonePlan DEF Present
  <2>. QED
    BY <1>0, <2>1, GonePlan DEF Filled
<1>9. Filled(q)
  <2>1. /\ m + k \in 0 .. MaxNodes
        /\ \A x \in Nodes : q.node[x] = "absent" => q.deps[x] = {}
    BY <1>0, <1>5, <1>6 DEF Filled
  <2>2. \A x \in Nodes : q.node[x] # "cancelled"
    BY <1>5, <1>6 DEF Filled
  <2>. QED
    BY <1>5, <1>7, <1>8, <2>1, <2>2 DEF Filled
<1>10. /\ \A x \in Nodes : x \notin new /\ x # n => q.node[x] = p.node[x] /\ q.deps[x] = p.deps[x]
       /\ q.node[n] = "draft" /\ q.deps[n] = p.deps[n] \union Ends(m, k, d)
       /\ \A x \in new : q.node[x] = "draft" /\ q.deps[x] = NewDeps(m, d, x - m)
  BY <1>0, <1>5, <1>6
<1>. QED
  BY <1>5, <1>7, <1>8, <1>9, <1>10 DEF q

\* A proper sub-DAG keeps a DAG.  R holds the nodes of the plan it refers to and
\* all they depend on.  A set of nodes that meets R has a first member there; of
\* its new nodes the one of lowest rank is first; without both it is as before.
LEMMA InjectedDag ==
  ASSUME NEW p \in Plan, Filled(p), IsDag(p), NEW m \in 0 .. MaxNodes, Present(p) = 1 .. m,
         NEW n \in 1 .. m, NEW k \in Nat, m + k <= MaxNodes, NEW d \in SubDags(k), IsProper(p, n, k, d)
  PROVE  IsDag(Injected(p, n, k, d))
<1> DEFINE q == Injected(p, n, k, d)
           new == (m + 1) .. (m + k)
<1>0. m \in Nat /\ k \in Nat /\ MaxNodes \in Nat /\ n \in Nodes /\ new \subseteq Nodes /\ n \notin new
  BY ExecutorAssumption DEF Nodes
<1>1. /\ Present(q) = 1 .. (m + k)
      /\ \A x \in Nodes : x \notin new /\ x # n => q.deps[x] = p.deps[x]
      /\ q.deps[n] = p.deps[n] \union Ends(m, k, d)
      /\ \A x \in new : q.deps[x] = NewDeps(m, d, x - m)
  BY InjectedForm
<1>2. PICK rank \in [1 .. k -> 1 .. k] : \A i \in 1 .. k : \A j \in d[i].own : rank[j] < rank[i]
  BY DEF IsProper
<1>3. PICK R \in SUBSET (Present(p) \ {n}) : /\ \A x \in R : p.deps[x] \subseteq R
                                             /\ \A i \in 1 .. k : d[i].foreign \subseteq R
  BY DEF IsProper
<1>4. \A i \in 1 .. k : d[i].own \subseteq 1 .. k
  BY <1>0, SubDagIds
<1> HIDE DEF q
<1>5. \A i \in 1 .. k : m + i \in new /\ q.deps[m + i] = {m + j : j \in d[i].own} \union d[i].foreign
  <2>1. ASSUME NEW i \in 1 .. k PROVE m + i \in new /\ (m + i) - m = i
    BY <1>0
  <2>. QED
    BY <1>1, <2>1 DEF NewDeps
<1>6. \A x \in new : x - m \in 1 .. k /\ x = m + (x - m)
  BY <1>0
<1>7. Ends(m, k, d) \subseteq new
  BY <1>0, SubDagIds
<1>8. \A x \in R : x \in 1 .. m /\ x \in Nodes /\ x # n /\ x \notin new /\ q.deps[x] = p.deps[x]
  BY <1>0, <1>1, <1>3 DEF Present
<1>9. \A x \in Nodes : q.deps[x] \subseteq Present(q)
  <2>1. 1 .. m \subseteq 1 .. (m + k) /\ new \subseteq 1 .. (m + k)
    BY <1>0
  <2>2. ASSUME NEW i \in 1 .. k PROVE q.deps[m + i] \subseteq 1 .. (m + k)
    <3>1. d[i].foreign \subseteq 1 .. m
      BY <1>3, <1>8
    <3>2. \A j \in 1 .. k : m + j \in new
      BY <1>5
    <3>3. {m + j : j \in d[i].own} \subseteq new
      BY <1>4, <3>2
    <3> HIDE DEF new
    <3>. QED
      BY <1>5, <2>1, <3>1, <3>3
  <2>3. \A x \in new : q.deps[x] \subseteq 1 .. (m + k)
    BY <1>6, <2>2
  <2>4. \A x \in Nodes : x \notin new => q.deps[x] \subseteq 1 .. (m + k)
    BY <1>1, <1>7, <2>1 DEF IsDag
  <2>. QED
    BY <1>1, <2>3, <2>4
<1>10. ASSUME NEW S \in (SUBSET Nodes) \ {{}} PROVE \E x \in S : q.deps[x] \intersect S = {}
  <2>1. CASE S \intersect R # {}
    <3>1. PICK x \in S \intersect R : p.deps[x] \intersect (S \intersect R) = {}
      BY <2>1 DEF IsDag
    <3>. QED
      BY <1>3, <1>8, <3>1
  <2>2. CASE S \intersect R = {} /\ S \intersect new # {}
    <3> DEFINE I == {i \in 1 .. k : m + i \in S}
    <3>1. I # {}
      <4>1. PICK x \in new : x \in S
        BY <2>2
      <4>. QED
        BY <1>6, <4>1
    <3>2. PICK i \in I : \A j \in I : ~(rank[j] < rank[i])
      <4>1. k <= MaxNodes /\ I \in SUBSET (1 .. k)
        BY <1>0
      <4> HIDE DEF I
      <4>. QED
        BY <1>0, <3>1, <4>1, RankEnds
    <3>3. ASSUME NEW j \in d[i].own PROVE m + j \notin S
      <4>1. j \in 1 .. k
        BY <1>4
      <4>2. rank[j] < rank[i]
        BY <1>2, Zenon
      <4>. QED
        BY <3>2, <4>1, <4>2
    <3>4. m + i \in S /\ q.deps[m + i] = {m + j : j \in d[i].own} \union d[i].foreign
      BY <1>5
    <3>5. d[i].foreign \intersect S = {}
      BY <1>3, <2>2
    <3>. QED
      BY <3>3, <3>4, <3>5
  <2>3. CASE S \intersect new = {}
    <3>1. PICK x \in S : p.deps[x] \intersect S = {}
      BY DEF IsDag
    <3>2. q.deps[x] \subseteq p.deps[x] \union new
      BY <1>1, <1>7, <2>3
    <3>. QED
      BY <2>3, <3>1, <3>2
  <2>. QED
    BY <2>1, <2>2, <2>3
<1>. QED
  BY <1>9, <1>10 DEF IsDag, q

\* Whatever a proper sub-DAG injects for n is reached from n: the new node of
\* highest rank that were not would be no end, and the node that depends on it
\* is reached.
LEMMA InjectedReached ==
  ASSUME NEW p \in Plan, Filled(p), NEW m \in 0 .. MaxNodes, Present(p) = 1 .. m,
         NEW n \in 1 .. m, NEW k \in Nat, m + k <= MaxNodes, NEW d \in SubDags(k), IsProper(p, n, k, d),
         NEW o \in [Nodes -> 0 .. MaxNodes], Reaching(p, o)
  PROVE  Reaching(Injected(p, n, k, d),
                  [x \in Nodes |-> IF x \in (m + 1) .. (m + k) THEN n ELSE o[x]])
<1> DEFINE q == Injected(p, n, k, d)
           new == (m + 1) .. (m + k)
           r == [x \in Nodes |-> IF x \in new THEN n ELSE o[x]]
<1>0. m \in Nat /\ k \in Nat /\ MaxNodes \in Nat /\ n \in Nodes /\ new \subseteq Nodes /\ n \notin new
  BY ExecutorAssumption DEF Nodes
<1>1. /\ \A x \in Nodes : x \notin new /\ x # n => q.deps[x] = p.deps[x]
      /\ q.deps[n] = p.deps[n] \union Ends(m, k, d)
      /\ \A x \in new : q.deps[x] = NewDeps(m, d, x - m)
  BY <1>0, InjectedForm
<1> HIDE DEF q
<1> SUFFICES ASSUME NEW t \in Nodes, NEW x \in Nodes, r[x] = t, NEW S \in SUBSET Nodes,
                    q.deps[t] \subseteq S, \A y \in S : q.deps[y] \subseteq S
             PROVE  x \in S
  BY DEF Reaching, q
<1>2. CASE x \in new
  <2>1. t = n /\ Ends(m, k, d) \subseteq S
    BY <1>1, <1>2
  <2>2. ASSUME new \ S # {} PROVE FALSE
    <3> DEFINE I == {i \in 1 .. k : m + i \notin S}
    <3>1. \E z \in new : z \notin S /\ z - m \in 1 .. k /\ z = m + (z - m)
      BY <1>0, <2>2
    <3>2. I # {}
      BY <3>1
    <3>3. PICK rank \in [1 .. k -> 1 .. k] : \A i \in 1 .. k : \A j \in d[i].own : rank[j] < rank[i]
      BY DEF IsProper
    <3>4. PICK i \in I : \A j \in I : ~(rank[i] < rank[j])
      <4>1. k <= MaxNodes /\ I \in SUBSET (1 .. k)
        BY <1>0
      <4> HIDE DEF I
      <4>. QED
        BY <1>0, <3>2, <4>1, RankEnds
    <3>5. m + i \in new /\ m + i \notin S
      BY <1>0
    <3>6. PICK j \in 1 .. k : m + i \in NewDeps(m, d, j)
      BY <2>1, <3>5 DEF Ends
    <3>7. m + i \notin d[j].foreign
      <4>1. d[j].foreign \subseteq Present(p)
        BY DEF IsProper
      <4>. QED
        BY <1>0, <4>1
    <3>8. PICK a \in d[j].own : m + i = m + a
      BY <3>6, <3>7 DEF NewDeps
    <3>9. a \in 1 .. k /\ a = i
      <4>1. a \in 1 .. k
        BY <1>0, SubDagIds
      <4>2. m \in Int /\ a \in Int /\ i \in Int
        BY <1>0, <4>1
      <4>. QED
        BY <3>8, <4>1, <4>2
    <3>10. rank[i] < rank[j]
      BY <3>3, <3>9, Zenon
    <3>11. m + j \in S
      BY <3>4, <3>10
    <3>12. m + j \in new /\ (m + j) - m = j
      BY <1>0
    <3>13. q.deps[m + j] = NewDeps(m, d, j)
      BY <1>1, <3>12
    <3>. QED
      BY <3>5, <3>6, <3>11, <3>13
  <2>. QED
    BY <1>2, <2>2
\* An old dependency is still one, except for those of nodes not yet there.
<1>3. CASE x \notin new
  <2>1. \A y \in Nodes : y \notin new => p.deps[y] \subseteq q.deps[y]
    BY <1>1
  <2>2. \A y \in new : p.deps[y] = {}
    <3>1. ASSUME NEW y \in new PROVE p.deps[y] = {}
      <4>1. y \notin Present(p)
        BY <1>0
      <4>. QED
        BY <1>0, <4>1 DEF Present, Filled
    <3>. QED
      BY <3>1
  <2>3. p.deps[t] \subseteq S /\ \A y \in S : p.deps[y] \subseteq S
    BY <2>1, <2>2
  <2>4. o[x] = t
    BY <1>3
  <2>. QED
    BY <2>3, <2>4 DEF Reaching
<1>. QED
  BY <1>2, <1>3

-----------------------------------------------------------------------------
\* The inductive invariant, step by step

LEMMA InitInv == Init => IInv
<1> SUFFICES ASSUME Init PROVE IInv
  OBVIOUS
<1> USE ExecutorAssumption DEF Init
<1>1. TypeOK
  BY GonePlan DEF TypeOK
<1>2. Sound
  BY <1>1, GonePlan DEF Sound
<1>3. OneRun /\ Begun
  BY DEF OneRun, Begun, Active
<1>4. Ordered
  BY GonePlan DEF Ordered, Owned, Working, Held, Closed, Completed, With, Reached
<1>. QED
  BY <1>2, <1>3, <1>4, GonePlan DEF IInv, PlanIsDag

\* One pass of the loop changes the status of the plan at most, and queues
\* runnable nodes.
LEMMA PassFacts ==
  ASSUME Sound, NEW e \in Executors, NEW p \in Plan, Filled(p), Pass(e, p),
         \A n \in Nodes : task[e][n] = "none"
  PROVE  /\ plan' \in Plan /\ Filled(plan') /\ (IsDag(p) => IsDag(plan'))
         /\ plan'.node = p.node /\ plan'.deps = p.deps /\ (plan' = Gone <=> p = Gone)
         /\ phase' \in [Executors -> Phases] /\ task' \in [Executors -> [Nodes -> Places]]
         /\ \A f \in Executors : f # e => phase'[f] = phase[f] /\ task'[f] = task[f]
         /\ phase'[e] \in Active => plan' = p
         /\ \A n \in Nodes : task'[e][n] # "none" =>
              phase'[e] = "gather" /\ task'[e][n] = "queued" /\ n \in Runnable(p)
<1>1. phase \in [Executors -> Phases] /\ task \in [Executors -> [Nodes -> Places]]
  BY DEF Sound, TypeOK, Phases, Places
<1>2. \/ plan' = p
      \/ p # Gone /\ plan' = [p EXCEPT !.status = Derived(p)]
  BY DEF Pass
<1>3. /\ plan' \in Plan /\ Filled(plan') /\ (IsDag(p) => IsDag(plan'))
      /\ plan'.node = p.node /\ plan'.deps = p.deps /\ (plan' = Gone <=> p = Gone)
  <2>1. CASE plan' = p
    BY <2>1
  <2>2. CASE p # Gone /\ plan' = [p EXCEPT !.status = Derived(p)]
    <3> DEFINE s == Derived(p)
    <3>1. s \in {"running"} \union Terminal /\ plan' = [p EXCEPT !.status = s]
      BY <2>2, DerivedStatus
    <3> HIDE DEF s
    <3>. QED
      BY <2>2, <3>1, StatusFacts
  <2>. QED
    BY <1>2, <2>1, <2>2
<1>4. PICK s \in {"raised", "done", "gather", "sleep"} : phase' = [phase EXCEPT ![e] = s]
  BY DEF Pass, GoTo
<1>5. phase' \in [Executors -> Phases] /\ phase'[e] = s
  BY <1>1, <1>4 DEF Phases, Active
<1>6. CASE task' = task /\ s # "gather"
  <2>1. s \in Active => plan' = p
    BY <1>4, <1>5, <1>6 DEF Pass, GoTo, Active
  <2>. QED
    BY <1>1, <1>3, <1>4, <1>5, <1>6, <2>1
<1>7. CASE /\ s = "gather" /\ plan' = p
           /\ task' = [task EXCEPT ![e] = [n \in Nodes |-> IF n \in Runnable(p) THEN "queued" ELSE "none"]]
  <2>1. task' \in [Executors -> [Nodes -> Places]]
    BY <1>1, <1>7 DEF Places
  <2>2. \A n \in Nodes : task'[e][n] = IF n \in Runnable(p) THEN "queued" ELSE "none"
    BY <1>1, <1>7
  <2>. QED
    BY <1>1, <1>3, <1>4, <1>5, <1>7, <2>1, <2>2
<1>8. (task' = task /\ s # "gather")
      \/ /\ s = "gather" /\ plan' = p
         /\ task' = [task EXCEPT ![e] = [n \in Nodes |-> IF n \in Runnable(p) THEN "queued" ELSE "none"]]
  BY <1>1, <1>4 DEF Pass, GoTo
<1>. QED
  BY <1>6, <1>7, <1>8

\* A pass on a plan in which the invariant holds, when no other run is active.
LEMMA PassInv ==
  ASSUME IInv, NEW e \in Executors, NEW p \in Plan, Pass(e, p),
         Filled(p), proper' => IsDag(p), p.status \in {"gone", "running", "cancelled"} \/ Overlap,
         \A n \in Nodes : task[e][n] = "none",
         p = plan \/ (p.node = plan.node /\ plan # Gone) \/ (Planner => \A f \in Executors : phase[f] \notin Active),
         ~Overlap => \A f \in Executors : f # e => phase[f] \notin Active,
         ~Overlap => \A n \in Completed(p) : p.deps[n] \subseteq Completed(p),
         ~Overlap => (proper' /\ p # Gone => Reaching(p, origin')), proper' \in BOOLEAN,
         origin' \in [Nodes -> 0 .. MaxNodes], UNCHANGED <<injections, crashes, externals>>
  PROVE  IInv'
<1>1. /\ plan' \in Plan /\ Filled(plan') /\ (IsDag(p) => IsDag(plan'))
      /\ plan'.node = p.node /\ plan'.deps = p.deps /\ (plan' = Gone <=> p = Gone)
      /\ phase' \in [Executors -> Phases] /\ task' \in [Executors -> [Nodes -> Places]]
      /\ \A f \in Executors : f # e => phase'[f] = phase[f] /\ task'[f] = task[f]
      /\ phase'[e] \in Active => plan' = p
      /\ \A n \in Nodes : task'[e][n] # "none" =>
           phase'[e] = "gather" /\ task'[e][n] = "queued" /\ n \in Runnable(p)
  BY PassFacts DEF IInv
<1>2. Completed(plan') = Completed(p) /\ Present(plan') = Present(p)
  BY <1>1 DEF Completed, Present, With
<1>3. TypeOK'
  BY <1>1 DEF IInv, Sound, TypeOK, Phases, Places
<1>4. Sound'
  BY <1>1, <1>3 DEF IInv, Sound
<1>5. OneRun' /\ PlanIsDag'
  BY <1>1 DEF OneRun, PlanIsDag
<1>12. Owned'
  <2> SUFFICES ASSUME Planner \/ ~Overlap, plan' # Gone, NEW f \in Executors, NEW n \in Nodes,
                      task'[f][n] # "none"
               PROVE  n \in Present(plan')
    BY DEF Owned
  <2>1. CASE f = e
    BY <1>1, <1>2, <2>1 DEF Runnable, With, Present
  <2>2. CASE f # e
    <3>1. task[f][n] # "none" /\ phase[f] \in Active
      BY <1>1, <2>2 DEF IInv, Sound, Active
    <3>2. plan # Gone /\ Present(p) = Present(plan)
      BY <1>1, <2>2, <3>1 DEF Present
    <3>. QED
      BY <1>2, <3>1, <3>2 DEF IInv, Ordered, Owned
  <2>. QED
    BY <2>1, <2>2
<1>6. Working'
  <2> SUFFICES ASSUME ~Overlap, plan' # Gone, NEW f \in Executors, NEW n \in Nodes,
                      task'[f][n] # "none"
               PROVE  /\ plan'.deps[n] \subseteq Completed(plan')
                      /\ task'[f][n] # "handler"
    BY DEF Working, Held
  <2>1. f = e
    BY <1>1 DEF IInv, Sound, Active
  <2>2. n \in Runnable(p) /\ task'[f][n] = "queued"
    BY <1>1, <2>1
  <2>3. p.deps[n] \subseteq Completed(p)
    BY <2>2 DEF Runnable, Completed
  <2>. QED
    BY <1>1, <1>2, <2>2, <2>3
<1>7. ~Overlap => Closed'
  BY <1>1, <1>2 DEF Closed
<1>8. ~Overlap => Reached'
  BY <1>1 DEF Reached, Reaching
<1>9. Begun'
  BY <1>1 DEF Begun
<1>. QED
  BY <1>1, <1>4, <1>5, <1>6, <1>7, <1>8, <1>9, <1>12 DEF IInv, Ordered

\* The loop of run(), whichever way it gets to its next pass.
LEMMA LoopInv ==
  ASSUME IInv, NEW e \in Executors, Run(e) \/ Send(e) \/ NextPass(e)
  PROVE  IInv'
<1>0. /\ plan \in Plan /\ Filled(plan) /\ (proper => IsDag(plan))
      /\ origin \in [Nodes -> 0 .. MaxNodes] /\ proper \in BOOLEAN
      /\ ~Overlap => Closed /\ Reached
  BY DEF IInv, Sound, TypeOK, Ordered, PlanIsDag
<1>1. ASSUME MayStart(e)
      PROVE  /\ \A n \in Nodes : task[e][n] = "none"
             /\ ~Overlap => \A f \in Executors : f # e => phase[f] \notin Active
  BY <1>1 DEF MayStart, Alone, IInv, Sound
<1>2. CASE Run(e)
  <2>1. CASE plan = Gone
    <3>1. Pass(e, Gone) /\ MayStart(e) /\ UNCHANGED <<origin, proper, injections, crashes, externals>>
      BY <1>2, <2>1 DEF Run, history
    <3>2. Gone.status = "gone" /\ Completed(Gone) = {}
      BY GonePlan DEF Gone, Completed, With
    <3>. QED
      BY <1>0, <1>1, <2>1, <3>1, <3>2, GonePlan, PassInv
  <2>2. CASE plan # Gone
    <3> DEFINE p == [plan EXCEPT !.status = "running"]
    <3>1. Pass(e, p) /\ MayStart(e) /\ UNCHANGED <<origin, proper, injections, crashes, externals>>
      BY <1>2, <2>2 DEF Run, history
    <3>2. /\ p \in Plan /\ Filled(p) /\ (IsDag(plan) => IsDag(p)) /\ p.status = "running" /\ p # Gone
          /\ p.node = plan.node /\ p.deps = plan.deps /\ Completed(p) = Completed(plan)
      BY <1>0, StatusFacts
    <3> HIDE DEF p
    <3>3. ~Overlap => /\ \A n \in Completed(p) : p.deps[n] \subseteq Completed(p)
                      /\ proper' => Reaching(p, origin')
      BY <1>0, <2>2, <3>1, <3>2 DEF Closed, Reached, Reaching
    <3>. QED
      BY <1>0, <1>1, <2>2, <3>1, <3>2, <3>3, PassInv
  <2>. QED
    BY <2>1, <2>2
<1>3. CASE Send(e)
  <2>1. PICK k \in 0 .. MaxPlan : \E d \in Dags(k) : Pass(e, [NewPlan(k, d) EXCEPT !.status = "running"])
    BY <1>3 DEF Send
  <2>2. PICK d \in Dags(k) : Pass(e, [NewPlan(k, d) EXCEPT !.status = "running"])
    BY <2>1
  <2> DEFINE p == [NewPlan(k, d) EXCEPT !.status = "running"]
  <2>3. /\ p \in Plan /\ Filled(p) /\ IsDag(p) /\ p.status = "running"
        /\ p.node = NewPlan(k, d).node
    BY NewPlanFacts, StatusFacts
  <2>4. Completed(p) = {}
    BY <2>3, NewPlanFacts DEF Completed, With
  <2> HIDE DEF p
  <2>5. /\ origin' = [n \in Nodes |-> 0] /\ proper' = TRUE /\ MayStart(e)
        /\ Planner => \A f \in Executors : phase[f] \notin Active
        /\ UNCHANGED <<injections, crashes, externals>>
    BY <1>3 DEF Send, Alone
  <2>6. Reaching(p, origin') /\ origin' \in [Nodes -> 0 .. MaxNodes]
    BY <2>5, ExecutorAssumption DEF Reaching, Nodes
  <2>7. Pass(e, p)
    BY <2>2 DEF p
  <2>. QED
    BY <1>1, <2>3, <2>4, <2>5, <2>6, <2>7, PassInv
<1>4. CASE NextPass(e)
  <2>1. /\ phase[e] \in Active /\ Pass(e, plan) /\ \A n \in Nodes : task[e][n] = "none"
        /\ UNCHANGED <<origin, proper, injections, crashes, externals>>
    BY <1>4 DEF NextPass, BatchOver, history
  <2>2. ~Overlap => \A f \in Executors : f # e => phase[f] \notin Active
    BY <2>1 DEF IInv, OneRun
  <2>3. plan.status \in {"gone", "running", "cancelled"} \/ Overlap
    BY <2>1 DEF IInv, Begun
  <2>. QED
    BY <1>0, <2>1, <2>2, <2>3, PassInv DEF Closed, Reached
<1>. QED
  BY <1>2, <1>3, <1>4

\* Marking a node that has a task.  Were the runs to overlap, the node could be
\* over already; then only types and the DAG are claimed.
LEMMA NodeMarked ==
  ASSUME IInv, NEW e \in Executors, NEW n \in Present(plan), NEW s \in {"none", "handler"},
         NEW st \in {"running", "completed", "failed", "needs_tool"},
         task[e][n] # "none", TaskIs(e, n, s), Mark(n, st),
         ~Overlap => plan.node[n] \notin Terminal, s = "handler" => st = "running",
         UNCHANGED <<phase, origin, proper, crashes, externals>>,
         injections' \in [Executors -> [Nodes -> 0 .. MaxInjections]]
  PROVE  IInv'
<1>0. n \in Nodes /\ TypeOK /\ Filled(plan) /\ (proper => IsDag(plan))
  BY DEF Present, IInv, Sound, PlanIsDag
<1>1. /\ plan' \in Plan /\ Filled(plan') /\ plan' # Gone
      /\ plan'.status = plan.status /\ plan'.deps = plan.deps /\ Present(plan') = Present(plan)
      /\ \A x \in Nodes : plan'.node[x] = IF x = n THEN st ELSE plan.node[x]
      /\ proper' => IsDag(plan')
  BY <1>0, MarkFacts DEF TypeOK
<1>2. /\ task' \in [Executors -> [Nodes -> Places]]
      /\ \A f \in Executors, x \in Nodes :
           task'[f][x] = IF f = e /\ x = n THEN s ELSE task[f][x]
  BY <1>0 DEF TypeOK, TaskIs, Places
<1>3. TypeOK'
  BY <1>0, <1>1, <1>2 DEF TypeOK, Places
<1>4. Sound'
  BY <1>0, <1>1, <1>2, <1>3 DEF Sound, IInv
<1>5. OneRun' /\ PlanIsDag'
  BY <1>1 DEF OneRun, PlanIsDag, IInv
<1>6. plan # Gone
  BY <1>0, GonePlan DEF Present
<1>12. Owned'
  BY <1>1, <1>2, <1>6 DEF IInv, Ordered, Owned
<1>7. ~Overlap => Completed(plan) \subseteq Completed(plan')
  BY <1>1 DEF Completed, With, Terminal
<1>8. Working'
  <2> SUFFICES ASSUME ~Overlap, NEW f \in Executors, NEW x \in Nodes, task'[f][x] # "none"
               PROVE  /\ plan'.deps[x] \subseteq Completed(plan')
                      /\ task'[f][x] = "handler" => plan'.node[x] = "running"
    BY DEF Working, Held
  <2>1. task[f][x] # "none" /\ f = e
    BY <1>0, <1>2 DEF IInv, Sound, OneRun, Active
  <2>2. /\ plan.deps[x] \subseteq Completed(plan)
        /\ task[f][x] = "handler" => plan.node[x] = "running"
    BY <1>6, <2>1 DEF IInv, Ordered, Working, Held
  <2>. QED
    BY <1>0, <1>1, <1>2, <1>7, <2>1, <2>2
<1>9. ~Overlap => Closed'
  <2> SUFFICES ASSUME ~Overlap, NEW x \in Completed(plan')
               PROVE  plan.deps[x] \subseteq Completed(plan)
    BY <1>1, <1>7 DEF Closed
  <2>1. x = n \/ x \in Completed(plan)
    BY <1>1 DEF Completed, With
  <2>2. plan.deps[n] \subseteq Completed(plan)
    BY <1>0, <1>6 DEF IInv, Ordered, Working, Held
  <2>. QED
    BY <2>1, <2>2 DEF IInv, Ordered, Closed
<1>10. ~Overlap => Reached'
  BY <1>1, <1>6 DEF IInv, Ordered, Reached, Reaching
<1>11. Begun'
  BY <1>1 DEF IInv, Begun
<1>. QED
  BY <1>4, <1>5, <1>8, <1>9, <1>10, <1>11, <1>12 DEF IInv, Ordered

\* A task that ends without a change of the plan.
LEMMA NodeSkipped ==
  ASSUME IInv, NEW e \in Executors, NEW n \in Nodes, TaskIs(e, n, "none"),
         UNCHANGED <<plan, phase, origin, proper, crashes, externals>>,
         injections' \in [Executors -> [Nodes -> 0 .. MaxInjections]]
  PROVE  IInv'
<1>1. /\ task' \in [Executors -> [Nodes -> Places]]
      /\ \A f \in Executors, x \in Nodes :
           task'[f][x] = IF f = e /\ x = n THEN "none" ELSE task[f][x]
  BY DEF IInv, Sound, TypeOK, TaskIs, Places
<1>2. TypeOK'
  BY <1>1 DEF IInv, Sound, TypeOK, Places
<1>3. Sound'
  BY <1>1, <1>2 DEF IInv, Sound
<1>4. Working' /\ Owned'
  BY <1>1 DEF IInv, Ordered, Owned, Working, Held
<1>. QED
  BY <1>3, <1>4 DEF IInv, OneRun, PlanIsDag, Ordered, Closed, Reached, Begun

\* A handler's outcome recorded, unless the node is gone.
LEMMA NodeSettled ==
  ASSUME IInv, NEW e \in Executors, NEW n \in Nodes, NEW st \in {"completed", "failed"},
         task[e][n] = "handler", TaskIs(e, n, "none"), Settle(n, st),
         UNCHANGED <<phase, origin, proper, crashes, externals>>,
         injections' \in [Executors -> [Nodes -> 0 .. MaxInjections]]
  PROVE  IInv'
<1>1. CASE plan.node[n] = "absent"
  BY <1>1, NodeSkipped DEF Settle
<1>2. CASE plan.node[n] # "absent"
  <2>1. n \in Present(plan) /\ Mark(n, st)
    BY <1>2 DEF Present, Settle
  <2>2. plan # Gone
    BY <1>2, GonePlan
  <2>3. ~Overlap => plan.node[n] \notin Terminal
    BY <2>2 DEF IInv, Ordered, Working, Held, Terminal
  <2>. QED
    BY <2>1, <2>3, NodeMarked
<1>. QED
  BY <1>1, <1>2

\* Injection: the node goes back to draft, its new prerequisites follow the
\* nodes there are.
LEMMA NodeInjected ==
  ASSUME IInv, NEW e \in Executors, NEW n \in Nodes, NEW k \in 0 .. MaxSub, NEW d \in SubDags(k),
         Planner, plan # Gone, task[e][n] = "handler", TaskIs(e, n, "none"), Inject(n, k, d),
         UNCHANGED <<phase, crashes, externals>>,
         injections' \in [Executors -> [Nodes -> 0 .. MaxInjections]]
  PROVE  IInv'
<1>0. TypeOK /\ plan \in Plan /\ Filled(plan) /\ (proper => IsDag(plan))
  BY DEF IInv, Sound, TypeOK, PlanIsDag
<1>1. PICK m \in 0 .. MaxNodes : Present(plan) = 1 .. m
  BY <1>0 DEF Filled
<1>2. n \in 1 .. m /\ (~Overlap => plan.node[n] = "running") /\ k \in Nat /\ MaxNodes \in Nat
  BY <1>1, ExecutorAssumption DEF IInv, Ordered, Owned, Working, Held
<1>3. LastId(plan) = m /\ m + k <= MaxNodes
  BY <1>0, <1>1, LastIdFacts DEF Inject
<1> DEFINE new == (m + 1) .. (m + k)
<1>4. /\ plan' \in Plan /\ Filled(plan') /\ plan' # Gone /\ plan'.status = plan.status
      /\ Present(plan') = 1 .. (m + k)
      /\ \A x \in Nodes : x \notin new /\ x # n =>
           plan'.node[x] = plan.node[x] /\ plan'.deps[x] = plan.deps[x]
      /\ plan'.node[n] = "draft"
      /\ \A x \in new : plan'.node[x] = "draft"
  BY <1>0, <1>1, <1>2, <1>3, InjectedForm DEF Inject
<1>5. proper' \in BOOLEAN /\ (proper' => proper /\ IsProper(plan, n, k, d))
  BY <1>0 DEF Inject, TypeOK
<1>17. PlanIsDag'
  BY <1>0, <1>1, <1>2, <1>3, <1>5, InjectedDag DEF Inject, PlanIsDag
<1>6. origin' = [x \in Nodes |-> IF x \in new THEN n ELSE origin[x]]
  <2>1. \A x \in Nodes : x \in Present(plan') \ Present(plan) <=> x \in new
    BY <1>1, <1>2, <1>4 DEF Nodes
  <2>. QED
    BY <2>1 DEF Inject
<1>7. origin \in [Nodes -> 0 .. MaxNodes] /\ origin' \in [Nodes -> 0 .. MaxNodes]
  BY <1>0, <1>2, <1>6, SMTT(30) DEF TypeOK, Nodes
<1>8. ASSUME ~Overlap, proper' PROVE Reaching(plan', origin')
  <2>1. Reaching(plan, origin) /\ IsProper(plan, n, k, d)
    BY <1>5, <1>8 DEF IInv, Ordered, Reached
  <2>2. Reaching(Injected(plan, n, k, d), [x \in Nodes |-> IF x \in (m + 1) .. (m + k) THEN n ELSE origin[x]])
    <3>1. /\ plan \in Plan /\ Filled(plan) /\ Present(plan) = 1 .. m /\ n \in 1 .. m
          /\ k \in Nat /\ m + k <= MaxNodes /\ origin \in [Nodes -> 0 .. MaxNodes]
      BY <1>0, <1>1, <1>2, <1>3, <1>7
    <3>. QED
      BY <2>1, <3>1, InjectedReached, SMTT(30)
  <2>. QED
    BY <1>6, <2>2, Zenon DEF Inject
<1>9. /\ task' \in [Executors -> [Nodes -> Places]]
      /\ \A f \in Executors, x \in Nodes :
           task'[f][x] = IF f = e /\ x = n THEN "none" ELSE task[f][x]
  BY <1>0 DEF TypeOK, TaskIs, Places
<1>10. TypeOK'
  <2>1. proper' \in BOOLEAN
    BY <1>5
  <2>. QED
    BY <1>0, <1>4, <1>7, <1>9, <2>1 DEF TypeOK, Places
<1>11. Sound'
  <2>1. \A f \in Executors, x \in Nodes : task'[f][x] # "none" => task[f][x] # "none"
    BY <1>9
  <2>2. \A f \in Executors, x \in Nodes : task'[f][x] # "none" => phase'[f] = "gather"
    BY <2>1 DEF IInv, Sound
  <2>. QED
    BY <1>4, <1>10, <2>2 DEF Sound
<1>12. ~Overlap => Completed(plan') = Completed(plan)
  <2>1. \A x \in new : x \notin Present(plan)
    BY <1>1, <1>2
  <2>2. \A x \in Nodes : x \in new => plan.node[x] = "absent"
    BY <2>1 DEF Present
  <2>. QED
    BY <1>2, <1>4, <2>2 DEF Completed, With
<1>13. \A x \in Nodes : x # n /\ x \in Present(plan) => plan'.deps[x] = plan.deps[x]
                                                  /\ plan'.node[x] = plan.node[x]
  BY <1>1, <1>2, <1>4
<1>18. Owned'
  <2>1. Present(plan) \subseteq Present(plan')
    BY <1>1, <1>2, <1>4
  <2>. QED
    BY <1>9, <2>1 DEF IInv, Ordered, Owned
<1>14. Working'
  <2> SUFFICES ASSUME ~Overlap, NEW f \in Executors, NEW x \in Nodes, task'[f][x] # "none"
               PROVE  /\ plan'.deps[x] \subseteq Completed(plan')
                      /\ task'[f][x] = "handler" => plan'.node[x] = "running"
    BY DEF Working, Held
  <2>1. task[f][x] # "none" /\ f = e /\ x # n /\ task'[f][x] = task[f][x]
    BY <1>0, <1>9 DEF IInv, Sound, OneRun, Active
  <2>2. /\ x \in Present(plan) /\ plan.deps[x] \subseteq Completed(plan)
        /\ task[f][x] = "handler" => plan.node[x] = "running"
    BY <2>1 DEF IInv, Ordered, Owned, Working, Held
  <2>. QED
    BY <1>12, <1>13, <2>1, <2>2
<1>15. ~Overlap => Closed'
  <2> SUFFICES ASSUME ~Overlap PROVE Closed'
    OBVIOUS
  <2>1. \A x \in Completed(plan) : x \in Nodes /\ x # n /\ x \in Present(plan)
    BY <1>2 DEF Completed, With, Present
  <2>2. \A x \in Completed(plan) : plan.deps[x] \subseteq Completed(plan)
    BY DEF IInv, Ordered, Closed
  <2>. QED
    BY <1>12, <1>13, <2>1, <2>2 DEF Closed
<1>16. OneRun' /\ Begun' /\ (~Overlap => Reached')
  BY <1>4, <1>8 DEF IInv, OneRun, Begun, Reached
<1>. QED
  BY <1>11, <1>14, <1>15, <1>16, <1>17, <1>18 DEF IInv, Ordered

\* The steps of a node's task.
LEMMA NodeInv ==
  ASSUME IInv, NEW e \in Executors, NEW n \in Nodes, BeginNode(e, n) \/ HandlerEnds(e, n)
  PROVE  IInv'
<1>0. injections \in [Executors -> [Nodes -> 0 .. MaxInjections]] /\ MaxInjections \in Nat
  BY ExecutorAssumption DEF IInv, Sound, TypeOK
<1>1. CASE BeginNode(e, n)
  <2>0. /\ task[e][n] # "none" /\ UNCHANGED <<phase, origin, proper, crashes, externals>>
        /\ injections' \in [Executors -> [Nodes -> 0 .. MaxInjections]]
    BY <1>0, <1>1 DEF BeginNode, history
  <2>1. CASE Skip(e, n)
    BY <2>0, <2>1, NodeSkipped DEF Skip
  <2>2. CASE plan.node[n] \in {"draft", "running"} /\ Resolve(e, n)
    <3>1. n \in Present(plan) /\ plan.node[n] \notin Terminal
      BY <2>2 DEF Present, Terminal
    <3>2. CASE Dispatch(e, n)
      BY <2>0, <3>1, <3>2, NodeMarked DEF Dispatch
    <3>3. CASE MissesTool(e, n)
      <4>1. MissingTool \in {"needs_tool", "failed"}
        BY DEF MissingTool
      <4>. QED
        BY <2>0, <3>1, <3>3, <4>1, NodeMarked DEF MissesTool
    <3>4. CASE ScaffoldEscapes(e, n)
      BY <2>0, <3>1, <3>4, NodeMarked DEF ScaffoldEscapes
    <3>. QED
      BY <2>2, <3>2, <3>3, <3>4 DEF Resolve
  <2>. QED
    BY <1>1, <2>1, <2>2 DEF BeginNode
<1>2. CASE HandlerReturns(e, n)
  BY <1>0, <1>2, NodeSettled DEF HandlerReturns, history
<1>3. CASE HandlerRaises(e, n)
  BY <1>0, <1>3, NodeSettled DEF HandlerRaises, history
<1>4. CASE HandlerAsks(e, n)
  <2>0. /\ task[e][n] = "handler" /\ TaskIs(e, n, "none") /\ UNCHANGED <<phase, crashes, externals>>
    BY <1>4 DEF HandlerAsks
  <2>1. CASE Settle(n, "failed") /\ UNCHANGED <<injections, history>>
    BY <1>0, <2>0, <2>1, NodeSettled DEF history
  <2>2. CASE /\ Planner /\ ~TooMany(e, n)
             /\ injections' = [injections EXCEPT ![e][n] = @ + 1]
    <3>1. injections' \in [Executors -> [Nodes -> 0 .. MaxInjections]]
      BY <1>0, <2>2 DEF TooMany
    <3>2. CASE Settle(n, "failed") /\ UNCHANGED history
      BY <2>0, <3>1, <3>2, NodeSettled DEF history
    <3>3. ASSUME plan # Gone, NEW k \in 0 .. MaxSub, NEW d \in SubDags(k), Inject(n, k, d)
          PROVE  IInv'
      BY <2>0, <2>2, <3>1, <3>3, NodeInjected
    <3>. QED
      BY <1>4, <2>1, <2>2, <3>2, <3>3 DEF HandlerAsks
  <2>. QED
    BY <1>4, <2>1, <2>2 DEF HandlerAsks
<1>. QED
  BY <1>1, <1>2, <1>3, <1>4 DEF HandlerEnds

LEMMA CrashInv == IInv /\ Crash => IInv'
<1> SUFFICES ASSUME IInv, Crash PROVE IInv'
  OBVIOUS
<1>1. /\ \A e \in Executors, n \in Nodes : task'[e][n] = "none"
      /\ \A e \in Executors : phase'[e] = (IF phase[e] \in Active THEN "crashed" ELSE phase[e])
                              /\ phase'[e] \notin Active
  BY DEF Crash, Active
<1>2. TypeOK'
  BY ExecutorAssumption DEF IInv, Sound, TypeOK, Crash, history
<1>3. Sound'
  BY <1>1, <1>2 DEF IInv, Sound, Crash
<1>. QED
  BY <1>1, <1>3 DEF IInv, OneRun, PlanIsDag, Ordered, Owned, Working, Held, Closed, Reached, Begun, Crash, history

LEMMA ExternalInv == IInv /\ External => IInv'
<1> SUFFICES ASSUME IInv, External PROVE IInv'
  OBVIOUS
<1>0. /\ plan \in Plan /\ Filled(plan) /\ plan # Gone /\ UNCHANGED <<calls, origin, proper, crashes>>
      /\ externals' \in 0 .. MaxExternals
  BY ExecutorAssumption DEF IInv, Sound, TypeOK, External, history
<1>1. CASE plan' = Gone
  <2>1. TypeOK'
    BY <1>0, <1>1, GonePlan DEF IInv, Sound, TypeOK, calls
  <2>2. Sound'
    BY <1>0, <1>1, <2>1, GonePlan DEF IInv, Sound, calls
  <2>3. Completed(plan') = {} /\ plan'.status = "gone"
    BY <1>1, GonePlan DEF Completed, With, Gone
  <2>. QED
    BY <1>0, <1>1, <2>2, <2>3, GonePlan
       DEF IInv, OneRun, PlanIsDag, Ordered, Owned, Working, Held, Closed, Reached, Begun, calls
<1>2. CASE plan' = [plan EXCEPT !.status = "cancelled"]
  <2>1. /\ plan' \in Plan /\ Filled(plan') /\ plan' # Gone /\ plan'.status = "cancelled"
        /\ plan'.node = plan.node /\ plan'.deps = plan.deps
        /\ Present(plan') = Present(plan) /\ Completed(plan') = Completed(plan)
        /\ (IsDag(plan) => IsDag(plan'))
    BY <1>0, <1>2, StatusFacts DEF IInv, Terminal
  <2>2. TypeOK'
    BY <1>0, <2>1 DEF IInv, Sound, TypeOK, calls
  <2>3. Sound'
    BY <1>0, <2>1, <2>2 DEF IInv, Sound, calls
  <2>. QED
    BY <1>0, <2>1, <2>3
       DEF IInv, OneRun, PlanIsDag, Ordered, Owned, Working, Held, Closed, Reached, Reaching, Begun, calls
<1>. QED
  BY <1>1, <1>2 DEF External

LEMMA NextInv == IInv /\ [Next]_vars => IInv'
<1> SUFFICES ASSUME IInv, [Next]_vars PROVE IInv'
  OBVIOUS
<1>1. ASSUME NEW e \in Executors, Run(e) \/ Send(e) \/ NextPass(e) PROVE IInv'
  BY <1>1, LoopInv
<1>2. ASSUME NEW e \in Executors, NEW n \in Nodes, BeginNode(e, n) \/ HandlerEnds(e, n) PROVE IInv'
  BY <1>2, NodeInv
<1>3. CASE Crash
  BY <1>3, CrashInv
<1>4. CASE External
  BY <1>4, ExternalInv
<1>5. CASE UNCHANGED vars
  BY <1>5 DEF vars, calls, history, IInv, Sound, TypeOK, OneRun, PlanIsDag, Ordered, Owned, Working,
              Held, Closed, Reached, Begun
<1>. QED
  BY <1>1, <1>2, <1>3, <1>4, <1>5 DEF Next

LEMMA AlwaysIInv == Spec => []IInv
BY InitInv, NextInv, PTL DEF Spec

-----------------------------------------------------------------------------
\* The theorems

\* Plan, calls, tasks and injection counts stay in their types, however often
\* the plan is replaced, deleted or grown by injections (executor.py).
THEOREM TypeCorrect == Spec => []TypeOK
BY AlwaysIInv, PTL DEF IInv, Sound

\* _inject_subdag appends a sub-DAG to a stored plan without closing a circle or
\* naming a node that is not there, whatever crashes, deletes and replaces the
\* plan between the calls: only a sub-DAG that is no proper one can break it.
THEOREM PlanStaysDag == Spec => []PlanIsDag
<1>1. IInv => PlanIsDag
  BY DEF IInv
<1>. QED
  BY <1>1, AlwaysIInv, PTL

\* _execute_node calls a handler only after everything the node depends on is
\* completed, and with proper sub-DAGs everything ever injected for it, as long
\* as the runs of the plan do not overlap.
THEOREM PrerequisitesComeFirst ==
  ASSUME ~Overlap
  PROVE  Spec => []PrerequisitesFirst
<1>1. IInv => PrerequisitesFirst
  <2> SUFFICES ASSUME IInv, plan # Gone, NEW e \in Executors, NEW n \in Nodes, task[e][n] = "handler"
               PROVE  /\ plan.deps[n] \subseteq With(plan, {"completed"})
                      /\ proper => \A x \in Nodes : origin[x] = n => plan.node[x] = "completed"
    BY DEF PrerequisitesFirst
  <2>1. plan.deps[n] \subseteq Completed(plan)
    BY DEF IInv, Ordered, Working, Held
  <2>2. Completed(plan) \in SUBSET Nodes /\ \A y \in Completed(plan) : plan.deps[y] \subseteq Completed(plan)
    BY DEF IInv, Ordered, Closed, Completed, With
  <2>3. ASSUME proper, NEW x \in Nodes, origin[x] = n PROVE x \in Completed(plan)
    BY <2>1, <2>2, <2>3 DEF IInv, Ordered, Reached, Reaching
  <2>. QED
    BY <2>1, <2>3 DEF Completed, With
<1>. QED
  BY <1>1, AlwaysIInv, PTL

\* The loop of run() leaves the nodes alone, except when it begins a new plan.
LEMMA LoopLeavesNodes ==
  ASSUME IInv, NEW e \in Executors, Run(e) \/ NextPass(e)
  PROVE  plan'.node = plan.node
<1>0. plan \in Plan /\ Filled(plan) /\ Sound
  BY DEF IInv, Sound, TypeOK
<1>1. ASSUME MayStart(e) PROVE \A n \in Nodes : task[e][n] = "none"
  BY <1>1 DEF MayStart, Alone, IInv, Sound
<1>2. CASE Run(e) /\ plan # Gone
  <2> DEFINE p == [plan EXCEPT !.status = "running"]
  <2>1. p \in Plan /\ Filled(p) /\ p.node = plan.node
    BY <1>0, StatusFacts
  <2>2. Pass(e, p) /\ MayStart(e)
    BY <1>2 DEF Run
  <2> HIDE DEF p
  <2>. QED
    BY <1>0, <1>1, <2>1, <2>2, PassFacts
<1>3. CASE Run(e) /\ plan = Gone
  BY <1>0, <1>1, <1>3, GonePlan, PassFacts DEF Run
<1>4. CASE NextPass(e)
  BY <1>0, <1>4, PassFacts DEF NextPass, BatchOver
<1>. QED
  BY <1>2, <1>3, <1>4

\* What the step of a node's task does to the nodes: one that is over in a run
\* of its own keeps its outcome.
LEMMA TaskKeepsOutcome ==
  ASSUME IInv, ~Overlap, NEW e \in Executors, NEW n \in Nodes, BeginNode(e, n) \/ HandlerEnds(e, n),
         NEW x \in Nodes, plan.node[x] \in Terminal
  PROVE  plan'.node[x] = plan.node[x]
<1>0. plan \in Plan /\ Filled(plan) /\ plan # Gone
  BY GonePlan DEF IInv, Sound, TypeOK, Terminal
<1>1. ASSUME NEW s, Mark(n, s), n # x PROVE plan'.node[x] = plan.node[x]
  BY <1>0, <1>1 DEF Mark, Plan
<1>2. CASE BeginNode(e, n)
  <2>1. CASE Skip(e, n)
    BY <2>1 DEF Skip
  <2>2. CASE plan.node[n] \in {"draft", "running"} /\ Resolve(e, n)
    <3>1. n # x
      BY <2>2 DEF Terminal
    <3>. QED
      BY <1>1, <2>2, <3>1 DEF Resolve, Dispatch, MissesTool, ScaffoldEscapes
  <2>. QED
    BY <1>2, <2>1, <2>2 DEF BeginNode
<1>3. ASSUME task[e][n] = "handler" PROVE n # x /\ n \in Present(plan)
  BY <1>0, <1>3 DEF IInv, Ordered, Owned, Working, Held, Terminal
<1>4. ASSUME task[e][n] = "handler", NEW s, Settle(n, s) PROVE plan'.node[x] = plan.node[x]
  BY <1>1, <1>3, <1>4 DEF Settle
<1>5. ASSUME task[e][n] = "handler", NEW k \in 0 .. MaxSub, NEW d \in SubDags(k), Inject(n, k, d)
      PROVE  plan'.node[x] = plan.node[x]
  <2>1. PICK m \in 0 .. MaxNodes : Present(plan) = 1 .. m
    BY <1>0 DEF Filled
  <2>2. n \in 1 .. m /\ k \in Nat /\ m + k <= MaxNodes
    BY <1>0, <1>3, <1>5, <2>1, LastIdFacts, ExecutorAssumption DEF Inject
  <2>3. x \in Present(plan)
    BY DEF Present, Terminal
  <2>4. x \notin (m + 1) .. (m + k)
    BY <2>1, <2>2, <2>3
  <2>. QED
    BY <1>0, <1>3, <1>5, <2>1, <2>2, <2>4, InjectedForm DEF Inject
<1>6. CASE HandlerEnds(e, n)
  BY <1>4, <1>5, <1>6 DEF HandlerEnds, HandlerReturns, HandlerRaises, HandlerAsks
<1>. QED
  BY <1>2, <1>6

\* The outcome _execute_node recorded for a node is final: no later run, retry
\* or injection for a sibling changes it; only a new plan or a deletion ends it.
\* Two overlapping runs could record two outcomes.
THEOREM OutcomesStay ==
  ASSUME ~Overlap
  PROVE  Spec => OutcomeStays
<1>1. IInv /\ [Next]_vars =>
        [\A n \in Nodes : plan.node[n] \in Terminal =>
           \/ plan'.node[n] = plan.node[n]
           \/ plan' = Gone
           \/ \E e \in Executors : Send(e)]_vars
  <2> SUFFICES ASSUME IInv, [Next]_vars, NEW n \in Nodes, plan.node[n] \in Terminal,
                      plan' # Gone, \A e \in Executors : ~Send(e)
               PROVE  plan'.node[n] = plan.node[n]
    OBVIOUS
  <2>1. ASSUME NEW e \in Executors, Run(e) \/ Send(e) \/ NextPass(e) PROVE plan'.node[n] = plan.node[n]
    BY <2>1, LoopLeavesNodes
  <2>2. ASSUME NEW e \in Executors, NEW x \in Nodes, BeginNode(e, x) \/ HandlerEnds(e, x)
        PROVE  plan'.node[n] = plan.node[n]
    BY <2>2, TaskKeepsOutcome
  <2>3. CASE Crash
    BY <2>3 DEF Crash
  <2>4. CASE External
    BY <2>4 DEF External, IInv, Sound, TypeOK, Plan
  <2>5. CASE UNCHANGED vars
    BY <2>5 DEF vars
  <2>. QED
    BY <2>1, <2>2, <2>3, <2>4, <2>5 DEF Next
<1>. QED
  BY <1>1, AlwaysIInv, PTL DEF Spec, OutcomeStays

\* A plan in which nothing is runnable and nothing runs is decided or stalled, and
\* a DAG is not stalled: were some node unfinished and none failed, a first one of
\* them would be runnable.
LEMMA StalledIsDecided ==
  ASSUME plan \in Plan, Filled(plan), Runnable(plan) = {}, With(plan, {"running"}) = {},
         plan' = [plan EXCEPT !.status = Derived(plan)]
  PROVE  Decided(plan') \/ (~IsDag(plan) /\ Stalled(plan'))
<1>0. plan'.status = Derived(plan) /\ plan'.node = plan.node /\ plan'.deps = plan.deps
  BY DEF Plan
<1>1. CASE With(plan, {"failed"}) \union With(plan, {"needs_tool"}) # {}
  <2>1. Derived(plan) = "failed"
    BY <1>1 DEF Derived, Filled, With
  <2>. QED
    BY <1>0, <1>1, <2>1 DEF Decided, With
<1>2. CASE With(plan, {"failed"}) \union With(plan, {"needs_tool"}) = {}
  <2>1. \A n \in Nodes : plan.node[n] \in {"absent", "draft", "completed"}
    BY <1>2 DEF Filled, With, Plan, NodeStatus, Terminal
  <2>2. IsDag(plan) => With(plan, {"draft"}) = {}
    <3> DEFINE D == With(plan, {"draft"})
    <3>1. SUFFICES ASSUME IsDag(plan), D # {} PROVE FALSE
      OBVIOUS
    <3>2. D \in SUBSET Nodes
      BY DEF With
    <3>3. PICK n \in D : plan.deps[n] \intersect D = {}
      BY <3>1, <3>2 DEF IsDag
    <3>4. plan.deps[n] \subseteq Present(plan)
      BY <3>1, <3>2, <3>3 DEF IsDag
    <3>5. plan.deps[n] \subseteq With(plan, {"completed"})
      BY <2>1, <3>3, <3>4 DEF Present, With
    <3>. QED
      BY <3>3, <3>5 DEF Runnable
  <2>3. CASE With(plan, {"draft"}) = {}
    <3>1. Present(plan) \subseteq With(plan, {"completed"})
      BY <2>1, <2>3 DEF Present, With
    <3>2. Derived(plan) = "completed"
      BY <1>2, <3>1 DEF Derived, Filled, With, Terminal
    <3>. QED
      BY <1>0, <3>1, <3>2 DEF Decided, Present, With
  <2>4. CASE With(plan, {"draft"}) # {}
    <3>1. PICK n \in Nodes : plan.node[n] = "draft"
      BY <2>4 DEF With
    <3>2. n \in Present(plan) /\ n \notin With(plan, Terminal)
      BY <3>1 DEF Present, With, Terminal
    <3>3. Derived(plan) = "running"
      BY <1>2, <3>2 DEF Derived, Filled, With
    <3>4. Present(plan') = With(plan', {"draft", "completed"})
      BY <1>0, <2>1 DEF Present, With
    <3>. QED
      BY <1>0, <2>2, <2>4, <3>3, <3>4 DEF Stalled
  <2>. QED
    BY <2>3, <2>4
<1>. QED
  BY <1>1, <1>2

\* run() returns only when the plan is decided: completed with all its nodes,
\* or failed because of one.  A DAG never stalls on its own; only a sub-DAG that
\* is no proper one lets run() return a plan that is still running.
THEOREM ReturnsAreDecided ==
  ASSUME ~Overlap
  PROVE  Spec => ReturnsDecided
<1>1. IInv /\ [Next]_vars =>
        [\A e \in Executors : phase[e] \in Active /\ phase'[e] = "done" /\ plan.status # "cancelled"
           => Decided(plan') \/ (~proper /\ Stalled(plan'))]_vars
  <2> SUFFICES ASSUME IInv, [Next]_vars, NEW e \in Executors,
                      phase[e] \in Active, phase'[e] = "done", plan.status # "cancelled"
               PROVE  Decided(plan') \/ (~proper /\ Stalled(plan'))
    OBVIOUS
  <2>0. /\ plan \in Plan /\ Filled(plan) /\ (proper => IsDag(plan)) /\ proper \in BOOLEAN
        /\ phase \in [Executors -> Phases] /\ phase'[e] # phase[e]
    BY DEF IInv, Sound, TypeOK, PlanIsDag, Active, Phases
  <2>1. ASSUME NEW f \in Executors, Run(f) \/ Send(f) \/ NextPass(f) PROVE NextPass(e)
    <3>1. ASSUME NEW p, Pass(f, p) PROVE f = e
      BY <2>0, <3>1 DEF Pass, GoTo
    <3>2. f = e
      BY <2>1, <3>1 DEF Run, Send, NextPass
    <3>. QED
      BY <2>1, <3>2 DEF Run, Send, MayStart, Active
  <2>2. NextPass(e)
    <3>1. ASSUME NEW f \in Executors, NEW n \in Nodes, BeginNode(f, n) \/ HandlerEnds(f, n)
          PROVE  phase' = phase
      BY <3>1 DEF BeginNode, HandlerEnds, HandlerReturns, HandlerRaises, HandlerAsks
    <3>2. Crash => phase'[e] = "crashed"
      BY DEF Crash
    <3>3. External \/ UNCHANGED vars => phase' = phase
      BY DEF External, vars, calls
    <3>. QED
      BY <2>0, <2>1, <3>1, <3>2, <3>3 DEF Next
  <2>3. plan # Gone /\ Halts(plan) /\ plan' = [plan EXCEPT !.status = Derived(plan)]
    BY <2>0, <2>2 DEF NextPass, Pass, GoTo
  <2>4. plan.status = "running"
    BY <2>0, <2>3 DEF IInv, Begun, Filled
  <2>5. Runnable(plan) = {} /\ With(plan, {"running"}) = {}
    BY <2>3, <2>4 DEF Halts, Terminal
  <2>. QED
    BY <2>0, <2>3, <2>5, StalledIsDecided
<1>. QED
  BY <1>1, AlwaysIInv, PTL DEF Spec, ReturnsDecided

-----------------------------------------------------------------------------
\* A node stored as running has a handler.  Runs may overlap; the one way to
\* leave a node running is a propose() whose error escapes.

LEMMA InitHandled == Init => RunningIsHandled
BY GonePlan DEF Init, RunningIsHandled

LEMMA LoopHandled ==
  ASSUME IInv, RunningIsHandled, NEW e \in Executors, Run(e) \/ Send(e) \/ NextPass(e)
  PROVE  RunningIsHandled'
<1>0. /\ Sound /\ plan \in Plan /\ Filled(plan) /\ crashes' = crashes
      /\ \A n \in Nodes : task[e][n] = "none"
  BY DEF IInv, Sound, TypeOK, Run, Send, NextPass, MayStart, BatchOver
<1>1. CASE Run(e) \/ NextPass(e)
  <2>1. plan'.node = plan.node
    BY <1>1, LoopLeavesNodes
  <2>2. \A f \in Executors : f # e => task'[f] = task[f]
    <3>1. ASSUME NEW p, Pass(e, p), NEW f \in Executors, f # e PROVE task'[f] = task[f]
      BY <3>1 DEF Pass, IInv, Sound, TypeOK
    <3>. QED
      BY <1>1, <3>1 DEF Run, NextPass
  <2>3. \A f \in Executors, n \in Nodes : task[f][n] = "handler" => f # e
    BY <1>0
  <2>. QED
    BY <1>0, <2>1, <2>2, <2>3 DEF RunningIsHandled
<1>2. CASE Send(e)
  <2>1. PICK k \in 0 .. MaxPlan : \E d \in Dags(k) : Pass(e, [NewPlan(k, d) EXCEPT !.status = "running"])
    BY <1>2 DEF Send
  <2>2. PICK d \in Dags(k) : Pass(e, [NewPlan(k, d) EXCEPT !.status = "running"])
    BY <2>1
  <2> DEFINE p == [NewPlan(k, d) EXCEPT !.status = "running"]
  <2>3. p \in Plan /\ Filled(p) /\ p.node = NewPlan(k, d).node
    BY NewPlanFacts, StatusFacts
  <2>4. \A n \in Nodes : p.node[n] # "running"
    BY <2>3, NewPlanFacts
  <2> HIDE DEF p
  <2>5. Pass(e, p)
    BY <2>2 DEF p
  <2>6. plan'.node = p.node
    BY <1>0, <2>3, <2>5, PassFacts
  <2>. QED
    BY <2>4, <2>6 DEF RunningIsHandled
<1>. QED
  BY <1>1, <1>2

\* Node n is marked, or left as it was by a task that was no handler of it: the
\* other handlers go on.
LEMMA TaskHandled ==
  ASSUME IInv, RunningIsHandled, ~(Scaffolder /\ ScaffoldFaults), NEW e \in Executors, NEW n \in Nodes,
         BeginNode(e, n) \/ HandlerEnds(e, n)
  PROVE  RunningIsHandled'
<1>0. /\ plan \in Plan /\ Filled(plan) /\ crashes' = crashes
      /\ task \in [Executors -> [Nodes -> Places]]
  BY DEF IInv, Sound, TypeOK, Places, BeginNode, HandlerEnds, HandlerReturns, HandlerRaises, HandlerAsks
<1>1. ASSUME NEW s, TaskIs(e, n, s), NEW f \in Executors, NEW x \in Nodes
      PROVE  task'[f][x] = IF f = e /\ x = n THEN s ELSE task[f][x]
  BY <1>0, <1>1 DEF TaskIs
<1>2. ASSUME NEW s, NEW st, Mark(n, st), TaskIs(e, n, s), st = "running" => s = "handler"
      PROVE  RunningIsHandled'
  <2>1. \A x \in Nodes : plan'.node[x] = IF x = n THEN st ELSE plan.node[x]
    BY <1>0, <1>2 DEF Mark, Plan
  <2>. QED
    BY <1>0, <1>1, <1>2, <2>1 DEF RunningIsHandled
<1>3. ASSUME UNCHANGED plan, TaskIs(e, n, "none"), plan.node[n] # "running" \/ task[e][n] # "handler"
      PROVE  RunningIsHandled'
  BY <1>0, <1>1, <1>3 DEF RunningIsHandled
<1>4. CASE BeginNode(e, n)
  <2>1. CASE Skip(e, n)
    BY <1>3, <1>4, <2>1 DEF Skip, BeginNode
  <2>2. CASE Resolve(e, n)
    <3>1. MissingTool # "running"
      BY DEF MissingTool
    <3>. QED
      BY <1>2, <2>2, <3>1 DEF Resolve, Dispatch, MissesTool, ScaffoldEscapes
  <2>. QED
    BY <1>4, <2>1, <2>2 DEF BeginNode
<1>5. ASSUME NEW st \in {"completed", "failed"}, Settle(n, st), TaskIs(e, n, "none") PROVE RunningIsHandled'
  BY <1>2, <1>3, <1>5 DEF Settle
<1>6. ASSUME Planner, plan # Gone, task[e][n] = "handler", TaskIs(e, n, "none"),
             NEW k \in 0 .. MaxSub, NEW d \in SubDags(k), Inject(n, k, d)
      PROVE  RunningIsHandled'
  <2>1. PICK m \in 0 .. MaxNodes : Present(plan) = 1 .. m
    BY <1>0 DEF Filled
  <2>2. n \in 1 .. m /\ k \in Nat /\ m + k <= MaxNodes
    BY <1>0, <1>6, <2>1, LastIdFacts, ExecutorAssumption DEF Inject, IInv, Ordered, Owned
  <2>3. \A x \in Nodes : plan'.node[x] = "running" => x # n /\ plan.node[x] = "running"
    BY <1>0, <1>6, <2>1, <2>2, InjectedForm DEF Inject
  <2>. QED
    BY <1>0, <1>1, <1>6, <2>3 DEF RunningIsHandled
<1>7. CASE HandlerEnds(e, n)
  BY <1>5, <1>6, <1>7 DEF HandlerEnds, HandlerReturns, HandlerRaises, HandlerAsks
<1>. QED
  BY <1>4, <1>7

\* "All exceptions are caught and recorded as node failures" (_execute_node):
\* unless the process died or propose() let an error escape, which the model's
\* ScaffoldFaults stands for, every node stored as running has a handler that
\* will record its end, also when runs of the plan overlap.
THEOREM RunningHandled ==
  ASSUME ~(Scaffolder /\ ScaffoldFaults)
  PROVE  Spec => []RunningIsHandled
<1>1. IInv /\ RunningIsHandled /\ [Next]_vars => RunningIsHandled'
  <2> SUFFICES ASSUME IInv, RunningIsHandled, [Next]_vars
               PROVE  RunningIsHandled'
    OBVIOUS
  <2>1. ASSUME NEW e \in Executors, Run(e) \/ Send(e) \/ NextPass(e) PROVE RunningIsHandled'
    BY <2>1, LoopHandled
  <2>2. ASSUME NEW e \in Executors, NEW n \in Nodes, BeginNode(e, n) \/ HandlerEnds(e, n)
        PROVE  RunningIsHandled'
    BY <2>2, TaskHandled
  <2>3. CASE Crash
    BY <2>3 DEF Crash, RunningIsHandled, IInv, Sound, TypeOK
  <2>4. CASE External
    <3>1. plan' = Gone \/ plan'.node = plan.node
      BY <2>4 DEF External, IInv, Sound, TypeOK, Plan
    <3>. QED
      BY <2>4, <3>1, GonePlan DEF External, calls, RunningIsHandled
  <2>5. CASE UNCHANGED vars
    BY <2>5 DEF vars, calls, RunningIsHandled
  <2>. QED
    BY <2>1, <2>2, <2>3, <2>4, <2>5 DEF Next
<1>. QED
  BY <1>1, InitHandled, AlwaysIInv, PTL DEF Spec

=============================================================================
