----------------------------- MODULE ClawsProofs -----------------------------
(***************************************************************************)
(* Proofs about the table of containers, the removals and the log lines,   *)
(* for any number of tasks, spawns, removals, lines and daemon errors,     *)
(* provided that a task id is not used twice: the dashboard proposes a new *)
(* one for each claw.                                                      *)
(***************************************************************************)
EXTENDS Claws, FiniteSetTheorems, TLAPS

Early == {"idle", "run", "register"}      \* not in the table yet
Late  == {"thread", "ready", "returned", "unready"}

Calls == [at : Early \union Late \union {"raised"}, task : Tasks \union {NoTask}, kind : Kinds \union {"claw"}]
States == {"none", "created", "running", "exited", "gone"}
Removals == [at : {"idle", "removing", "returned", "raised"},
             todo : SUBSET Spawns, owed : SUBSET Spawns]
Listings == [at : {"idle", "reload", "drain"}, todo : SUBSET Spawns, listed : SUBSET Tasks,
             stale : SUBSET Tasks]

Types ==
  /\ spawn \in [Spawns -> Calls] /\ ctr \in [Spawns -> States]
  /\ table \in [Tasks -> Spawns \union {None}]
  /\ remover \in [Removers -> Removals] /\ lister \in Listings

\* A call that has started its container, and one whose container is over or
\* was hit by a daemon error.
Begun(s) == spawn[s].at \notin {"idle", "run"}
Down(s)  == ctr[s] # "running" \/ s \in failed

HasTask == \A s \in Spawns : spawn[s].at # "idle" => spawn[s].task \in Tasks
OneEach == \A s, u \in Spawns :
  spawn[s].at # "idle" /\ spawn[u].at # "idle" /\ TaskOf(s) = TaskOf(u) => s = u
Entries == \A t \in Tasks : table[t] # None =>
  TaskOf(table[t]) = t /\ spawn[table[t]].at \in Late
Lists ==
  /\ \A s \in lister.todo : Begun(s)
  /\ \A r \in Removers : \A s \in remover[r].owed : Begun(s)
  /\ \A r \in Removers : remover[r].at \in {"idle", "returned"} => remover[r].todo = {}
StaleAreDown == \A t \in lister.stale : \E s \in Spawns :
  TaskOf(s) = t /\ Begun(s) /\ Down(s)

Removing(s) == \E r \in Removers : s \in remover[r].todo
InTable(s)  == \E t \in Tasks : table[t] = s
Known == \A s \in Spawns : ctr[s] = "running" =>
  InTable(s) \/ Removing(s) \/ s \in failed \/ spawn[s].at \in {"register", "raised"}

\* What a removal owes is removed, or somebody is removing it or was.
Owed == \A r \in Removers : \A s \in remover[r].owed :
  ctr[s] = "running" => Removing(s) \/ s \in failed

Shape == Types /\ HasTask /\ OneEach /\ Entries
Table == Lists /\ StaleAreDown /\ Known /\ Owed
IInv  == Shape /\ Table

-----------------------------------------------------------------------------
\* Spawn calls move on in small steps

\* A step that moves one call and changes nothing else the invariant looks at.
LEMMA MoveInv ==
  ASSUME IInv, NEW s \in Spawns, NEW place \in Late,
         UNCHANGED <<ctr, table, remover, lister, failed>>,
         spawn[s].at \in Late, Goto(s, place)
  PROVE  IInv'
<1>1. /\ spawn' \in [Spawns -> Calls]
      /\ \A u \in Spawns : spawn'[u].task = spawn[u].task
      /\ \A u \in Spawns : u # s => spawn'[u].at = spawn[u].at
      /\ spawn'[s].at = place
  BY DEF Goto, IInv, Shape, Types, Calls
<1>2. Types'
  BY <1>1 DEF IInv, Shape, Types
<1>3. HasTask' /\ OneEach' /\ Entries'
  BY <1>1 DEF IInv, Shape, Types, HasTask, OneEach, Entries, TaskOf, Late, None, Spawns
<1>4. \A u \in Spawns : Begun(u)' = Begun(u) /\ Down(u)' = Down(u) /\ TaskOf(u)' = TaskOf(u)
  BY <1>1 DEF Begun, Down, TaskOf, Late
<1>5. Lists' /\ StaleAreDown'
  BY <1>4 DEF IInv, Shape, Types, Table, Lists, StaleAreDown, Listings, Removals
<1>6. Known' /\ Owed'
  BY <1>1 DEF IInv, Table, Known, Owed, InTable, Removing, Late
<1>. QED
  BY <1>2, <1>3, <1>5, <1>6 DEF IInv, Shape, Table

LEMMA InitInv == Init => IInv
<1> SUFFICES ASSUME Init PROVE IInv
  OBVIOUS
<1>1. Types
  <2>1. IdleSpawn \in Calls /\ IdleLister \in Listings
    BY DEF IdleSpawn, IdleLister, Calls, Listings, Early
  <2>2. [at |-> "idle", todo |-> {}, owed |-> {}] \in Removals
    BY DEF Removals
  <2>. QED
    BY <2>1, <2>2 DEF Init, Types, States
<1>2. Shape
  BY <1>1 DEF Init, Shape, HasTask, OneEach, Entries, IdleSpawn
<1>3. Table
  BY DEF Init, Table, Lists, StaleAreDown, Known, Owed, IdleLister
<1>. QED
  BY <1>2, <1>3 DEF IInv

\* A new call takes an id that no other call has.
LEMMA CallInv ==
  ASSUME IInv, ~ReuseIds, NEW s \in Spawns, NEW t \in Tasks, NEW k \in Kinds, CallSpawn(s, t, k)
  PROVE  IInv'
<1> DEFINE new == [at |-> "run", task |-> t, kind |-> k]
<1>1. /\ spawn[s].at = "idle" /\ spawn' = [spawn EXCEPT ![s] = new]
      /\ \A u \in Spawns : TaskOf(u) # t
      /\ UNCHANGED <<ctr, table, remover, lister, failed>>
  BY DEF CallSpawn, Fresh, daemon
<1>2. new \in Calls /\ new.at = "run" /\ new.task = t
  BY DEF Calls, Early
<1> HIDE DEF new
<1>3. /\ spawn' \in [Spawns -> Calls] /\ spawn'[s] = new
      /\ \A u \in Spawns : u # s => spawn'[u] = spawn[u]
  BY <1>1, <1>2 DEF IInv, Shape, Types
<1>4. Types'
  BY <1>1, <1>3 DEF IInv, Shape, Types
<1>5. HasTask' /\ OneEach'
  BY <1>1, <1>2, <1>3 DEF IInv, Shape, HasTask, OneEach, TaskOf
<1>6. Entries'
  BY <1>1, <1>3 DEF IInv, Shape, Types, Entries, TaskOf, Late
<1>7. \A u \in Spawns : Begun(u) => Begun(u)' /\ TaskOf(u)' = TaskOf(u)
  BY <1>1, <1>3 DEF Begun, TaskOf
<1>8. Lists' /\ StaleAreDown'
  <2>1. \A u \in Spawns : Down(u) => Down(u)'
    BY <1>1 DEF Down
  <2>. QED
    BY <1>1, <1>7, <2>1 DEF IInv, Shape, Types, Table, Lists, StaleAreDown, Listings, Removals
<1>9. Known' /\ Owed'
  BY <1>1, <1>3 DEF IInv, Table, Known, Owed, InTable, Removing
<1>. QED
  BY <1>4, <1>5, <1>6, <1>8, <1>9 DEF IInv, Shape, Table

\* run() returns, or raises and leaves a container, running or not, or none.
LEMMA StartInv ==
  ASSUME IInv, NEW s \in Spawns, Started(s) \/ SpawnRaises(s)
  PROVE  IInv'
<1>1. PICK place \in {"register", "raised"}, state \in States :
        /\ spawn[s].at = "run" /\ spawn' = [spawn EXCEPT ![s].at = place]
        /\ ctr' = [ctr EXCEPT ![s] = state]
        /\ UNCHANGED <<table, remover, lister, failed>>
  <2>1. CASE Started(s)
    BY <2>1 DEF Started, Goto, daemon, States
  <2>2. CASE SpawnRaises(s)
    <3>1. CASE ctr' = ctr
      <4>1. ctr' = [ctr EXCEPT ![s] = ctr[s]] /\ ctr[s] \in States
        BY <3>1 DEF IInv, Shape, Types
      <4>. QED
        BY <2>2, <4>1 DEF SpawnRaises, Goto, daemon
    <3>2. ASSUME NEW state \in {"created", "running"}, ctr' = [ctr EXCEPT ![s] = state]
          PROVE  ctr' = [ctr EXCEPT ![s] = state] /\ state \in States
      BY <3>2 DEF States
    <3>. QED
      BY <2>2, <3>1, <3>2 DEF SpawnRaises, Goto, daemon
  <2>. QED
    BY <2>1, <2>2
<1>2. /\ spawn' \in [Spawns -> Calls] /\ spawn'[s].at = place
      /\ \A u \in Spawns : spawn'[u].task = spawn[u].task
      /\ \A u \in Spawns : u # s => spawn'[u].at = spawn[u].at
  BY <1>1 DEF IInv, Shape, Types, Calls, Early, Late
<1>3. /\ ctr' \in [Spawns -> States] /\ ctr'[s] = state
      /\ \A u \in Spawns : u # s => ctr'[u] = ctr[u]
  BY <1>1 DEF IInv, Shape, Types
<1>4. Types'
  BY <1>1, <1>2, <1>3 DEF IInv, Shape, Types
<1>5. HasTask' /\ OneEach' /\ Entries'
  BY <1>1, <1>2 DEF IInv, Shape, Types, HasTask, OneEach, Entries, TaskOf, Late
<1>6. \A u \in Spawns : Begun(u) => Begun(u)' /\ TaskOf(u)' = TaskOf(u) /\ Down(u)' = Down(u)
  BY <1>1, <1>2, <1>3 DEF Begun, TaskOf, Down
<1>7. Lists' /\ StaleAreDown'
  BY <1>1, <1>6 DEF IInv, Shape, Types, Table, Lists, StaleAreDown, Listings, Removals
<1>8. Known'
  BY <1>1, <1>2, <1>3 DEF IInv, Table, Known, InTable, Removing
<1>9. Owed'
  <2> SUFFICES ASSUME NEW r \in Removers, NEW u \in remover[r].owed, ctr'[u] = "running"
               PROVE  Removing(u) \/ u \in failed
    BY <1>1 DEF Owed, Removing
  <2>1. u \in Spawns /\ Begun(u)
    BY DEF IInv, Shape, Types, Removals, Table, Lists
  <2>2. ctr[u] = "running"
    BY <1>1, <1>3, <2>1 DEF Begun
  <2>. QED
    BY <2>2 DEF IInv, Table, Owed
<1>. QED
  BY <1>4, <1>5, <1>7, <1>8, <1>9 DEF IInv, Shape, Table

\* The entry a registration replaces is empty: another claw of the task would
\* have its id.
LEMMA RegisterInv == ASSUME IInv, NEW s \in Spawns, Register(s) PROVE IInv'
<1> DEFINE t == TaskOf(s)
<1>1. /\ spawn[s].at = "register" /\ spawn' = [spawn EXCEPT ![s].at = "thread"]
      /\ table' = [table EXCEPT ![t] = s]
      /\ UNCHANGED <<ctr, remover, lister, failed>>
  BY DEF Register, Goto, daemon
<1>2. /\ spawn' \in [Spawns -> Calls] /\ spawn'[s].at = "thread"
      /\ \A u \in Spawns : spawn'[u].task = spawn[u].task
      /\ \A u \in Spawns : u # s => spawn'[u].at = spawn[u].at
  BY <1>1 DEF IInv, Shape, Types, Calls, Late
<1>3. \A u \in Spawns : InTable(u) => InTable(u)'
  <2> SUFFICES ASSUME NEW u \in Spawns, NEW x \in Tasks, table[x] = u PROVE InTable(u)'
    BY DEF InTable
  <2>1. u # None
    BY DEF Spawns, None
  <2>2. TaskOf(u) = x /\ spawn[u].at \in Late
    BY <2>1 DEF IInv, Shape, Entries
  <2>3. x # t
    BY <1>1, <2>2 DEF IInv, Shape, OneEach, Late
  <2>4. table'[x] = u
    BY <1>1, <2>3 DEF IInv, Shape, Types
  <2>. QED
    BY <2>4 DEF InTable
<1>4. Types'
  BY <1>1, <1>2 DEF IInv, Shape, Types
<1>5. HasTask' /\ OneEach'
  BY <1>1, <1>2 DEF IInv, Shape, HasTask, OneEach, TaskOf
<1>6. Entries'
  <2> SUFFICES ASSUME NEW x \in Tasks, table'[x] # None
               PROVE  spawn'[table'[x]].task = x /\ spawn'[table'[x]].at \in Late
    BY DEF Entries, TaskOf
  <2>1. CASE x = t
    <3>1. table'[x] = s
      BY <1>1, <2>1 DEF IInv, Shape, Types
    <3>. QED
      BY <1>2, <2>1, <3>1 DEF TaskOf, Late
  <2>2. CASE x # t
    <3>1. table'[x] = table[x] /\ table[x] \in Spawns
      BY <1>1, <2>2 DEF IInv, Shape, Types
    <3>2. spawn[table[x]].task = x /\ spawn[table[x]].at \in Late
      BY <3>1 DEF IInv, Shape, Entries, TaskOf
    <3>3. table[x] # s
      BY <2>2, <3>2 DEF TaskOf
    <3>. QED
      BY <1>2, <3>1, <3>2, <3>3
  <2>. QED
    BY <2>1, <2>2
<1>7. \A u \in Spawns : Begun(u) => Begun(u)' /\ TaskOf(u)' = TaskOf(u) /\ Down(u)' = Down(u)
  BY <1>1, <1>2 DEF Begun, TaskOf, Down
<1>8. Lists' /\ StaleAreDown'
  BY <1>1, <1>7 DEF IInv, Shape, Types, Table, Lists, StaleAreDown, Listings, Removals
<1>9. Known' /\ Owed'
  <2>1. t \in Tasks
    BY <1>1 DEF IInv, Shape, HasTask, TaskOf
  <2>2. table'[t] = s
    BY <1>1, <2>1 DEF IInv, Shape, Types
  <2>3. InTable(s)'
    BY <2>1, <2>2 DEF InTable
  <2>4. Known'
    BY <1>1, <1>2, <1>3, <2>3 DEF IInv, Table, Known, Removing
  <2>5. Owed'
    BY <1>1 DEF IInv, Table, Owed, Removing
  <2>. QED
    BY <2>4, <2>5
<1>. QED
  BY <1>4, <1>5, <1>6, <1>8, <1>9 DEF IInv, Shape, Table

-----------------------------------------------------------------------------
\* Removals and listings take entries out of the table

\* What one locked section takes out goes to the list of its caller.
LEMMA TakeOutInv ==
  ASSUME IInv, NEW r \in Removers, NEW S \in SUBSET Tasks, NEW owed \in SUBSET Spawns,
         TakeOut(r, S, owed),
         \A s \in owed : Begun(s) /\ (InTable(s) => \E t \in S : table[t] = s)
                        /\ spawn[s].at \notin {"register", "raised"}
  PROVE  IInv'
<1> DEFINE todo == {table[t] : t \in S} \ {None}
           new == [at |-> "removing", owed |-> owed, todo |-> todo]
<1>1. /\ remover[r].at = "idle" /\ remover' = [remover EXCEPT ![r] = new]
      /\ table' = Clear(table, S)
      /\ UNCHANGED <<spawn, ctr, lister, failed>>
  BY DEF TakeOut, daemon
<1>2. new \in Removals /\ todo \subseteq Spawns
  BY DEF IInv, Shape, Types, Removals
<1>3. /\ remover' \in [Removers -> Removals] /\ remover'[r].todo = todo /\ remover'[r].owed = owed
      /\ \A q \in Removers : q # r => remover'[q] = remover[q]
  BY <1>1, <1>2 DEF IInv, Shape, Types
<1>4. table' \in [Tasks -> Spawns \union {None}]
      /\ \A t \in Tasks : table'[t] = IF t \in S THEN None ELSE table[t]
  BY <1>1 DEF IInv, Shape, Types, Clear
<1> HIDE DEF todo, new
<1>5. Types'
  BY <1>1, <1>3, <1>4 DEF IInv, Shape, Types
<1>6. HasTask' /\ OneEach' /\ Entries'
  BY <1>1, <1>4 DEF IInv, Shape, HasTask, OneEach, Entries, TaskOf
<1>7. \A u \in Spawns : Begun(u)' = Begun(u) /\ TaskOf(u)' = TaskOf(u) /\ Down(u)' = Down(u)
  BY <1>1 DEF Begun, TaskOf, Down
<1>8. Lists'
  <2>1. remover'[r].at = "removing"
    BY <1>1, <1>3 DEF new, IInv, Shape, Types
  <2>2. \A q \in Removers : \A s \in remover'[q].owed : Begun(s)
    BY <1>3 DEF IInv, Table, Lists
  <2>3. \A q \in Removers : remover'[q].at \in {"idle", "returned"} => remover'[q].todo = {}
    BY <1>3, <2>1 DEF IInv, Table, Lists
  <2>4. \A q \in Removers : remover'[q].owed \subseteq Spawns
    BY <1>3 DEF Removals
  <2>5. \A s \in lister.todo : Begun(s) /\ s \in Spawns
    BY DEF IInv, Table, Lists, Shape, Types, Listings
  <2>. QED
    BY <1>1, <1>7, <2>2, <2>3, <2>4, <2>5 DEF Lists
<1>9. StaleAreDown'
  BY <1>1, <1>7 DEF IInv, Table, StaleAreDown
<1>10. \A s \in Spawns : Removing(s) => Removing(s)'
  <2>1. remover[r].todo = {}
    BY <1>1 DEF IInv, Table, Lists
  <2>. QED
    BY <1>3, <2>1 DEF Removing
<1>11. \A s \in Spawns : (\E t \in S : table[t] = s) => Removing(s)'
  <2>1. \A s \in Spawns : s # None
    BY DEF Spawns, None
  <2>. QED
    BY <1>3, <2>1 DEF Removing, todo
<1>12. Known'
  <2>1. \A s \in Spawns : InTable(s) => InTable(s)' \/ \E t \in S : table[t] = s
    BY <1>4 DEF InTable
  <2>. QED
    BY <1>1, <1>10, <1>11, <2>1 DEF IInv, Table, Known
<1>13. Owed'
  <2> SUFFICES ASSUME NEW q \in Removers, NEW s \in remover'[q].owed, ctr[s] = "running"
               PROVE  Removing(s)' \/ s \in failed
    BY <1>1 DEF Owed
  <2>1. s \in Spawns
    BY <1>3 DEF Removals
  <2>2. CASE q # r
    BY <1>3, <1>10, <2>1, <2>2 DEF IInv, Table, Owed
  <2>3. CASE q = r
    BY <1>3, <1>10, <1>11, <2>1, <2>3 DEF IInv, Table, Known
  <2>. QED
    BY <2>2, <2>3
<1>. QED
  BY <1>5, <1>6, <1>8, <1>9, <1>12, <1>13 DEF IInv, Shape, Table

LEMMA PressInv ==
  ASSUME IInv, NEW r \in Removers, KillAll(r) \/ (\E t \in Tasks : StopClaw(r, t))
  PROVE  IInv'
<1>1. CASE KillAll(r)
  <2>1. Returned \in SUBSET Spawns /\ Tasks \in SUBSET Tasks /\ TakeOut(r, Tasks, Returned)
    BY <1>1 DEF KillAll, Returned
  <2>2. \A s \in Returned : /\ Begun(s) /\ (InTable(s) => \E t \in Tasks : table[t] = s)
                            /\ spawn[s].at \notin {"register", "raised"}
    BY DEF Returned, Begun, InTable
  <2>. QED
    BY <2>1, <2>2, TakeOutInv
<1>2. ASSUME NEW t \in Tasks, StopClaw(r, t) PROVE IInv'
  <2> DEFINE owed == {table[t]} \ {None}
  <2>1. /\ owed \in SUBSET Spawns /\ {t} \in SUBSET Tasks /\ TakeOut(r, {t}, owed)
    BY <1>2 DEF StopClaw, IInv, Shape, Types
  <2>2. \A s \in owed : /\ Begun(s) /\ (InTable(s) => \E x \in {t} : table[x] = s)
                        /\ spawn[s].at \notin {"register", "raised"}
    BY DEF Begun, InTable, IInv, Shape, Entries, Late
  <2> HIDE DEF owed
  <2>. QED
    BY <2>1, <2>2, TakeOutInv
<1>. QED
  BY <1>1, <1>2

\* A container leaves the list of a removal once it is down or has failed.
LEMMA ForceRemoveInv ==
  ASSUME IInv, NEW r \in Removers, NEW s \in Spawns, ForceRemove(r, s)
  PROVE  IInv'
<1>1. /\ s \in remover[r].todo
      /\ remover' = [remover EXCEPT ![r].todo = @ \ {s}]
      /\ UNCHANGED <<spawn, table, lister>> /\ failed \subseteq failed'
      /\ remover[r].at = "removing"
  BY DEF ForceRemove, Removes, daemon, DaemonError
<1>2. PICK state \in States :
        /\ ctr' = [ctr EXCEPT ![s] = state]
        /\ state # "running" \/ s \in failed'
  <2>1. CASE ctr' = ctr /\ s \in failed'
    <3>1. ctr' = [ctr EXCEPT ![s] = ctr[s]] /\ ctr[s] \in States
      BY <2>1 DEF IInv, Shape, Types
    <3>. QED
      BY <2>1, <3>1
  <2>2. CASE ctr' = [ctr EXCEPT ![s] = "gone"]
    BY <2>2 DEF States
  <2>3. CASE ctr' = [ctr EXCEPT ![s] = IF @ = "gone" THEN @ ELSE "exited"]
    BY <2>3 DEF States
  <2>. QED
    BY <2>1, <2>2, <2>3 DEF ForceRemove, DaemonError
<1>3. /\ remover' \in [Removers -> Removals]
      /\ remover'[r].todo = remover[r].todo \ {s}
      /\ \A q \in Removers : q # r => remover'[q].todo = remover[q].todo
      /\ \A q \in Removers : remover'[q].owed = remover[q].owed /\ remover'[q].at = remover[q].at
  BY <1>1 DEF IInv, Shape, Types, Removals
<1>4. /\ ctr' \in [Spawns -> States] /\ ctr'[s] = state
      /\ \A u \in Spawns : u # s => ctr'[u] = ctr[u]
  BY <1>2 DEF IInv, Shape, Types
<1>5. Types'
  BY <1>1, <1>3, <1>4 DEF IInv, Shape, Types
<1>6. HasTask' /\ OneEach' /\ Entries'
  BY <1>1 DEF IInv, Shape, HasTask, OneEach, Entries, TaskOf
<1>7. \A u \in Spawns : Begun(u)' = Begun(u) /\ TaskOf(u)' = TaskOf(u) /\ (Down(u) => Down(u)')
  BY <1>1, <1>2, <1>4 DEF Begun, TaskOf, Down
<1>8. Lists' /\ StaleAreDown'
  <2>1. \A q \in Removers : remover[q].owed \subseteq Spawns
    BY DEF IInv, Shape, Types, Removals
  <2>2. lister.todo \subseteq Spawns
    BY DEF IInv, Shape, Types, Listings
  <2>3. \A q \in Removers : remover'[q].at \in {"idle", "returned"} => remover'[q].todo = {}
    BY <1>1, <1>3 DEF IInv, Table, Lists
  <2>4. Lists'
    BY <1>1, <1>3, <1>7, <2>1, <2>2, <2>3 DEF IInv, Table, Lists
  <2>5. StaleAreDown'
    BY <1>1, <1>7 DEF IInv, Table, StaleAreDown
  <2>. QED
    BY <2>4, <2>5
<1>9. \A u \in Spawns : u # s /\ Removing(u) => Removing(u)'
  BY <1>3 DEF Removing
<1>10. Known'
  BY <1>1, <1>2, <1>4, <1>9 DEF IInv, Table, Known, InTable
<1>11. Owed'
  BY <1>1, <1>2, <1>3, <1>4, <1>9 DEF IInv, Shape, Types, Removals, Table, Owed
<1>. QED
  BY <1>5, <1>6, <1>8, <1>10, <1>11 DEF IInv, Shape, Table

\* A removal that is ended by an error keeps its list.
LEMMA RemoveRaisesInv ==
  ASSUME IInv, NEW r \in Removers, NEW s \in Spawns, RemoveRaises(r, s)
  PROVE  IInv'
<1>1. /\ remover' = [remover EXCEPT ![r].at = "raised"]
      /\ UNCHANGED <<spawn, table, lister, failed>>
  BY DEF RemoveRaises, TransportError
<1>2. PICK state \in {ctr[s], "exited", "gone"} : ctr' = [ctr EXCEPT ![s] = state]
  BY DEF RemoveRaises
<1>3. /\ remover' \in [Removers -> Removals] /\ remover'[r].at = "raised"
      /\ \A q \in Removers : remover'[q].todo = remover[q].todo /\ remover'[q].owed = remover[q].owed
      /\ \A q \in Removers : q # r => remover'[q].at = remover[q].at
  BY <1>1 DEF IInv, Shape, Types, Removals
<1>4. /\ ctr' \in [Spawns -> States]
      /\ \A u \in Spawns : ctr'[u] = "running" => ctr[u] = "running"
  BY <1>2 DEF IInv, Shape, Types, States
<1>5. Shape'
  BY <1>1, <1>3, <1>4 DEF IInv, Shape, Types, HasTask, OneEach, Entries, TaskOf
<1>6. Lists'
  BY <1>1, <1>3 DEF IInv, Table, Lists, Begun
<1>7. StaleAreDown'
  BY <1>1, <1>4 DEF IInv, Table, StaleAreDown, Begun, Down, TaskOf
<1>8. Known'
  BY <1>1, <1>3, <1>4 DEF IInv, Table, Known, InTable, Removing
<1>9. Owed'
  BY <1>1, <1>3, <1>4 DEF IInv, Shape, Types, Removals, Table, Owed, Removing
<1>. QED
  BY <1>5, <1>6, <1>7, <1>8, <1>9 DEF IInv, Table

\* A removal that has returned owes what it owed before.
LEMMA ReturnInv == ASSUME IInv, NEW r \in Removers, ReturnRemoval(r) PROVE IInv'
<1>1. /\ remover' = [remover EXCEPT ![r].at = "returned"] /\ remover[r].todo = {}
      /\ UNCHANGED <<spawn, ctr, table, lister, failed>>
  BY DEF ReturnRemoval, daemon
<1>2. /\ remover' \in [Removers -> Removals] /\ remover'[r].at = "returned"
      /\ \A q \in Removers : remover'[q].todo = remover[q].todo /\ remover'[q].owed = remover[q].owed
      /\ \A q \in Removers : q # r => remover'[q].at = remover[q].at
  BY <1>1 DEF IInv, Shape, Types, Removals
<1>3. Shape'
  BY <1>1, <1>2 DEF IInv, Shape, Types, HasTask, OneEach, Entries, TaskOf
<1>4. Lists' /\ StaleAreDown'
  BY <1>1, <1>2 DEF IInv, Table, Lists, StaleAreDown, Begun, Down, TaskOf
<1>5. Known' /\ Owed'
  BY <1>1, <1>2 DEF IInv, Table, Known, Owed, InTable, Removing
<1>. QED
  BY <1>3, <1>4, <1>5 DEF IInv, Table

\* A step of the listing that keeps the table.
LEMMA ListerInv ==
  ASSUME IInv, UNCHANGED <<spawn, ctr, table, remover>>, failed \subseteq failed',
         lister' \in Listings,
         \A s \in lister'.todo : Begun(s),
         \A t \in lister'.stale : \E s \in Spawns : TaskOf(s) = t /\ Begun(s) /\ Down(s)'
  PROVE  IInv'
<1>1. Shape'
  BY DEF IInv, Shape, Types, HasTask, OneEach, Entries, TaskOf
<1>2. Lists'
  BY DEF IInv, Table, Lists, Begun
<1>3. StaleAreDown'
  BY DEF StaleAreDown, Begun, TaskOf
<1>4. Known' /\ Owed'
  BY DEF IInv, Table, Known, Owed, InTable, Removing
<1>. QED
  BY <1>1, <1>2, <1>3, <1>4 DEF IInv, Table

LEMMA SnapshotInv == ASSUME IInv, ListSnapshot PROVE IInv'
<1> DEFINE new == [at |-> "reload", todo |-> Tracked, stale |-> {}, listed |-> {t \in Tasks : table[t] # None}]
<1>1. lister' = new /\ UNCHANGED <<spawn, ctr, table, remover, failed>>
  BY DEF ListSnapshot, daemon
<1>2. Tracked \subseteq Spawns
  BY DEF Tracked, IInv, Shape, Types
<1>3. new \in Listings /\ new.todo = Tracked /\ new.stale = {}
  BY <1>2 DEF Listings
<1>4. \A s \in Tracked : Begun(s)
  BY DEF Tracked, Begun, IInv, Shape, Entries, Late
<1> HIDE DEF new
<1>. QED
  BY <1>1, <1>3, <1>4, ListerInv

LEMMA ReloadInv == ASSUME IInv, NEW s \in Spawns, ListReload(s) PROVE IInv'
<1>1. /\ s \in lister.todo /\ UNCHANGED <<spawn, ctr, table, remover>> /\ failed \subseteq failed'
  BY DEF ListReload, daemon, DaemonError
<1>2. PICK stale : /\ lister' = [lister EXCEPT !.todo = @ \ {s}, !.stale = stale]
                   /\ \/ stale = lister.stale
                      \/ stale = lister.stale \union {TaskOf(s)} /\ (ctr[s] # "running" \/ s \in failed')
  <2>1. ASSUME DaemonError(s), lister' = [lister EXCEPT !.todo = @ \ {s}, !.stale = @ \union {TaskOf(s)}]
        PROVE  /\ lister' = [lister EXCEPT !.todo = @ \ {s}, !.stale = lister.stale \union {TaskOf(s)}]
               /\ s \in failed'
    BY <2>1 DEF DaemonError
  <2>2. ASSUME lister' = [lister EXCEPT !.todo = @ \ {s},
                            !.stale = IF ctr[s] = "gone" THEN @ \union {TaskOf(s)} ELSE @]
        PROVE  \/ lister' = [lister EXCEPT !.todo = @ \ {s}, !.stale = lister.stale]
               \/ /\ lister' = [lister EXCEPT !.todo = @ \ {s}, !.stale = lister.stale \union {TaskOf(s)}]
                  /\ ctr[s] # "running"
    BY <2>2
  <2>. QED
    BY <2>1, <2>2 DEF ListReload
<1>3. Begun(s) /\ TaskOf(s) \in Tasks
  BY <1>1 DEF IInv, Shape, HasTask, Table, Lists, Begun, TaskOf
<1>4. stale \subseteq Tasks
  BY <1>2, <1>3 DEF IInv, Shape, Types, Listings
<1>5. lister' \in Listings /\ lister'.todo = lister.todo \ {s} /\ lister'.stale = stale
  BY <1>2, <1>4 DEF IInv, Shape, Types, Listings
<1>6. \A u \in lister'.todo : Begun(u)
  BY <1>5 DEF IInv, Table, Lists
<1>7. \A t \in stale : \E u \in Spawns : TaskOf(u) = t /\ Begun(u) /\ Down(u)'
  <2>1. \A t \in lister.stale : \E u \in Spawns : TaskOf(u) = t /\ Begun(u) /\ Down(u)'
    BY <1>1 DEF IInv, Table, StaleAreDown, Down
  <2>2. ctr[s] # "running" \/ s \in failed' => Down(s)'
    BY <1>1 DEF Down
  <2>. QED
    BY <1>2, <1>3, <2>1, <2>2
<1>. QED
  BY <1>1, <1>5, <1>6, <1>7, ListerInv

\* An error that escapes from the listing ends it.
LEMMA ListRaisesInv == ASSUME IInv, NEW s \in Spawns, ListRaises(s) PROVE IInv'
<1>1. lister' = IdleLister /\ UNCHANGED <<spawn, ctr, table, remover, failed>>
  BY DEF ListRaises, TransportError
<1>2. IdleLister \in Listings /\ IdleLister.todo = {} /\ IdleLister.stale = {}
  BY DEF IdleLister, Listings
<1>. QED
  BY <1>1, <1>2, ListerInv

LEMMA NextTaskFacts ==
  ASSUME NEW S \in SUBSET Tasks
  PROVE  NextTask(S) \in Listings /\ NextTask(S).todo = {} /\ NextTask(S).stale = {}
BY DEF NextTask, IdleLister, Listings

\* The claw that is dropped is the one that was found down: no other one has
\* its id.
LEMMA PruneInv == ASSUME IInv, ListPrune PROVE IInv'
<1>1. /\ table' = Clear(table, lister.stale) /\ lister' = NextTask(lister.listed)
      /\ UNCHANGED <<spawn, ctr, remover, failed>>
  BY DEF ListPrune, daemon
<1>2. lister' \in Listings /\ lister'.todo = {} /\ lister'.stale = {}
  BY <1>1, NextTaskFacts DEF IInv, Shape, Types, Listings
<1>3. table' \in [Tasks -> Spawns \union {None}]
      /\ \A t \in Tasks : table'[t] = IF t \in lister.stale THEN None ELSE table[t]
  BY <1>1 DEF IInv, Shape, Types, Clear
<1>4. Shape'
  BY <1>1, <1>2, <1>3 DEF IInv, Shape, Types, HasTask, OneEach, Entries, TaskOf
<1>5. Lists' /\ StaleAreDown'
  BY <1>1, <1>2 DEF IInv, Table, Lists, StaleAreDown, Begun
<1>6. \A s \in Spawns : InTable(s) => InTable(s)' \/ Down(s)
  <2> SUFFICES ASSUME NEW s \in Spawns, NEW t \in Tasks, table[t] = s, t \in lister.stale
               PROVE  Down(s)
    BY <1>3 DEF InTable
  <2>1. s # None
    BY DEF Spawns, None
  <2>2. TaskOf(s) = t /\ spawn[s].at \in Late
    BY <2>1 DEF IInv, Shape, Entries
  <2>3. PICK u \in Spawns : TaskOf(u) = t /\ Begun(u) /\ Down(u)
    BY DEF IInv, Table, StaleAreDown
  <2>4. u = s
    BY <2>2, <2>3 DEF IInv, Shape, OneEach, Begun, Late
  <2>. QED
    BY <2>3, <2>4
<1>7. Known' /\ Owed'
  BY <1>1, <1>6 DEF IInv, Table, Known, Owed, Removing, Down
<1>. QED
  BY <1>4, <1>5, <1>7 DEF IInv, Table

LEMMA DrainInv ==
  ASSUME IInv, NEW t \in Tasks, DrainLine(t) \/ DrainedTask(t)
  PROVE  IInv'
<1>1. /\ UNCHANGED <<spawn, ctr, table, remover, failed>>
      /\ lister' = lister \/ lister' = NextTask(lister.listed \ {t})
  BY DEF DrainLine, DrainedTask, daemon
<1>2. lister' \in Listings /\ lister'.todo \subseteq lister.todo /\ lister'.stale \subseteq lister.stale
  <2>1. lister \in Listings /\ lister.listed \ {t} \in SUBSET Tasks
    BY DEF IInv, Shape, Types, Listings
  <2>. QED
    BY <1>1, <2>1, NextTaskFacts
<1>3. \A s \in lister'.todo : Begun(s)
  BY <1>2 DEF IInv, Table, Lists
<1>4. \A x \in lister'.stale : \E s \in Spawns : TaskOf(s) = x /\ Begun(s) /\ Down(s)'
  BY <1>1, <1>2 DEF IInv, Table, StaleAreDown, Down
<1>. QED
  BY <1>1, <1>2, <1>3, <1>4, ListerInv

-----------------------------------------------------------------------------
\* Everything else, and the theorems

\* Outside the process containers only stop.
LEMMA OutsideInv ==
  ASSUME IInv, NEW s \in Spawns, ContainerExits(s) \/ ContainerVanishes(s)
  PROVE  IInv'
<1>1. PICK state \in {"exited", "gone"} : ctr' = [ctr EXCEPT ![s] = state]
  BY DEF ContainerExits, ContainerVanishes
<1>2. UNCHANGED <<spawn, table, remover, lister, failed>>
  BY DEF ContainerExits, ContainerVanishes, daemon
<1>3. ctr' \in [Spawns -> States] /\ ctr'[s] # "running" /\ \A u \in Spawns : u # s => ctr'[u] = ctr[u]
  BY <1>1 DEF IInv, Shape, Types, States
<1>4. Shape'
  BY <1>2, <1>3 DEF IInv, Shape, Types, HasTask, OneEach, Entries, TaskOf
<1>5. \A u \in Spawns : Begun(u)' = Begun(u) /\ TaskOf(u)' = TaskOf(u) /\ (Down(u) => Down(u)')
  BY <1>2, <1>3 DEF Begun, TaskOf, Down
<1>6. Lists'
  BY <1>2 DEF IInv, Table, Lists, Begun
<1>7. StaleAreDown'
  BY <1>2, <1>5 DEF IInv, Table, StaleAreDown
<1>8. Known'
  BY <1>2, <1>3 DEF IInv, Table, Known, InTable, Removing
<1>9. Owed'
  BY <1>2, <1>3 DEF IInv, Shape, Types, Removals, Table, Owed, Removing
<1>. QED
  BY <1>4, <1>6, <1>7, <1>8, <1>9 DEF IInv, Table

LEMMA SpawnerInv == ASSUME IInv, NEW s \in Spawns, Spawner(s) PROVE IInv'
<1>1. CASE StartLogThread(s)
  <2>1. PICK place \in Late : Goto(s, place)
    BY <1>1 DEF StartLogThread, Late
  <2>. QED
    BY <1>1, <2>1, MoveInv DEF StartLogThread, Late, daemon
<1>2. CASE BrowserReady(s)
  <2>1. PICK place \in Late : Goto(s, place)
    BY <1>2 DEF BrowserReady, Late
  <2>. QED
    BY <1>2, <2>1, MoveInv DEF BrowserReady, Late, daemon
<1>. QED
  BY <1>1, <1>2, StartInv, RegisterInv DEF Spawner

\* The log threads, and a step that changes nothing.
LEMMA QuietInv ==
  ASSUME IInv, UNCHANGED <<spawn, ctr, table, remover, lister, failed>>
  PROVE  IInv'
<1>1. Shape'
  BY DEF IInv, Shape, Types, HasTask, OneEach, Entries, TaskOf
<1>2. Lists' /\ StaleAreDown'
  BY DEF IInv, Table, Lists, StaleAreDown, Begun, Down, TaskOf
<1>3. Known' /\ Owed'
  BY DEF IInv, Table, Known, Owed, InTable, Removing
<1>. QED
  BY <1>1, <1>2, <1>3 DEF IInv, Table

LEMMA NextInv == ASSUME ~ReuseIds PROVE IInv /\ [Next]_vars => IInv'
<1> SUFFICES ASSUME IInv, [Next]_vars PROVE IInv'
  OBVIOUS
<1>1. CASE UNCHANGED vars
  BY <1>1, QuietInv DEF vars, daemon
<1>2. ASSUME NEW s \in Spawns, NEW t \in Tasks, NEW k \in Kinds, CallSpawn(s, t, k) PROVE IInv'
  BY <1>2, CallInv
<1>3. ASSUME NEW s \in Spawns, Spawner(s) \/ Logger(s) \/ ContainerExits(s) \/ ContainerVanishes(s)
      PROVE  IInv'
  <2>1. CASE Logger(s)
    BY <2>1, QuietInv DEF Logger, LogFindsQueue, LogStoresQueue, LogLine, daemon
  <2>. QED
    BY <1>3, <2>1, SpawnerInv, OutsideInv
<1>4. ASSUME NEW r \in Removers, KillAll(r) \/ (\E t \in Tasks : StopClaw(r, t)) \/ ReturnRemoval(r)
      PROVE  IInv'
  BY <1>4, PressInv, ReturnInv
<1>5. ASSUME NEW r \in Removers, NEW s \in Spawns, ForceRemove(r, s) \/ RemoveRaises(r, s) PROVE IInv'
  BY <1>5, ForceRemoveInv, RemoveRaisesInv
<1>6. CASE Listing
  BY <1>6, SnapshotInv, ReloadInv, ListRaisesInv, PruneInv, DrainInv DEF Listing
<1>. QED
  BY <1>1, <1>2, <1>3, <1>4, <1>5, <1>6 DEF Next

LEMMA Inductive == ASSUME ~ReuseIds PROVE Spec => []IInv
BY InitInv, NextInv, PTL DEF Spec

\* A removal that holds a container is at work or was ended by an error.
LEMMA Holders == ASSUME IInv, NEW s, Removing(s) PROVE s \in BeingRemoved \union LeftBehind
<1>1. PICK r \in Removers : s \in remover[r].todo
  BY DEF Removing
<1>2. remover[r].at \in {"removing", "raised"}
  BY <1>1 DEF IInv, Shape, Types, Removals, Table, Lists
<1>. QED
  BY <1>1, <1>2 DEF BeingRemoved, LeftBehind, Todo

\* As long as task ids are fresh, a running container is in the table, about to
\* be entered or being removed, but for the errors the property names: a start
\* that failed after it took effect, a removal ended by an error, an APIError.
THEOREM RunningClawsAreKnown == ASSUME ~ReuseIds PROVE Spec => []RunningIsKnown
<1>1. IInv => RunningIsKnown
  <2> SUFFICES ASSUME IInv, NEW s \in Spawns, ctr[s] = "running"
               PROVE  \/ s \in Tracked \union BeingRemoved \/ spawn[s].at = "register"
                      \/ spawn[s].at = "raised" \/ s \in LeftBehind \union failed
    BY DEF RunningIsKnown
  <2>1. InTable(s) => s \in Tracked
    BY DEF InTable, Tracked, Spawns, None
  <2>. QED
    BY <2>1, Holders DEF IInv, Table, Known
<1>. QED
  BY <1>1, Inductive, PTL

\* The kill switch that has returned has taken down every claw it owed, but for
\* APIErrors and what another removal holds, or held when an error ended it.
THEOREM KillSwitchWorks == ASSUME ~ReuseIds PROVE Spec => []KillSwitchComplete
<1>1. IInv => KillSwitchComplete
  <2> SUFFICES ASSUME IInv, NEW r \in Removers, NEW s \in remover[r].owed, ctr[s] = "running"
               PROVE  s \in BeingRemoved \union LeftBehind \union failed
    BY DEF KillSwitchComplete
  <2>. QED
    BY Holders DEF IInv, Table, Owed
<1>. QED
  BY <1>1, Inductive, PTL

-----------------------------------------------------------------------------
\* The lines

Threads == [at : {"none", "starting", "creating", "streaming"}, queue : Spawns \union {None}]

LineTypes ==
  /\ queues \in [Tasks -> Spawns \union {None}] /\ log \in [Spawns -> Threads]
  /\ content \in [Spawns -> Seq(Spawns)]
  /\ written \in [Spawns -> Nat] /\ shown \in [Spawns -> Nat]

Streams(s) == log[s].at = "streaming"

\* A log thread starts after the registration, and fills the queue it has built;
\* the queue of a task is the one of its claw's thread, and is there as long as
\* the claw is in the table.
Threading ==
  /\ \A s \in Spawns : log[s].at # "none" => spawn[s].at \in {"ready", "returned", "unready"}
  /\ \A s \in Spawns : Streams(s) => log[s].queue = s
  /\ \A t \in Tasks, q \in Spawns : queues[t] = q => TaskOf(q) = t /\ Streams(q)
  /\ \A s \in Spawns : Streams(s) /\ InTable(s) => queues[TaskOf(s)] = s

\* A queue holds what its own container has written and nobody has seen yet.
Counted ==
  /\ \A s \in Spawns : ~Streams(s) => written[s] = 0
  /\ \A s \in Spawns : shown[s] + Len(content[s]) = written[s]
  /\ \A s \in Spawns : \A i \in 1 .. Len(content[s]) : content[s][i] = s

Lines == LineTypes /\ Threading /\ Counted

\* What the argument takes from the table's invariant.
Owners == HasTask /\ OneEach /\ Entries

\* Steps that touch neither threads nor queues, where a claw only leaves the
\* table and a spawn call only moves on.
LEMMA LinesKeep ==
  ASSUME Lines, Owners, UNCHANGED logs,
         \A s \in Spawns : log[s].at # "none" =>
           /\ TaskOf(s)' = TaskOf(s) /\ spawn'[s].at \in {"ready", "returned", "unready"}
           /\ InTable(s)' => InTable(s)
  PROVE  Lines'
<1>1. UNCHANGED <<queues, content, log, written, shown>>
  BY DEF logs
<1>2. LineTypes' /\ Counted'
  BY <1>1 DEF Lines, LineTypes, Counted, Streams
<1>3. Threading'
  <2>1. \A s \in Spawns : Streams(s)' = Streams(s) /\ (Streams(s) => log[s].at # "none")
    BY <1>1 DEF Streams
  <2>. QED
    BY <1>1, <2>1 DEF Lines, Threading
<1>. QED
  BY <1>2, <1>3 DEF Lines

LEMMA LinesSpawner ==
  ASSUME Lines, IInv, NEW s \in Spawns,
         (\E t \in Tasks, k \in Kinds : CallSpawn(s, t, k)) \/ Spawner(s)
  PROVE  Lines'
<1>0. Owners /\ Types /\ (Streams(s) => log[s].at # "none") /\ s # None
  BY DEF IInv, Shape, Owners, Streams, Spawns, None
<1>1. CASE \E t \in Tasks, k \in Kinds : CallSpawn(s, t, k)
  <2>1. /\ spawn[s].at = "idle" /\ UNCHANGED <<table, logs>>
        /\ \A u \in Spawns : u # s => spawn'[u] = spawn[u]
    BY <1>0, <1>1 DEF CallSpawn, Types
  <2>2. log[s].at = "none"
    BY <2>1 DEF Lines, Threading
  <2>. QED
    BY <1>0, <2>1, <2>2, LinesKeep DEF TaskOf, InTable, Lines, Threading
<1>2. CASE Started(s) \/ SpawnRaises(s)
  <2>1. /\ spawn[s].at = "run" /\ UNCHANGED <<table, logs>>
        /\ \A u \in Spawns : u # s => spawn'[u] = spawn[u]
    BY <1>0, <1>2 DEF Started, SpawnRaises, Goto, Types
  <2>2. log[s].at = "none"
    BY <2>1 DEF Lines, Threading
  <2>. QED
    BY <1>0, <2>1, <2>2, LinesKeep DEF TaskOf, InTable, Lines, Threading
<1>3. CASE Register(s)
  <2>1. /\ spawn[s].at = "register" /\ UNCHANGED logs
        /\ table' = [table EXCEPT ![TaskOf(s)] = s]
        /\ \A u \in Spawns : u # s => spawn'[u] = spawn[u]
    BY <1>0, <1>3 DEF Register, Goto, Types
  <2>2. log[s].at = "none"
    BY <2>1 DEF Lines, Threading
  <2>3. \A u \in Spawns : u # s /\ InTable(u)' => InTable(u)
    BY <1>0, <2>1 DEF InTable, Types
  <2>. QED
    BY <1>0, <2>1, <2>2, <2>3, LinesKeep DEF TaskOf, Lines, Threading
<1>4. CASE BrowserReady(s)
  <2>1. /\ UNCHANGED <<table, logs>>
        /\ \A u \in Spawns : u # s => spawn'[u] = spawn[u]
        /\ spawn'[s].at \in {"returned", "unready"} /\ spawn'[s].task = spawn[s].task
    BY <1>0, <1>4 DEF BrowserReady, Goto, Types, Calls
  <2>. QED
    BY <1>0, <2>1, LinesKeep DEF TaskOf, InTable, Lines, Threading
<1>5. CASE StartLogThread(s)
  <2>1. /\ spawn[s].at = "thread" /\ log' = [log EXCEPT ![s].at = "starting"]
        /\ UNCHANGED <<table, queues, content, written, shown>>
        /\ \A u \in Spawns : u # s => spawn'[u] = spawn[u]
        /\ spawn'[s].at \in {"ready", "returned"} /\ spawn'[s].task = spawn[s].task
    BY <1>0, <1>5 DEF StartLogThread, Goto, Types, Calls
  <2>2. log[s].at = "none"
    BY <2>1 DEF Lines, Threading
  <2>3. /\ log' \in [Spawns -> Threads] /\ log'[s].at = "starting"
        /\ \A u \in Spawns : u # s => log'[u] = log[u]
    BY <2>1 DEF Lines, LineTypes, Threads
  <2>4. \A u \in Spawns : Streams(u)' = Streams(u) /\ TaskOf(u)' = TaskOf(u) /\ InTable(u)' = InTable(u)
    BY <2>1, <2>2, <2>3 DEF Streams, TaskOf, InTable
  <2>5. LineTypes' /\ Counted'
    BY <2>1, <2>3, <2>4 DEF Lines, LineTypes, Counted
  <2>6. Threading'
    <3>1. \A u \in Spawns : Streams(u) => u # s
      BY <2>2 DEF Streams
    <3>. QED
      BY <2>1, <2>3, <2>4, <3>1 DEF Lines, Threading
  <2>. QED
    BY <2>5, <2>6 DEF Lines
<1>. QED
  BY <1>1, <1>2, <1>3, <1>4, <1>5 DEF Spawner

\* With fresh ids no thread finds a queue under its id; it builds one.
LEMMA LinesFind == ASSUME Lines, IInv, NEW s \in Spawns, LogFindsQueue(s) PROVE Lines'
<1>1. Owners /\ log[s].at = "starting" /\ ~Streams(s)
  BY DEF IInv, Shape, Owners, LogFindsQueue, Streams
<1>2. TaskOf(s) \in Tasks /\ spawn[s].at # "idle"
  BY <1>1 DEF Owners, HasTask, Lines, Threading, TaskOf
<1>3. queues[TaskOf(s)] = None
  <2> DEFINE q == queues[TaskOf(s)]
  <2> SUFFICES ASSUME q # None PROVE FALSE
    OBVIOUS
  <2>1. q \in Spawns /\ TaskOf(q) = TaskOf(s) /\ Streams(q)
    BY <1>2 DEF Lines, LineTypes, Threading
  <2>2. spawn[q].at # "idle"
    BY <2>1 DEF Lines, Threading, Streams
  <2>. QED
    BY <1>1, <1>2, <2>1, <2>2 DEF Owners, OneEach
<1>4. /\ log' = [log EXCEPT ![s] = [at |-> "creating", queue |-> None]]
      /\ UNCHANGED <<spawn, table, queues, content, written, shown>>
  BY <1>3 DEF LogFindsQueue
<1>5. /\ log' \in [Spawns -> Threads] /\ log'[s].at = "creating"
      /\ \A u \in Spawns : u # s => log'[u] = log[u]
  BY <1>4 DEF Lines, LineTypes, Threads
<1>6. \A u \in Spawns : Streams(u)' = Streams(u) /\ TaskOf(u)' = TaskOf(u) /\ InTable(u)' = InTable(u)
  BY <1>1, <1>4, <1>5 DEF Streams, TaskOf, InTable
<1>7. LineTypes' /\ Counted'
  BY <1>4, <1>5, <1>6 DEF Lines, LineTypes, Counted
<1>8. Threading'
  BY <1>1, <1>4, <1>5, <1>6 DEF Lines, Threading
<1>. QED
  BY <1>7, <1>8 DEF Lines

LEMMA LinesStore == ASSUME Lines, IInv, NEW s \in Spawns, LogStoresQueue(s) PROVE Lines'
<1>1. /\ Owners /\ log[s].at = "creating" /\ s # None
      /\ queues' = [queues EXCEPT ![TaskOf(s)] = s]
      /\ log' = [log EXCEPT ![s] = [at |-> "streaming", queue |-> s]]
      /\ UNCHANGED <<spawn, table, content, written, shown>>
  BY DEF IInv, Shape, Owners, LogStoresQueue, Spawns, None
<1>2. TaskOf(s) \in Tasks /\ spawn[s].at # "idle"
  BY <1>1 DEF Owners, HasTask, Lines, Threading, TaskOf
<1>3. /\ log' \in [Spawns -> Threads] /\ log'[s].at = "streaming" /\ log'[s].queue = s
      /\ \A u \in Spawns : u # s => log'[u] = log[u]
  BY <1>1 DEF Lines, LineTypes, Threads
<1>4. /\ queues' \in [Tasks -> Spawns \union {None}] /\ queues'[TaskOf(s)] = s
      /\ \A t \in Tasks : t # TaskOf(s) => queues'[t] = queues[t]
  BY <1>1, <1>2 DEF Lines, LineTypes
<1>5. /\ \A u \in Spawns : TaskOf(u)' = TaskOf(u) /\ InTable(u)' = InTable(u)
      /\ Streams(s)' /\ \A u \in Spawns : u # s => Streams(u)' = Streams(u)
  BY <1>1, <1>3 DEF Streams, TaskOf, InTable
<1>6. LineTypes' /\ Counted'
  <2>1. LineTypes'
    BY <1>1, <1>3, <1>4 DEF Lines, LineTypes
  <2>2. Counted'
    BY <1>1, <1>5 DEF Lines, Counted
  <2>. QED
    BY <2>1, <2>2
<1>7. Threading'
  <2>1. \A u \in Spawns : log'[u].at # "none" => spawn'[u].at \in {"ready", "returned", "unready"}
    BY <1>1, <1>3 DEF Lines, Threading
  <2>2. \A u \in Spawns : Streams(u)' => log'[u].queue = u
    BY <1>3, <1>5 DEF Lines, Threading
  <2>3. ASSUME NEW t \in Tasks, NEW q \in Spawns, queues'[t] = q PROVE TaskOf(q)' = t /\ Streams(q)'
    <3>1. CASE t = TaskOf(s)
      BY <1>4, <1>5, <2>3, <3>1
    <3>2. CASE t # TaskOf(s)
      <4>1. queues[t] = q /\ TaskOf(q) = t /\ Streams(q)
        BY <1>4, <2>3, <3>2 DEF Lines, Threading
      <4>. QED
        BY <1>5, <3>2, <4>1
    <3>. QED
      BY <3>1, <3>2
  <2>4. ASSUME NEW u \in Spawns, Streams(u)', InTable(u)' PROVE queues'[TaskOf(u)'] = u
    <3>1. CASE u = s
      BY <1>4, <1>5, <3>1
    <3>2. CASE u # s
      <4>1. Streams(u) /\ InTable(u) /\ TaskOf(u)' = TaskOf(u) /\ queues[TaskOf(u)] = u
        BY <1>5, <2>4, <3>2 DEF Lines, Threading
      <4>2. TaskOf(u) \in Tasks /\ spawn[u].at # "idle"
        BY <1>1, <4>1 DEF Owners, HasTask, Lines, Threading, TaskOf, Streams
      <4>3. TaskOf(u) # TaskOf(s)
        BY <1>1, <1>2, <3>2, <4>2 DEF Owners, OneEach
      <4>. QED
        BY <1>4, <4>1, <4>2, <4>3
    <3>. QED
      BY <3>1, <3>2
  <2>. QED
    BY <2>1, <2>2, <2>3, <2>4 DEF Threading
<1>. QED
  BY <1>6, <1>7 DEF Lines

\* A line goes to the end of its container's own queue.
LEMMA LinesWritten == ASSUME Lines, NEW s \in Spawns, LogLine(s) PROVE Lines'
<1>1. /\ Streams(s) /\ log[s].queue = s
      /\ content' = [content EXCEPT ![s] = Append(content[s], s)]
      /\ written' = [written EXCEPT ![s] = written[s] + 1]
      /\ UNCHANGED <<spawn, table, queues, log, shown>>
  BY DEF LogLine, Lines, Threading, Streams
<1>2. /\ content[s] \in Seq(Spawns) /\ Append(content[s], s) \in Seq(Spawns)
      /\ Len(Append(content[s], s)) = Len(content[s]) + 1
      /\ \A i \in 1 .. Len(content[s]) + 1 :
           Append(content[s], s)[i] = IF i = Len(content[s]) + 1 THEN s ELSE content[s][i]
  BY DEF Lines, LineTypes
<1>3. /\ content' \in [Spawns -> Seq(Spawns)] /\ content'[s] = Append(content[s], s)
      /\ written' \in [Spawns -> Nat] /\ written'[s] = written[s] + 1
      /\ \A u \in Spawns : u # s => content'[u] = content[u] /\ written'[u] = written[u]
  BY <1>1, <1>2 DEF Lines, LineTypes
<1>4. LineTypes' /\ Threading'
  BY <1>1, <1>3 DEF Lines, LineTypes, Threading, Streams, TaskOf, InTable
<1>5. Counted'
  <2>1. \A u \in Spawns : ~Streams(u)' => written'[u] = 0
    BY <1>1, <1>3 DEF Lines, Counted, Streams
  <2>2. /\ Len(content[s]) \in Nat /\ written[s] \in Nat /\ shown[s] \in Nat
        /\ shown[s] + Len(content[s]) = written[s] /\ Len(content'[s]) = Len(content[s]) + 1
    BY <1>2, <1>3 DEF Lines, LineTypes, Counted
  <2>3. shown'[s] + Len(content'[s]) = written'[s]
    BY <1>1, <1>3, <2>2
  <2>4. \A i \in 1 .. Len(content'[s]) : content'[s][i] = s
    <3>1. \A i \in 1 .. Len(content[s]) : content[s][i] = s
      BY DEF Lines, Counted
    <3>2. SUFFICES ASSUME NEW i \in 1 .. Len(content[s]) + 1 PROVE content'[s][i] = s
      BY <2>2
    <3>3. content'[s][i] = IF i = Len(content[s]) + 1 THEN s ELSE content[s][i]
      BY <1>2, <1>3
    <3>4. i # Len(content[s]) + 1 => i \in 1 .. Len(content[s])
      BY <2>2
    <3>. QED
      BY <3>1, <3>3, <3>4
  <2>. QED
    BY <1>1, <1>3, <2>1, <2>3, <2>4 DEF Lines, Counted
<1>. QED
  BY <1>4, <1>5 DEF Lines

\* A tick shows the first line of a queue.
LEMMA LinesShown == ASSUME Lines, NEW t \in Tasks, DrainLine(t) PROVE Lines'
<1> DEFINE q == queues[t]
<1>1. /\ q \in Spawns /\ content[q] \in Seq(Spawns) /\ content[q] # <<>>
      /\ shown' = [shown EXCEPT ![Head(content[q])] = shown[Head(content[q])] + 1]
      /\ content' = [content EXCEPT ![q] = Tail(content[q])]
      /\ UNCHANGED <<spawn, table, queues, log, written>>
  BY DEF DrainLine, HasLines, Shown, Lines, LineTypes
<1> HIDE DEF q
<1>2. /\ Len(content[q]) \in Nat /\ Len(content[q]) >= 1 /\ Head(content[q]) = content[q][1]
      /\ Tail(content[q]) \in Seq(Spawns) /\ Len(Tail(content[q])) = Len(content[q]) - 1
      /\ \A i \in 1 .. Len(content[q]) - 1 : Tail(content[q])[i] = content[q][i + 1]
  BY <1>1
<1>3. Head(content[q]) = q
  BY <1>1, <1>2 DEF Lines, Counted
<1>4. /\ content' \in [Spawns -> Seq(Spawns)] /\ content'[q] = Tail(content[q])
      /\ shown' \in [Spawns -> Nat] /\ shown'[q] = shown[q] + 1
      /\ \A u \in Spawns : u # q => content'[u] = content[u] /\ shown'[u] = shown[u]
  BY <1>1, <1>2, <1>3 DEF Lines, LineTypes
<1>5. LineTypes' /\ Threading'
  <2>1. LineTypes'
    BY <1>1, <1>4 DEF Lines, LineTypes
  <2>2. Threading'
    BY <1>1 DEF Lines, Threading, Streams, TaskOf, InTable
  <2>. QED
    BY <2>1, <2>2
<1>6. Counted'
  <2>1. shown[q] \in Nat /\ written[q] \in Nat /\ shown[q] + Len(content[q]) = written[q]
    BY <1>1 DEF Lines, LineTypes, Counted
  <2>2. shown'[q] + Len(content'[q]) = written'[q]
    BY <1>1, <1>2, <1>4, <2>1
  <2>3. \A i \in 1 .. Len(content'[q]) : content'[q][i] = q
    BY <1>1, <1>2, <1>4 DEF Lines, Counted
  <2>. QED
    BY <1>1, <1>4, <2>2, <2>3 DEF Lines, Counted, Streams
<1>. QED
  BY <1>5, <1>6 DEF Lines

\* A removal takes the queue out together with the claw.
LEMMA LinesTakenOut ==
  ASSUME Lines, IInv, NEW r \in Removers, NEW S \in SUBSET Tasks, NEW owed, TakeOut(r, S, owed)
  PROVE  Lines'
<1>1. /\ UNCHANGED <<spawn, log, content, written, shown>>
      /\ table' = Clear(table, S) /\ queues' = Clear(queues, S)
  BY DEF TakeOut
<1>2. /\ queues' \in [Tasks -> Spawns \union {None}]
      /\ \A t \in Tasks : queues'[t] = IF t \in S THEN None ELSE queues[t]
      /\ \A t \in Tasks : table'[t] = IF t \in S THEN None ELSE table[t]
  BY <1>1 DEF Clear, Lines, LineTypes
<1>3. LineTypes' /\ Counted'
  BY <1>1, <1>2 DEF Lines, LineTypes, Counted, Streams
<1>4. Threading'
  <2>1. ASSUME NEW u \in Spawns, Streams(u)', InTable(u)' PROVE queues'[TaskOf(u)'] = u
    <3>1. PICK t \in Tasks : table'[t] = u
      BY <2>1 DEF InTable
    <3>2. u # None /\ t \notin S /\ table[t] = u
      BY <1>2, <3>1 DEF Spawns, None
    <3>3. TaskOf(u) = t /\ Streams(u) /\ InTable(u) /\ TaskOf(u)' = TaskOf(u)
      BY <1>1, <2>1, <3>2 DEF IInv, Shape, Entries, Streams, InTable, TaskOf
    <3>. QED
      BY <1>2, <3>2, <3>3 DEF Lines, Threading
  <2>2. ASSUME NEW t \in Tasks, NEW q \in Spawns, queues'[t] = q PROVE TaskOf(q)' = t /\ Streams(q)'
    <3>1. queues[t] = q
      BY <1>2, <2>2 DEF Spawns, None
    <3>. QED
      BY <1>1, <3>1 DEF Lines, Threading, TaskOf, Streams
  <2>3. /\ \A u \in Spawns : log'[u].at # "none" => spawn'[u].at \in {"ready", "returned", "unready"}
        /\ \A u \in Spawns : Streams(u)' => log'[u].queue = u
    BY <1>1 DEF Lines, Threading, Streams
  <2>. QED
    BY <2>1, <2>2, <2>3 DEF Threading
<1>. QED
  BY <1>3, <1>4 DEF Lines

\* What is left touches no thread and no queue.
LEMMA LinesElse ==
  ASSUME Lines, IInv, UNCHANGED <<spawn, logs>>,
         table' = table \/ ListPrune
  PROVE  Lines'
<1>1. \A s \in Spawns : InTable(s)' => InTable(s)
  <2>1. CASE ListPrune
    <3>1. \A t \in Tasks : table'[t] = None \/ table'[t] = table[t]
      BY <2>1 DEF ListPrune, Clear
    <3>. QED
      BY <3>1 DEF InTable, Spawns, None
  <2>2. CASE table' = table
    BY <2>2 DEF InTable
  <2>. QED
    BY <2>1, <2>2
<1>2. Owners /\ \A s \in Spawns : TaskOf(s)' = TaskOf(s)
  BY DEF IInv, Shape, Owners, TaskOf
<1>. QED
  BY <1>1, <1>2, LinesKeep DEF Lines, Threading

LEMMA LinesInit == Init => Lines
<1> SUFFICES ASSUME Init PROVE Lines
  OBVIOUS
<1>1. LineTypes
  BY DEF Init, LineTypes, Threads
<1>2. Threading
  <2>1. \A s \in Spawns : log[s].at = "none" /\ ~Streams(s)
    BY DEF Init, Streams
  <2>2. \A t \in Tasks, q \in Spawns : queues[t] # q
    BY DEF Init, Spawns, None
  <2>. QED
    BY <2>1, <2>2 DEF Threading
<1>3. \A s \in Spawns : content[s] = <<>> /\ shown[s] = 0 /\ written[s] = 0
  BY DEF Init
<1>4. Counted
  BY <1>3 DEF Counted
<1>. QED
  BY <1>1, <1>2, <1>4 DEF Lines

LEMMA LinesStep == Lines /\ IInv /\ [Next]_vars => Lines'
<1> SUFFICES ASSUME Lines, IInv, [Next]_vars PROVE Lines'
  OBVIOUS
<1>1. ASSUME NEW s \in Spawns, NEW t \in Tasks, NEW k \in Kinds, CallSpawn(s, t, k) PROVE Lines'
  BY <1>1, LinesSpawner
<1>2. ASSUME NEW s \in Spawns, Spawner(s) \/ Logger(s) PROVE Lines'
  BY <1>2, LinesSpawner, LinesFind, LinesStore, LinesWritten DEF Logger
<1>3. ASSUME NEW r \in Removers, KillAll(r) \/ \E t \in Tasks : StopClaw(r, t) PROVE Lines'
  <2>1. Tasks \in SUBSET Tasks /\ \A t \in Tasks : {t} \in SUBSET Tasks
    OBVIOUS
  <2>. QED
    BY <1>3, <2>1, LinesTakenOut DEF KillAll, StopClaw
<1>4. ASSUME NEW s \in Spawns, ContainerExits(s) \/ ContainerVanishes(s) PROVE Lines'
  BY <1>4, LinesElse DEF ContainerExits, ContainerVanishes
<1>5. ASSUME NEW r \in Removers, ReturnRemoval(r) PROVE Lines'
  BY <1>5, LinesElse DEF ReturnRemoval
<1>9. ASSUME NEW r \in Removers, NEW s \in Spawns, ForceRemove(r, s) \/ RemoveRaises(r, s) PROVE Lines'
  BY <1>9, LinesElse DEF ForceRemove, RemoveRaises
<1>6. ASSUME NEW t \in Tasks, DrainLine(t) \/ DrainedTask(t) PROVE Lines'
  BY <1>6, LinesShown, LinesElse DEF DrainedTask
<1>7. CASE ListSnapshot \/ ListPrune \/ \E s \in Spawns : ListReload(s) \/ ListRaises(s)
  BY <1>7, LinesElse DEF ListSnapshot, ListPrune, ListReload, ListRaises
<1>8. CASE UNCHANGED vars
  BY <1>8, LinesElse DEF vars
<1>. QED
  BY <1>1, <1>2, <1>3, <1>4, <1>5, <1>6, <1>7, <1>8, <1>9 DEF Next, Listing

LEMMA UpTo == ASSUME NEW n \in Nat PROVE Cardinality(1 .. n) = n
<1>1. Cardinality(1 .. n) = IF 1 > n THEN 0 ELSE n - 1 + 1
  BY FS_Interval
<1>. QED
  BY <1>1

\* As long as task ids are fresh, every line the log thread of a tracked claw has
\* read is on the screen, once, or in the queue the dashboard drains.
THEOREM LinesAreNotLost == ASSUME ~ReuseIds PROVE Spec => []LinesReachViewer
<1>1. Lines /\ IInv => LinesReachViewer
  <2> SUFFICES ASSUME Lines, IInv, NEW t \in Tasks, table[t] # None
               PROVE  LET s == table[t] IN
                      written[s] = shown[s] +
                        (IF queues[t] = None THEN 0
                         ELSE Cardinality({i \in DOMAIN content[queues[t]] : content[queues[t]][i] = s}))
    BY DEF LinesReachViewer
  <2> DEFINE s == table[t]
  <2>1. s \in Spawns /\ TaskOf(s) = t /\ InTable(s) /\ spawn[s].at # "idle"
    BY DEF IInv, Shape, Types, Entries, InTable, Late
  <2> HIDE DEF s
  <2>2. shown[s] \in Nat /\ written[s] \in Nat /\ Len(content[s]) \in Nat
        /\ shown[s] + Len(content[s]) = written[s]
    BY <2>1 DEF Lines, LineTypes, Counted
  <2>3. CASE queues[t] = None
    <3>1. s # None
      BY <2>1 DEF Spawns, None
    <3>2. ~Streams(s)
      BY <2>1, <2>3, <3>1 DEF Lines, Threading
    <3>3. written[s] = 0
      BY <2>1, <3>2 DEF Lines, Counted
    <3>. QED
      BY <2>2, <2>3, <3>3 DEF s
  <2>4. CASE queues[t] # None
    <3>1. PICK q \in Spawns : queues[t] = q
      BY <2>4 DEF Lines, LineTypes
    <3>a. TaskOf(q) = t /\ Streams(q)
      BY <3>1 DEF Lines, Threading
    <3>b. spawn[q].at # "idle"
      BY <3>a DEF Lines, Threading, Streams
    <3>2. queues[t] = s
      BY <2>1, <3>1, <3>a, <3>b DEF IInv, Shape, OneEach
    <3>3. content[s] \in Seq(Spawns) /\ DOMAIN content[s] = 1 .. Len(content[s])
      BY <2>1 DEF Lines, LineTypes
    <3>4. {i \in DOMAIN content[s] : content[s][i] = s} = 1 .. Len(content[s])
      BY <2>1, <3>3 DEF Lines, Counted
    <3>5. Cardinality({i \in DOMAIN content[s] : content[s][i] = s}) = Len(content[s])
      BY <2>2, <3>4, UpTo
    <3>. QED
      BY <2>2, <2>4, <3>2, <3>5 DEF s
  <2>. QED
    BY <2>3, <2>4
<1>. QED
  BY <1>1, Inductive, LinesInit, LinesStep, PTL DEF Spec
=============================================================================
