---------------------------- MODULE TaskService ----------------------------
(***************************************************************************)
(* What the hive controller promises its clients: a table of tasks that    *)
(* changes one locked operation at a time.  There are no threads, locks,   *)
(* futures or files here; a crash shows only as a restart that fails the   *)
(* running tasks or, because the state file is rewritten in place, comes   *)
(* back with no task at all.                                               *)
(***************************************************************************)
EXTENDS Naturals, FiniteSets

CONSTANTS Ids, WorkerCount, MaxQueue, MaxRetries

VARIABLE table      \* what a client that takes the lock reads

None     == [status |-> "absent", attempt |-> 0, retries |-> 0, cancel |-> FALSE]
Empty    == [t \in Ids |-> None]
In(S)    == {t \in Ids : table[t].status \in S}
Set(t, s) == table' = [table EXCEPT ![t].status = s]

Init == table = Empty

Accept(t, r) ==
  /\ table[t].status = "absent"
  /\ Cardinality(In({"queued", "retrying", "running"})) < MaxQueue
  /\ table' = [table EXCEPT ![t] =
                  [status |-> "queued", attempt |-> 0, retries |-> r, cancel |-> FALSE]]

Cancel(t) ==
  \/ t \in In({"queued", "retrying"}) /\ Set(t, "cancelled")
  \/ t \in In({"running"}) /\ table' = [table EXCEPT ![t].cancel = TRUE]

\* Some waiting tasks start their next attempt; never more run than workers.
Dispatch(S) ==
  /\ Cardinality(S) + Cardinality(In({"running"})) <= WorkerCount
  /\ table' = [t \in Ids |-> IF t \in S
                 THEN [table[t] EXCEPT !.status = "running", !.attempt = @ + 1] ELSE table[t]]

Conclude(t) ==
  /\ t \in In({"running"})
  /\ IF table[t].cancel THEN Set(t, "cancelled")
     ELSE \/ Set(t, "succeeded")
          \/ table[t].attempt <= table[t].retries /\ Set(t, "retrying")
          \/ table[t].attempt > table[t].retries /\ Set(t, "failed")

Reload ==
  \/ table' = [t \in Ids |-> IF t \in In({"running"})
                 THEN [table[t] EXCEPT !.status = "failed"] ELSE table[t]]
  \/ table' = Empty

Next ==
  \/ \E t \in Ids : (\E r \in 0 .. MaxRetries : Accept(t, r)) \/ Cancel(t) \/ Conclude(t)
  \/ \E S \in SUBSET In({"queued", "retrying"}) : Dispatch(S)
  \/ Reload

Spec == Init /\ [][Next]_table
=============================================================================
