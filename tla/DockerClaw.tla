----------------------------- MODULE DockerClaw ------------------------------
(***************************************************************************)
(* A docker_claw task of the hive: _run_docker_claw of freetalon/hive.py   *)
(* on a DockerManager of freetalon/docker_manager.py, for every attempt of *)
(* one task.  The attempts share the container name claw-<task id>; each   *)
(* has a manager, and so a table of containers, of its own.                *)
(*                                                                         *)
(* The daemon may raise at every call, an attempt's program may never end, *)
(* the task may be cancelled, and the hive may crash.  Hive models what    *)
(* surrounds an attempt; here it is only its lock, its cancel flag and its *)
(* decision to try again.                                                  *)
(***************************************************************************)
EXTENDS Naturals, FiniteSets, Limits

CONSTANTS MaxRetries,  \* the task's retry budget
          MaxErrors,   \* daemon calls that raise (a bound on the model)
          HostSet,     \* hosts the hive may run on
          WorkerCap    \* worker_cap of the configuration

ASSUME DockerAssumption ==
  /\ MaxRetries \in Nat /\ MaxErrors \in Nat
  /\ HostSet \subseteq Host /\ WorkerCap \in Nat \ {0}

Attempts == 1 .. MaxRetries + 1

VARIABLES host,      \* the machine
          profile,   \* the resource profile the payload names
          attempt,   \* task.attempt: the attempt that runs, or ran last
          at,        \* where its body is
          result,    \* what the attempt has come to
          ctr,       \* the daemon's container of each attempt
          holding,   \* what has been on dm._containers, by attempt
          cancel,    \* task.cancel_requested
          late,      \* the deadline of the attempt has passed
          lock,      \* the hive's lock: "body", "other" or "free"
          errors,    \* calls of the daemon that raised
          spoilt     \* attempts whose remove() or start raised

vars == <<host, profile, attempt, at, result, ctr, holding, cancel, late, lock, errors, spoilt>>
machine == <<host, profile>>

Init ==
  /\ host \in HostSet /\ profile \in Profiles
  /\ attempt = 0 /\ at = "queued" /\ result = "none"
  /\ ctr = [a \in Attempts |-> "none"] /\ holding = [a \in Attempts |-> FALSE]
  /\ cancel = FALSE /\ late = FALSE /\ lock = "free"
  /\ errors = 0 /\ spoilt = {}

DaemonRaises == errors < MaxErrors /\ errors' = errors + 1
Raise        == at' = "remove" /\ result' = "error"
Exists(a)    == ctr[a] \notin {"none", "gone"}

-----------------------------------------------------------------------------
\* The hive around an attempt

\* Dispatch, then DockerManager(): no SDK or no daemon raises before anything
\* is started.
BeginAttempt ==
  /\ at = "queued"
  /\ attempt' = attempt + 1 /\ late' = FALSE
  /\ \/ at' = "spawn" /\ result' = "none"
     \/ at' = "over"  /\ result' = "error"
  /\ UNCHANGED <<machine, ctr, holding, cancel, lock, errors, spoilt>>

\* The retry decision of _execute_task.
MayTryAgain == result \in {"error", "timeout"} /\ attempt <= MaxRetries /\ ~cancel
TryAgain ==
  /\ at = "over" /\ MayTryAgain
  /\ at' = "queued"
  /\ UNCHANGED <<machine, attempt, result, ctr, holding, cancel, late, lock, errors, spoilt>>

RequestCancel ==
  /\ at \notin {"queued", "over", "crashed"} /\ ~cancel /\ lock = "free"
  /\ cancel' = TRUE
  /\ UNCHANGED <<machine, attempt, at, result, ctr, holding, late, lock, errors, spoilt>>

\* The scheduler, requests and other workers use the lock too.
OtherLocks ==
  /\ lock = "free" /\ at \notin {"over", "crashed"} /\ lock' = "other"
  /\ UNCHANGED <<machine, attempt, at, result, ctr, holding, cancel, late, errors, spoilt>>
OtherUnlocks ==
  /\ lock = "other" /\ lock' = "free"
  /\ UNCHANGED <<machine, attempt, at, result, ctr, holding, cancel, late, errors, spoilt>>

-----------------------------------------------------------------------------
\* The body: _run_docker_claw

\* containers.run may be refused outright (the name is taken), or create the
\* container and fail to start it; both raise before the try block.
Spawn ==
  /\ at = "spawn"
  /\ \A a \in Attempts : ~Exists(a)
  /\ ctr' = [ctr EXCEPT ![attempt] = "running"]
  /\ holding' = [holding EXCEPT ![attempt] = TRUE]
  /\ at' = "poll"
  /\ UNCHANGED <<machine, attempt, result, cancel, late, lock, errors, spoilt>>

SpawnFails ==
  /\ at = "spawn"
  /\ at' = "over" /\ result' = "error"
  /\ \/ (\E a \in Attempts : Exists(a)) /\ UNCHANGED <<ctr, errors, spoilt>>
     \/ DaemonRaises /\ UNCHANGED <<ctr, spoilt>>
     \/ /\ \A a \in Attempts : ~Exists(a)
        /\ DaemonRaises /\ ctr' = [ctr EXCEPT ![attempt] = "created"]
        /\ spoilt' = spoilt \union {attempt}
  /\ UNCHANGED <<machine, attempt, holding, cancel, late, lock>>

\* The loop's condition and its locked check of the flag; the container is
\* killed while the lock is held.
PollContinues_Bug == at = "poll"
PollContinues == at = "poll" /\ ~late
CheckCancel ==
  /\ PollContinues /\ lock = "free"
  /\ IF cancel THEN at' = "kill" /\ lock' = "body" ELSE at' = "status" /\ lock' = lock
  /\ UNCHANGED <<machine, attempt, result, ctr, holding, cancel, late, errors, spoilt>>

\* container.kill() raises when the daemon does or the container has stopped:
\* swallowed.  The daemon reports a killed container as exited.
Killed(state) == IF state = "running" THEN "killed" ELSE state

CancelKill ==
  /\ at = "kill"
  /\ \/ ctr' = [ctr EXCEPT ![attempt] = Killed(@)] /\ UNCHANGED errors
     \/ DaemonRaises /\ UNCHANGED ctr
  /\ at' = "remove" /\ result' = "cancelled" /\ lock' = "free"
  /\ UNCHANGED <<machine, attempt, holding, cancel, late, spoilt>>

\* reload() raises for a container that is gone, or when the daemon does.
Status ==
  /\ at = "status"
  /\ \/ ctr[attempt] = "running" /\ at' = "poll"    /\ UNCHANGED <<result, errors>>
     \/ ctr[attempt] \in {"exited", "killed"} /\ at' = "collect" /\ UNCHANGED <<result, errors>>
     \/ ctr[attempt] = "gone"    /\ Raise           /\ UNCHANGED errors
     \/ DaemonRaises             /\ Raise
  /\ UNCHANGED <<machine, attempt, ctr, holding, cancel, late, lock, spoilt>>

TimeOut_Bug ==
  /\ at = "poll" /\ late
  /\ ctr' = [ctr EXCEPT ![attempt] = Killed(@)]
  /\ at' = "collect"
  /\ UNCHANGED <<machine, attempt, result, holding, cancel, late, lock, errors, spoilt>>

TimeOut ==
  /\ at = "poll" /\ late
  /\ \/ ctr' = [ctr EXCEPT ![attempt] = Killed(@)] /\ UNCHANGED errors
     \/ DaemonRaises /\ UNCHANGED ctr
  /\ at' = "remove" /\ result' = "timeout"
  /\ UNCHANGED <<machine, attempt, holding, cancel, late, lock, spoilt>>

\* wait() failing is swallowed, logs() failing is not.
Collect ==
  /\ at = "collect"
  /\ \/ ctr[attempt] # "gone" /\ at' = "remove" /\ result' = "ok" /\ UNCHANGED errors
     \/ ctr[attempt] = "gone" /\ Raise /\ UNCHANGED errors
     \/ DaemonRaises /\ Raise
  /\ UNCHANGED <<machine, attempt, ctr, holding, cancel, late, lock, spoilt>>

\* finally: remove(force=True), any exception swallowed.
Remove_Bug ==
  /\ at = "remove" /\ holding[attempt]
  /\ ctr' = [ctr EXCEPT ![attempt] = IF result = "ok" THEN "gone" ELSE @]
  /\ holding' = [holding EXCEPT ![attempt] = FALSE]
  /\ at' = "over"
  /\ UNCHANGED <<machine, attempt, result, cancel, late, lock, errors, spoilt>>

Remove ==
  /\ at = "remove" /\ holding[attempt]
  /\ holding' = [holding EXCEPT ![attempt] = FALSE]
  /\ \/ ctr' = [ctr EXCEPT ![attempt] = "gone"] /\ UNCHANGED <<errors, spoilt>>
     \/ DaemonRaises /\ spoilt' = spoilt \union {attempt} /\ UNCHANGED ctr
  /\ at' = "over"
  /\ UNCHANGED <<machine, attempt, result, cancel, late, lock>>

-----------------------------------------------------------------------------
\* The program, the clock, an operator, a crash of the hive

ProgramEnds(a) ==
  /\ ctr[a] = "running" /\ ctr' = [ctr EXCEPT ![a] = "exited"]
  /\ UNCHANGED <<machine, attempt, at, result, holding, cancel, late, lock, errors, spoilt>>

OperatorRemoves(a) ==
  /\ Exists(a) /\ ctr' = [ctr EXCEPT ![a] = "gone"]
  /\ UNCHANGED <<machine, attempt, at, result, holding, cancel, late, lock, errors, spoilt>>

DeadlinePasses ==
  /\ at \in {"poll", "status", "kill"} /\ ~late /\ late' = TRUE
  /\ UNCHANGED <<machine, attempt, at, result, ctr, holding, cancel, lock, errors, spoilt>>

Crash ==
  /\ at \notin {"over", "crashed"}
  /\ at' = "crashed" /\ lock' = "free"
  /\ UNCHANGED <<machine, attempt, result, ctr, holding, cancel, late, errors, spoilt>>

Body == Spawn \/ SpawnFails \/ CheckCancel \/ CancelKill \/ Status \/ TimeOut \/ Collect \/ Remove

Next ==
  \/ BeginAttempt \/ TryAgain \/ RequestCancel \/ OtherLocks \/ OtherUnlocks
  \/ Body
  \/ \E a \in Attempts : ProgramEnds(a) \/ OperatorRemoves(a)
  \/ DeadlinePasses \/ Crash

Spec == Init /\ [][Next]_vars

\* The body's thread runs, the clock advances, and whoever has the lock lets it
\* go; the body competes for the lock, so its locked check needs strong fairness.
\* The program and the operator owe nothing.
Fairness == WF_vars(Body) /\ SF_vars(CheckCancel) /\ WF_vars(DeadlinePasses)
            /\ WF_vars(OtherUnlocks) /\ WF_vars(BeginAttempt) /\ WF_vars(TryAgain)
FairSpec == Spec /\ Fairness

-----------------------------------------------------------------------------
\* Properties

\* Type invariant.
TypeOK ==
  /\ host \in HostSet /\ profile \in Profiles
  /\ attempt \in 0 .. MaxRetries + 1
  /\ at \in {"queued", "spawn", "poll", "status", "kill", "collect", "remove", "over", "crashed"}
  /\ result \in {"none", "ok", "error", "timeout", "cancelled"}
  /\ ctr \in [Attempts -> {"none", "created", "running", "exited", "killed", "gone"}]
  /\ holding \in [Attempts -> BOOLEAN] /\ cancel \in BOOLEAN /\ late \in BOOLEAN
  /\ lock \in {"free", "body", "other"}
  /\ errors \in 0 .. MaxErrors /\ spoilt \subseteq Attempts

\* An attempt that is over leaves no container behind, so that the next one
\* finds the name free, however it ended; only a daemon that failed to start
\* or to remove the container is an excuse.
AttemptLeavesNothing ==
  at \in {"queued", "spawn", "over"} => \A a \in Attempts : Exists(a) => a \in spoilt

\* A result is reported only for a program that came to its own end: never for
\* one that was killed at the deadline or on a cancellation.
ResultIsGenuine == [][at = "collect" /\ result' = "ok" => ctr[attempt] = "exited"]_vars

\* The task ends whatever the program, the daemon and a cancellation do: the
\* last attempt ends, with every retry the budget allows behind it.
Ended    == at = "crashed" \/ (at = "over" /\ ~MayTryAgain)
TaskEnds == <>[]Ended

\* The caps of a container, and all the containers the workers can start with
\* the default profile together, stay within the host.
LimitsFit == CapsFit(host, profile) /\ WorkersFit(host, WorkerCap)
=============================================================================
