--------------------------- MODULE LifecycleProofs ---------------------------
(***************************************************************************)
(* Proofs about the server processes and their pid file, for any number of *)
(* processes, signals and kills, with one shell that gives one command at  *)
(* a time.  Two shells that start at once both find no pid file.           *)
(***************************************************************************)
EXTENDS Lifecycle, TLAPS

Shell(c) == cli[c].at

\* What is alive is the one process the pid file or the shell knows: while
\* "start" works, nobody, then the process it spawned; else the one in the file.
\* Without the file it was unlinked by the process itself, which is then over.
Known(c, s) ==
  CASE Shell(c) \in {"spawn", "unlink"} -> FALSE
    [] Shell(c) = "create" -> cli[c].target = s
    [] Shell(c) = "write"  -> cli[c].target = s /\ pidfile = "torn"
    [] OTHER               -> pidfile = s

Places == Prompt \union {"probe", "unlink", "spawn", "create", "write", "signal", "wait"}

OneAlive  == \A c \in Clis, s \in Servers : Alive(s) => Known(c, s)
Listens   == \A s \in Servers : bound[s] => Alive(s)
NoFile    == \A c \in Clis : Shell(c) = "stopped" => pidfile = "none"
Sound     == TypeOK /\ Listens
IInv      == Sound /\ OneAlive /\ NoFile

OneShell == \A c, d \in Clis : c = d

Stages  == {"loading", "started", "listening", "serving", "closing", "draining", "unlinking", "unbound"}
Calls   == {"none", "httpd?", "shutdown", "close", "clear", "thread?", "alive?", "join", "forget",
            "done", "raised"}

-----------------------------------------------------------------------------
\* Servers

\* A step of servers alone: nobody is born, and who listens is alive.
Calm == /\ UNCHANGED <<pidfile, cli>>
        /\ \A t \in Servers : (Alive(t)' => Alive(t)) /\ (bound'[t] => Alive(t)')

LEMMA CalmInv == ASSUME IInv, Sound', Calm PROVE IInv'
<1>1. \A c \in Clis, t \in Servers : Known(c, t)' = Known(c, t)
  BY DEF Calm, Known, Shell
<1>2. OneAlive'
  BY <1>1 DEF IInv, OneAlive, Calm
<1>3. NoFile'
  BY DEF IInv, NoFile, Calm, Shell
<1>. QED
  BY <1>2, <1>3 DEF IInv

\* A process that moves on within cmd_serve.
LEMMA MoveFacts ==
  ASSUME TypeOK, Listens, NEW s \in Servers, NEW place \in Stages, Alive(s), MoveTo(s, place)
  PROVE  /\ proc' \in [Servers -> {"unborn", "dead"} \union Stages]
         /\ \A t \in Servers : Alive(t)' = Alive(t)
BY DEF TypeOK, MoveTo, Alive, Stages

\* A process that ends.
LEMMA EndFacts ==
  ASSUME TypeOK, Listens, NEW s \in Servers, Ends(s), pidfile' \in Servers \union {"none", "torn"},
         cli' = cli
  PROVE  /\ TypeOK' /\ Listens' /\ ~Alive(s)'
         /\ \A t \in Servers : Alive(t)' => Alive(t)
<1>1. /\ proc' = [proc EXCEPT ![s] = "dead"]
      /\ accepting' = [accepting EXCEPT ![s] = FALSE] /\ bound' = [bound EXCEPT ![s] = FALSE]
      /\ stopper' = [stopper EXCEPT ![s] = [w \in Callers |-> "none"]]
      /\ UNCHANGED <<signalled, httpd, thread>>
  BY DEF Ends
<1>2. TypeOK'
  BY <1>1 DEF TypeOK
<1>3. /\ ~Alive(s)'
      /\ \A t \in Servers : Alive(t)' => Alive(t)
      /\ \A t \in Servers : t # s => Alive(t)' = Alive(t) /\ bound'[t] = bound[t]
      /\ ~bound'[s]
  BY <1>1 DEF TypeOK, Alive
<1>. QED
  BY <1>2, <1>3 DEF Listens

\* The steps of cmd_serve but for its two ways to end.
LEMMA ServeCalm ==
  ASSUME TypeOK, Listens, NEW s \in Servers,
         StartController(s) \/ Bind(s) \/ InstallHandlers(s) \/ LeaveLoop(s)
           \/ StopController(s) \/ ControllerStopped(s)
  PROVE  TypeOK' /\ Calm
<1>1. Alive(s)
  BY DEF StartController, Bind, InstallHandlers, LeaveLoop, StopController, ControllerStopped, Alive
<1>2. /\ UNCHANGED <<pidfile, signalled, cli>>
      /\ \E place \in Stages : MoveTo(s, place)
  BY DEF StartController, Bind, InstallHandlers, LeaveLoop, StopController, ControllerStopped, Stages
<1>3. /\ proc' \in [Servers -> {"unborn", "dead"} \union Stages]
      /\ \A t \in Servers : Alive(t)' = Alive(t)
  BY <1>1, <1>2, MoveFacts
<1>4. CASE StartController(s) \/ InstallHandlers(s) \/ StopController(s) \/ ControllerStopped(s)
  <2>1. UNCHANGED <<accepting, bound, httpd, thread, stopper>>
    BY <1>4 DEF StartController, InstallHandlers, StopController, ControllerStopped
  <2>. QED
    BY <1>2, <1>3, <2>1 DEF TypeOK, Calm, Listens, Stages
<1>5. CASE Bind(s)
  <2>1. /\ stopper' = stopper
        /\ bound' \in [Servers -> BOOLEAN] /\ accepting' \in [Servers -> BOOLEAN]
        /\ httpd' \in [Servers -> BOOLEAN] /\ thread' \in [Servers -> BOOLEAN]
        /\ \A t \in Servers : t # s => bound'[t] = bound[t]
    BY <1>5 DEF Bind, TypeOK
  <2>2. TypeOK'
    BY <1>2, <1>3, <2>1 DEF TypeOK, Stages
  <2>. QED
    BY <1>1, <1>2, <1>3, <2>1, <2>2 DEF Calm, Listens
<1>6. CASE LeaveLoop(s)
  <2>1. /\ stopper' = [stopper EXCEPT ![s]["main"] = "httpd?"]
        /\ UNCHANGED <<accepting, bound, httpd, thread>>
    BY <1>6 DEF LeaveLoop
  <2>2. TypeOK'
    BY <1>2, <1>3, <2>1 DEF TypeOK, Stages, Callers
  <2>. QED
    BY <1>2, <1>3, <2>1, <2>2 DEF Calm, Listens
<1>. QED
  BY <1>4, <1>5, <1>6

\* The two threads in HiveAPIServer.stop close the socket and nothing else.
LEMMA StopCalm ==
  ASSUME TypeOK, Listens, NEW s \in Servers, NEW w \in Callers, ApiStop(s, w)
  PROVE  TypeOK' /\ Calm
<1>1. /\ UNCHANGED <<pidfile, proc, signalled, cli>>
      /\ \E to \in Calls : stopper' = [stopper EXCEPT ![s][w] = to]
  BY DEF ApiStop, StopHttpd, Shutdown, ServerClose, Clear, StopThread, IsAlive, Join, ForgetThread,
     StopAt, Calls
<1>2. /\ accepting' \in [Servers -> BOOLEAN] /\ bound' \in [Servers -> BOOLEAN]
      /\ httpd' \in [Servers -> BOOLEAN] /\ thread' \in [Servers -> BOOLEAN]
      /\ \A t \in Servers : bound'[t] => bound[t]
  BY DEF TypeOK, ApiStop, StopHttpd, Shutdown, ServerClose, Clear, StopThread, IsAlive, Join, ForgetThread
<1>3. stopper' \in [Servers -> [Callers -> Calls]]
  BY <1>1 DEF TypeOK, Calls
<1>4. TypeOK'
  BY <1>1, <1>2, <1>3 DEF TypeOK, Calls
<1>. QED
  BY <1>1, <1>2, <1>4 DEF Calm, Listens, Alive

\* A signal ends a process, is remembered by it, or finds nobody.
LEMMA SigtermFacts ==
  ASSUME TypeOK, Listens, NEW s \in Servers, Sigterm(s), pidfile' = pidfile,
         cli' \in [Clis -> [at : Places, target : Servers \union {"none", "torn"}]]
  PROVE  /\ TypeOK' /\ Listens'
         /\ \A t \in Servers : Alive(t)' => Alive(t)
<1>1. CASE UNCHANGED <<proc, accepting, bound, httpd, thread, stopper>>
            /\ (signalled' = [signalled EXCEPT ![s] = TRUE] \/ signalled' = signalled)
  BY <1>1 DEF TypeOK, Listens, Alive, Places
<1>2. CASE Ends(s)
  <2>1. /\ proc' = [proc EXCEPT ![s] = "dead"]
        /\ accepting' = [accepting EXCEPT ![s] = FALSE] /\ bound' = [bound EXCEPT ![s] = FALSE]
        /\ stopper' = [stopper EXCEPT ![s] = [w \in Callers |-> "none"]]
        /\ UNCHANGED <<signalled, httpd, thread>>
    BY <1>2 DEF Ends
  <2>2. TypeOK'
    BY <2>1 DEF TypeOK, Places
  <2>3. /\ ~bound'[s] /\ \A t \in Servers : t # s => Alive(t)' = Alive(t) /\ bound'[t] = bound[t]
        /\ ~Alive(s)'
    BY <2>1 DEF TypeOK, Alive
  <2>. QED
    BY <2>2, <2>3 DEF Listens
<1>. QED
  BY <1>1, <1>2 DEF Sigterm, server

\* Every step of a server but the removal of the pid file.
LEMMA ServerCalm ==
  ASSUME Sound, NEW s \in Servers,
         \/ Main(s) /\ ~Unlink(s)
         \/ PostShutdown(s) \/ Terminate(s) \/ Kill(s)
         \/ \E w \in Callers : ApiStop(s, w)
  PROVE  Sound' /\ Calm
<1>0. TypeOK /\ Listens /\ pidfile \in Servers \union {"none", "torn"}
  BY DEF Sound, TypeOK
<1>1. ASSUME Ends(s), UNCHANGED <<pidfile, cli>> PROVE Sound' /\ Calm
  <2>1. TypeOK' /\ Listens' /\ \A t \in Servers : Alive(t)' => Alive(t)
    BY <1>0, <1>1, EndFacts
  <2>. QED
    BY <1>1, <2>1 DEF Sound, Calm, Listens
<1>a. TypeOK' /\ Calm => Sound' /\ Calm
  BY DEF Sound, Calm, Listens
<1>2. CASE Main(s) /\ ~Unlink(s)
  <2>1. CASE Traceback(s)
    BY <1>1, <2>1 DEF Traceback
  <2>. QED
    BY <1>0, <1>2, <1>a, <2>1, ServeCalm DEF Main
<1>3. CASE PostShutdown(s)
  <2>1. /\ stopper' = [stopper EXCEPT ![s]["request"] = "httpd?"]
        /\ UNCHANGED <<pidfile, proc, signalled, accepting, bound, httpd, thread, cli>>
    BY <1>3 DEF PostShutdown
  <2>2. TypeOK'
    BY <1>0, <2>1 DEF TypeOK, Callers
  <2>3. Calm
    BY <1>0, <2>1 DEF Calm, Listens, Alive
  <2>. QED
    BY <1>a, <2>2, <2>3
<1>4. CASE Terminate(s)
  <2>1. Sigterm(s) /\ UNCHANGED <<pidfile, cli>>
    BY <1>4 DEF Terminate
  <2>2. TypeOK' /\ Listens' /\ \A t \in Servers : Alive(t)' => Alive(t)
    BY <1>0, <2>1, SigtermFacts DEF TypeOK, Places
  <2>. QED
    BY <2>1, <2>2 DEF Sound, Calm, Listens
<1>5. CASE Kill(s)
  BY <1>1, <1>5 DEF Kill
<1>6. CASE \E w \in Callers : ApiStop(s, w)
  BY <1>0, <1>6, <1>a, StopCalm
<1>. QED
  BY <1>2, <1>3, <1>4, <1>5, <1>6

\* The process that removes the pid file was the only one.
LEMMA UnlinkInv ==
  ASSUME Sound, NEW s \in Servers, Unlink(s)
  PROVE  Sound' /\ (OneAlive /\ NoFile => OneAlive' /\ NoFile')
<1>1. Alive(s) /\ Ends(s) /\ pidfile' = "none" /\ cli' = cli
  BY DEF Unlink, Alive
<1>2. /\ TypeOK' /\ Listens' /\ ~Alive(s)'
      /\ \A t \in Servers : Alive(t)' => Alive(t)
  BY <1>1, EndFacts DEF Sound
<1>3. PICK c \in Clis : TRUE
  BY ServersAssumption
<1>4. ASSUME OneAlive, NEW t \in Servers, Alive(t) PROVE t = s
  <2>1. Known(c, t) /\ Known(c, s) => t = s
    BY DEF Known
  <2>. QED
    BY <1>1, <1>3, <1>4, <2>1 DEF OneAlive
<1>5. OneAlive => OneAlive'
  BY <1>2, <1>4 DEF OneAlive
<1>6. NoFile'
  BY <1>1 DEF NoFile
<1>. QED
  BY <1>2, <1>5, <1>6 DEF Sound

-----------------------------------------------------------------------------
\* Commands

Targets == Servers \union {"none", "torn"}

\* A command moves on, and may turn to another server.
LEMMA CliTypes ==
  ASSUME cli \in [Clis -> [at : Places, target : Targets]], NEW c \in Clis,
         NEW place \in Places, NEW t \in Targets,
         CliMoves(c, place) \/ cli' = [cli EXCEPT ![c] = [at |-> place, target |-> t]]
  PROVE  cli' \in [Clis -> [at : Places, target : Targets]]
BY DEF CliMoves

\* What a command does to the types, whoever gives it.
LEMMA CommandSound == ASSUME Sound, NEW c \in Clis, Command(c) PROVE Sound'
<1>0. TypeOK /\ Listens
  BY DEF Sound
<1>1. cli' \in [Clis -> [at : Places, target : Servers \union {"none", "torn"}]]
  <2>1. pidfile \in Targets /\ cli \in [Clis -> [at : Places, target : Targets]]
    BY <1>0 DEF TypeOK, Places, Targets
  <2>2. "none" \in Targets /\ \A s \in Servers : s \in Targets
    BY DEF Targets
  <2>3. \E place \in Places, t \in Targets :
          CliMoves(c, place) \/ cli' = [cli EXCEPT ![c] = [at |-> place, target |-> t]]
    <3>1. CASE Start(c) \/ Stop(c)
      <4>1. \E place \in {"spawn", "probe", "not running", "signal"} :
              cli' = [cli EXCEPT ![c] = [at |-> place, target |-> "none"]]
        BY <3>1 DEF Start, Stop, NoServer
      <4>. QED
        BY <2>2, <4>1 DEF Places, Prompt
    <3>2. CASE Spawn(c)
      <4>1. \E s \in Servers : cli' = [cli EXCEPT ![c] = [at |-> "create", target |-> s]]
        BY <3>2 DEF Spawn
      <4>. QED
        BY <2>2, <4>1 DEF Places
    <3>3. CASE Signal(c)
      <4>1. \E place \in {"error", "wait"} : cli' = [cli EXCEPT ![c] = [at |-> place, target |-> pidfile]]
        BY <3>3 DEF Signal
      <4>. QED
        BY <2>1, <4>1 DEF Places, Prompt
    <3>4. CASE Probe(c) \/ UnlinkStale(c) \/ CreatePidfile(c) \/ WritePid(c) \/ AnswerStop(c)
      <4>1. \E place \in {"error", "refused", "unlink", "spawn", "write", "started", "stopped",
                          "stop requested"} : CliMoves(c, place)
        BY <3>4 DEF Probe, UnlinkStale, CreatePidfile, WritePid, AnswerStop
      <4>. QED
        BY <2>2, <4>1 DEF Places, Prompt
    <3>. QED
      BY <3>1, <3>2, <3>3, <3>4 DEF Command
  <2>. QED
    BY <2>1, <2>3, CliTypes DEF Targets
<1>2. CASE Spawn(c)
  <2>1. PICK s \in Servers : proc[s] = "unborn" /\ proc' = [proc EXCEPT ![s] = "loading"]
    BY <1>2 DEF Spawn, MoveTo
  <2>2. UNCHANGED <<pidfile, signalled, accepting, bound, httpd, thread, stopper>>
    BY <1>2 DEF Spawn
  <2>3. TypeOK'
    BY <1>0, <1>1, <2>1, <2>2 DEF TypeOK, Places
  <2>4. Listens'
    BY <1>0, <2>1, <2>2 DEF TypeOK, Listens, Alive
  <2>. QED
    BY <2>3, <2>4 DEF Sound
<1>3. CASE Signal(c) /\ pidfile \in Servers
  <2>1. Sigterm(pidfile) /\ pidfile' = pidfile
    BY <1>3 DEF Signal
  <2>. QED
    BY <1>0, <1>1, <1>3, <2>1, SigtermFacts DEF Sound
<1>4. CASE ~Spawn(c) /\ ~(Signal(c) /\ pidfile \in Servers)
  <2>1. UNCHANGED server
    BY <1>4 DEF Command, Start, Probe, UnlinkStale, CreatePidfile, WritePid, Stop, Signal, AnswerStop
  <2>2. pidfile' \in Servers \union {"none", "torn"}
    BY <1>0, <1>4 DEF TypeOK, Command, Start, Probe, UnlinkStale, CreatePidfile, WritePid, Stop, Signal,
       AnswerStop
  <2>3. TypeOK'
    BY <1>0, <1>1, <2>1, <2>2 DEF TypeOK, server, Places
  <2>. QED
    BY <1>0, <2>1, <2>3 DEF Sound, server, Listens, Alive
<1>. QED
  BY <1>2, <1>3, <1>4

\* A command of the only shell.
LEMMA CommandInv ==
  ASSUME OneShell, IInv, NEW c \in Clis, Command(c)
  PROVE  OneAlive' /\ NoFile'
<1>0. TypeOK /\ Listens /\ OneAlive /\ NoFile /\ "none" \notin Servers /\ "torn" \notin Servers
  BY ServersAssumption DEF IInv, Sound
<1>1. \A d \in Clis : d = c
  BY DEF OneShell
<1> DEFINE here == cli[c].at
           next == cli'[c].at
           goal == /\ \A s \in Servers : Alive(s)' => Known(c, s)'
                   /\ next = "stopped" => pidfile' = "none"
<1>2. goal => OneAlive' /\ NoFile'
  BY <1>1 DEF OneAlive, NoFile, Shell
<1>3. \A s \in Servers : Alive(s) => Known(c, s)
  BY <1>0 DEF OneAlive
<1>a. cli \in [Clis -> [at : Places, target : Servers \union {"none", "torn"}]]
  BY <1>0 DEF TypeOK, Places
<1>4. CASE Start(c)
  <2>1. /\ here \in Prompt /\ UNCHANGED <<pidfile, proc>>
        /\ next = IF pidfile = "none" THEN "spawn" ELSE "probe"
    BY <1>4, <1>a DEF Start, server
  <2>2. \A s \in Servers : Alive(s) => pidfile = s
    BY <1>3, <2>1 DEF Known, Shell, Prompt
  <2>. QED
    BY <1>0, <1>2, <2>1, <2>2 DEF Known, Shell, Alive
<1>5. CASE Probe(c)
  <2>1. /\ here = "probe" /\ UNCHANGED <<pidfile, proc>>
        /\ next \in {"error", "refused", "unlink"}
        /\ next = "unlink" => ~(pidfile \in Servers /\ Alive(pidfile))
    BY <1>5, <1>a DEF Probe, CliMoves, server
  <2>2. \A s \in Servers : Alive(s) => pidfile = s
    BY <1>3, <2>1 DEF Known, Shell
  <2>. QED
    BY <1>0, <1>2, <2>1, <2>2 DEF Known, Shell, Alive
<1>6. CASE UnlinkStale(c)
  <2>1. here = "unlink" /\ proc' = proc /\ next \in {"error", "spawn"}
    BY <1>6, <1>a DEF UnlinkStale, CliMoves, server
  <2>2. \A s \in Servers : ~Alive(s)
    BY <1>3, <2>1 DEF Known, Shell
  <2>. QED
    BY <1>2, <2>1, <2>2 DEF Alive
<1>7. CASE Spawn(c)
  <2>1. PICK s \in Servers : /\ proc[s] = "unborn" /\ proc' = [proc EXCEPT ![s] = "loading"]
                             /\ cli' = [cli EXCEPT ![c] = [at |-> "create", target |-> s]]
    BY <1>7 DEF Spawn, MoveTo
  <2>2. here = "spawn" /\ next = "create" /\ cli'[c].target = s
    BY <1>7, <1>a, <2>1 DEF Spawn
  <2>3. \A t \in Servers : ~Alive(t)
    BY <1>3, <2>2 DEF Known, Shell
  <2>4. \A t \in Servers : Alive(t)' => t = s
    BY <1>0, <2>1, <2>3 DEF TypeOK, Alive
  <2>. QED
    BY <1>2, <2>2, <2>4 DEF Known, Shell
<1>8. CASE CreatePidfile(c)
  <2>1. /\ here = "create" /\ next = "write" /\ cli'[c].target = cli[c].target
        /\ pidfile' = "torn" /\ proc' = proc
    BY <1>8, <1>a DEF CreatePidfile, CliMoves, server
  <2>. QED
    BY <1>2, <1>3, <2>1 DEF Known, Shell, Alive
<1>9. CASE WritePid(c)
  <2>1. /\ here = "write" /\ next = "started" /\ proc' = proc
        /\ pidfile' = IF pidfile = "none" THEN "none" ELSE cli[c].target
    BY <1>9, <1>a DEF WritePid, CliMoves, server
  <2>. QED
    BY <1>2, <1>3, <2>1 DEF Known, Shell, Alive
<1>10. CASE Stop(c)
  <2>1. /\ here \in Prompt /\ UNCHANGED <<pidfile, proc>>
        /\ next \in {"not running", "signal"}
    BY <1>10, <1>a DEF Stop, server
  <2>2. \A s \in Servers : Alive(s) => pidfile = s
    BY <1>3, <2>1 DEF Known, Shell, Prompt
  <2>. QED
    BY <1>0, <1>2, <2>1, <2>2 DEF Known, Shell, Alive
<1>11. CASE Signal(c)
  <2>1. here = "signal" /\ next \in {"error", "wait"} /\ pidfile' = pidfile
    BY <1>11, <1>a DEF Signal
  <2>2. \A s \in Servers : Alive(s)' => Alive(s)
    <3>1. CASE pidfile \in Servers
      <4>1. Sound'
        BY CommandSound DEF IInv
      <4>2. cli' \in [Clis -> [at : Places, target : Servers \union {"none", "torn"}]]
        BY <4>1 DEF Sound, TypeOK, Places
      <4>. QED
        BY <1>0, <1>11, <2>1, <3>1, <4>2, SigtermFacts DEF Signal
    <3>2. CASE pidfile \notin Servers
      BY <1>11, <3>2 DEF Signal, server, Alive
    <3>. QED
      BY <3>1, <3>2
  <2>3. \A s \in Servers : Alive(s) => pidfile = s
    BY <1>3, <2>1 DEF Known, Shell
  <2>. QED
    BY <1>2, <2>1, <2>2, <2>3 DEF Known, Shell
<1>12. CASE AnswerStop(c)
  <2>1. /\ here = "wait" /\ UNCHANGED <<pidfile, proc>>
        /\ next = IF pidfile = "none" THEN "stopped" ELSE "stop requested"
    BY <1>12, <1>a DEF AnswerStop, CliMoves, server
  <2>. QED
    BY <1>2, <1>3, <2>1 DEF Known, Shell, Alive
<1>. QED
  BY <1>4, <1>5, <1>6, <1>7, <1>8, <1>9, <1>10, <1>11, <1>12 DEF Command

-----------------------------------------------------------------------------
\* The theorems

LEMMA SoundInit == Init => Sound
<1> SUFFICES ASSUME Init PROVE Sound
  OBVIOUS
<1>1. cli \in [Clis -> [at : Prompt \union {"probe", "unlink", "spawn", "create", "write", "signal", "wait"},
                        target : Servers \union {"none", "torn"}]]
  BY DEF Init, NoServer, Prompt
<1>2. TypeOK
  BY <1>1 DEF Init, TypeOK
<1>3. Listens
  BY DEF Init, Listens
<1>. QED
  BY <1>2, <1>3 DEF Sound

LEMMA Idle == ASSUME Sound, UNCHANGED vars PROVE Calm /\ Sound'
<1>1. UNCHANGED <<pidfile, proc, signalled, accepting, bound, httpd, thread, stopper, cli>>
  BY DEF vars, server
<1>2. TypeOK' /\ Listens'
  BY <1>1 DEF Sound, TypeOK, Listens, Alive
<1>. QED
  BY <1>1, <1>2 DEF Sound, Calm, Listens, Alive

LEMMA SoundStep == Sound /\ [Next]_vars => Sound'
BY ServerCalm, UnlinkInv, CommandSound, Idle DEF Next

\* Every variable keeps its type, however many shells give commands.
THEOREM TypeCorrect == Spec => []TypeOK
<1>1. Sound => TypeOK
  BY DEF Sound
<1>. QED
  BY <1>1, SoundInit, SoundStep, PTL DEF Spec

LEMMA Inductive == ASSUME OneShell PROVE Spec => []IInv
<1>1. Init => IInv
  <2>1. Init => OneAlive /\ NoFile
    BY DEF Init, OneAlive, NoFile, Alive, Shell
  <2>. QED
    BY <2>1, SoundInit DEF IInv
<1>2. IInv /\ [Next]_vars => IInv'
  <2> SUFFICES ASSUME IInv, [Next]_vars PROVE IInv'
    OBVIOUS
  <2>0. Sound /\ OneAlive /\ NoFile
    BY DEF IInv
  <2>1. Sound'
    BY <2>0, SoundStep
  <2>2. CASE Calm
    BY <2>1, <2>2, CalmInv
  <2>3. ASSUME NEW s \in Servers, Unlink(s) PROVE IInv'
    BY <2>0, <2>1, <2>3, UnlinkInv DEF IInv
  <2>4. ASSUME NEW c \in Clis, Command(c) PROVE IInv'
    BY <2>1, <2>4, CommandInv DEF IInv
  <2>. QED
    BY <2>0, <2>2, <2>3, <2>4, ServerCalm, Idle DEF Next
<1>. QED
  BY <1>1, <1>2, PTL DEF Spec

\* With start and stop given one at a time, no two of the servers that "start"
\* has brought up run a controller, and between two commands the pid file names
\* the one that does.
THEOREM RunningServerIsNamed == ASSUME OneShell PROVE Spec => []RunningIsNamed
<1>1. IInv => RunningIsNamed
  <2> SUFFICES ASSUME IInv PROVE RunningIsNamed
    OBVIOUS
  <2>1. PICK c \in Clis : TRUE
    BY ServersAssumption
  <2>2. \A s \in Servers : HiveRuns(s) => Known(c, s)
    BY <2>1 DEF IInv, OneAlive, HiveRuns, Alive
  <2>3. \A s, t \in Servers : Known(c, s) /\ Known(c, t) => s = t
    BY DEF Known
  <2>4. Shell(c) \in Prompt => \A s \in Servers : Known(c, s) => pidfile = s
    BY DEF Known, Prompt
  <2>. QED
    BY <2>1, <2>2, <2>3, <2>4 DEF RunningIsNamed, Shell
<1>. QED
  BY <1>1, Inductive, PTL

\* With commands given one at a time, the server that "stopped" is printed
\* about runs no controller and has closed its socket.
THEOREM StoppedServerIsDown == ASSUME OneShell PROVE Spec => []StoppedIsDown
<1>1. IInv => StoppedIsDown
  <2> SUFFICES ASSUME IInv, NEW c \in Clis, cli[c].at = "stopped", cli[c].target \in Servers
               PROVE  ~HiveRuns(cli[c].target) /\ ~bound[cli[c].target]
    BY DEF StoppedIsDown
  <2>1. pidfile = "none"
    BY DEF IInv, NoFile, Shell
  <2>2. \A s \in Servers : ~Known(c, s)
    BY <2>1, ServersAssumption DEF Known, Shell
  <2>3. ~Alive(cli[c].target)
    BY <2>2 DEF IInv, OneAlive
  <2>. QED
    BY <2>3 DEF IInv, Sound, Listens, HiveRuns, Alive
<1>. QED
  BY <1>1, Inductive, PTL
=============================================================================
