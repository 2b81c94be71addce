------------------------------ MODULE Lifecycle ------------------------------
(***************************************************************************)
(* The server process of freetalon/cli.py, its pid file, and the commands  *)
(* "freetalon start" and "freetalon stop", with the two ways to stop the   *)
(* HTTP server of api.py: cmd_serve's finally block and POST /shutdown,    *)
(* whose threads run the same HiveAPIServer.stop at the same time.         *)
(*                                                                         *)
(* Signals arrive at any time from outside as well, the port may be taken, *)
(* and a process may be killed.  There is one workspace, so one pid file,  *)
(* and every server is born by "start".  Left out: the tasks (see Hive),   *)
(* "serve" given as a command, which writes no pid file, workspaces that   *)
(* share the default state path, the reuse of process ids, and commands    *)
(* that die themselves.                                                    *)
(***************************************************************************)
EXTENDS Integers, FiniteSets

CONSTANTS Servers,   \* process ids of server processes
          Clis       \* shells that run start and stop, each one command at a time

ASSUME ServersAssumption ==
  Servers # {} /\ Clis # {} /\ "none" \notin Servers /\ "torn" \notin Servers

VARIABLES pidfile,   \* "none", "torn" (created and still empty) or a server
          proc,      \* where cmd_serve of each server is
          signalled, \* the stop flag of its signal handler
          accepting, \* serve_forever is running
          bound,     \* the listening socket is open
          httpd, thread, \* HiveAPIServer._httpd and ._thread are not None
          stopper,   \* calls of HiveAPIServer.stop: the main thread's and POST /shutdown's
          cli        \* the command each shell runs, and the server it is about

server == <<proc, signalled, accepting, bound, httpd, thread, stopper>>
vars   == <<pidfile, server, cli>>

Callers == {"main", "request"}
NoServer == "none"

Init ==
  /\ pidfile = "none"
  /\ proc = [s \in Servers |-> "unborn"]
  /\ signalled = [s \in Servers |-> FALSE] /\ accepting = [s \in Servers |-> FALSE]
  /\ bound = [s \in Servers |-> FALSE]
  /\ httpd = [s \in Servers |-> FALSE] /\ thread = [s \in Servers |-> FALSE]
  /\ stopper = [s \in Servers |-> [w \in Callers |-> "none"]]
  /\ cli = [c \in Clis |-> [at |-> "idle", target |-> NoServer]]

Alive(s) == proc[s] \notin {"unborn", "dead"}

\* From controller.start() until controller.stop() returns or the process ends.
HiveRuns(s) == proc[s] \in {"started", "listening", "serving", "closing", "draining", "unbound"}

\* The default action of SIGTERM, and what remains of a process that ended.
Ends(s) ==
  /\ proc' = [proc EXCEPT ![s] = "dead"]
  /\ accepting' = [accepting EXCEPT ![s] = FALSE] /\ bound' = [bound EXCEPT ![s] = FALSE]
  /\ stopper' = [stopper EXCEPT ![s] = [w \in Callers |-> "none"]]
  /\ UNCHANGED <<signalled, httpd, thread>>

MoveTo(s, place) == proc' = [proc EXCEPT ![s] = place]

-----------------------------------------------------------------------------
\* cmd_serve

StartController(s) ==
  /\ proc[s] = "loading" /\ MoveTo(s, "started")
  /\ UNCHANGED <<pidfile, signalled, accepting, bound, httpd, thread, stopper, cli>>

\* server.start comes second: when the port is taken, the exception leaves a
\* controller behind that runs until the interpreter has ended.
Bind(s) ==
  /\ proc[s] = "started"
  /\ \/ /\ \A other \in Servers : ~bound[other]
        /\ MoveTo(s, "listening")
        /\ bound' = [bound EXCEPT ![s] = TRUE] /\ accepting' = [accepting EXCEPT ![s] = TRUE]
        /\ httpd' = [httpd EXCEPT ![s] = TRUE] /\ thread' = [thread EXCEPT ![s] = TRUE]
     \/ MoveTo(s, "unbound") /\ UNCHANGED <<accepting, bound, httpd, thread>>
  /\ UNCHANGED <<pidfile, signalled, stopper, cli>>

InstallHandlers(s) ==
  /\ proc[s] = "listening" /\ MoveTo(s, "serving")
  /\ UNCHANGED <<pidfile, signalled, accepting, bound, httpd, thread, stopper, cli>>

LeaveLoop(s) ==
  /\ proc[s] = "serving" /\ signalled[s]
  /\ MoveTo(s, "closing") /\ stopper' = [stopper EXCEPT ![s]["main"] = "httpd?"]
  /\ UNCHANGED <<pidfile, signalled, accepting, bound, httpd, thread, cli>>

\* POST /shutdown answers, then stops the HTTP server in a thread of its own.
\* Nothing tells the main loop: the process and its controller go on.
PostShutdown(s) ==
  /\ accepting[s] /\ stopper[s]["request"] = "none"
  /\ stopper' = [stopper EXCEPT ![s]["request"] = "httpd?"]
  /\ UNCHANGED <<pidfile, proc, signalled, accepting, bound, httpd, thread, cli>>

StopController(s) ==
  /\ proc[s] = "closing" /\ stopper[s]["main"] = "done" /\ MoveTo(s, "draining")
  /\ UNCHANGED <<pidfile, signalled, accepting, bound, httpd, thread, stopper, cli>>

ControllerStopped(s) ==
  /\ proc[s] = "draining" /\ MoveTo(s, "unlinking")
  /\ UNCHANGED <<pidfile, signalled, accepting, bound, httpd, thread, stopper, cli>>

\* The pid file is removed whoever it names.
Unlink(s) ==
  /\ proc[s] = "unlinking" /\ Ends(s)
  /\ pidfile' = "none" /\ UNCHANGED cli

\* An exception out of server.start, or out of server.stop in the finally
\* block: controller.stop and the removal of the pid file are skipped.
Traceback(s) ==
  /\ \/ proc[s] = "unbound"
     \/ proc[s] = "closing" /\ stopper[s]["main"] = "raised"
  /\ Ends(s) /\ UNCHANGED <<pidfile, cli>>

-----------------------------------------------------------------------------
\* HiveAPIServer.stop, which two threads may run at once

StopAt(s, w, from, to) ==
  /\ Alive(s) /\ stopper[s][w] = from
  /\ stopper' = [stopper EXCEPT ![s][w] = to]
  /\ UNCHANGED <<pidfile, proc, signalled, cli>>

StopHttpd(s, w) ==
  /\ StopAt(s, w, "httpd?", IF httpd[s] THEN "shutdown" ELSE "thread?")
  /\ UNCHANGED <<accepting, bound, httpd, thread>>

Shutdown_Bug(s, w) ==
  /\ accepting[s]
  /\ StopAt(s, w, "shutdown", IF httpd[s] THEN "close" ELSE "raised")
  /\ accepting' = [accepting EXCEPT ![s] = @ /\ ~httpd[s]]
  /\ UNCHANGED <<bound, httpd, thread>>

\* self._httpd is read again for each call; None has no attribute "shutdown".
Shutdown(s, w) ==
  /\ StopAt(s, w, "shutdown", IF httpd[s] THEN "close" ELSE "raised")
  /\ accepting' = [accepting EXCEPT ![s] = @ /\ ~httpd[s]]
  /\ UNCHANGED <<bound, httpd, thread>>

ServerClose(s, w) ==
  /\ StopAt(s, w, "close", IF httpd[s] THEN "clear" ELSE "raised")
  /\ bound' = [bound EXCEPT ![s] = @ /\ ~httpd[s]]
  /\ UNCHANGED <<accepting, httpd, thread>>

Clear(s, w) ==
  /\ StopAt(s, w, "clear", "thread?")
  /\ httpd' = [httpd EXCEPT ![s] = FALSE] /\ UNCHANGED <<accepting, bound, thread>>

StopThread(s, w) ==
  /\ StopAt(s, w, "thread?", IF thread[s] THEN "alive?" ELSE "forget")
  /\ UNCHANGED <<accepting, bound, httpd, thread>>

IsAlive(s, w) ==
  /\ \E next \in IF thread[s] THEN {"join", "forget"} ELSE {"raised"} : StopAt(s, w, "alive?", next)
  /\ UNCHANGED <<accepting, bound, httpd, thread>>

Join(s, w) ==
  /\ StopAt(s, w, "join", IF thread[s] THEN "forget" ELSE "raised")
  /\ UNCHANGED <<accepting, bound, httpd, thread>>

ForgetThread(s, w) ==
  /\ StopAt(s, w, "forget", "done")
  /\ thread' = [thread EXCEPT ![s] = FALSE] /\ UNCHANGED <<accepting, bound, httpd>>

ApiStop(s, w) == StopHttpd(s, w) \/ Shutdown(s, w) \/ ServerClose(s, w) \/ Clear(s, w)
                 \/ StopThread(s, w) \/ IsAlive(s, w) \/ Join(s, w) \/ ForgetThread(s, w)

-----------------------------------------------------------------------------
\* Signals and deaths

Handled(s) == proc[s] \in {"serving", "closing", "draining", "unlinking"}

\* Before the handlers are installed SIGTERM ends the process there and then.
Sigterm(s) ==
  \/ /\ Handled(s) /\ signalled' = [signalled EXCEPT ![s] = TRUE]
     /\ UNCHANGED <<proc, accepting, bound, httpd, thread, stopper>>
  \/ Alive(s) /\ ~Handled(s) /\ Ends(s)
  \/ ~Alive(s) /\ UNCHANGED server

Terminate(s) == Alive(s) /\ Sigterm(s) /\ UNCHANGED <<pidfile, cli>>
Kill(s)      == Alive(s) /\ Ends(s) /\ UNCHANGED <<pidfile, cli>>

-----------------------------------------------------------------------------
\* cmd_start and cmd_stop

Prompt == {"idle", "started", "refused", "error", "stopped", "stop requested", "not running"}

CliMoves(c, place) == cli' = [cli EXCEPT ![c].at = place]

Start(c) ==
  /\ cli[c].at \in Prompt /\ \E s \in Servers : proc[s] = "unborn"   \* a bound on the model
  /\ cli' = [cli EXCEPT ![c] = [at |-> IF pidfile = "none" THEN "spawn" ELSE "probe", target |-> NoServer]]
  /\ UNCHANGED <<pidfile, server>>

\* int("") raises ValueError, which cmd_start does not catch; a file that has
\* vanished, like a process that has, is an OSError.
Probe_Bug(c) ==
  /\ cli[c].at = "probe"
  /\ CliMoves(c, IF pidfile = "torn" THEN "error" ELSE "unlink")
  /\ UNCHANGED <<pidfile, server>>

Probe(c) ==
  /\ cli[c].at = "probe"
  /\ CliMoves(c, CASE pidfile = "torn" -> "error"
                   [] pidfile \in Servers /\ Alive(pidfile) -> "refused"
                   [] OTHER -> "unlink")
  /\ UNCHANGED <<pidfile, server>>

UnlinkStale(c) ==
  /\ cli[c].at = "unlink"
  /\ CliMoves(c, IF pidfile = "none" THEN "error" ELSE "spawn")
  /\ pidfile' = "none" /\ UNCHANGED server

Spawn(c) ==
  /\ cli[c].at = "spawn"
  /\ \E s \in Servers : /\ proc[s] = "unborn" /\ MoveTo(s, "loading")
                        /\ cli' = [cli EXCEPT ![c] = [at |-> "create", target |-> s]]
  /\ UNCHANGED <<pidfile, signalled, accepting, bound, httpd, thread, stopper>>

CreatePidfile(c) ==
  /\ cli[c].at = "create" /\ CliMoves(c, "write")
  /\ pidfile' = "torn" /\ UNCHANGED server

\* A file unlinked meanwhile takes what is written with it.
WritePid(c) ==
  /\ cli[c].at = "write" /\ CliMoves(c, "started")
  /\ pidfile' = IF pidfile = "none" THEN "none" ELSE cli[c].target
  /\ UNCHANGED server

Stop(c) ==
  /\ cli[c].at \in Prompt
  /\ cli' = [cli EXCEPT ![c] = [at |-> IF pidfile = "none" THEN "not running" ELSE "signal",
                                target |-> NoServer]]
  /\ UNCHANGED <<pidfile, server>>

Signal(c) ==
  /\ cli[c].at = "signal"
  /\ IF pidfile \in Servers THEN Sigterm(pidfile) ELSE UNCHANGED server
  /\ cli' = [cli EXCEPT ![c] = [at |-> IF pidfile = "torn" THEN "error" ELSE "wait",
                                target |-> pidfile]]
  /\ UNCHANGED pidfile

AnswerStop_Bug(c) ==
  /\ cli[c].at = "wait" /\ CliMoves(c, "stopped")
  /\ UNCHANGED <<pidfile, server>>

\* It looks for the file to go for three seconds.
AnswerStop(c) ==
  /\ cli[c].at = "wait"
  /\ CliMoves(c, IF pidfile = "none" THEN "stopped" ELSE "stop requested")
  /\ UNCHANGED <<pidfile, server>>

Command(c) == Start(c) \/ Probe(c) \/ UnlinkStale(c) \/ Spawn(c) \/ CreatePidfile(c)
              \/ WritePid(c) \/ Stop(c) \/ Signal(c) \/ AnswerStop(c)

-----------------------------------------------------------------------------

Main(s) == StartController(s) \/ Bind(s) \/ InstallHandlers(s) \/ LeaveLoop(s)
           \/ StopController(s) \/ ControllerStopped(s) \/ Unlink(s) \/ Traceback(s)

Next == \/ \E s \in Servers : Main(s) \/ PostShutdown(s) \/ Terminate(s) \/ Kill(s)
        \/ \E s \in Servers, w \in Callers : ApiStop(s, w)
        \/ \E c \in Clis : Command(c)

Spec == Init /\ [][Next]_vars

\* The threads of a process are scheduled, the loop of cmd_serve looks at its
\* flag again, and controller.stop returns (StopReturns of HiveProperties).
FairSpec ==
  /\ Spec
  /\ \A s \in Servers : WF_vars(Main(s)) /\ \A w \in Callers : WF_vars(ApiStop(s, w))

-----------------------------------------------------------------------------
\* Properties

\* Type invariant.
TypeOK ==
  /\ pidfile \in Servers \union {"none", "torn"}
  /\ proc \in [Servers -> {"unborn", "loading", "started", "listening", "serving", "closing",
                           "draining", "unlinking", "unbound", "dead"}]
  /\ signalled \in [Servers -> BOOLEAN] /\ accepting \in [Servers -> BOOLEAN]
  /\ bound \in [Servers -> BOOLEAN] /\ httpd \in [Servers -> BOOLEAN] /\ thread \in [Servers -> BOOLEAN]
  /\ stopper \in [Servers -> [Callers -> {"none", "httpd?", "shutdown", "close", "clear", "thread?",
                                          "alive?", "join", "forget", "done", "raised"}]]
  /\ cli \in [Clis -> [at : Prompt \union {"probe", "unlink", "spawn", "create", "write", "signal", "wait"},
                       target : Servers \union {"none", "torn"}]]

\* As long as commands are given one at a time, a controller that "start" has
\* brought up in the workspace is the only one of its kind, and once the command
\* that started it is over the pid file leads to it: stop can reach it.
RunningIsNamed ==
  /\ \A s, t \in Servers : HiveRuns(s) /\ HiveRuns(t) => s = t
  /\ (\A c \in Clis : cli[c].at \in Prompt) => \A s \in Servers : HiveRuns(s) => pidfile = s

\* "stopped" is the truth: the server stop has signalled no longer runs its
\* controller, nor listens.
StoppedIsDown ==
  \A c \in Clis : cli[c].at = "stopped" /\ cli[c].target \in Servers =>
    ~HiveRuns(cli[c].target) /\ ~bound[cli[c].target]

\* A server that was told to stop ends, even when POST /shutdown is stopping
\* its HTTP server at the same time and one of the two trips over the other.
SignalledEnds == \A s \in Servers : signalled[s] ~> proc[s] = "dead"
=============================================================================
