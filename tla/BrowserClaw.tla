----------------------------- MODULE BrowserClaw -----------------------------
(***************************************************************************)
(* One browser claw: the command server of src/claw_browser.py (HTTP       *)
(* handler threads, the command bus, the Playwright loop on the main       *)
(* thread, the exit of the process) and its callers in the orchestrator    *)
(* (send_browser_command of src/orchestrator.py).                          *)
(*                                                                         *)
(* Every call is a request of its own.  A command is reduced to what the   *)
(* loop tells apart: "bounded", which returns or raises within a time that *)
(* the code fixes (navigate, click and type with their timeouts, screenshot *)
(* with Playwright's own, get_url, list_screenshots), "unbounded", for     *)
(* which the code fixes none (evaluate, scroll and get_text wait for the   *)
(* page's scripts, wait_for_selector for as long as its caller asked, 0    *)
(* being for ever), an unknown name, a name that cannot be looked up in    *)
(* the handler table (a JSON list), and close.                             *)
(***************************************************************************)
EXTENDS Naturals, Sequences, FiniteSets

CONSTANT MaxRequests   \* calls of send_browser_command (a bound on the model)

ASSUME BrowserAssumption == MaxRequests \in Nat \ {0}

\* Requests are numbered in the order in which their callers send them.
Requests == 1 .. MaxRequests
Nobody   == 0

Commands == {"bounded", "unbounded", "unknown", "unhashable", "close"}

NoAnswer == [of |-> Nobody, result |-> "none"]
Answers  == [of : Requests, result : {"ok", "error", "closed", "timeout"}]

VARIABLES cmd,      \* the command of each request
          client,   \* the caller of each request
          handler,  \* the HTTP thread that serves each request
          slot,     \* result_q of each request, room for one answer
          got,      \* what each caller was answered
          bus,      \* _cmd_bus
          loop,     \* the main thread: phase, current request, its answer
          executed  \* history: the requests run against the page

vars == <<cmd, client, handler, slot, got, bus, loop, executed>>

Idle == [at |-> "poll", req |-> Nobody, answer |-> NoAnswer]

Init ==
  /\ cmd = [r \in Requests |-> "none"]
  /\ client = [r \in Requests |-> "idle"] /\ handler = [r \in Requests |-> "none"]
  /\ slot = [r \in Requests |-> NoAnswer] /\ got = [r \in Requests |-> NoAnswer]
  /\ bus = <<>> /\ loop = Idle
  /\ executed = {}

Up == loop.at # "exited"

\* The result queue a handler waits on and the loop answers to.
SlotOf_Bug(r) == CHOOSE q \in Requests : TRUE
SlotOf(r)     == r

-----------------------------------------------------------------------------
\* The caller: send_browser_command

\* The claw is looked up first; a claw that is gone, or cannot be reached,
\* raises.
Send(r, command) ==
  /\ client[r] = "idle" /\ \A q \in Requests : q < r => client[q] # "idle"
  /\ cmd' = [cmd EXCEPT ![r] = command]
  /\ client' = [client EXCEPT ![r] = IF Up THEN "waiting" ELSE "refused"]
  /\ UNCHANGED <<handler, slot, got, bus, loop, executed>>

\* urlopen's timeout.
GiveUp(r) ==
  /\ client[r] = "waiting"
  /\ client' = [client EXCEPT ![r] = "gave up"]
  /\ UNCHANGED <<cmd, handler, slot, got, bus, loop, executed>>

-----------------------------------------------------------------------------
\* The HTTP thread of a request: do_POST

\* A request that was sent is served though its caller may have given up; the
\* server accepts requests until the main thread shuts it down.
Enqueue(r) ==
  /\ Up /\ client[r] \in {"waiting", "gave up"} /\ handler[r] = "none"
  /\ handler' = [handler EXCEPT ![r] = "waiting"]
  /\ bus' = Append(bus, r)
  /\ UNCHANGED <<cmd, client, slot, got, loop, executed>>

\* The response reaches a caller that still waits for it.
Respond(r, answer) ==
  /\ handler' = [handler EXCEPT ![r] = "over"]
  /\ IF client[r] = "waiting"
       THEN client' = [client EXCEPT ![r] = "answered"] /\ got' = [got EXCEPT ![r] = answer]
       ELSE UNCHANGED <<client, got>>
  /\ UNCHANGED <<cmd, bus, loop, executed>>

SendResult(r) ==
  /\ Up /\ handler[r] = "waiting" /\ slot[SlotOf(r)] # NoAnswer
  /\ slot' = [slot EXCEPT ![SlotOf(r)] = NoAnswer]
  /\ Respond(r, slot[SlotOf(r)])

\* result_q.get(timeout=65): the command stays on the bus.
SendTimeout_Bug(r) == FALSE /\ UNCHANGED vars
SendTimeout(r) ==
  /\ Up /\ handler[r] = "waiting" /\ slot[SlotOf(r)] = NoAnswer
  /\ Respond(r, [of |-> r, result |-> "timeout"])
  /\ UNCHANGED slot

-----------------------------------------------------------------------------
\* The main thread: _playwright_loop and run

Reply(r, result) == [at |-> "put", req |-> r, answer |-> [of |-> r, result |-> result]]

\* What the loop does with a command it has taken from the bus.
Taken(r) ==
  CASE cmd[r] = "close"      -> Reply(r, "closed")
    [] cmd[r] = "unknown"    -> Reply(r, "error")
    [] cmd[r] = "unhashable" -> [Idle EXCEPT !.at = "closing"]
    [] OTHER                 -> [Idle EXCEPT !.at = "run", !.req = r]

Take ==
  /\ loop.at = "poll" /\ bus # <<>>
  /\ loop' = Taken(Head(bus))
  /\ bus' = Tail(bus)
  /\ UNCHANGED <<cmd, client, handler, slot, got, executed>>

\* A handler returns, reports a bad argument, or raises, which is an error answer.
CommandEnds ==
  /\ loop.at = "run"
  /\ \E result \in {"ok", "error"} : loop' = Reply(loop.req, result)
  /\ executed' = executed \union {loop.req}
  /\ UNCHANGED <<cmd, client, handler, slot, got, bus>>

\* result_q.put: waits while the slot is full.  close ends the loop.
AfterPut_Bug(r) == Idle
AfterPut(r) == IF cmd[r] = "close" THEN [Idle EXCEPT !.at = "closing"] ELSE Idle

PutResult ==
  /\ loop.at = "put" /\ slot[SlotOf(loop.req)] = NoAnswer
  /\ slot' = [slot EXCEPT ![SlotOf(loop.req)] = loop.answer]
  /\ loop' = AfterPut(loop.req)
  /\ UNCHANGED <<cmd, client, handler, got, bus, executed>>

\* The process ends with the HTTP threads wherever they are; connections are
\* reset, which raises in the callers that still wait.
Exit ==
  /\ loop' = [Idle EXCEPT !.at = "exited"]
  /\ handler' = [r \in Requests |-> IF handler[r] = "waiting" THEN "over" ELSE handler[r]]
  /\ client' = [r \in Requests |-> IF client[r] = "waiting" THEN "gave up" ELSE client[r]]
  /\ UNCHANGED <<cmd, slot, got, bus, executed>>

Shutdown == loop.at = "closing" /\ Exit
Killed   == Up /\ Exit     \* the kill switch, or the daemon

-----------------------------------------------------------------------------

Server(r) == Enqueue(r) \/ SendResult(r) \/ SendTimeout(r)
Loop      == Take \/ CommandEnds \/ PutResult \/ Shutdown

Next ==
  \/ \E r \in Requests : (\E c \in Commands : Send(r, c)) \/ GiveUp(r) \/ Server(r)
  \/ Loop
  \/ Killed

Spec == Init /\ [][Next]_vars

\* Every thread is scheduled and every timeout the code sets elapses; an unbounded
\* command may run for ever, and nobody has to press the kill switch.
BoundedEnds == loop.at = "run" /\ cmd[loop.req] = "bounded" /\ CommandEnds
Fairness ==
  /\ WF_vars(Take) /\ WF_vars(BoundedEnds) /\ WF_vars(PutResult) /\ WF_vars(Shutdown)
  /\ \A r \in Requests : WF_vars(Server(r)) /\ WF_vars(GiveUp(r))
FairSpec == Spec /\ Fairness

-----------------------------------------------------------------------------
\* Properties

\* Type invariant.
TypeOK ==
  /\ cmd \in [Requests -> Commands \union {"none"}]
  /\ client \in [Requests -> {"idle", "refused", "waiting", "gave up", "answered"}]
  /\ handler \in [Requests -> {"none", "waiting", "over"}]
  /\ slot \in [Requests -> Answers \union {NoAnswer}]
  /\ got \in [Requests -> Answers \union {NoAnswer}]
  /\ bus \in Seq(Requests)
  /\ loop \in [at : {"poll", "run", "put", "closing", "exited"},
               req : Requests \union {Nobody}, answer : Answers \union {NoAnswer}]
  /\ executed \subseteq Requests

\* A caller is only ever answered about its own command, also after commands
\* whose callers gave up have left answers behind, and an "ok" means that the
\* command has run against the page.
AnswerIsOwn ==
  \A r \in Requests : client[r] = "answered" =>
    got[r].of = r /\ (got[r].result = "ok" => r \in executed)

\* No HTTP thread waits for ever, not even behind a command that never ends.
HandlersReturn == \A r \in Requests : handler[r] = "waiting" ~> handler[r] # "waiting"

\* A close on the bus ends the claw, unless a command ahead of it that nothing in
\* the code bounds keeps the page.
Hung == loop.at = "run" /\ cmd[loop.req] = "unbounded"
CloseEndsClaw ==
  \A r \in Requests : (cmd[r] = "close" /\ handler[r] = "waiting") ~> (~Up \/ Hung)
=============================================================================
