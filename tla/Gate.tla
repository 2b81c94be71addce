-------------------------------- MODULE Gate ---------------------------------
(***************************************************************************)
(* The approval gate of freetalon/orchestrator/claws/network.py: payloads  *)
(* are sanitized, rendered as plans, reviewed by an operator, and pushed   *)
(* to devices by calls of network_claw_handler that run concurrently, may  *)
(* fail at every step, and may die with the process at every step.         *)
(*                                                                         *)
(* A host, a device type and a config line are reduced to what the         *)
(* sanitizer tells apart; a plan id is a digest, so it stands for the      *)
(* content it was computed from.  Approvals are only made from plans an    *)
(* operator has confirmed: that much the code asks of its callers.         *)
(***************************************************************************)
EXTENDS Integers, Sequences, FiniteSets

CONSTANTS Payloads,   \* raw JSON payloads
          Calls,      \* calls of network_claw_handler
          MaxLines,   \* MAX_CONFIG_LINES
          MaxFaults   \* failing writes of the audit log (a bound on the model)

PayloadType == [host : {"h1", "h2", "malformed"},
                device_type : {"cisco_ios", "CISCO_IOS", "other"},
                port : Int, lines : Seq({"l1", "l2", "long", "odd"})]

ASSUME GateAssumption ==
  /\ Payloads \subseteq PayloadType
  /\ MaxLines \in Nat \ {0} /\ MaxFaults \in Nat

Hosts     == {"h1", "h2"}
NotAPort  == -1      \* int(raw_port) raises

-----------------------------------------------------------------------------
\* sanitize_network_config

Lower(type) == IF type = "CISCO_IOS" THEN "cisco_ios" ELSE type
PortOk(p)   == p >= 1 /\ p <= 65535
LinesOk(ls) == Len(ls) \in 1 .. MaxLines /\ \A i \in DOMAIN ls : ls[i] \notin {"long", "odd"}

Sanitizes(p) ==
  p.host \in Hosts /\ Lower(p.device_type) = "cisco_ios" /\ PortOk(p.port) /\ LinesOk(p.lines)
Clean(p) == [p EXCEPT !.device_type = Lower(@)]

Configs == {Clean(p) : p \in {q \in Payloads : Sanitizes(q)}}

\* ConfigPlan.__post_init__: the digest covers every field of the plan.
PlanId_Bug(c) == [c EXCEPT !.lines = SubSeq(@, 1, 1)]
PlanId(c)     == c

-----------------------------------------------------------------------------

VARIABLES call,      \* calls of the handler: phase, configuration, approval
          audit,     \* the audit log: entries and the call each is about
          device,    \* lines each device has taken, with the call that sent them
          rendered,  \* configurations rendered for review
          confirmed, \* configurations the operator has confirmed
          faults,    \* failing writes so far
          mute       \* calls whose audit write failed

vars == <<call, audit, device, rendered, confirmed, faults, mute>>

\* NoConfig also serves as an approval that belongs to no plan.
NoConfig == [host |-> "malformed", device_type |-> "other", port |-> NotAPort, lines |-> <<>>]

Init ==
  /\ call = [i \in Calls |-> [at |-> "idle", config |-> NoConfig, approval |-> NoConfig, sent |-> 0]]
  /\ audit = {} /\ device = [h \in Hosts |-> <<>>]
  /\ rendered = {} /\ confirmed = {}
  /\ faults = 0 /\ mute = {}

At(i, place) == call[i].at = place
Goto(i, place) == call' = [call EXCEPT ![i].at = place]

\* AuditLogger.log either appends the entry or raises, which ends the call.
Log(i, entry, next) ==
  \/ /\ audit' = audit \union {<<entry, i>>} /\ Goto(i, next)
     /\ UNCHANGED <<faults, mute>>
  \/ /\ faults < MaxFaults /\ faults' = faults + 1 /\ mute' = mute \union {i}
     /\ Goto(i, "raised") /\ audit' = audit

-----------------------------------------------------------------------------
\* The review, out of band: render_plan, then the operator's decision

\* Its own audit entry is left out: no property is about it.
RenderForReview(p) ==
  /\ Sanitizes(p)
  /\ rendered' = rendered \union {Clean(p)}
  /\ UNCHANGED <<call, audit, device, confirmed, faults, mute>>

Confirm(c) ==
  /\ c \in rendered \ confirmed
  /\ confirmed' = confirmed \union {c}
  /\ UNCHANGED <<call, audit, device, rendered, faults, mute>>

Approvals == {PlanId(c) : c \in confirmed} \union {NoConfig}

-----------------------------------------------------------------------------
\* network_claw_handler

\* A payload the sanitizer refuses raises before anything is logged.
Begin(i, p, a) ==
  /\ At(i, "idle")
  /\ call' = [call EXCEPT ![i] =
       IF Sanitizes(p) THEN [at |-> "render", config |-> Clean(p), approval |-> a, sent |-> 0]
                       ELSE [@ EXCEPT !.at = "raised"]]
  /\ UNCHANGED <<audit, device, rendered, confirmed, faults, mute>>

Render(i) ==
  /\ At(i, "render") /\ Log(i, "rendered", "gate")
  /\ UNCHANGED <<device, rendered, confirmed>>

Approved(i) == call[i].approval = PlanId(call[i].config)

Decide_Bug(i) ==
  /\ At(i, "gate")
  /\ IF Approved(i) THEN Goto(i, "import") /\ UNCHANGED <<audit, faults, mute>>
                    ELSE Log(i, "denied", "raised")
  /\ UNCHANGED <<device, rendered, confirmed>>

Decide(i) ==
  /\ At(i, "gate")
  /\ \/ Approved(i)  /\ Log(i, "approved", "import")
     \/ ~Approved(i) /\ Log(i, "denied", "raised")
  /\ UNCHANGED <<device, rendered, confirmed>>

\* Netmiko may not be installed.
Import(i) ==
  /\ At(i, "import")
  /\ \E next \in {"connect", "raised"} : Goto(i, next)
  /\ UNCHANGED <<audit, device, rendered, confirmed, faults, mute>>

Connect(i) ==
  /\ At(i, "connect")
  /\ \E next \in {"push", "failed"} : Goto(i, next)
  /\ UNCHANGED <<audit, device, rendered, confirmed, faults, mute>>

\* send_config_set sends the lines one by one; two calls may share a device.
SendLine(i) ==
  LET c == call[i].config  n == call[i].sent + 1 IN
  /\ At(i, "push") /\ n <= Len(c.lines)
  /\ device' = [device EXCEPT ![c.host] = Append(@, [call |-> i, line |-> c.lines[n]])]
  /\ call' = [call EXCEPT ![i].sent = n]
  /\ UNCHANGED <<audit, rendered, confirmed, faults, mute>>

PushEnds(i) ==
  /\ At(i, "push") /\ call[i].sent = Len(call[i].config.lines)
  /\ Goto(i, "sent")
  /\ UNCHANGED <<audit, device, rendered, confirmed, faults, mute>>

PushFails_Bug(i) ==
  /\ At(i, "push") /\ Goto(i, "raised")
  /\ UNCHANGED <<audit, device, rendered, confirmed, faults, mute>>

\* The session may fail at any point, with some of the lines sent.
PushFails(i) ==
  /\ At(i, "push") /\ Goto(i, "failed")
  /\ UNCHANGED <<audit, device, rendered, confirmed, faults, mute>>

Conclude(i) ==
  /\ \/ At(i, "sent")   /\ Log(i, "executed", "returned")
     \/ At(i, "failed") /\ Log(i, "connection_error", "raised")
  /\ UNCHANGED <<device, rendered, confirmed>>

Ended == {"idle", "returned", "raised", "dead"}

\* The process dies; the audit log and the devices keep what they have.
Crash ==
  /\ \E i \in Calls : call[i].at \notin Ended
  /\ call' = [i \in Calls |-> IF call[i].at \in Ended THEN call[i]
                              ELSE [call[i] EXCEPT !.at = "dead"]]
  /\ UNCHANGED <<audit, device, rendered, confirmed, faults, mute>>

-----------------------------------------------------------------------------

Handler(i) == Render(i) \/ Decide(i) \/ Import(i) \/ Connect(i) \/ SendLine(i)
              \/ PushEnds(i) \/ PushFails(i) \/ Conclude(i)

Next ==
  \/ \E p \in Payloads : RenderForReview(p)
  \/ \E c \in Configs : Confirm(c)
  \/ \E i \in Calls, p \in Payloads : \E a \in Approvals : Begin(i, p, a)
  \/ \E i \in Calls : Handler(i)
  \/ Crash

Spec == Init /\ [][Next]_vars

-----------------------------------------------------------------------------
\* Properties

\* Type invariant.
TypeOK ==
  /\ call \in [Calls -> [at : Ended \union {"render", "gate", "import", "connect", "push", "sent", "failed"},
                         config : Configs \union {NoConfig}, sent : 0 .. MaxLines,
                         approval : {PlanId(c) : c \in Configs} \union {NoConfig}]]
  /\ audit \subseteq {"rendered", "approved", "denied", "executed", "connection_error"} \X Calls
  /\ \A h \in Hosts : device[h] \in Seq([call : Calls, line : {"l1", "l2"}])
  /\ rendered \subseteq Configs /\ confirmed \subseteq rendered
  /\ faults \in 0 .. MaxFaults /\ mute \subseteq Calls

Touched == UNION {{e.call : e \in {device[h][n] : n \in DOMAIN device[h]}} : h \in Hosts}

\* Whatever reached a device belongs to exactly the configuration an operator
\* has confirmed, in its whole: an approval of one plan never lets another
\* plan through, however similar, and in whatever order calls overlap.
OnlyConfirmedPushed == \A i \in Touched : call[i].config \in confirmed

\* The log accounts for every device that was touched, at every moment, so a
\* crash cannot leave a change without a trace: the approval is on record
\* before the first line is sent.
ApprovalOnRecord == \A i \in Touched : <<"approved", i>> \in audit /\ <<"denied", i>> \notin audit

\* A call that is over and has touched a device has its outcome on record,
\* "executed" only when every line was sent; only a crash or a failing write
\* of the log excuse a missing one.
OutcomeOnRecord ==
  \A i \in Touched \ mute : call[i].at \in {"returned", "raised"} =>
    \/ <<"connection_error", i>> \in audit
    \/ <<"executed", i>> \in audit /\ call[i].sent = Len(call[i].config.lines)

\* The module's docstring: no configuration is pushed "without explicit
\* per-change human confirmation".  Each configuration is confirmed once here.
PerChangeConfirmation ==
  \A i, j \in Touched : i # j => call[i].config # call[j].config
=============================================================================
