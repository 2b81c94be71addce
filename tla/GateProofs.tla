----------------------------- MODULE GateProofs ------------------------------
(***************************************************************************)
(* Proofs about the approval gate, for any payloads, any number of         *)
(* overlapping calls, any limit on lines and any number of failing writes  *)
(* of the audit log.                                                       *)
(***************************************************************************)
EXTENDS Gate, TLAPS

Places == {"idle", "render", "gate", "import", "connect", "push", "sent", "failed",
           "returned", "raised", "dead"}
BeforeGate == {"idle", "render", "gate"}
PastGate   == {"import", "connect", "push", "sent", "failed", "returned"}

Lines == Seq({"l1", "l2", "long", "odd"})
Entry == [call : Calls, line : {"l1", "l2", "long", "odd"}]

\* A call whose push the operator's confirmation and the log both cover.
Cleared(i) ==
  call[i].config \in confirmed /\ <<"approved", i>> \in audit /\ <<"denied", i>> \notin audit

Types ==
  /\ call \in [Calls -> [at : Places, config : Configs \union {NoConfig}, sent : Nat,
                         approval : Configs \union {NoConfig}]]
  /\ device \in [Hosts -> Seq(Entry)]
Reviewed == rendered \subseteq Configs /\ confirmed \subseteq rendered
OwnConfig == \A i \in Calls :
  call[i].at \in PastGate \union {"render", "gate"} => call[i].config \in Configs
GivenApproval == \A i \in Calls : call[i].approval \in confirmed \union {NoConfig}
ClearedPast == \A i \in Calls : call[i].at \in PastGate => Cleared(i)
CleanBefore == \A i \in Calls :
  call[i].at \in BeforeGate => i \notin Touched /\ <<"denied", i>> \notin audit
ClearedTouched == \A i \in Calls : i \in Touched => Cleared(i)

IInv == Types /\ Reviewed /\ OwnConfig /\ GivenApproval /\ ClearedPast /\ CleanBefore /\ ClearedTouched

-----------------------------------------------------------------------------

\* What the sanitizer lets through names a host and is not the empty approval.
LEMMA ConfigFacts ==
  \A c \in Configs : c.host \in Hosts /\ c.lines \in Lines /\ c # NoConfig
<1> SUFFICES ASSUME NEW p \in Payloads, Sanitizes(p)
             PROVE  Clean(p).host \in Hosts /\ Clean(p).lines \in Lines /\ Clean(p) # NoConfig
  BY DEF Configs
<1>1. p \in PayloadType
  BY GateAssumption
<1>2. Clean(p).host = p.host /\ Clean(p).lines = p.lines
  BY <1>1 DEF Clean, PayloadType
<1>3. p.host \in Hosts /\ p.lines \in Lines
  BY <1>1 DEF Sanitizes, PayloadType, Lines
<1>4. NoConfig.host \notin Hosts
  BY DEF NoConfig, Hosts
<1>. QED
  BY <1>2, <1>3, <1>4

\* Being touched is having an entry in a device.
LEMMA TouchedBy ==
  ASSUME NEW i
  PROVE  i \in Touched <=> \E h \in Hosts : \E n \in DOMAIN device[h] : device[h][n].call = i
BY DEF Touched

LEMMA SameTouched == ASSUME device' = device PROVE Touched' = Touched
BY DEF Touched

\* One more line touches one call at most.
LEMMA SendTouches ==
  ASSUME Types, NEW i \in Calls, NEW h \in Hosts, NEW line,
         device' = [device EXCEPT ![h] = Append(@, [call |-> i, line |-> line])]
  PROVE  \A j \in Calls : j \in Touched' => j = i \/ j \in Touched
<1> SUFFICES ASSUME NEW j \in Calls, j \in Touched' PROVE j = i \/ j \in Touched
  OBVIOUS
<1> DEFINE e == [call |-> i, line |-> line]
<1>1. PICK g \in Hosts : \E n \in DOMAIN device'[g] : device'[g][n].call = j
  BY DEF Touched
<1>2. PICK n \in DOMAIN device'[g] : device'[g][n].call = j
  BY <1>1
<1>3. ASSUME g # h PROVE j \in Touched
  <2>1. device'[g] = device[g]
    BY <1>3 DEF Types
  <2>. QED
    BY <1>2, <2>1, TouchedBy
<1>4. ASSUME g = h PROVE j = i \/ j \in Touched
  <2>1. device[g] \in Seq(Entry)
    BY DEF Types
  <2>2. device'[g] = Append(device[g], e)
    BY <1>4 DEF Types
  <2>3. n \in 1 .. Len(device[g]) + 1
    BY <1>2, <2>1, <2>2
  <2>4. CASE n = Len(device[g]) + 1
    <3>1. device'[g][n] = e
      BY <2>1, <2>2, <2>4
    <3>. QED
      BY <3>1, <1>2
  <2>5. CASE n # Len(device[g]) + 1
    <3>1. n \in 1 .. Len(device[g])
      BY <2>1, <2>3, <2>5
    <3>2. device'[g][n] = device[g][n] /\ n \in DOMAIN device[g]
      BY <2>1, <2>2, <3>1
    <3>. QED
      BY <3>2, <1>2, TouchedBy
  <2>. QED
    BY <2>4, <2>5
<1>. QED
  BY <1>3, <1>4

-----------------------------------------------------------------------------
\* The invariant holds initially and is kept by every step

LEMMA InitInv == Init => IInv
<1> SUFFICES ASSUME Init PROVE IInv
  OBVIOUS
<1>1. Types
  BY DEF Init, Types, Places
<1>2. Touched = {}
  BY DEF Init, Touched
<1>3. Reviewed /\ OwnConfig /\ GivenApproval
  BY DEF Init, Reviewed, OwnConfig, GivenApproval, PastGate
<1>4. ClearedPast /\ CleanBefore /\ ClearedTouched
  BY <1>2 DEF Init, ClearedPast, CleanBefore, ClearedTouched, PastGate
<1>. QED
  BY <1>1, <1>3, <1>4 DEF IInv

\* A step that only moves a call on and writes about it in the log keeps the
\* invariant, if the new place is one the call may be in.
LEMMA MoveInv ==
  ASSUME IInv, NEW i \in Calls, NEW p \in Places \ {"idle", "render"}, Goto(i, p),
         UNCHANGED <<device, rendered, confirmed>>,
         \A j \in Calls \ {i}, e \in {"approved", "denied"} :
           <<e, j>> \in audit' <=> <<e, j>> \in audit,
         p \in PastGate \union {"gate"} => call[i].at \in PastGate \union {"render", "gate"},
         p \in PastGate => Cleared(i)',
         p = "gate" => i \notin Touched /\ <<"denied", i>> \notin audit',
         i \in Touched => Cleared(i)'
  PROVE  IInv'
<1>1. /\ call' \in [Calls -> [at : Places, config : Configs \union {NoConfig}, sent : Nat,
                              approval : Configs \union {NoConfig}]]
      /\ \A j \in Calls : /\ call'[j].config = call[j].config
                          /\ call'[j].approval = call[j].approval
                          /\ call'[j].at = IF j = i THEN p ELSE call[j].at
  BY DEF IInv, Types, Goto
<1>2. Types' /\ Reviewed'
  BY <1>1 DEF IInv, Types, Reviewed
<1>3. OwnConfig' /\ GivenApproval'
  BY <1>1 DEF IInv, OwnConfig, GivenApproval
<1>4. Touched' = Touched
  BY SameTouched
<1>5. \A j \in Calls \ {i} : Cleared(j) <=> Cleared(j)'
  BY <1>1 DEF Cleared
<1>6. ClearedPast'
  BY <1>1, <1>5 DEF IInv, ClearedPast
<1>7. CleanBefore'
  BY <1>1, <1>4 DEF IInv, CleanBefore, BeforeGate
<1>8. ClearedTouched'
  BY <1>4, <1>5 DEF IInv, ClearedTouched
<1>. QED
  BY <1>2, <1>3, <1>6, <1>7, <1>8 DEF IInv

\* What the two ways of a write of the log do.
LEMMA LogFacts ==
  ASSUME NEW i \in Calls, NEW entry, NEW next, Log(i, entry, next)
  PROVE  /\ \A j \in Calls \ {i}, e \in {"approved", "denied"} :
              <<e, j>> \in audit' <=> <<e, j>> \in audit
         /\ \/ Goto(i, next) /\ audit' = audit \union {<<entry, i>>}
            \/ Goto(i, "raised") /\ audit' = audit
BY DEF Log

LEMMA BeginInv ==
  ASSUME IInv, NEW i \in Calls, NEW p \in Payloads, NEW a \in Approvals, Begin(i, p, a)
  PROVE  IInv'
<1>1. CASE ~Sanitizes(p)
  <2>1. Goto(i, "raised") /\ call[i].at = "idle"
    BY <1>1 DEF Begin, Goto, At
  <2>2. i \notin Touched
    BY <2>1 DEF IInv, CleanBefore, BeforeGate
  <2>3. UNCHANGED <<audit, device, rendered, confirmed>>
    BY DEF Begin
  <2>. QED
    BY <2>1, <2>2, <2>3, MoveInv DEF Places, PastGate
<1>2. CASE Sanitizes(p)
  <2> DEFINE fresh == [at |-> "render", config |-> Clean(p), approval |-> a, sent |-> 0]
  <2>1. Clean(p) \in Configs /\ a \in confirmed \union {NoConfig} /\ confirmed \subseteq Configs
    BY <1>2 DEF Configs, Approvals, PlanId, IInv, Reviewed
  <2>2. /\ call' = [call EXCEPT ![i] = fresh] /\ call[i].at = "idle"
        /\ UNCHANGED <<audit, device, rendered, confirmed>>
    BY <1>2 DEF Begin, At
  <2>3. /\ call' \in [Calls -> [at : Places, config : Configs \union {NoConfig}, sent : Nat,
                                approval : Configs \union {NoConfig}]]
        /\ call'[i] = fresh /\ \A j \in Calls \ {i} : call'[j] = call[j]
    BY <2>1, <2>2 DEF IInv, Types, Places
  <2>4. Types' /\ Reviewed'
    BY <2>2, <2>3 DEF IInv, Types, Reviewed
  <2>5. OwnConfig' /\ GivenApproval'
    BY <2>1, <2>2, <2>3 DEF IInv, OwnConfig, GivenApproval
  <2>6. Touched' = Touched
    BY <2>2, SameTouched
  <2>7. \A j \in Calls \ {i} : Cleared(j) <=> Cleared(j)'
    BY <2>2, <2>3 DEF Cleared
  <2>8. ClearedPast'
    BY <2>3, <2>7 DEF IInv, ClearedPast, PastGate
  <2>9. CleanBefore' /\ i \notin Touched
    BY <2>2, <2>3, <2>6 DEF IInv, CleanBefore, BeforeGate
  <2>10. ClearedTouched'
    BY <2>6, <2>7, <2>9 DEF IInv, ClearedTouched
  <2>. QED
    BY <2>4, <2>5, <2>8, <2>9, <2>10 DEF IInv
<1>. QED
  BY <1>1, <1>2

LEMMA RenderInv == ASSUME IInv, NEW i \in Calls, Render(i) PROVE IInv'
<1>1. call[i].at = "render" /\ Log(i, "rendered", "gate") /\ UNCHANGED <<device, rendered, confirmed>>
  BY DEF Render, At
<1>2. i \notin Touched /\ <<"denied", i>> \notin audit
  BY <1>1 DEF IInv, CleanBefore, BeforeGate
<1>3. <<"denied", i>> \notin audit'
  BY <1>1, <1>2, LogFacts
<1>4. CASE Goto(i, "gate")
  BY <1>1, <1>2, <1>3, <1>4, LogFacts, MoveInv DEF Places, PastGate
<1>5. CASE Goto(i, "raised")
  BY <1>1, <1>2, <1>3, <1>5, LogFacts, MoveInv DEF Places, PastGate
<1>. QED
  BY <1>1, <1>4, <1>5, LogFacts

\* An approval that matches is one the operator has given for this very
\* configuration.
LEMMA ApprovedIsConfirmed ==
  ASSUME IInv, NEW i \in Calls, call[i].at = "gate", Approved(i)
  PROVE  call[i].config \in confirmed
<1>1. call[i].config \in Configs /\ call[i].approval \in confirmed \union {NoConfig}
  BY DEF IInv, OwnConfig, GivenApproval
<1>2. call[i].config # NoConfig
  BY <1>1, ConfigFacts
<1>. QED
  BY <1>1, <1>2 DEF Approved, PlanId

LEMMA DecideInv == ASSUME IInv, NEW i \in Calls, Decide(i) PROVE IInv'
<1>1. call[i].at = "gate" /\ UNCHANGED <<device, rendered, confirmed>>
  BY DEF Decide, At
<1>2. i \notin Touched /\ <<"denied", i>> \notin audit
  BY <1>1 DEF IInv, CleanBefore, BeforeGate
<1>3. CASE Approved(i) /\ Log(i, "approved", "import")
  <2>1. CASE Goto(i, "import") /\ audit' = audit \union {<<"approved", i>>}
    <3>1. call'[i].config = call[i].config
      BY <2>1 DEF Goto, IInv, Types
    <3>2. Cleared(i)'
      BY <1>1, <1>2, <1>3, <2>1, <3>1, ApprovedIsConfirmed DEF Cleared
    <3>. QED
      BY <1>1, <1>2, <1>3, <2>1, <3>2, LogFacts, MoveInv DEF Places, PastGate
  <2>2. CASE Goto(i, "raised") /\ audit' = audit
    BY <1>1, <1>2, <1>3, <2>2, LogFacts, MoveInv DEF Places, PastGate
  <2>. QED
    BY <1>3, <2>1, <2>2, LogFacts
<1>4. CASE Log(i, "denied", "raised")
  <2>1. Goto(i, "raised")
    BY <1>4, LogFacts
  <2>. QED
    BY <1>1, <1>2, <1>4, <2>1, LogFacts, MoveInv DEF Places, PastGate
<1>. QED
  BY <1>3, <1>4 DEF Decide

\* Past the gate a call stays cleared, wherever it goes.
LEMMA PastGateInv ==
  ASSUME IInv, NEW i \in Calls, NEW p \in PastGate \union {"raised"}, Goto(i, p),
         call[i].at \in PastGate, UNCHANGED <<device, rendered, confirmed>>,
         audit \subseteq audit',
         \A j \in Calls, e \in {"approved", "denied"} : <<e, j>> \in audit' => <<e, j>> \in audit
  PROVE  IInv'
<1>1. call'[i].config = call[i].config
  BY DEF Goto, IInv, Types
<1>2. Cleared(i)
  BY DEF IInv, ClearedPast
<1>3. Cleared(i)'
  BY <1>1, <1>2 DEF Cleared
<1>4. p \in Places \ {"idle", "render"} /\ p # "gate"
  BY DEF PastGate, Places
<1>. QED
  BY <1>3, <1>4, MoveInv

LEMMA ConcludeInv == ASSUME IInv, NEW i \in Calls, Conclude(i) PROVE IInv'
<1>1. PICK e \in {"executed", "connection_error"}, p \in {"returned", "raised"} :
        Log(i, e, p) /\ call[i].at \in PastGate
  BY DEF Conclude, At, PastGate
<1>2. /\ UNCHANGED <<device, rendered, confirmed>>
      /\ audit \subseteq audit'
      /\ \A j \in Calls, d \in {"approved", "denied"} : <<d, j>> \in audit' => <<d, j>> \in audit
  BY <1>1 DEF Conclude, Log
<1>3. Goto(i, "returned") \/ Goto(i, "raised")
  BY <1>1, LogFacts
<1>. QED
  BY <1>1, <1>2, <1>3, PastGateInv DEF PastGate

LEMMA SendInv == ASSUME IInv, NEW i \in Calls, SendLine(i) PROVE IInv'
<1> DEFINE c == call[i].config
           n == call[i].sent + 1
<1>1. /\ call[i].at = "push" /\ n <= Len(c.lines)
      /\ device' = [device EXCEPT ![c.host] = Append(@, [call |-> i, line |-> c.lines[n]])]
      /\ call' = [call EXCEPT ![i].sent = n]
      /\ UNCHANGED <<audit, rendered, confirmed>>
  BY DEF SendLine, At
<1>2. c \in Configs /\ Cleared(i)
  BY <1>1 DEF IInv, OwnConfig, ClearedPast, PastGate
<1>3. c.host \in Hosts /\ c.lines \in Lines
  BY <1>2, ConfigFacts
<1>4. call[i].sent \in Nat
  BY DEF IInv, Types
<1>5. c.lines[n] \in {"l1", "l2", "long", "odd"}
  BY <1>1, <1>3, <1>4 DEF Lines
<1>6. device' \in [Hosts -> Seq(Entry)]
  <2>1. [call |-> i, line |-> c.lines[n]] \in Entry
    BY <1>5 DEF Entry
  <2>2. Append(device[c.host], [call |-> i, line |-> c.lines[n]]) \in Seq(Entry)
    BY <2>1, <1>3 DEF IInv, Types
  <2>. QED
    BY <1>1, <1>3, <2>2 DEF IInv, Types
<1>7. /\ call' \in [Calls -> [at : Places, config : Configs \union {NoConfig}, sent : Nat,
                              approval : Configs \union {NoConfig}]]
      /\ \A j \in Calls : /\ call'[j].config = call[j].config
                          /\ call'[j].approval = call[j].approval
                          /\ call'[j].at = call[j].at
  BY <1>1, <1>4, SMTT(30) DEF IInv, Types
<1>8. Types' /\ Reviewed'
  BY <1>1, <1>6, <1>7 DEF IInv, Types, Reviewed
<1>9. OwnConfig' /\ GivenApproval'
  BY <1>1, <1>7 DEF IInv, OwnConfig, GivenApproval
<1>10. \A j \in Calls : j \in Touched' => j = i \/ j \in Touched
  BY <1>1, <1>3, SendTouches DEF IInv
<1>11. \A j \in Calls : Cleared(j) <=> Cleared(j)'
  BY <1>1, <1>7 DEF Cleared
<1>12. ClearedPast'
  BY <1>7, <1>11 DEF IInv, ClearedPast
<1>13. CleanBefore'
  BY <1>1, <1>7, <1>10 DEF IInv, CleanBefore, BeforeGate
<1>14. ClearedTouched'
  BY <1>2, <1>10, <1>11 DEF IInv, ClearedTouched
<1>. QED
  BY <1>8, <1>9, <1>12, <1>13, <1>14 DEF IInv

\* The review only adds to what is rendered and confirmed.
LEMMA ReviewInv ==
  ASSUME IInv, \/ \E p \in Payloads : RenderForReview(p)
               \/ \E c \in Configs : Confirm(c)
  PROVE  IInv'
<1>1. UNCHANGED <<call, audit, device>> /\ confirmed \subseteq confirmed'
  BY DEF RenderForReview, Confirm
<1>2. Reviewed'
  BY DEF IInv, Reviewed, RenderForReview, Confirm, Configs
<1>3. Types' /\ OwnConfig' /\ GivenApproval'
  BY <1>1 DEF IInv, Types, OwnConfig, GivenApproval
<1>4. Touched' = Touched
  BY <1>1, SameTouched
<1>5. \A j \in Calls : Cleared(j) => Cleared(j)'
  BY <1>1 DEF Cleared
<1>6. ClearedPast' /\ CleanBefore' /\ ClearedTouched'
  BY <1>1, <1>4, <1>5 DEF IInv, ClearedPast, CleanBefore, ClearedTouched
<1>. QED
  BY <1>2, <1>3, <1>6 DEF IInv

LEMMA CrashInv == ASSUME IInv, Crash PROVE IInv'
<1>1. /\ call' = [i \in Calls |-> IF call[i].at \in Ended THEN call[i] ELSE [call[i] EXCEPT !.at = "dead"]]
      /\ UNCHANGED <<audit, device, rendered, confirmed>>
  BY DEF Crash
<1>2. \A i \in Calls : /\ call'[i].config = call[i].config
                       /\ call'[i].approval = call[i].approval
                       /\ call'[i].at = call[i].at \/ call'[i].at = "dead"
                       /\ call'[i] \in [at : Places, config : Configs \union {NoConfig}, sent : Nat,
                                        approval : Configs \union {NoConfig}]
  BY <1>1 DEF IInv, Types, Places
<1>3. Types' /\ Reviewed'
  BY <1>1, <1>2 DEF IInv, Types, Reviewed
<1>4. OwnConfig' /\ GivenApproval'
  BY <1>1, <1>2 DEF IInv, OwnConfig, GivenApproval, PastGate
<1>5. Touched' = Touched
  BY <1>1, SameTouched
<1>6. \A i \in Calls : Cleared(i) <=> Cleared(i)'
  BY <1>1, <1>2 DEF Cleared
<1>7. ClearedPast' /\ CleanBefore' /\ ClearedTouched'
  BY <1>1, <1>2, <1>5, <1>6 DEF IInv, ClearedPast, CleanBefore, ClearedTouched, PastGate, BeforeGate
<1>. QED
  BY <1>3, <1>4, <1>7 DEF IInv

LEMMA HandlerInv == ASSUME IInv, NEW i \in Calls, Handler(i) PROVE IInv'
<1>1. CASE Render(i)
  BY <1>1, RenderInv
<1>2. CASE Decide(i)
  BY <1>2, DecideInv
<1>3. ASSUME Import(i) \/ Connect(i) \/ PushEnds(i) \/ PushFails(i) PROVE IInv'
  <2>1. PICK p \in PastGate \union {"raised"} : Goto(i, p) /\ call[i].at \in PastGate
    BY <1>3 DEF Import, Connect, PushEnds, PushFails, At, PastGate
  <2>2. UNCHANGED <<audit, device, rendered, confirmed>>
    BY <1>3 DEF Import, Connect, PushEnds, PushFails
  <2>. QED
    BY <2>1, <2>2, PastGateInv
<1>4. CASE SendLine(i)
  BY <1>4, SendInv
<1>5. CASE Conclude(i)
  BY <1>5, ConcludeInv
<1>. QED
  BY <1>1, <1>2, <1>3, <1>4, <1>5 DEF Handler

LEMMA NextInv == IInv /\ [Next]_vars => IInv'
<1> SUFFICES ASSUME IInv, [Next]_vars PROVE IInv'
  OBVIOUS
<1>1. ASSUME NEW i \in Calls, NEW p \in Payloads, NEW a \in Approvals, Begin(i, p, a) PROVE IInv'
  BY <1>1, BeginInv
<1>2. ASSUME NEW i \in Calls, Handler(i) PROVE IInv'
  BY <1>2, HandlerInv
<1>3. CASE \/ \E p \in Payloads : RenderForReview(p)
           \/ \E c \in Configs : Confirm(c)
  BY <1>3, ReviewInv
<1>4. CASE Crash
  BY <1>4, CrashInv
<1>5. ASSUME UNCHANGED vars PROVE IInv'
  <2>1. UNCHANGED <<call, audit, device, rendered, confirmed>>
    BY <1>5 DEF vars
  <2>2. Touched' = Touched
    BY <2>1, SameTouched
  <2>. QED
    BY <2>1, <2>2 DEF IInv, Types, Reviewed, OwnConfig, GivenApproval, ClearedPast, CleanBefore,
                     ClearedTouched, Cleared
<1>. QED
  BY <1>1, <1>2, <1>3, <1>4, <1>5 DEF Next

LEMMA Inductive == Spec => []IInv
BY InitInv, NextInv, PTL DEF Spec

-----------------------------------------------------------------------------
\* The theorems

LEMMA TouchedAreCalls == IInv => Touched \subseteq Calls
<1> SUFFICES ASSUME IInv, NEW h \in Hosts, NEW n \in DOMAIN device[h] PROVE device[h][n].call \in Calls
  BY DEF Touched
<1>1. device[h] \in Seq(Entry)
  BY DEF IInv, Types
<1>2. device[h][n] \in Entry
  BY <1>1
<1>. QED
  BY <1>2 DEF Entry

\* Only what an operator has confirmed, in its whole, ever reaches a device.
THEOREM OnlyConfirmedIsPushed == Spec => []OnlyConfirmedPushed
<1>1. IInv => OnlyConfirmedPushed
  BY TouchedAreCalls DEF OnlyConfirmedPushed, IInv, ClearedTouched, Cleared
<1>. QED
  BY <1>1, Inductive, PTL

\* At every moment, so also at a crash, the log holds the approval of every
\* change a device has taken.
THEOREM ApprovalIsOnRecord == Spec => []ApprovalOnRecord
<1>1. IInv => ApprovalOnRecord
  BY TouchedAreCalls DEF ApprovalOnRecord, IInv, ClearedTouched, Cleared
<1>. QED
  BY <1>1, Inductive, PTL

-----------------------------------------------------------------------------
\* What a call has told the log by the time it is over

OnRecord(i) ==
  \/ <<"connection_error", i>> \in audit
  \/ <<"executed", i>> \in audit /\ call[i].sent = Len(call[i].config.lines)

Recorded(i) ==
  /\ call[i].at \in {"import", "connect"} => i \notin Touched
  /\ call[i].at = "sent" => call[i].sent = Len(call[i].config.lines)
  /\ call[i].at \in {"returned", "raised"} /\ i \in Touched \ mute => OnRecord(i)

\* A step of one call takes nothing from the record of another.
LEMMA OtherCalls ==
  ASSUME IInv, NEW i \in Calls, NEW j \in Calls \ {i}, Recorded(j),
         Handler(i) \/ \E p \in Payloads : \E a \in Approvals : Begin(i, p, a)
  PROVE  Recorded(j)'
<1>1. call'[j] = call[j] /\ audit \subseteq audit' /\ mute \subseteq mute'
  BY DEF Handler, Begin, Render, Decide, Import, Connect, SendLine, PushEnds, PushFails, Conclude,
         Log, Goto, IInv, Types
<1>2. j \in Touched' => j \in Touched
  <2>1. CASE device' = device
    BY <2>1, SameTouched
  <2>2. CASE SendLine(i)
    <3>1. call[i].config.host \in Hosts
      BY <2>2, ConfigFacts DEF SendLine, At, IInv, OwnConfig, PastGate
    <3>. QED
      BY <2>2, <3>1, SendTouches DEF SendLine, IInv
  <2>. QED
    BY <2>1, <2>2 DEF Handler, Begin, Render, Decide, Import, Connect, PushEnds, PushFails, Conclude
<1>. QED
  BY <1>1, <1>2 DEF Recorded, OnRecord

\* A call that has not been touched may end in any way.
LEMMA UntouchedCall ==
  ASSUME IInv, NEW i \in Calls, i \notin Touched, device' = device, NEW p \in Places \ {"sent"},
         Goto(i, p)
  PROVE  Recorded(i)'
<1>1. i \notin Touched' /\ call'[i].at = p
  BY SameTouched DEF Goto, IInv, Types
<1>. QED
  BY <1>1 DEF Recorded

LEMMA OwnCall ==
  ASSUME IInv, NEW i \in Calls, Recorded(i),
         Handler(i) \/ \E p \in Payloads : \E a \in Approvals : Begin(i, p, a)
  PROVE  Recorded(i)'
<1>1. ASSUME NEW p \in Payloads, NEW a \in Approvals, Begin(i, p, a) PROVE Recorded(i)'
  <2>1. i \notin Touched /\ device' = device
    BY <1>1 DEF Begin, At, IInv, CleanBefore, BeforeGate
  <2>2. i \notin Touched'
    BY <2>1, SameTouched
  <2>3. call'[i].at \in {"raised", "render"}
    BY <1>1 DEF Begin, IInv, Types
  <2>. QED
    BY <2>2, <2>3 DEF Recorded
<1>2. ASSUME Render(i) \/ Decide(i) \/ Import(i) PROVE Recorded(i)'
  <2>1. i \notin Touched /\ device' = device
    BY <1>2 DEF Render, Decide, Import, At, IInv, CleanBefore, BeforeGate, Recorded
  <2>2. PICK p \in {"gate", "import", "connect", "raised"} : Goto(i, p)
    BY <1>2 DEF Render, Decide, Import, Log
  <2>. QED
    BY <2>1, <2>2, UntouchedCall DEF Places
<1>3. ASSUME Connect(i) \/ PushFails(i) \/ SendLine(i) PROVE Recorded(i)'
  <2>1. call'[i].at \in {"push", "failed"}
    BY <1>3 DEF Connect, PushFails, SendLine, Goto, At, IInv, Types
  <2>. QED
    BY <2>1 DEF Recorded
<1>4. CASE PushEnds(i)
  <2>1. call'[i].at = "sent" /\ call'[i].sent = Len(call'[i].config.lines)
    BY <1>4 DEF PushEnds, Goto, IInv, Types
  <2>. QED
    BY <2>1 DEF Recorded
<1>5. CASE Conclude(i)
  <2>1. PICK e \in {"executed", "connection_error"}, p \in {"returned", "raised"} :
          /\ Log(i, e, p)
          /\ e = "executed" => call[i].at = "sent"
    BY <1>5 DEF Conclude, At
  <2>2. \A q \in Places : Goto(i, q) =>
          call'[i].at = q /\ call'[i].sent = call[i].sent /\ call'[i].config = call[i].config
    BY DEF Goto, IInv, Types
  <2>3. CASE audit' = audit \union {<<e, i>>} /\ Goto(i, p)
    <3>1. /\ call'[i].at = p /\ call'[i].sent = call[i].sent /\ call'[i].config = call[i].config
      BY <2>2, <2>3 DEF Places
    <3>2. OnRecord(i)'
      BY <2>1, <2>3, <3>1 DEF OnRecord, Recorded
    <3>. QED
      BY <3>1, <3>2 DEF Recorded
  <2>4. CASE i \in mute' /\ Goto(i, "raised")
    <3>1. call'[i].at = "raised"
      BY <2>2, <2>4 DEF Places
    <3>. QED
      BY <2>4, <3>1 DEF Recorded
  <2>. QED
    BY <2>1, <2>3, <2>4 DEF Log
<1>. QED
  BY <1>1, <1>2, <1>3, <1>4, <1>5 DEF Handler

LEMMA RecordedNext ==
  IInv /\ (\A i \in Calls : Recorded(i)) /\ [Next]_vars => (\A i \in Calls : Recorded(i))'
<1> SUFFICES ASSUME IInv, \A i \in Calls : Recorded(i), [Next]_vars, NEW j \in Calls
             PROVE  Recorded(j)'
  OBVIOUS
<1>1. ASSUME NEW i \in Calls, Handler(i) \/ \E p \in Payloads : \E a \in Approvals : Begin(i, p, a)
      PROVE  Recorded(j)'
  BY <1>1, OtherCalls, OwnCall
<1>2. ASSUME UNCHANGED <<call, audit, device, mute>> PROVE Recorded(j)'
  <2>1. Touched' = Touched
    BY <1>2, SameTouched
  <2>. QED
    BY <1>2, <2>1 DEF Recorded, OnRecord
<1>3. CASE Crash
  <2>1. Touched' = Touched
    BY <1>3, SameTouched DEF Crash
  <2>2. /\ audit' = audit /\ mute' = mute
        /\ call'[j] = call[j] \/ call'[j].at = "dead"
    BY <1>3 DEF Crash, IInv, Types
  <2>. QED
    BY <2>1, <2>2 DEF Recorded, OnRecord
<1>. QED
  BY <1>1, <1>2, <1>3 DEF Next, vars, RenderForReview, Confirm

\* A call that is over and has touched a device has its outcome on record,
\* "executed" only with every line sent, whatever fails on the way but the
\* write of the log itself.
THEOREM OutcomesAreOnRecord == Spec => []OutcomeOnRecord
<1>1. Init => \A i \in Calls : Recorded(i)
  BY DEF Init, Recorded
<1>2. Spec => [](\A i \in Calls : Recorded(i))
  BY <1>1, Inductive, RecordedNext, PTL DEF Spec
<1>3. IInv /\ (\A i \in Calls : Recorded(i)) => OutcomeOnRecord
  BY TouchedAreCalls DEF OutcomeOnRecord, Recorded, OnRecord
<1>. QED
  BY <1>2, <1>3, Inductive, PTL
=============================================================================
