---------------------------- MODULE BrowserProofs ----------------------------
(***************************************************************************)
(* Proofs about the command bus of a browser claw, for any number of       *)
(* requests, in whatever order they are sent, given up, timed out and run. *)
(***************************************************************************)
EXTENDS BrowserClaw, TLAPS

Results == {"ok", "error", "closed", "timeout"}

\* An answer that request r may be given.
Genuine(r, a) == a.of = r /\ (a.result = "ok" => r \in executed)

Held   == [of : Requests \union {Nobody}, result : Results \union {"none"}]
Loops  == [at : {"poll", "run", "put", "closing", "exited"}, req : Requests \union {Nobody}, answer : Held]
Places == {"idle", "refused", "waiting", "gave up", "answered"}

Types ==
  /\ loop \in Loops
  /\ slot \in [Requests -> Held] /\ got \in [Requests -> Held]
  /\ client \in [Requests -> Places]

BusHolds == bus \in Seq(Requests)

\* What the loop is about to put, what lies in a slot and what a caller got.
LoopHolds ==
  /\ loop.at = "run" => loop.req \in Requests
  /\ loop.at = "put" => loop.req \in Requests /\ Genuine(loop.req, loop.answer)
SlotsHold == \A r \in Requests : slot[r] = NoAnswer \/ Genuine(r, slot[r])

IInv == Types /\ BusHolds /\ LoopHolds /\ SlotsHold /\ AnswerIsOwn

-----------------------------------------------------------------------------

LEMMA AnswerFacts ==
  /\ NoAnswer \in Held
  /\ \A r \in Requests, result \in Results : [of |-> r, result |-> result] \in Held
BY DEF Held, NoAnswer, Nobody, Results

LEMMA IdleFacts ==
  /\ Idle \in Loops /\ Idle.at = "poll"
  /\ \A at \in {"closing", "exited"} :
       [Idle EXCEPT !.at = at] \in Loops /\ [Idle EXCEPT !.at = at].at = at
BY AnswerFacts DEF Loops, Idle, Nobody

LEMMA RunFacts ==
  ASSUME NEW r \in Requests
  PROVE  LET run == [Idle EXCEPT !.at = "run", !.req = r]
         IN  run \in Loops /\ run.at = "run" /\ run.req = r
BY AnswerFacts DEF Loops, Idle, Nobody

LEMMA ReplyFacts ==
  ASSUME NEW r \in Requests, NEW result \in Results
  PROVE  /\ Reply(r, result) \in Loops /\ Reply(r, result).at = "put"
         /\ Reply(r, result).req = r /\ Reply(r, result).answer = [of |-> r, result |-> result]
BY AnswerFacts DEF Loops, Reply

LEMMA InitInv == Init => IInv
<1> SUFFICES ASSUME Init PROVE IInv
  OBVIOUS
<1>1. Types /\ BusHolds
  <2>1. BusHolds
    BY DEF Init, BusHolds
  <2>2. Types
    BY AnswerFacts, IdleFacts DEF Init, Types, Places
  <2>. QED
    BY <2>1, <2>2
<1>2. LoopHolds /\ SlotsHold /\ AnswerIsOwn
  BY IdleFacts DEF Init, LoopHolds, SlotsHold, AnswerIsOwn
<1>. QED
  BY <1>1, <1>2 DEF IInv

\* Sending, giving up and queueing change what callers and handlers do, and
\* nothing that is answered.
LEMMA CallerInv ==
  ASSUME IInv, NEW r \in Requests, (\E c \in Commands : Send(r, c)) \/ GiveUp(r) \/ Enqueue(r)
  PROVE  IInv'
<1>1. /\ UNCHANGED <<slot, got, loop, executed>>
      /\ client' = client \/ client' = [client EXCEPT ![r] = "waiting"]
         \/ client' = [client EXCEPT ![r] = "refused"] \/ client' = [client EXCEPT ![r] = "gave up"]
  BY DEF Send, GiveUp, Enqueue
<1>2. Types' /\ BusHolds'
  <2>1. BusHolds'
    <3>1. bus \in Seq(Requests)
      BY DEF IInv, BusHolds
    <3>2. bus' = bus \/ bus' = Append(bus, r)
      BY DEF Send, GiveUp, Enqueue
    <3>3. bus' \in Seq(Requests)
      BY <3>1, <3>2
    <3>. QED
      BY <3>3 DEF BusHolds
  <2>2. Types'
    BY <1>1 DEF IInv, Types, Places
  <2>. QED
    BY <2>1, <2>2
<1>3. LoopHolds' /\ SlotsHold'
  BY <1>1 DEF IInv, LoopHolds, SlotsHold, Genuine
<1>4. AnswerIsOwn'
  BY <1>1 DEF IInv, Types, AnswerIsOwn
<1>. QED
  BY <1>2, <1>3, <1>4 DEF IInv

\* A response hands out what lay in the slot of its own request, or a timeout.
LEMMA ResponseInv ==
  ASSUME IInv, NEW r \in Requests, SendResult(r) \/ SendTimeout(r)
  PROVE  IInv'
<1>1. PICK a : /\ Respond(r, a) /\ Genuine(r, a)
               /\ a \in Held
               /\ slot' = slot \/ slot' = [slot EXCEPT ![r] = NoAnswer]
  <2>1. CASE SendResult(r)
    <3>1. slot[r] # NoAnswer /\ slot' = [slot EXCEPT ![r] = NoAnswer] /\ Respond(r, slot[r])
      BY <2>1 DEF SendResult, SlotOf
    <3>. QED
      BY <3>1 DEF IInv, SlotsHold, Types
  <2>2. CASE SendTimeout(r)
    <3>1. slot' = slot /\ Respond(r, [of |-> r, result |-> "timeout"])
      BY <2>2 DEF SendTimeout
    <3>. QED
      BY <3>1, AnswerFacts DEF Genuine, Results
  <2>. QED
    BY <2>1, <2>2
<1>2. /\ UNCHANGED <<bus, loop, executed>>
      /\ \/ client' = [client EXCEPT ![r] = "answered"] /\ got' = [got EXCEPT ![r] = a]
         \/ UNCHANGED <<client, got>>
  BY <1>1 DEF Respond
<1>3. Types' /\ BusHolds'
  <2>1. BusHolds'
    BY <1>2 DEF IInv, BusHolds
  <2>2. client' \in [Requests -> Places]
    BY <1>2 DEF IInv, Types, Places
  <2>3. got' \in [Requests -> Held]
    BY <1>1, <1>2 DEF IInv, Types
  <2>4. slot' \in [Requests -> Held]
    BY <1>1, AnswerFacts DEF IInv, Types
  <2>5. loop' \in Loops
    BY <1>2 DEF IInv, Types
  <2>6. Types'
    BY <2>2, <2>3, <2>4, <2>5 DEF Types
  <2>. QED
    BY <2>1, <2>6
<1>4. LoopHolds' /\ SlotsHold'
  BY <1>1, <1>2 DEF IInv, LoopHolds, SlotsHold, Genuine, Types
<1>5. AnswerIsOwn'
  BY <1>1, <1>2 DEF IInv, AnswerIsOwn, Genuine, Types
<1>. QED
  BY <1>3, <1>4, <1>5 DEF IInv

LEMMA TakeInv == ASSUME IInv, Take PROVE IInv'
<1>1. /\ UNCHANGED <<client, slot, got, executed>> /\ bus # <<>>
      /\ loop' = Taken(Head(bus)) /\ bus' = Tail(bus)
  BY DEF Take
<1>2. Head(bus) \in Requests /\ BusHolds'
  BY <1>1 DEF IInv, BusHolds
<1>3. \/ \E result \in {"closed", "error"} : loop' = Reply(Head(bus), result)
      \/ loop' = [Idle EXCEPT !.at = "closing"]
      \/ loop' = [Idle EXCEPT !.at = "run", !.req = Head(bus)]
  BY <1>1 DEF Taken
<1>4. Types' /\ LoopHolds'
  <2>1. UNCHANGED <<slot, got, client>>
    BY <1>1
  <2>2. ASSUME NEW result \in {"closed", "error"}, loop' = Reply(Head(bus), result)
        PROVE  loop' \in Loops /\ LoopHolds'
    <3>1. result \in Results /\ result # "ok"
      BY DEF Results
    <3>2. /\ loop' \in Loops /\ loop'.at = "put" /\ loop'.req = Head(bus)
          /\ loop'.answer = [of |-> Head(bus), result |-> result]
      BY <1>2, <2>2, <3>1, ReplyFacts
    <3>. QED
      BY <1>2, <3>1, <3>2 DEF LoopHolds, Genuine
  <2>3. ASSUME loop' = [Idle EXCEPT !.at = "closing"] PROVE loop' \in Loops /\ LoopHolds'
    BY <2>3, IdleFacts DEF LoopHolds
  <2>4. ASSUME loop' = [Idle EXCEPT !.at = "run", !.req = Head(bus)]
        PROVE  loop' \in Loops /\ LoopHolds'
    BY <1>2, <2>4, RunFacts DEF LoopHolds
  <2>5. loop' \in Loops /\ LoopHolds'
    BY <1>3, <2>2, <2>3, <2>4
  <2>. QED
    BY <2>1, <2>5 DEF IInv, Types
<1>5. SlotsHold' /\ AnswerIsOwn'
  BY <1>1 DEF IInv, BusHolds, SlotsHold, AnswerIsOwn, Genuine
<1>. QED
  BY <1>2, <1>4, <1>5 DEF IInv

LEMMA CommandInv == ASSUME IInv, CommandEnds PROVE IInv'
<1>1. /\ UNCHANGED <<client, slot, got, bus>> /\ loop.req \in Requests
      /\ executed' = executed \union {loop.req}
  BY DEF CommandEnds, IInv, LoopHolds
<1>2. PICK result \in {"ok", "error"} : loop' = Reply(loop.req, result)
  BY DEF CommandEnds
<1>3. Types' /\ LoopHolds'
  <2>1. result \in Results
    BY <1>2 DEF Results
  <2>2. /\ loop' \in Loops /\ loop'.at = "put" /\ loop'.req = loop.req
        /\ loop'.answer = [of |-> loop.req, result |-> result]
    BY <1>1, <1>2, <2>1, ReplyFacts
  <2>3. Types'
    BY <1>1, <2>2 DEF IInv, Types
  <2>4. LoopHolds'
    BY <1>1, <2>2 DEF LoopHolds, Genuine
  <2>. QED
    BY <2>3, <2>4
<1>4. BusHolds' /\ SlotsHold' /\ AnswerIsOwn'
  BY <1>1 DEF IInv, BusHolds, SlotsHold, AnswerIsOwn, Genuine
<1>. QED
  BY <1>3, <1>4 DEF IInv

LEMMA PutInv == ASSUME IInv, PutResult PROVE IInv'
<1>1. /\ UNCHANGED <<client, got, bus, executed>> /\ loop.at = "put"
      /\ slot' = [slot EXCEPT ![loop.req] = loop.answer]
      /\ loop' = Idle \/ loop' = [Idle EXCEPT !.at = "closing"]
  BY DEF PutResult, SlotOf, AfterPut
<1>2. loop.req \in Requests /\ Genuine(loop.req, loop.answer)
  BY <1>1 DEF IInv, LoopHolds
<1>3. Types' /\ LoopHolds'
  <2>1. loop.answer \in Held
    BY DEF IInv, Types, Loops
  <2>2. slot' \in [Requests -> Held]
    BY <1>1, <1>2, <2>1 DEF IInv, Types
  <2>3. loop' \in Loops /\ loop'.at \in {"poll", "closing"}
    BY <1>1, IdleFacts
  <2>4. Types'
    BY <1>1, <2>2, <2>3 DEF IInv, Types
  <2>5. LoopHolds'
    BY <2>3 DEF LoopHolds
  <2>. QED
    BY <2>4, <2>5
<1>4. BusHolds' /\ SlotsHold' /\ AnswerIsOwn'
  BY <1>1, <1>2 DEF IInv, Types, BusHolds, SlotsHold, AnswerIsOwn, Genuine
<1>. QED
  BY <1>3, <1>4 DEF IInv

LEMMA ExitInv == ASSUME IInv, Exit PROVE IInv'
<1>1. /\ UNCHANGED <<slot, got, bus, executed>> /\ loop' = [Idle EXCEPT !.at = "exited"]
      /\ client' = [r \in Requests |-> IF client[r] = "waiting" THEN "gave up" ELSE client[r]]
  BY DEF Exit
<1>2. Types' /\ LoopHolds'
  BY <1>1, IdleFacts DEF IInv, Types, LoopHolds, Places
<1>3. BusHolds' /\ SlotsHold' /\ AnswerIsOwn'
  BY <1>1 DEF IInv, BusHolds, SlotsHold, AnswerIsOwn, Genuine
<1>. QED
  BY <1>2, <1>3 DEF IInv

LEMMA NextInv == IInv /\ [Next]_vars => IInv'
<1> SUFFICES ASSUME IInv, [Next]_vars PROVE IInv'
  OBVIOUS
<1>1. CASE UNCHANGED vars
  BY <1>1 DEF vars, IInv, Types, BusHolds, LoopHolds, SlotsHold, AnswerIsOwn, Genuine
<1>2. ASSUME NEW r \in Requests, (\E c \in Commands : Send(r, c)) \/ GiveUp(r) \/ Server(r)
      PROVE  IInv'
  BY <1>2, CallerInv, ResponseInv DEF Server
<1>3. CASE Loop
  BY <1>3, TakeInv, CommandInv, PutInv, ExitInv DEF Loop, Shutdown
<1>4. CASE Killed
  BY <1>4, ExitInv DEF Killed
<1>. QED
  BY <1>1, <1>2, <1>3, <1>4 DEF Next

-----------------------------------------------------------------------------
\* The theorem

\* A caller is only ever answered about its own command, and "ok" only when
\* that command has run: answers left behind by callers that gave up stay in
\* slots nobody else reads.
THEOREM AnswersAreOwn == Spec => []AnswerIsOwn
<1>1. Spec => []IInv
  BY InitInv, NextInv, PTL DEF Spec
<1>2. IInv => AnswerIsOwn
  BY DEF IInv
<1>. QED
  BY <1>1, <1>2, PTL
=============================================================================
