----------------------- MODULE SocketController_proofs -----------------------
(***************************************************************************)
(* The safety of the controller client for any number of callers, any set  *)
(* of reports and any number of connections.                               *)
(***************************************************************************)
EXTENDS SocketController, TLAPS

(* What the properties rest on, beyond themselves: at most one frame is    *)
(* being written; a task that has no published session has left nothing    *)
(* behind for a caller; between the two steps of disconnect() nobody can   *)
(* write; and only a socket that was dialed can be torn, the current one   *)
(* only after its session was invalidated.                                 *)
Dialing == worker \in {"connect", "greet", "publish", "done"}
Support ==
  /\ \A c, d \in Callers : pc[c] = "writing" /\ pc[d] = "writing" => c = d
  /\ \A c \in Callers : pc[c] = "writing" => taken[c] # 0
  /\ Dialing => ~connected
  /\ Dialing \/ worker \in {"mark", "lastMark"} => slot = 0 /\ WriterFree
  /\ worker \in {"greet", "publish"} => dialed # 0
  /\ torn \subseteq 1..dialed
  /\ dialed \in torn => ~connected /\ worker \notin {"greet", "publish"}

IInv == /\ TypeOK
        /\ WriterBelongsToSession
        /\ TornSocketIsNotReused
        /\ ConnectedCanWrite
        /\ NoStatusWhileDisconnected
        /\ Support

\* A full queue is replaced by one event, so no queue outgrows the channel.
LEMMA DeliverBounded ==
  ASSUME NEW q \in Seq(EventSet), Len(q) <= EventCapacity, NEW e \in EventSet
  PROVE  Deliver(q, e) \in Seq(EventSet) /\ Len(Deliver(q, e)) <= EventCapacity
<1>1. CASE Len(q) < EventCapacity
  BY <1>1, ConstantsAssumption DEF Deliver
<1>2. CASE ~(Len(q) < EventCapacity)
  <2>1. Lagged \in EventSet
    BY DEF Lagged, Event, EventSet
  <2>2. Deliver(q, e) = <<Lagged>>
    BY <1>2 DEF Deliver
  <2>. QED BY <2>1, <2>2, ConstantsAssumption
<1>. QED BY <1>1, <1>2

LEMMA Defaults ==
  SomeWcs \in Wcs /\ NoEvent \in EventSet /\ NoOne \notin Callers
BY ConstantsAssumption DEF SomeWcs, NoEvent, Event, EventSet

LEMMA InitIInv == Init => IInv
<1>. SUFFICES ASSUME Init PROVE IInv
  OBVIOUS
<1>1. TypeOK
  <2>1. lines \in Seq(Records) /\ inbox \in [Callers -> Seq(EventSet)]
    BY DEF Init
  <2>2. \A c \in Callers : Len(inbox[c]) <= EventCapacity
    <3>1. Len(<<>>) <= EventCapacity
      BY ConstantsAssumption
    <3>. QED BY <3>1 DEF Init
  <2>3. /\ target \in [Callers -> Wcs] /\ settled \in [Callers -> EventSet]
        /\ initial \in [Callers -> Reports \cup {NoReport}]
    BY Defaults DEF Init
  <2>. QED
    BY <2>1, <2>2, <2>3 DEF Init, TypeOK
<1>2. Support
  BY DEF Init, Support, Dialing, WriterFree
<1>. QED
  BY <1>1, <1>2
  DEF Init, IInv, WriterBelongsToSession, TornSocketIsNotReused,
      ConnectedCanWrite, NoStatusWhileDisconnected

\* Broadcasting keeps every queue well formed.
LEMMA BroadcastTyped ==
  ASSUME TypeOK, NEW t \in {"status", "error", "other", "lost"},
         NEW r \in Reports \cup {NoReport}, Broadcast(t, r)
  PROVE  /\ inbox' \in [Callers -> Seq(EventSet)]
         /\ \A c \in Callers : Len(inbox'[c]) <= EventCapacity
<1>1. Event(t, r, dialed) \in EventSet
  BY DEF Event, EventSet, TypeOK
<1>2. \A c \in Callers : /\ Deliver(inbox[c], Event(t, r, dialed)) \in Seq(EventSet)
                         /\ Len(Deliver(inbox[c], Event(t, r, dialed))) <= EventCapacity
  BY <1>1, DeliverBounded DEF TypeOK
<1>. QED BY <1>2 DEF Broadcast, TypeOK

\* Leaving a call keeps the callers' variables well formed.
LEMMA LeaveCallTyped ==
  ASSUME TypeOK, NEW c \in Callers, LeaveCall(c)
  PROVE  /\ action' \in Callers \cup {NoOne}
         /\ pc' \in [Callers -> {"idle", "checking", "queued", "writing", "waiting"}]
         /\ op' \in [Callers -> {"none", "send", "select", "stop"}]
         /\ target' \in [Callers -> Wcs]
         /\ initial' \in [Callers -> Reports \cup {NoReport}]
         /\ settled' \in [Callers -> EventSet]
         /\ taken' \in [Callers -> Nat]
<1>1. /\ action' \in Callers \cup {NoOne}
      /\ pc' \in [Callers -> {"idle", "checking", "queued", "writing", "waiting"}]
      /\ op' \in [Callers -> {"none", "send", "select", "stop"}]
  BY DEF TypeOK, LeaveCall
<1>2. target' \in [Callers -> Wcs] /\ settled' \in [Callers -> EventSet]
  BY Defaults DEF TypeOK, LeaveCall
<1>3. initial' \in [Callers -> Reports \cup {NoReport}] /\ taken' \in [Callers -> Nat]
  BY DEF TypeOK, LeaveCall
<1>. QED BY <1>1, <1>2, <1>3

LEMMA LeaveTyped ==
  ASSUME TypeOK, NEW c \in Callers, Leave(c)
  PROVE  /\ inbox' \in [Callers -> Seq(EventSet)]
         /\ \A d \in Callers : Len(inbox'[d]) <= EventCapacity
BY ConstantsAssumption DEF TypeOK, Leave

LEMMA StepTypeOK == TypeOK /\ [Next]_vars => TypeOK'
<1>. SUFFICES ASSUME TypeOK, [Next]_vars PROVE TypeOK'
  OBVIOUS
<1>1. CASE Dial
  BY <1>1 DEF Dial, TypeOK, storedVars, callVars
<1>2. CASE Greet
  BY <1>2 DEF Greet, TypeOK, storedVars, callVars
<1>3. CASE Publish
  <2>1. UNCHANGED <<lines, action, pc, callVars, inbox, torn, stopping, dialed>>
    BY <1>3 DEF Publish
  <2>2. /\ worker' = "read" /\ slot' = dialed /\ connected' = TRUE
        /\ session' = session + 1 /\ status' = NoReport /\ fresh' = FALSE
    BY <1>3 DEF Publish
  <2>3. slot' \in Nat /\ session' \in Nat
    BY <2>2 DEF TypeOK
  <2>. QED BY <2>1, <2>2, <2>3 DEF TypeOK, callVars
<1>4. CASE ReadFrame
  <2>1. lines' \in Seq(Records)
    BY <1>4, ConstantsAssumption DEF ReadFrame, TypeOK
  <2>. QED BY <1>4, <2>1 DEF ReadFrame, TypeOK, storedVars, callVars
<1>5. CASE ApplyLine
  <2>1. lines' \in Seq(Records) /\ Head(lines) \in Records
    BY <1>5 DEF ApplyLine, Applies, TypeOK
  <2>2. /\ status' \in Reports \cup {NoReport} /\ fresh' \in BOOLEAN
        /\ inbox' \in [Callers -> Seq(EventSet)]
        /\ \A c \in Callers : Len(inbox'[c]) <= EventCapacity
    <3>1. CASE ~connected
      BY <1>5, <3>1 DEF ApplyLine, Applies, TypeOK
    <3>2. CASE connected
      <4>1. /\ Head(lines).type \in {"status", "error", "other", "garbage"}
            /\ Head(lines).report \in Reports \cup {NoReport}
            /\ Head(lines).type = "status" => Head(lines).report \in Reports
        BY <2>1 DEF Records, Record
      <4>2. Head(lines).type # "garbage"
        BY <1>5 DEF ApplyLine, Applies
      <4>3. Broadcast(Head(lines).type, Head(lines).report)
        BY <1>5, <3>2 DEF ApplyLine, Applies
      <4>4. /\ inbox' \in [Callers -> Seq(EventSet)]
            /\ \A c \in Callers : Len(inbox'[c]) <= EventCapacity
        BY <4>1, <4>2, <4>3, BroadcastTyped
      <4>5. status' \in Reports \cup {NoReport} /\ fresh' \in BOOLEAN
        BY <1>5, <3>2, <4>1 DEF ApplyLine, Applies, TypeOK
      <4>. QED BY <4>4, <4>5
    <3>. QED BY <3>1, <3>2 DEF TypeOK
  <2>. QED BY <1>5, <2>1, <2>2 DEF ApplyLine, Applies, TypeOK, callVars
<1>6. CASE FrameDone
  BY <1>6 DEF FrameDone, TypeOK, storedVars, callVars
<1>7. CASE SessionFails
  BY <1>7 DEF SessionFails, TypeOK, storedVars, callVars
<1>8. CASE EmptySlot
  BY <1>8 DEF EmptySlot, TypeOK, storedVars, callVars
<1>9. CASE MarkDisconnected
  <2>1. /\ inbox' \in [Callers -> Seq(EventSet)]
        /\ \A c \in Callers : Len(inbox'[c]) <= EventCapacity
    BY <1>9, BroadcastTyped DEF MarkDisconnected
  <2>. QED BY <1>9, <2>1 DEF MarkDisconnected, Invalidate, TypeOK, callVars
<1>10. CASE Preempt
  BY <1>10 DEF Preempt, PreemptAt, TypeOK, storedVars, callVars
<1>11. CASE Stale
  BY <1>11 DEF Stale, TypeOK, callVars
<1>12. CASE Shutdown
  BY <1>12 DEF Shutdown, TypeOK, storedVars, callVars
<1>13. ASSUME NEW c \in Callers, Caller(c) PROVE TypeOK'
  <2>1. CASE Write(c, "send") \/ Write(c, "stop")
    BY <2>1 DEF Write, TypeOK, storedVars
  <2>2. ASSUME NEW w \in Wcs, BeginSelect(c, w) PROVE TypeOK'
    BY <2>2 DEF BeginSelect, TypeOK, storedVars
  <2>3. CASE CheckSelect(c)
    <3>1. CASE Leave(c)
      BY <2>3, <3>1, LeaveTyped, LeaveCallTyped
      DEF CheckSelect, Leave, TypeOK, storedVars
    <3>2. CASE ~Leave(c)
      BY <2>3, <3>2 DEF CheckSelect, TypeOK, storedVars
    <3>. QED BY <3>1, <3>2
  <2>4. CASE TakeSocket(c)
    <3>1. CASE slot = 0
      BY <2>4, <3>1, LeaveTyped, LeaveCallTyped
      DEF TakeSocket, Leave, TypeOK, storedVars
    <3>2. CASE slot # 0
      <4>1. /\ slot' = 0
            /\ taken' = [taken EXCEPT ![c] = slot]
            /\ pc' = [pc EXCEPT ![c] = "writing"]
            /\ UNCHANGED <<action, op, target, initial, settled, inbox, worker,
                           dialed, lines, storedVars, torn, stopping>>
        BY <2>4, <3>2 DEF TakeSocket
      <4>2. slot' \in Nat /\ taken' \in [Callers -> Nat]
        BY <4>1 DEF TypeOK
      <4>3. pc' \in [Callers -> {"idle", "checking", "queued", "writing",
                                "waiting"}]
        BY <4>1 DEF TypeOK
      <4>. QED BY <4>1, <4>2, <4>3 DEF TypeOK, storedVars
    <3>. QED BY <3>1, <3>2
  <2>5. CASE FrameWritten(c)
    <3>1. CASE op[c] = "send"
      BY <2>5, <3>1, LeaveTyped, LeaveCallTyped
      DEF FrameWritten, Leave, TypeOK, storedVars
    <3>2. CASE op[c] # "send"
      BY <2>5, <3>2 DEF FrameWritten, TypeOK, storedVars, callVars
    <3>. QED BY <3>1, <3>2
  <2>6. CASE FrameCut(c)
    <3>1. Event("lost", NoReport, dialed) \in EventSet
      BY DEF Event, EventSet, TypeOK
    <3>2. \A d \in Callers :
            /\ Deliver(inbox[d], Event("lost", NoReport, dialed)) \in Seq(EventSet)
            /\ Len(Deliver(inbox[d], Event("lost", NoReport, dialed))) <= EventCapacity
      BY <3>1, DeliverBounded DEF TypeOK
    <3>3. /\ inbox' \in [Callers -> Seq(EventSet)]
          /\ \A d \in Callers : Len(inbox'[d]) <= EventCapacity
      BY <2>6, <3>2, ConstantsAssumption DEF FrameCut, CutFrame, TypeOK
    <3>. QED BY <2>6, <3>3, LeaveCallTyped DEF FrameCut, CutFrame, Invalidate, TypeOK
  <2>7. CASE Abandon(c) \/ Confirm(c) \/ Refuse(c)
    <3>1. /\ Leave(c)
          /\ UNCHANGED <<worker, dialed, lines, slot, storedVars, torn, stopping>>
      BY <2>7 DEF Abandon, Confirm, Refuse
    <3>. QED BY <3>1, LeaveTyped, LeaveCallTyped DEF Leave, TypeOK, storedVars
  <2>8. CASE PassOver(c)
    <3>1. Head(inbox[c]) \in EventSet /\ Tail(inbox[c]) \in Seq(EventSet)
      BY <2>8 DEF PassOver, TypeOK
    <3>2. Len(Tail(inbox[c])) <= EventCapacity
      BY <2>8, ConstantsAssumption DEF PassOver, TypeOK
    <3>3. settled' \in [Callers -> EventSet]
      BY <2>8, <3>1, Defaults DEF PassOver, NextSettled, TypeOK
    <3>. QED BY <2>8, <3>1, <3>2, <3>3 DEF PassOver, TypeOK, storedVars
  <2>. QED BY <1>13, <2>1, <2>2, <2>3, <2>4, <2>5, <2>6, <2>7, <2>8 DEF Caller
<1>14. CASE UNCHANGED vars
  BY <1>14 DEF vars, TypeOK, storedVars, callVars
<1>. QED BY <1>1, <1>2, <1>3, <1>4, <1>5, <1>6, <1>7, <1>8, <1>9, <1>10,
            <1>11, <1>12, <1>13, <1>14 DEF Next, Session

\* A step of the task that leaves the callers, the slot and the stored state
\* alone preserves the invariant when the task's place still allows them.
LEMMA StepSession == IInv /\ Session => IInv'
<1>. SUFFICES ASSUME IInv, Session PROVE IInv'
  OBVIOUS
<1>. USE DEF IInv, WriterBelongsToSession, TornSocketIsNotReused,
         ConnectedCanWrite, NoStatusWhileDisconnected, Support, Dialing,
         WriterFree
<1>t. TypeOK'
  BY StepTypeOK DEF Next
<1>1. CASE Dial
  BY <1>1, <1>t DEF Dial, storedVars, callVars, TypeOK
<1>2. CASE Greet
  BY <1>2, <1>t DEF Greet, storedVars, callVars, TypeOK
<1>3. CASE Publish
  <2>1. /\ worker = "publish" /\ worker' = "read" /\ slot' = dialed
        /\ connected' = TRUE /\ WriterFree
        /\ UNCHANGED <<dialed, pc, taken, torn>>
    BY <1>3 DEF Publish, callVars
  <2>2. dialed \in Nat /\ dialed # 0 /\ dialed \notin torn
    BY <2>1 DEF TypeOK
  <2>3. WriterBelongsToSession' /\ TornSocketIsNotReused'
    BY <2>1, <2>2
  <2>4. ConnectedCanWrite' /\ NoStatusWhileDisconnected'
    BY <2>1, <2>2
  <2>5. Support'
    BY <2>1, <2>2
  <2>. QED BY <1>t, <2>3, <2>4, <2>5
<1>4. CASE ReadFrame
  BY <1>4, <1>t DEF ReadFrame, storedVars, callVars, TypeOK
<1>5. CASE ApplyLine
  BY <1>5, <1>t DEF ApplyLine, Applies, callVars, TypeOK
<1>6. CASE FrameDone
  BY <1>6, <1>t DEF FrameDone, storedVars, callVars, TypeOK
<1>7. CASE SessionFails
  BY <1>7, <1>t DEF SessionFails, storedVars, callVars, TypeOK
<1>8. CASE EmptySlot
  <2>1. /\ worker \in {"clear", "lastClear"} /\ WriterFree /\ slot' = 0
        /\ worker' \in {"mark", "lastMark"}
        /\ UNCHANGED <<dialed, connected, status, fresh, pc, taken, torn>>
    BY <1>8 DEF EmptySlot, storedVars, callVars
  <2>2. 0 \notin torn'
    BY <2>1, <1>t
  <2>3. WriterBelongsToSession' /\ TornSocketIsNotReused'
    BY <2>1, <2>2
  <2>4. ConnectedCanWrite' /\ NoStatusWhileDisconnected' /\ Support'
    BY <2>1
  <2>. QED BY <1>t, <2>3, <2>4
<1>9. CASE MarkDisconnected
  BY <1>9, <1>t DEF MarkDisconnected, Invalidate, callVars, TypeOK
<1>10. CASE Preempt
  BY <1>10, <1>t DEF Preempt, PreemptAt, storedVars, callVars, TypeOK
<1>. QED BY <1>1, <1>2, <1>3, <1>4, <1>5, <1>6, <1>7, <1>8, <1>9, <1>10
         DEF Session

LEMMA StepCaller ==
  ASSUME NEW c \in Callers, IInv, Caller(c) PROVE IInv'
<1>. USE DEF IInv, WriterBelongsToSession, TornSocketIsNotReused,
         ConnectedCanWrite, NoStatusWhileDisconnected, Support, Dialing,
         WriterFree
<1>t. TypeOK'
  BY StepTypeOK DEF Next
\* All but four steps leave the slot, the stored state and the set of writers.
<1>1. ASSUME UNCHANGED <<worker, dialed, slot, storedVars, torn>>,
             \A d \in Callers : /\ pc'[d] = "writing" <=> pc[d] = "writing"
                                /\ pc[d] = "writing" => taken'[d] = taken[d]
      PROVE  IInv'
  BY <1>1, <1>t DEF storedVars
<1>2. CASE Write(c, "send") \/ Write(c, "stop")
  BY <1>1, <1>2 DEF Write, TypeOK, storedVars
<1>3. ASSUME NEW w \in Wcs, BeginSelect(c, w) PROVE IInv'
  BY <1>1, <1>3 DEF BeginSelect, TypeOK, storedVars
<1>4. ASSUME Leave(c), pc[c] # "writing",
             UNCHANGED <<worker, dialed, slot, storedVars, torn>>
      PROVE  IInv'
  BY <1>1, <1>4 DEF Leave, LeaveCall, TypeOK
<1>5. CASE CheckSelect(c)
  <2>1. CASE Leave(c)
    BY <1>4, <1>5, <2>1 DEF CheckSelect
  <2>2. CASE ~Leave(c)
    BY <1>1, <1>5, <2>2 DEF CheckSelect, TypeOK
  <2>. QED BY <2>1, <2>2
<1>6. CASE Abandon(c) \/ Confirm(c) \/ Refuse(c)
  BY <1>4, <1>6 DEF Abandon, Confirm, Refuse
<1>7. CASE PassOver(c)
  BY <1>1, <1>7 DEF PassOver
<1>8. CASE TakeSocket(c)
  <2>1. CASE slot = 0
    BY <1>4, <1>8, <2>1 DEF TakeSocket
  <2>2. CASE slot # 0
    <3>1. /\ WriterFree /\ slot' = 0
          /\ taken' = [taken EXCEPT ![c] = slot]
          /\ pc' = [pc EXCEPT ![c] = "writing"]
          /\ UNCHANGED <<worker, dialed, storedVars, torn>>
      BY <1>8, <2>2 DEF TakeSocket
    <3>2. connected /\ slot = dialed /\ dialed \notin torn /\ 0 \notin torn
      BY <2>2 DEF TypeOK
    <3>3. \A d \in Callers : /\ pc[d] # "writing"
                             /\ pc'[d] = "writing" <=> d = c
                             /\ d = c => taken'[d] = dialed
      BY <3>1, <3>2 DEF TypeOK
    <3>4. WriterBelongsToSession' /\ TornSocketIsNotReused'
      BY <3>1, <3>2, <3>3 DEF storedVars
    <3>5. ConnectedCanWrite' /\ NoStatusWhileDisconnected'
      BY <3>1, <3>2, <3>3 DEF storedVars
    <3>6. Support'
      BY <2>2, <3>1, <3>2, <3>3 DEF storedVars
    <3>. QED BY <1>t, <3>4, <3>5, <3>6
  <2>. QED BY <2>1, <2>2
<1>9. CASE FrameWritten(c)
  <2>1. /\ pc[c] = "writing" /\ slot' = taken[c]
        /\ UNCHANGED <<worker, dialed, storedVars, torn>>
        /\ \A d \in Callers : pc'[d] # "writing"
    BY <1>9 DEF FrameWritten, Leave, LeaveCall, TypeOK
  <2>. QED BY <1>t, <2>1 DEF TypeOK, storedVars
<1>10. CASE FrameCut(c)
  <2>1. /\ pc[c] = "writing" /\ torn' = torn \cup {taken[c]}
        /\ connected' = FALSE /\ status' = NoReport /\ fresh' = FALSE
        /\ UNCHANGED <<worker, dialed, slot>>
        /\ \A d \in Callers : pc'[d] # "writing"
    BY <1>10 DEF FrameCut, CutFrame, Invalidate, LeaveCall, TypeOK
  <2>2. slot' = 0 /\ taken[c] = dialed /\ dialed # 0 /\ 0 \notin torn
        /\ ~Dialing /\ worker \notin {"mark", "lastMark"}
    BY <2>1 DEF TypeOK
  <2>3. torn' \subseteq 1..dialed /\ 0 \notin torn'
    BY <2>1, <2>2 DEF TypeOK
  <2>4. WriterBelongsToSession' /\ TornSocketIsNotReused'
    BY <2>1, <2>2, <2>3
  <2>5. ConnectedCanWrite' /\ NoStatusWhileDisconnected' /\ Support'
    BY <2>1, <2>2, <2>3
  <2>. QED BY <1>t, <2>4, <2>5
<1>. QED BY <1>2, <1>3, <1>5, <1>6, <1>7, <1>8, <1>9, <1>10 DEF Caller

LEMMA Inductive == IInv /\ [Next]_vars => IInv'
<1>. SUFFICES ASSUME IInv, [Next]_vars PROVE IInv'
  OBVIOUS
<1>t. TypeOK'
  BY StepTypeOK DEF IInv
<1>1. CASE Session
  BY <1>1, StepSession
<1>2. ASSUME NEW c \in Callers, Caller(c) PROVE IInv'
  BY <1>2, StepCaller
<1>3. ASSUME UNCHANGED <<worker, dialed, slot, connected, status, pc, taken, torn>>,
             fresh' => fresh
      PROVE  IInv'
  BY <1>3, <1>t DEF IInv, WriterBelongsToSession, TornSocketIsNotReused,
     ConnectedCanWrite, NoStatusWhileDisconnected, Support, Dialing, WriterFree
<1>4. CASE Stale \/ Shutdown \/ UNCHANGED vars
  BY <1>3, <1>4 DEF Stale, Shutdown, vars, storedVars, callVars
<1>. QED BY <1>1, <1>2, <1>4 DEF Next

THEOREM Invariance == Spec => []IInv
<1>1. Init => IInv
  BY InitIInv
<1>2. IInv /\ [Next]_vars => IInv'
  BY Inductive
<1>. QED BY <1>1, <1>2, PTL DEF Spec

(* Every variable of the client keeps its type, and no event queue outgrows *)
(* the broadcast channel.                                                   *)
THEOREM TypeCorrect == Spec => []TypeOK
<1>1. IInv => TypeOK
  BY DEF IInv
<1>. QED BY <1>1, Invariance, PTL

(* A writer that is slow, cancelled or failing acts on its own session only. *)
THEOREM WriterStaysInSession == Spec => []WriterBelongsToSession
<1>1. IInv => WriterBelongsToSession
  BY DEF IInv
<1>. QED BY <1>1, Invariance, PTL

(* No byte follows half a frame.                                             *)
THEOREM NoReuseOfTornSocket == Spec => []TornSocketIsNotReused
<1>1. IInv => TornSocketIsNotReused
  BY DEF IInv
<1>. QED BY <1>1, Invariance, PTL

(* A connected controller can be written to, now or after one frame.         *)
THEOREM NeverConnectedButMute == Spec => []ConnectedCanWrite
<1>1. IInv => ConnectedCanWrite
  BY DEF IInv
<1>. QED BY <1>1, Invariance, PTL

(* A disconnected state shows no report.                                     *)
THEOREM NoStaleStatus == Spec => []NoStatusWhileDisconnected
<1>1. IInv => NoStatusWhileDisconnected
  BY DEF IInv
<1>. QED BY <1>1, Invariance, PTL

(* After shutdown() returned nothing can be written.                         *)
THEOREM FinalShutdown == Spec => []ShutdownIsFinal
<1>1. IInv => ShutdownIsFinal
  BY DEF IInv, Support, Dialing, ShutdownIsFinal
<1>. QED BY <1>1, Invariance, PTL

(* A session id names one connection: becoming connected takes a new, larger *)
(* one, and while connected neither the id nor the socket changes.           *)
THEOREM SessionIdentity == Spec => SessionNamesConnection
<1>. DEFINE Named == /\ session' >= session
                     /\ connected' =>
                          \/ connected /\ session' = session /\ dialed' = dialed
                          \/ ~connected /\ session' > session
<1>1. IInv /\ [Next]_vars => [Named]_vars
  <2>. SUFFICES ASSUME IInv, [Next]_vars PROVE Named \/ UNCHANGED vars
    OBVIOUS
  <2>0. session \in Nat /\ (Dialing => ~connected)
    BY DEF IInv, TypeOK, Support
  <2>1. CASE Dial \/ Publish
    BY <2>0, <2>1 DEF Dial, Publish, Dialing, storedVars
  <2>2. ASSUME UNCHANGED <<session, dialed>>, connected' => connected
        PROVE  Named
    BY <2>0, <2>2
  <2>3. CASE Session /\ ~Dial /\ ~Publish
    BY <2>2, <2>3
    DEF Session, Greet, ReadFrame, ApplyLine, FrameDone, SessionFails,
        EmptySlot, MarkDisconnected, Invalidate, Preempt, PreemptAt, storedVars
  <2>4. ASSUME NEW c \in Callers, Caller(c) PROVE Named
    BY <2>2, <2>4
    DEF Caller, Write, BeginSelect, CheckSelect, TakeSocket, FrameWritten,
        FrameCut, CutFrame, Invalidate, Abandon, Confirm, Refuse, PassOver, storedVars
  <2>5. CASE Stale \/ Shutdown
    BY <2>2, <2>5 DEF Stale, Shutdown, storedVars
  <2>. QED BY <2>1, <2>3, <2>4, <2>5 DEF Next
<1>. QED BY <1>1, Invariance, PTL DEF Spec, SessionNamesConnection

-----------------------------------------------------------------------------
(* What a confirmation rests on.  The loss of a connection is broadcast    *)
(* before the task dials again, so a queue of events is cut by a "lost" or *)
(* a "lagged" wherever it passes from one connection to a later one; a     *)
(* wait ends there.  Sound(q, S, i, live): from its i-th event on, the     *)
(* queue q is of the connections S up to its first cut, and so will be     *)
(* what is broadcast next while `live` holds.                              *)
Stops(e) == e.type \in {"lost", "lagged"}
Cut(q, i, j) == \E k \in i..j : Stops(q[k])
Sound(q, S, i, live) ==
  /\ \A j \in i..Len(q) : q[j].origin \in S \/ Cut(q, i, j)
  /\ live \/ Cut(q, i, Len(q))
Linked(q, d, dialing) ==
  \A i \in 1..Len(q) :
    q[i].origin <= d /\ Sound(q, {q[i].origin}, i, q[i].origin = d /\ ~dialing)

Current(o) == o = dialed /\ ~Dialing
Subscribed(c) == op[c] \in {"select", "stop"}
Heard(c) ==
  /\ pc[c] = "idle" <=> op[c] = "none"
  /\ pc[c] = "waiting" => Subscribed(c)
  /\ ~Subscribed(c) => inbox[c] = <<>>
  /\ settled[c] # NoEvent => pc[c] = "waiting"
  /\ Linked(inbox[c], dialed, Dialing)
  /\ settled[c] # NoEvent => Sound(inbox[c], {settled[c].origin}, 1, Current(settled[c].origin))
  /\ pc[c] = "waiting" => Sound(inbox[c], 0..taken[c], 1, Current(taken[c]))

LEMMA Appended ==
  ASSUME NEW q \in Seq(EventSet), NEW e \in EventSet
  PROVE  /\ Len(q) \in Nat /\ Len(Append(q, e)) = Len(q) + 1
         /\ Append(q, e)[Len(q) + 1] = e
         /\ \A i \in 1..Len(q) : Append(q, e)[i] = q[i]
OBVIOUS

LEMMA Received ==
  ASSUME NEW q \in Seq(EventSet), q # <<>>
  PROVE  /\ Head(q) = q[1] /\ q[1] \in EventSet /\ Len(q) \in Nat \ {0}
         /\ Tail(q) \in Seq(EventSet) /\ Len(Tail(q)) = Len(q) - 1
         /\ \A i \in 1..Len(Tail(q)) : Tail(q)[i] = q[i + 1]
<1>1. /\ Head(q) = q[1] /\ q[1] \in EventSet /\ Len(q) \in Nat \ {0}
      /\ Tail(q) \in Seq(EventSet) /\ Len(Tail(q)) = Len(q) - 1
  OBVIOUS
<1>2. \A i \in 1..Len(Tail(q)) : Tail(q)[i] = q[i + 1]
  BY <1>1
<1>. QED BY <1>1, <1>2

\* An event of a connection in S, or one that stops a wait, keeps a queue sound.
LEMMA SoundAppended ==
  ASSUME NEW q \in Seq(EventSet), NEW e \in EventSet, NEW S, NEW i \in 1..(Len(q) + 1),
         NEW live \in BOOLEAN, NEW live2 \in BOOLEAN,
         i \in 1..Len(q) => Sound(q, S, i, live), i = Len(q) + 1 => e.origin \in S /\ live,
         live => e.origin \in S, live => live2 \/ Stops(e)
  PROVE  Sound(Append(q, e), S, i, live2)
<1>1. PICK a : a = Append(q, e)
  OBVIOUS
<1>2. /\ Len(q) \in Nat /\ Len(a) = Len(q) + 1 /\ a[Len(q) + 1] = e
      /\ \A j \in 1..Len(q) : a[j] = q[j]
  BY <1>1, Appended
<1>3. ASSUME NEW j \in i..Len(q), Cut(q, i, j) PROVE Cut(a, i, j) /\ Cut(a, i, Len(a))
  <2>1. PICK k \in i..j : Stops(q[k])
    BY <1>3 DEF Cut
  <2>2. k \in 1..Len(q) /\ k \in i..Len(a)
    BY <1>2, <2>1
  <2>. QED BY <1>2, <2>1, <2>2 DEF Cut
<1>4. Stops(e) => Cut(a, i, Len(a))
  <2>1. Len(a) \in i..Len(a)
    BY <1>2
  <2>. QED BY <1>2, <2>1 DEF Cut
<1>5. ASSUME NEW j \in i..Len(a) PROVE a[j].origin \in S \/ Cut(a, i, j)
  <2>1. CASE j = Len(a)
    <3>1. CASE live
      BY <1>2, <2>1, <3>1
    <3>2. CASE ~live
      <4>1. i \in 1..Len(q) /\ Len(q) \in i..Len(q)
        BY <1>2, <3>2
      <4>2. Cut(q, i, Len(q))
        BY <3>2, <4>1 DEF Sound
      <4>. QED BY <1>3, <2>1, <4>1, <4>2
    <3>. QED BY <3>1, <3>2
  <2>2. CASE j # Len(a)
    <3>1. j \in i..Len(q) /\ j \in 1..Len(q) /\ i \in 1..Len(q)
      BY <1>2, <1>5, <2>2
    <3>. QED BY <1>2, <1>3, <3>1 DEF Sound
  <2>. QED BY <2>1, <2>2
<1>6. live2 \/ Cut(a, i, Len(a))
  <2>1. CASE live
    BY <1>4, <2>1
  <2>2. CASE ~live
    <3>1. i \in 1..Len(q) /\ Len(q) \in i..Len(q)
      BY <1>2, <2>2
    <3>. QED BY <1>3, <2>2, <3>1 DEF Sound
  <2>. QED BY <2>1, <2>2
<1>. QED BY <1>1, <1>5, <1>6 DEF Sound

LEMMA LaggedIsSound ==
  ASSUME NEW S, NEW live
  PROVE  Len(<<Lagged>>) = 1 /\ <<Lagged>>[1].origin = 0 /\ Sound(<<Lagged>>, S, 1, live)
<1>1. Len(<<Lagged>>) = 1 /\ <<Lagged>>[1] = Lagged /\ Stops(Lagged) /\ Lagged.origin = 0
  BY DEF Lagged, Event, Stops
<1>2. \A j \in 1..1 : Cut(<<Lagged>>, 1, j)
  BY <1>1 DEF Cut
<1>. QED BY <1>1, <1>2 DEF Sound

LEMMA SoundDelivered ==
  ASSUME NEW q \in Seq(EventSet), NEW e \in EventSet, NEW S,
         NEW live \in BOOLEAN, NEW live2 \in BOOLEAN, Sound(q, S, 1, live),
         live => e.origin \in S, live => live2 \/ Stops(e)
  PROVE  Sound(Deliver(q, e), S, 1, live2)
<1>1. CASE Deliver(q, e) = <<Lagged>>
  BY <1>1, LaggedIsSound
<1>2. CASE Deliver(q, e) = Append(q, e)
  <2>1. Len(q) \in Nat /\ 1 \in 1..(Len(q) + 1)
    BY Appended
  <2>2. 1 = Len(q) + 1 => live
    <3>1. ASSUME Len(q) = 0 PROVE ~Cut(q, 1, Len(q))
      BY <3>1 DEF Cut
    <3>. QED BY <2>1, <3>1 DEF Sound
  <2>. QED BY <1>2, <2>1, <2>2, SoundAppended
<1>. QED BY <1>1, <1>2 DEF Deliver

LEMMA LinkedDelivered ==
  ASSUME NEW q \in Seq(EventSet), NEW e \in EventSet, NEW d \in Nat, e.origin = d,
         Linked(q, d, FALSE), NEW dialing \in BOOLEAN, dialing => Stops(e)
  PROVE  Linked(Deliver(q, e), d, dialing)
<1>1. CASE Deliver(q, e) = <<Lagged>>
  <2>1. \A i \in 1..Len(<<Lagged>>) : i = 1
    BY LaggedIsSound
  <2>. QED BY <1>1, <2>1, LaggedIsSound DEF Linked
<1>2. CASE Deliver(q, e) = Append(q, e)
  <2>1. PICK a : a = Append(q, e)
    OBVIOUS
  <2>2. /\ Len(q) \in Nat /\ Len(a) = Len(q) + 1 /\ a[Len(q) + 1] = e
        /\ \A j \in 1..Len(q) : a[j] = q[j]
    BY <2>1, Appended
  <2>3. ASSUME NEW i \in 1..Len(a)
        PROVE  a[i].origin <= d /\ Sound(a, {a[i].origin}, i, a[i].origin = d /\ ~dialing)
    <3> DEFINE live == a[i].origin = d
               live2 == a[i].origin = d /\ ~dialing
    <3>1. CASE i = Len(q) + 1
      <4>1. live /\ e.origin \in {a[i].origin} /\ i \in 1..(Len(q) + 1) /\ i \notin 1..Len(q)
        BY <2>2, <3>1
      <4>2. live \in BOOLEAN /\ live2 \in BOOLEAN /\ (live => live2 \/ Stops(e))
        OBVIOUS
      <4>3. a[i].origin <= d
        BY <2>2, <3>1
      <4>. HIDE DEF live, live2
      <4>4. Sound(a, {a[i].origin}, i, live2)
        BY <2>1, <4>1, <4>2, SoundAppended
      <4>. QED BY <4>3, <4>4 DEF live2
    <3>2. CASE i \in 1..Len(q)
      <4>1. a[i] = q[i] /\ q[i].origin <= d /\ Sound(q, {a[i].origin}, i, live)
        BY <2>2, <3>2 DEF Linked
      <4>2. live \in BOOLEAN /\ live2 \in BOOLEAN /\ (live => live2 \/ Stops(e))
            /\ (live => e.origin \in {a[i].origin})
        OBVIOUS
      <4>3. i \in 1..(Len(q) + 1) /\ i # Len(q) + 1
        BY <2>2, <3>2
      <4>. HIDE DEF live, live2
      <4>4. Sound(a, {a[i].origin}, i, live2)
        BY <2>1, <4>1, <4>2, <4>3, SoundAppended
      <4>. QED BY <4>1, <4>4 DEF live2
    <3>. QED BY <2>2, <3>1, <3>2
  <2>. QED BY <1>2, <2>1, <2>3 DEF Linked
<1>. QED BY <1>1, <1>2 DEF Deliver

\* A wait that goes on past an event loses nothing by it.
LEMMA SoundTail ==
  ASSUME NEW q \in Seq(EventSet), q # <<>>, ~Stops(q[1]), NEW S, NEW live, Sound(q, S, 1, live)
  PROVE  Sound(Tail(q), S, 1, live)
<1>1. PICK t : t = Tail(q)
  OBVIOUS
<1>2. /\ Len(q) \in Nat \ {0} /\ Len(t) = Len(q) - 1 /\ \A i \in 1..Len(t) : t[i] = q[i + 1]
  BY <1>1, Received
<1>3. ASSUME NEW j \in 1..Len(q), Cut(q, 1, j) PROVE Cut(t, 1, j - 1)
  <2>1. PICK k \in 1..j : Stops(q[k])
    BY <1>3 DEF Cut
  <2>2. k # 1 /\ k - 1 \in 1..(j - 1) /\ k - 1 \in 1..Len(t) /\ (k - 1) + 1 = k
    BY <1>2, <2>1
  <2>3. Stops(t[k - 1])
    BY <1>2, <2>1, <2>2
  <2>. QED BY <2>2, <2>3 DEF Cut
<1>4. ASSUME NEW j \in 1..Len(t) PROVE t[j].origin \in S \/ Cut(t, 1, j)
  <2>1. j + 1 \in 1..Len(q) /\ (j + 1) - 1 = j /\ t[j] = q[j + 1]
    BY <1>2
  <2>2. Cut(q, 1, j + 1) => Cut(t, 1, j)
    BY <1>3, <2>1
  <2>. QED BY <2>1, <2>2 DEF Sound
<1>5. live \/ Cut(t, 1, Len(t))
  BY <1>2, <1>3 DEF Sound
<1>. QED BY <1>1, <1>4, <1>5 DEF Sound

LEMMA LinkedTail ==
  ASSUME NEW q \in Seq(EventSet), q # <<>>, NEW d, NEW dialing, Linked(q, d, dialing)
  PROVE  Linked(Tail(q), d, dialing)
<1>1. PICK t : t = Tail(q)
  OBVIOUS
<1>2. /\ Len(q) \in Nat \ {0} /\ Len(t) = Len(q) - 1 /\ \A i \in 1..Len(t) : t[i] = q[i + 1]
  BY <1>1, Received
<1>3. ASSUME NEW i \in 1..Len(t)
      PROVE  t[i].origin <= d /\ Sound(t, {t[i].origin}, i, t[i].origin = d /\ ~dialing)
  <2>1. /\ i + 1 \in 1..Len(q) /\ t[i] = q[i + 1]
        /\ q[i + 1].origin <= d
        /\ Sound(q, {t[i].origin}, i + 1, t[i].origin = d /\ ~dialing)
    <3>1. i + 1 \in 1..Len(q) /\ t[i] = q[i + 1]
      BY <1>2
    <3>. QED BY <3>1 DEF Linked
  <2>2. ASSUME NEW j \in (i + 1)..Len(q), Cut(q, i + 1, j) PROVE Cut(t, i, j - 1)
    <3>1. PICK k \in (i + 1)..j : Stops(q[k])
      BY <2>2 DEF Cut
    <3>2. k - 1 \in i..(j - 1) /\ k - 1 \in 1..Len(t) /\ (k - 1) + 1 = k
      BY <1>2, <3>1
    <3>3. Stops(t[k - 1])
      BY <1>2, <3>1, <3>2
    <3>. QED BY <3>2, <3>3 DEF Cut
  <2>3. ASSUME NEW j \in i..Len(t) PROVE t[j].origin \in {t[i].origin} \/ Cut(t, i, j)
    <3>1. j + 1 \in (i + 1)..Len(q) /\ (j + 1) - 1 = j /\ t[j] = q[j + 1]
      BY <1>2
    <3>2. Cut(q, i + 1, j + 1) => Cut(t, i, j)
      BY <2>2, <3>1
    <3>. QED BY <2>1, <3>1, <3>2 DEF Sound
  <2>4. Cut(q, i + 1, Len(q)) => Cut(t, i, Len(t))
    <3>1. Len(q) \in (i + 1)..Len(q) /\ Len(q) - 1 = Len(t)
      BY <1>2, <2>1
    <3>. QED BY <2>2, <3>1
  <2>. QED BY <2>1, <2>3, <2>4 DEF Sound
<1>. QED BY <1>1, <1>3 DEF Linked

\* A step that leaves the caller alone; the task dials again only from where
\* every queue is cut.
LEMMA HeardKept ==
  ASSUME TypeOK, NEW c \in Callers, Heard(c),
         pc'[c] = pc[c], op'[c] = op[c], settled'[c] = settled[c], taken'[c] = taken[c],
         inbox'[c] = inbox[c], dialed' \in Nat, dialed <= dialed',
         ~Dialing => dialed' = dialed /\ ~Dialing'
  PROVE  Heard(c)'
<1>1. \A o : Current(o) => Current(o)'
  BY DEF Current
<1>2. inbox[c] \in Seq(EventSet) /\ dialed \in Nat
  BY DEF TypeOK
<1>3. ASSUME NEW i \in 1..Len(inbox[c])
      PROVE  /\ inbox[c][i].origin <= dialed'
             /\ Sound(inbox[c], {inbox[c][i].origin}, i, inbox[c][i].origin = dialed' /\ ~Dialing')
  <2>1. inbox[c][i].origin \in Nat
    <3>1. inbox[c][i] \in EventSet
      BY <1>2
    <3>. QED BY <3>1 DEF EventSet
  <2>2. /\ inbox[c][i].origin <= dialed
        /\ Sound(inbox[c], {inbox[c][i].origin}, i, inbox[c][i].origin = dialed /\ ~Dialing)
    BY DEF Heard, Linked
  <2>. QED BY <1>2, <2>1, <2>2 DEF Sound
<1>4. Linked(inbox[c], dialed', Dialing')
  BY <1>3 DEF Linked
<1>5. settled[c] # NoEvent =>
        Sound(inbox[c], {settled[c].origin}, 1, Current(settled[c].origin)')
  BY <1>1 DEF Heard, Sound
<1>6. pc[c] = "waiting" => Sound(inbox[c], 0..taken[c], 1, Current(taken[c])')
  BY <1>1 DEF Heard, Sound
<1>. QED BY <1>4, <1>5, <1>6 DEF Heard, Subscribed, Current

\* A broadcast of the session that is being read.
LEMMA HeardBroadcast ==
  ASSUME TypeOK, NEW c \in Callers, Heard(c), NEW e \in EventSet, e.origin = dialed,
         inbox'[c] = IF Subscribed(c) THEN Deliver(inbox[c], e) ELSE inbox[c],
         pc'[c] = pc[c], op'[c] = op[c], settled'[c] = settled[c], taken'[c] = taken[c],
         dialed' = dialed, ~Dialing, Dialing' => Stops(e)
  PROVE  Heard(c)'
<1>1. CASE ~Subscribed(c)
  <2>1. inbox[c] = <<>> /\ pc[c] # "waiting" /\ settled[c] = NoEvent
    BY <1>1 DEF Heard
  <2>. QED BY <1>1, <2>1 DEF Heard, Subscribed, Linked
<1>2. CASE Subscribed(c)
  <2>0. /\ inbox[c] \in Seq(EventSet) /\ dialed \in Nat /\ inbox'[c] = Deliver(inbox[c], e)
        /\ taken[c] \in Nat /\ settled[c] \in EventSet
    BY <1>2 DEF TypeOK
  <2>1. Linked(inbox[c], dialed, FALSE)
    BY DEF Heard, Linked, Sound
  <2>2. Linked(inbox'[c], dialed, Dialing')
    <3>1. Dialing' \in BOOLEAN
      BY DEF Dialing
    <3>. QED BY <2>0, <2>1, <3>1, LinkedDelivered
  <2>3. ASSUME NEW S, NEW o, Sound(inbox[c], S, 1, Current(o)), Current(o) => e.origin \in S
        PROVE  Sound(inbox'[c], S, 1, Current(o)')
    <3> DEFINE live == Current(o)
               live2 == Current(o)'
    <3>1. live \in BOOLEAN /\ live2 \in BOOLEAN /\ (live => live2 \/ Stops(e))
      BY DEF Current
    <3>2. Sound(inbox[c], S, 1, live) /\ (live => e.origin \in S)
      BY <2>3
    <3>. HIDE DEF live, live2
    <3>3. Sound(Deliver(inbox[c], e), S, 1, live2)
      BY <2>0, <3>1, <3>2, SoundDelivered
    <3>. QED BY <2>0, <3>3 DEF live2
  <2>4. settled[c] # NoEvent => Sound(inbox'[c], {settled[c].origin}, 1, Current(settled[c].origin)')
    BY <2>3 DEF Heard, Current
  <2>5. pc[c] = "waiting" => Sound(inbox'[c], 0..taken[c], 1, Current(taken[c])')
    <3>1. Current(taken[c]) => e.origin \in 0..taken[c]
      BY <2>0 DEF Current
    <3>. QED BY <2>3, <3>1 DEF Heard
  <2>. QED BY <1>2, <2>2, <2>4, <2>5 DEF Heard, Subscribed, Current
<1>. QED BY <1>1, <1>2

LEMMA HeardLeft ==
  ASSUME TypeOK, NEW c \in Callers, LeaveCall(c), inbox'[c] = <<>>
  PROVE  Heard(c)'
<1>1. pc'[c] = "idle" /\ op'[c] = "none" /\ settled'[c] = NoEvent
  BY DEF LeaveCall, TypeOK
<1>. QED BY <1>1 DEF Heard, Subscribed, Linked

\* A call of another caller.
LEMMA HeardByOthers ==
  ASSUME IInv, NEW c \in Callers, NEW d \in Callers, d # c, Caller(d), Heard(c)
  PROVE  Heard(c)'
<1>0. TypeOK /\ dialed \in Nat /\ inbox \in [Callers -> Seq(EventSet)] /\ dialed <= dialed
  BY DEF IInv, TypeOK
<1>1. CASE FrameCut(d)
  <2> DEFINE e == Event("lost", NoReport, dialed)
  <2>1. e \in EventSet /\ e.origin = dialed /\ Stops(e)
    BY <1>0 DEF Event, EventSet, Stops
  <2>2. pc[d] = "writing" /\ LeaveCall(d) /\ UNCHANGED <<worker, dialed>>
        /\ inbox'[c] = IF Subscribed(c) THEN Deliver(inbox[c], e) ELSE inbox[c]
    BY <1>1 DEF FrameCut, CutFrame, Subscribed
  <2>3. /\ pc'[c] = pc[c] /\ op'[c] = op[c] /\ settled'[c] = settled[c] /\ taken'[c] = taken[c]
    BY <1>0, <2>2 DEF LeaveCall, TypeOK
  <2>4. ~Dialing /\ ~Dialing'
    BY <2>2 DEF IInv, Support, WriterFree, Dialing
  <2>. HIDE DEF e
  <2>. QED BY <1>0, <2>1, <2>2, <2>3, <2>4, HeardBroadcast
<1>2. CASE ~FrameCut(d)
  <2>1. UNCHANGED <<worker, dialed>>
    BY <1>2 DEF Caller, Write, BeginSelect, CheckSelect, TakeSocket, FrameWritten, Abandon, Confirm,
                Refuse, PassOver
  <2>2. /\ pc'[c] = pc[c] /\ op'[c] = op[c]
    BY <1>0, <1>2 DEF Caller, Write, BeginSelect, CheckSelect, TakeSocket, FrameWritten, Abandon,
                Confirm, Refuse, PassOver, Leave, LeaveCall, callVars, TypeOK
  <2>3. settled'[c] = settled[c] /\ taken'[c] = taken[c]
    BY <1>0, <1>2 DEF Caller, Write, BeginSelect, CheckSelect, TakeSocket, FrameWritten, Abandon,
                Confirm, Refuse, PassOver, Leave, LeaveCall, callVars, TypeOK
  <2>4. inbox'[c] = inbox[c]
    BY <1>0, <1>2 DEF Caller, Write, BeginSelect, CheckSelect, TakeSocket, FrameWritten, Abandon,
                Confirm, Refuse, PassOver, Leave, callVars, TypeOK
  <2>. QED BY <1>0, <2>1, <2>2, <2>3, <2>4, HeardKept DEF Dialing
<1>. QED BY <1>1, <1>2

\* A call of its own.
LEMMA HeardByItself ==
  ASSUME IInv, NEW c \in Callers, Caller(c), Heard(c)
  PROVE  Heard(c)'
<1>0. /\ TypeOK /\ dialed \in Nat /\ inbox[c] \in Seq(EventSet) /\ taken[c] \in Nat
      /\ settled[c] \in EventSet
  BY DEF IInv, TypeOK
<1>1. ASSUME Leave(c) PROVE Heard(c)'
  BY <1>0, <1>1, HeardLeft DEF Leave, TypeOK
<1>2. CASE FrameCut(c)
  BY <1>0, <1>2, HeardLeft DEF FrameCut, CutFrame
\* Before the frame is out nothing is waited for.
<1>3. ASSUME UNCHANGED <<worker, dialed, inbox, settled>>, settled[c] = NoEvent,
             pc'[c] \in {"checking", "queued", "writing"}, op'[c] # "none",
             Subscribed(c) => Subscribed(c)'
      PROVE  Heard(c)'
  BY <1>3 DEF Heard, Subscribed, Dialing
<1>4. pc[c] # "waiting" => settled[c] = NoEvent
  BY DEF Heard
<1>5. CASE Write(c, "send") \/ Write(c, "stop")
  BY <1>0, <1>3, <1>4, <1>5 DEF Write, TypeOK, Heard, Subscribed
<1>6. ASSUME NEW w \in Wcs, BeginSelect(c, w) PROVE Heard(c)'
  BY <1>0, <1>3, <1>4, <1>6 DEF BeginSelect, TypeOK, Heard, Subscribed
<1>7. CASE CheckSelect(c) /\ ~Leave(c)
  BY <1>0, <1>3, <1>4, <1>7 DEF CheckSelect, TypeOK, Heard, Subscribed
<1>8. CASE TakeSocket(c) /\ ~Leave(c)
  BY <1>0, <1>3, <1>4, <1>8 DEF TakeSocket, TypeOK, Heard, Subscribed
<1>9. CASE FrameWritten(c) /\ ~Leave(c)
  <2>1. /\ pc[c] = "writing" /\ op[c] # "send" /\ pc'[c] = "waiting"
        /\ UNCHANGED <<worker, dialed, inbox, settled, op, taken>>
    BY <1>0, <1>9 DEF FrameWritten, TypeOK, callVars
  <2>2. taken[c] = dialed /\ ~Dialing
    BY <2>1 DEF IInv, WriterBelongsToSession, Support, WriterFree
  <2>3. op[c] \in {"select", "stop"}
    BY <2>1 DEF Heard, IInv, TypeOK
  <2>4. \A i \in 1..Len(inbox[c]) : inbox[c][i].origin \in 0..taken[c]
    <3>1. ASSUME NEW i \in 1..Len(inbox[c]) PROVE inbox[c][i].origin \in 0..taken[c]
      <4>1. inbox[c][i] \in EventSet
        BY <1>0
      <4>3. inbox[c][i].origin <= dialed
        BY DEF Heard, Linked
      <4>2. inbox[c][i].origin \in Nat
        BY <4>1 DEF EventSet
      <4>. QED BY <1>0, <2>2, <4>2, <4>3
    <3>. QED BY <3>1
  <2>5. Sound(inbox[c], 0..taken[c], 1, TRUE)
    BY <2>4 DEF Sound
  <2>. QED BY <1>4, <2>1, <2>2, <2>3, <2>5 DEF Heard, Subscribed, Current, Dialing, Sound
<1>10. CASE PassOver(c)
  <2>1. /\ pc[c] = "waiting" /\ inbox[c] # <<>> /\ inbox'[c] = Tail(inbox[c])
        /\ ~SelectRefused(c, Head(inbox[c])) /\ ~StopRefused(c, Head(inbox[c]))
        /\ UNCHANGED <<worker, dialed, pc, op, taken>>
        /\ \E gap \in BOOLEAN : settled'[c] = NextSettled(c, Head(inbox[c]), gap)
    BY <1>0, <1>10 DEF PassOver, TypeOK
  <2>2. Head(inbox[c]) = inbox[c][1] /\ inbox[c][1] \in EventSet /\ 1 \in 1..Len(inbox[c])
    BY <1>0, <2>1, Received
  <2>3. Subscribed(c) /\ ~Stops(inbox[c][1])
    BY <2>1, <2>2 DEF Heard, Subscribed, Stops, SelectRefused, StopRefused
  <2>4. Linked(inbox'[c], dialed, Dialing) /\ Sound(inbox'[c], 0..taken[c], 1, Current(taken[c]))
    BY <1>0, <2>1, <2>3, LinkedTail, SoundTail DEF Heard
  <2>5. settled'[c] \in {settled[c], NoEvent, inbox[c][1]}
    BY <2>1, <2>2 DEF NextSettled
  <2>6. Sound(inbox[c], {inbox[c][1].origin}, 1, Current(inbox[c][1].origin))
    BY <2>2 DEF Heard, Linked, Current
  <2>7. settled'[c] # NoEvent =>
          Sound(inbox[c], {settled'[c].origin}, 1, Current(settled'[c].origin))
    BY <2>5, <2>6 DEF Heard
  <2>8. settled'[c] # NoEvent =>
          Sound(inbox'[c], {settled'[c].origin}, 1, Current(settled'[c].origin))
    BY <1>0, <2>1, <2>3, <2>7, SoundTail
  <2>. QED BY <2>1, <2>3, <2>4, <2>8 DEF Heard, Subscribed, Current, Dialing
<1>. QED BY <1>1, <1>2, <1>5, <1>6, <1>7, <1>8, <1>9, <1>10
     DEF Caller, Abandon, Confirm, Refuse

\* A step of the task, of time or of a shutdown.
LEMMA HeardFromTask ==
  ASSUME IInv, NEW c \in Callers, Session \/ Stale \/ Shutdown \/ UNCHANGED vars, Heard(c)
  PROVE  Heard(c)'
<1>0. TypeOK /\ dialed \in Nat /\ dialed <= dialed /\ dialed <= dialed + 1 /\ dialed + 1 \in Nat
  BY DEF IInv, TypeOK
<1>1. CASE ApplyLine /\ connected
  <2>1. /\ worker = "apply" /\ lines # <<>> /\ Head(lines).type # "garbage" /\ worker' = worker
        /\ Broadcast(Head(lines).type, Head(lines).report) /\ UNCHANGED <<dialed, pc, callVars>>
    BY <1>1 DEF ApplyLine, Applies
  <2>2. Head(lines) \in Records
    BY <1>0, <2>1 DEF TypeOK
  <2>3. PICK e \in EventSet : e = Event(Head(lines).type, Head(lines).report, dialed)
    <3>1. /\ Head(lines).type \in {"status", "error", "other", "garbage"}
          /\ Head(lines).report \in Reports \cup {NoReport}
      BY <2>2 DEF Records, Record
    <3>. QED BY <1>0, <2>1, <3>1 DEF Event, EventSet
  <2>4. e.origin = dialed /\ inbox'[c] = IF Subscribed(c) THEN Deliver(inbox[c], e) ELSE inbox[c]
    BY <2>1, <2>3 DEF Broadcast, Subscribed, Event
  <2>5. ~Dialing /\ ~Dialing'
    BY <2>1 DEF Dialing
  <2>. QED BY <1>0, <2>1, <2>4, <2>5, HeardBroadcast DEF callVars
<1>2. CASE MarkDisconnected
  <2>1. /\ worker \in {"mark", "lastMark"} /\ Broadcast("lost", NoReport)
        /\ worker' \in {"connect", "done"} /\ UNCHANGED <<dialed, pc, callVars>>
    BY <1>2 DEF MarkDisconnected
  <2>2. PICK e \in EventSet : e = Event("lost", NoReport, dialed)
    BY <1>0 DEF Event, EventSet
  <2>3. e.origin = dialed /\ Stops(e)
        /\ inbox'[c] = IF Subscribed(c) THEN Deliver(inbox[c], e) ELSE inbox[c]
    BY <2>1, <2>2 DEF Broadcast, Subscribed, Event, Stops
  <2>4. ~Dialing
    BY <2>1 DEF Dialing
  <2>. QED BY <1>0, <2>1, <2>3, <2>4, HeardBroadcast DEF callVars
<1>3. CASE Dial
  <2>1. UNCHANGED <<pc, callVars, inbox>> /\ dialed' = dialed + 1 /\ worker = "connect"
    BY <1>3 DEF Dial
  <2>. QED BY <1>0, <2>1, HeardKept DEF Dialing, callVars
<1>4. CASE ~(ApplyLine /\ connected) /\ ~MarkDisconnected /\ ~Dial
  <2>1. UNCHANGED <<pc, callVars, inbox, dialed>>
    BY <1>4 DEF Session, Greet, Publish, ReadFrame, ApplyLine, Applies, FrameDone, SessionFails,
       EmptySlot, Preempt, PreemptAt, Stale, Shutdown, vars, storedVars
  <2>2. ~Dialing => ~Dialing'
    BY <1>4 DEF Dialing, Session, Greet, Publish, ReadFrame, ApplyLine, Applies, FrameDone,
       SessionFails, EmptySlot, Preempt, PreemptAt, Stale, Shutdown, vars
  <2>. QED BY <1>0, <2>1, <2>2, HeardKept DEF callVars
<1>. QED BY <1>1, <1>2, <1>3, <1>4

\* A confirmation is of the connection the command went out on, or of one
\* before it that the caller heard first; the two reports that confirm a stop
\* are of one connection.
THEOREM OwnConnectionConfirms == Spec => ConfirmedByOwnConnection
<1> DEFINE Own == \A c \in Callers : Confirm(c) =>
                    /\ Head(inbox[c]).origin <= taken[c]
                    /\ op[c] = "stop" => settled[c].origin = Head(inbox[c]).origin
           AllHeard == \A c \in Callers : Heard(c)
<1>1. Init => AllHeard
  <2> SUFFICES ASSUME Init, NEW c \in Callers PROVE Heard(c)
    OBVIOUS
  <2>1. pc[c] = "idle" /\ op[c] = "none" /\ settled[c] = NoEvent /\ inbox[c] = <<>>
    BY DEF Init
  <2>. QED BY <2>1 DEF Heard, Subscribed, Linked
<1>2. IInv /\ AllHeard /\ [Next]_vars => AllHeard'
  BY HeardByOthers, HeardByItself, HeardFromTask DEF Next
<1>3. IInv /\ AllHeard => Own
  <2> SUFFICES ASSUME IInv, AllHeard, NEW c \in Callers, Confirm(c)
               PROVE  /\ Head(inbox[c]).origin <= taken[c]
                      /\ op[c] = "stop" => settled[c].origin = Head(inbox[c]).origin
    OBVIOUS
  <2>1. /\ pc[c] = "waiting" /\ inbox[c] # <<>> /\ inbox[c] \in Seq(EventSet) /\ taken[c] \in Nat
        /\ \E gap, late \in BOOLEAN : Confirmed(c, gap, late) /\ Heard(c)
    BY DEF Confirm, IInv, TypeOK
  <2>2. Head(inbox[c]) = inbox[c][1] /\ inbox[c][1] \in EventSet /\ 1 \in 1..Len(inbox[c])
    BY <2>1, Received
  <2>3. inbox[c][1].type = "status" /\ (op[c] = "stop" => settled[c] # NoEvent)
    BY <2>1, <2>2 DEF Confirmed, SelectConfirmed, StopConfirmed, Standing
  <2>4. ~Cut(inbox[c], 1, 1)
    BY <2>3 DEF Cut, Stops
  <2>5. inbox[c][1].origin \in 0..taken[c]
    BY <2>1, <2>2, <2>4 DEF Heard, Sound
  <2>6. op[c] = "stop" => inbox[c][1].origin \in {settled[c].origin}
    BY <2>1, <2>2, <2>3, <2>4 DEF Heard, Sound
  <2>. QED BY <2>1, <2>2, <2>5, <2>6
<1>4. IInv /\ AllHeard /\ [Next]_vars => [Own]_vars
  BY <1>3
<1>. QED BY <1>1, <1>2, <1>4, Invariance, PTL DEF Spec, ConfirmedByOwnConnection
===============================================================================
