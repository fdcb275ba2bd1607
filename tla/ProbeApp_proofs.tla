--------------------------- MODULE ProbeApp_proofs ---------------------------
(***************************************************************************)
(* Machine ownership for any number of requests, reviews, connections and  *)
(* any capacity of the event channel.                                      *)
(***************************************************************************)
EXTENDS ProbeApp, TLAPS

(* Where a request can be depends on what it asks.                         *)
Paths == \A t \in Tasks :
  /\ Kind(t) \notin {"repeat", "other"} => Store(t) \in Stores
  /\ pc[t] \in {"holding", "reading", "checking", "taking"} =>
       Kind(t) \notin {"repeat", "other"}
  /\ pc[t] = "starting" => Kind(t) = "repeat"
  /\ pc[t] \in {"failed", "stopping", "waiting"} => Kind(t) \in Streams \cup {"zero"}
  /\ pc[t] \in {"ending", "reporting", "done"} => Kind(t) \in Streams
  /\ pc[t] = "releasing" => Kind(t) \in Streams \cup {"zero"}

(* The guard is held by the request whose step comes next, or by shutdown. *)
Guarded ==
  /\ \A t \in Tasks : pc[t] \in Held <=> holder = t
  /\ holder = Service <=> closing = "closing"
  /\ closing = "queued" => holder \in Tasks

(* A machine moves for the request that is working or recovering, or has   *)
(* been given up; recovery_failed tells, and is only left behind then.     *)
Recovering == {"stopping", "waiting"}
Leftover ==
  /\ blocked => moving = NoOne
  /\ \A t \in Tasks : pc[t] = "waiting" => recoveryFailed
  /\ moving # NoOne =>
       \/ Kind(moving) \in Streams /\ pc[moving] \in {"working", "failed"} \cup Recovering
       \/ recoveryFailed /\ closing # "open"
  /\ recoveryFailed =>
       \/ holder \in Tasks /\ pc[holder] \in Recovering
       \/ /\ closing # "open"
          /\ holder \in Tasks => pc[holder] \in {"ending", "reporting", "releasing"}

(* The contact flag and the stop token belong to the run.                  *)
Running == {"working", "failed", "ending"} \cup Recovering
Contact ==
  /\ active => holder \in Tasks /\ Kind(holder) \in Streams /\ pc[holder] \in Running
  /\ stopToken # NoOne =>
       active /\ holder = stopToken /\ Kind(stopToken) = "repeat"

(* The last slot of a channel is free until the terminal event, and an     *)
(* Operation exists as long as its task runs.                              *)
Channels == \A t \in Tasks :
  /\ queued[t] < Capacity
  /\ terminal[t] = "lost" => handle[t] = "dropped"
  /\ pc[t] \notin {"releasing", "done"} \/ Kind(t) \notin Streams => terminal[t] = "none"
  /\ pc[t] \in Running \cup {"reporting"} /\ Kind(t) \in Streams => handle[t] # "none"

IInv == TypeOK /\ Paths /\ Guarded /\ Leftover /\ Contact /\ Channels

\* The constants that stand for nothing have the types of what they replace.
LEMMA Defaults ==
  /\ Nothing \in Entries /\ NoCall \in Calls
  /\ NoOne \notin Tasks /\ Service \notin Tasks /\ NoOne # Service
BY AppAssumption DEF Nothing, Entries, NoCall, Calls, AllKinds, Streams, Results

\* ProbeApp::new gives a service with no request under way.
LEMMA InitIInv == Init => IInv
<1>. SUFFICES ASSUME Init PROVE IInv
  OBVIOUS
<1>1. TypeOK
  <2>1. 0 \in 0..Capacity /\ 0 \in 0..MaxReviews
    BY AppAssumption
  <2>2. /\ pending \in [Stores -> Entries] /\ completed \in [Stores -> Entries]
        /\ took \in [Tasks -> Entries] /\ call \in [Tasks -> Calls]
    BY Defaults DEF Init
  <2>3. queued \in [Tasks -> 0..Capacity] /\ issued \in 0..MaxReviews
    BY <2>1 DEF Init
  <2>4. begun \in [1..MaxReviews -> SUBSET AllKinds]
    BY DEF Init
  <2>. QED
    BY <2>2, <2>3, <2>4 DEF Init, TypeOK
<1>2. Paths /\ Contact /\ Leftover
  BY Defaults DEF Init, Paths, Contact, Leftover, Kind, NoCall
<1>3. Guarded
  BY Defaults DEF Init, Guarded, Held
<1>4. Channels
  <2>1. 0 < Capacity
    BY AppAssumption
  <2>. SUFFICES ASSUME NEW t \in Tasks
                PROVE  /\ pc[t] = "idle" /\ queued[t] = 0
                       /\ terminal[t] = "none" /\ handle[t] = "none"
    BY <2>1 DEF Channels, Running, Recovering
  <2>. QED BY DEF Init
<1>. QED
  BY <1>1, <1>2, <1>3, <1>4 DEF IInv

-----------------------------------------------------------------------------
(* The guard.                                                              *)

\* The holder goes on holding.
LEMMA HoldOn ==
  ASSUME TypeOK, Guarded, NEW t \in Tasks, NEW where \in Held,
         pc[t] \in Held, Go(t, where), UNCHANGED <<holder, closing>>
  PROVE  Guarded'
BY DEF TypeOK, Guarded, Go

\* The holder lets go.
LEMMA LetGo ==
  ASSUME TypeOK, Guarded, NEW t \in Tasks, NEW where,
         where \notin Held, pc[t] \in Held, Go(t, where), Unlock
  PROVE  Guarded'
<1>1. holder = t /\ closing # "closing"
  BY Defaults DEF Guarded
<1>2. \A u \in Tasks : pc'[u] \notin Held
  BY <1>1 DEF TypeOK, Guarded, Go
<1>3. holder' \notin Tasks
  BY Defaults DEF Unlock
<1>4. /\ holder' = Service <=> closing' = "closing"
      /\ closing' # "queued"
  BY <1>1, Defaults DEF Unlock
<1>. QED
  BY <1>2, <1>3, <1>4 DEF Guarded

\* The guard passes only by acquire(), by its drop and by shutdown()'s lock.
LEMMA GuardedKept == ASSUME IInv, [Next]_vars PROVE Guarded'
<1>. USE Defaults DEF IInv
<1>1. ASSUME NEW t \in Tasks,
             \/ Begin(t) \/ Work(t) \/ Recovery(t) \/ End(t) \/ Report(t) \/ Release(t)
      PROVE  Guarded'
  <2>1. CASE Acquire(t)
    BY <2>1 DEF Acquire, Leave, Go, Guarded, Held, TryAcquire, TypeOK
  <2>2. CASE ReadSession(t)
    BY <2>2, HoldOn DEF ReadSession, Held
  <2>3. CASE ReadMachine(t)
    BY <2>3, HoldOn DEF ReadMachine, Held
  <2>4. CASE Take(t)
    BY <2>4, HoldOn DEF Take, Held
  <2>5. CASE StartRepeat(t)
    BY <2>5, HoldOn DEF StartRepeat, Held
  <2>6. CASE LookForAlarm(t)
    BY <2>6, HoldOn DEF LookForAlarm, Recovered, RecoverStep, Held
  <2>7. CASE StopSucceeds(t)
    BY <2>7, HoldOn DEF StopSucceeds, Recovered, RecoverStep, Held
  <2>8. CASE StopFails(t)
    BY <2>8, HoldOn DEF StopFails, Recovered, RecoverStep, Held
  <2>9. CASE RetryStop(t)
    BY <2>9, HoldOn DEF RetryStop, RecoverStep, Held
  <2>10. CASE StopWaiting(t)
    BY <2>10, HoldOn DEF StopWaiting, Recovered, RecoverStep, Held
  <2>11. CASE End(t)
    BY <2>11, HoldOn DEF End, Held
  <2>12. CASE Report(t)
    BY <2>12, HoldOn DEF Report, Held
  <2>13. CASE Review(t)
    BY <2>13, LetGo DEF Review, Leave, Held
  <2>14. CASE Decline(t)
    BY <2>14, LetGo DEF Decline, Refuse, Leave, Held
  <2>15. CASE TakeNothing(t)
    BY <2>15, LetGo DEF TakeNothing, Refuse, Leave, Held
  <2>16. CASE TakeInVain(t)
    BY <2>16, LetGo DEF TakeInVain, Leave, Held
  <2>17. CASE Release(t)
    BY <2>17, LetGo DEF Release, Leave, Held
  <2>18. CASE Succeed(t)
    BY <2>18, HoldOn, LetGo DEF Succeed, Settled, Leave, Held
  <2>19. CASE FailAtRest(t)
    BY <2>19, HoldOn, LetGo DEF FailAtRest, Settled, Leave, Held
  <2>20. CASE Fail(t)
    BY <2>20, HoldOn, LetGo DEF Fail, Leave, Held
  <2>21. CASE Move(t)
    BY <2>21 DEF Move, taskVars, Guarded
  <2>22. CASE Progress(t)
    BY <2>22 DEF Progress, taskVars, Guarded
  <2>. QED
    BY <1>1, <2>1, <2>2, <2>3, <2>4, <2>5, <2>6, <2>7, <2>8, <2>9, <2>10, <2>11, <2>12, <2>13, <2>14, <2>15, <2>16, <2>17, <2>18, <2>19, <2>20, <2>21, <2>22
    DEF Begin, Work, Recovery
<1>2. ASSUME NEW t \in Tasks, Client(t) PROVE Guarded'
  <2>1. CASE Receive(t) \/ CancelOperation(t) \/ DropOperation(t) \/ StopRepeat(t)
    BY <2>1 DEF Receive, CancelOperation, DropOperation, StopRepeat, taskVars, Guarded
  <2>2. CASE Forget(t)
    BY <2>2 DEF Forget, Leave, Go, Guarded, Held, TypeOK
  <2>3. ASSUME NEW k \in Kinds, NEW s \in Stores \cup {"none"}, NEW i \in 0..issued,
               Request(t, k, s, i)
        PROVE  Guarded'
    BY <2>3 DEF Request, Go, Guarded, Held, TypeOK
  <2>. QED
    BY <1>2, <2>1, <2>2, <2>3 DEF Client
<1>3. CASE Shutdown
  BY <1>3 DEF Shutdown, Cancel, Lock, CloseDevice, taskVars, Guarded, TypeOK
<1>4. CASE Machine
  BY <1>4 DEF Machine, MachineRests, Alarm, AlarmCleared, Reconnect, Environment, taskVars, Guarded
<1>5. CASE UNCHANGED vars
  BY <1>5 DEF vars, taskVars, Guarded
<1>. QED
  BY <1>1, <1>2, <1>3, <1>4, <1>5 DEF Next

\* A request stays on the path of its kind.
LEMMA PathsKept == ASSUME IInv, [Next]_vars PROVE Paths'
<1>. USE Defaults DEF IInv, Paths, TypeOK, Kind, Store, Go, taskVars, NoCall, Streams
<1>1. ASSUME NEW t \in Tasks,
             \/ Begin(t) \/ Work(t) \/ Recovery(t) \/ End(t) \/ Report(t) \/ Release(t)
      PROVE  Paths'
  <2>1. CASE Acquire(t)
    BY <2>1 DEF Acquire, Leave
  <2>2. CASE ReadSession(t)
    BY <2>2 DEF ReadSession
  <2>3. CASE ReadMachine(t)
    BY <2>3 DEF ReadMachine
  <2>4. CASE Review(t)
    BY <2>4 DEF Review, Leave
  <2>5. CASE Decline(t)
    BY <2>5 DEF Decline, Refuse, Leave
  <2>6. CASE Take(t)
    BY <2>6 DEF Take, Stream
  <2>7. CASE TakeNothing(t)
    BY <2>7 DEF TakeNothing, Refuse, Leave
  <2>8. CASE TakeInVain(t)
    BY <2>8 DEF TakeInVain, Leave
  <2>9. CASE StartRepeat(t)
    BY <2>9 DEF StartRepeat, Stream
  <2>10. CASE Move(t)
    BY <2>10 DEF Move
  <2>11. CASE Progress(t)
    BY <2>11 DEF Progress
  <2>12. CASE Succeed(t)
    BY <2>12 DEF Succeed, Settled, Leave
  <2>13. CASE FailAtRest(t)
    BY <2>13 DEF FailAtRest, Settled, Leave
  <2>14. CASE Fail(t)
    BY <2>14 DEF Fail, Recovers, Leave
  <2>15. CASE LookForAlarm(t)
    BY <2>15 DEF LookForAlarm, Recovered, RecoverStep
  <2>16. CASE StopSucceeds(t)
    BY <2>16 DEF StopSucceeds, Recovered, RecoverStep
  <2>17. CASE StopFails(t)
    BY <2>17 DEF StopFails, GivesUp, Recovered, RecoverStep
  <2>18. CASE RetryStop(t)
    BY <2>18 DEF RetryStop, RecoverStep
  <2>19. CASE StopWaiting(t)
    BY <2>19 DEF StopWaiting, GivesUp, Recovered, RecoverStep
  <2>20. CASE End(t)
    BY <2>20 DEF End, ForgetStopToken
  <2>21. CASE Report(t)
    BY <2>21 DEF Report
  <2>22. CASE Release(t)
    BY <2>22 DEF Release, Leave
  <2>. QED
    BY <1>1, <2>1, <2>2, <2>3, <2>4, <2>5, <2>6, <2>7, <2>8, <2>9, <2>10, <2>11, <2>12, <2>13, <2>14, <2>15, <2>16, <2>17, <2>18, <2>19, <2>20, <2>21, <2>22
    DEF Begin, Work, Recovery
<1>2. ASSUME NEW t \in Tasks, Client(t) PROVE Paths'
  <2>1. CASE Receive(t)
    BY <2>1 DEF Receive
  <2>2. CASE CancelOperation(t)
    BY <2>2 DEF CancelOperation
  <2>3. CASE DropOperation(t)
    BY <2>3 DEF DropOperation, Drop
  <2>4. CASE StopRepeat(t)
    BY <2>4 DEF StopRepeat
  <2>5. CASE Forget(t)
    BY <2>5 DEF Forget, Leave
  <2>6. ASSUME NEW k \in Kinds, NEW s \in Stores \cup {"none"}, NEW i \in 0..issued,
               Request(t, k, s, i)
        PROVE  Paths'
    BY <2>6, AppAssumption DEF Request, Asks, AllKinds, Results, Calls
  <2>. QED
    BY <1>2, <2>1, <2>2, <2>3, <2>4, <2>5, <2>6 DEF Client
<1>3. CASE Shutdown
  BY <1>3 DEF Shutdown, Cancel, Lock, CloseDevice
<1>4. CASE Machine
  BY <1>4 DEF Machine, MachineRests, Alarm, AlarmCleared, Reconnect, Environment
<1>5. CASE UNCHANGED vars
  BY <1>5 DEF vars
<1>. QED
  BY <1>1, <1>2, <1>3, <1>4, <1>5 DEF Next

\* The flag and the token go with the guard.
LEMMA ContactKept == ASSUME IInv, [Next]_vars PROVE Contact'
<1>. USE Defaults DEF IInv, Guarded, Paths, Contact, TypeOK, Kind, Held, Running, Recovering, Go, Unlock, taskVars, statusVars, NoCall, Streams
<1>1. ASSUME NEW t \in Tasks,
             \/ Begin(t) \/ Work(t) \/ Recovery(t) \/ End(t) \/ Report(t) \/ Release(t)
      PROVE  Contact'
  <2>1. CASE Acquire(t)
    <3>1. UNCHANGED <<active, stopToken>> /\ holder # t
      BY <2>1 DEF Acquire
    <3>2. CASE TryAcquire
      <4>1. ~active /\ stopToken = NoOne
        BY <3>2 DEF TryAcquire
      <4>. QED BY <3>1, <4>1
    <3>3. CASE ~TryAcquire
      <4>1. holder' = holder /\ Leave(t)
        BY <2>1, <3>3 DEF Acquire
      <4>2. holder \in Tasks => call'[holder] = call[holder] /\ pc'[holder] = pc[holder]
        BY <3>1, <4>1 DEF Leave
      <4>. QED BY <3>1, <4>1, <4>2
    <3>. QED BY <3>2, <3>3
  <2>2. CASE ReadSession(t)
    BY <2>2 DEF ReadSession
  <2>3. CASE ReadMachine(t)
    BY <2>3 DEF ReadMachine
  <2>4. CASE Review(t)
    BY <2>4 DEF Review, Leave
  <2>5. CASE Decline(t)
    BY <2>5 DEF Decline, Refuse, Leave
  <2>6. CASE Take(t)
    BY <2>6 DEF Take, Stream
  <2>7. CASE TakeNothing(t)
    BY <2>7 DEF TakeNothing, Refuse, Leave
  <2>8. CASE TakeInVain(t)
    BY <2>8 DEF TakeInVain, Leave
  <2>9. CASE StartRepeat(t)
    BY <2>9 DEF StartRepeat, Stream
  <2>10. CASE Move(t)
    BY <2>10 DEF Move
  <2>11. CASE Progress(t)
    BY <2>11 DEF Progress
  <2>12. CASE Succeed(t)
    BY <2>12 DEF Succeed, Settled, Leave
  <2>13. CASE FailAtRest(t)
    BY <2>13 DEF FailAtRest, Settled, Leave
  <2>14. CASE Fail(t)
    BY <2>14 DEF Fail, Recovers, Leave
  <2>15. CASE LookForAlarm(t)
    BY <2>15 DEF LookForAlarm, Recovered, RecoverStep
  <2>16. CASE StopSucceeds(t)
    BY <2>16 DEF StopSucceeds, Recovered, RecoverStep
  <2>17. CASE StopFails(t)
    BY <2>17 DEF StopFails, GivesUp, Recovered, RecoverStep
  <2>18. CASE RetryStop(t)
    BY <2>18 DEF RetryStop, RecoverStep
  <2>19. CASE StopWaiting(t)
    BY <2>19 DEF StopWaiting, GivesUp, Recovered, RecoverStep
  <2>20. CASE End(t)
    BY <2>20 DEF End, ForgetStopToken
  <2>21. CASE Report(t)
    BY <2>21 DEF Report
  <2>22. CASE Release(t)
    BY <2>22 DEF Release, Leave
  <2>. QED
    BY <1>1, <2>1, <2>2, <2>3, <2>4, <2>5, <2>6, <2>7, <2>8, <2>9, <2>10, <2>11, <2>12, <2>13, <2>14, <2>15, <2>16, <2>17, <2>18, <2>19, <2>20, <2>21, <2>22
    DEF Begin, Work, Recovery
<1>2. ASSUME NEW t \in Tasks, Client(t) PROVE Contact'
  <2>1. CASE Receive(t)
    BY <2>1 DEF Receive
  <2>2. CASE CancelOperation(t)
    BY <2>2 DEF CancelOperation
  <2>3. CASE DropOperation(t)
    BY <2>3 DEF DropOperation, Drop
  <2>4. CASE StopRepeat(t)
    BY <2>4 DEF StopRepeat
  <2>5. CASE Forget(t)
    BY <2>5 DEF Forget, Leave
  <2>6. ASSUME NEW k \in Kinds, NEW s \in Stores \cup {"none"}, NEW i \in 0..issued,
               Request(t, k, s, i)
        PROVE  Contact'
    BY <2>6 DEF Request
  <2>. QED
    BY <1>2, <2>1, <2>2, <2>3, <2>4, <2>5, <2>6 DEF Client
<1>3. CASE Shutdown
  BY <1>3 DEF Shutdown, Cancel, Lock, CloseDevice
<1>4. CASE Machine
  BY <1>4 DEF Machine, MachineRests, Alarm, AlarmCleared, Reconnect, Environment
<1>5. CASE UNCHANGED vars
  BY <1>5 DEF vars
<1>. QED
  BY <1>1, <1>2, <1>3, <1>4, <1>5 DEF Next

\* Motion ends before the guard goes, or recovery_failed stays behind.
LEMMA LeftoverKept == ASSUME IInv, [Next]_vars PROVE Leftover'
<1>. USE Defaults DEF IInv, Guarded, Paths, Leftover, TypeOK, Kind, Held, Recovering, Go, Unlock, taskVars, statusVars, machineVars, NoCall, Streams
<1>1. ASSUME NEW t \in Tasks,
             \/ Begin(t) \/ Work(t) \/ Recovery(t) \/ End(t) \/ Report(t) \/ Release(t)
      PROVE  Leftover'
  <2>1. CASE Acquire(t)
    <3>1. UNCHANGED <<closing, recoveryFailed, moving, blocked>> /\ holder # t
      BY <2>1 DEF Acquire
    <3>2. \A u \in Tasks : u # t => call'[u] = call[u] /\ pc'[u] = pc[u]
      BY <2>1 DEF Acquire, Leave
    <3>3. pc'[t] # "waiting"
      BY <2>1 DEF Acquire, Leave
    <3>4. CASE TryAcquire
      <4>1. ~recoveryFailed /\ moving = NoOne
        BY <3>4 DEF TryAcquire
      <4>. QED BY <3>1, <3>2, <3>3, <4>1
    <3>5. CASE ~TryAcquire
      <4>1. holder' = holder
        BY <2>1, <3>5 DEF Acquire
      <4>. QED BY <3>1, <3>2, <3>3, <4>1
    <3>. QED BY <3>4, <3>5
  <2>2. CASE ReadSession(t)
    BY <2>2 DEF ReadSession
  <2>3. CASE ReadMachine(t)
    BY <2>3 DEF ReadMachine
  <2>4. CASE Review(t)
    BY <2>4 DEF Review, Leave
  <2>5. CASE Decline(t)
    BY <2>5 DEF Decline, Refuse, Leave
  <2>6. CASE Take(t)
    BY <2>6 DEF Take, Stream
  <2>7. CASE TakeNothing(t)
    BY <2>7 DEF TakeNothing, Refuse, Leave
  <2>8. CASE TakeInVain(t)
    BY <2>8 DEF TakeInVain, Leave
  <2>9. CASE StartRepeat(t)
    BY <2>9 DEF StartRepeat, Stream
  <2>10. CASE Move(t)
    BY <2>10 DEF Move
  <2>11. CASE Progress(t)
    BY <2>11 DEF Progress
  <2>12. CASE Succeed(t)
    BY <2>12 DEF Succeed, Settled, Leave
  <2>13. CASE FailAtRest(t)
    BY <2>13 DEF FailAtRest, Settled, Leave
  <2>14. CASE Fail(t)
    BY <2>14 DEF Fail, Recovers, Leave
  <2>15. CASE LookForAlarm(t)
    BY <2>15 DEF LookForAlarm, Recovered, RecoverStep
  <2>16. CASE StopSucceeds(t)
    BY <2>16 DEF StopSucceeds, Recovered, RecoverStep
  <2>17. CASE StopFails(t)
    BY <2>17 DEF StopFails, GivesUp, Recovered, RecoverStep
  <2>18. CASE RetryStop(t)
    BY <2>18 DEF RetryStop, RecoverStep
  <2>19. CASE StopWaiting(t)
    BY <2>19 DEF StopWaiting, GivesUp, Recovered, RecoverStep
  <2>20. CASE End(t)
    BY <2>20 DEF End, ForgetStopToken
  <2>21. CASE Report(t)
    BY <2>21 DEF Report
  <2>22. CASE Release(t)
    BY <2>22 DEF Release, Leave
  <2>. QED
    BY <1>1, <2>1, <2>2, <2>3, <2>4, <2>5, <2>6, <2>7, <2>8, <2>9, <2>10, <2>11, <2>12, <2>13, <2>14, <2>15, <2>16, <2>17, <2>18, <2>19, <2>20, <2>21, <2>22
    DEF Begin, Work, Recovery
<1>2. ASSUME NEW t \in Tasks, Client(t) PROVE Leftover'
  <2>1. CASE Receive(t)
    BY <2>1 DEF Receive
  <2>2. CASE CancelOperation(t)
    BY <2>2 DEF CancelOperation
  <2>3. CASE DropOperation(t)
    BY <2>3 DEF DropOperation, Drop
  <2>4. CASE StopRepeat(t)
    BY <2>4 DEF StopRepeat
  <2>5. CASE Forget(t)
    BY <2>5 DEF Forget, Leave
  <2>6. ASSUME NEW k \in Kinds, NEW s \in Stores \cup {"none"}, NEW i \in 0..issued,
               Request(t, k, s, i)
        PROVE  Leftover'
    BY <2>6 DEF Request
  <2>. QED
    BY <1>2, <2>1, <2>2, <2>3, <2>4, <2>5, <2>6 DEF Client
<1>3. CASE Shutdown
  BY <1>3 DEF Shutdown, Cancel, Lock, CloseDevice
<1>4. CASE Machine
  BY <1>4 DEF Machine, MachineRests, Alarm, AlarmCleared, Reconnect, Environment
<1>5. CASE UNCHANGED vars
  BY <1>5 DEF vars
<1>. QED
  BY <1>1, <1>2, <1>3, <1>4, <1>5 DEF Next

\* The observer keeps a slot back, and an Operation outlives its task's use of it.
LEMMA ChannelsKept == ASSUME IInv, [Next]_vars PROVE Channels'
<1>. USE Defaults DEF IInv, Guarded, Paths, Channels, TypeOK, Kind, Held, Running, Recovering, Go, taskVars, streamVars, NoCall, Streams
<1>1. ASSUME NEW t \in Tasks,
             \/ Begin(t) \/ Work(t) \/ Recovery(t) \/ End(t) \/ Report(t) \/ Release(t)
      PROVE  Channels'
  <2>1. CASE Acquire(t)
    BY <2>1 DEF Acquire, Leave
  <2>2. CASE ReadSession(t)
    BY <2>2 DEF ReadSession
  <2>3. CASE ReadMachine(t)
    BY <2>3 DEF ReadMachine
  <2>4. CASE Review(t)
    BY <2>4 DEF Review, Leave
  <2>5. CASE Decline(t)
    BY <2>5 DEF Decline, Refuse, Leave
  <2>6. CASE Take(t)
    BY <2>6 DEF Take, Stream
  <2>7. CASE TakeNothing(t)
    BY <2>7 DEF TakeNothing, Refuse, Leave
  <2>8. CASE TakeInVain(t)
    BY <2>8 DEF TakeInVain, Leave
  <2>9. CASE StartRepeat(t)
    BY <2>9 DEF StartRepeat, Stream
  <2>10. CASE Move(t)
    BY <2>10 DEF Move
  <2>11. CASE Progress(t)
    BY <2>11, AppAssumption DEF Progress, RoomForProgress
  <2>12. CASE Succeed(t)
    BY <2>12 DEF Succeed, Settled, Leave
  <2>13. CASE FailAtRest(t)
    BY <2>13 DEF FailAtRest, Settled, Leave
  <2>14. CASE Fail(t)
    BY <2>14 DEF Fail, Recovers, Leave
  <2>15. CASE LookForAlarm(t)
    BY <2>15 DEF LookForAlarm, Recovered, RecoverStep
  <2>16. CASE StopSucceeds(t)
    BY <2>16 DEF StopSucceeds, Recovered, RecoverStep
  <2>17. CASE StopFails(t)
    BY <2>17 DEF StopFails, GivesUp, Recovered, RecoverStep
  <2>18. CASE RetryStop(t)
    BY <2>18 DEF RetryStop, RecoverStep
  <2>19. CASE StopWaiting(t)
    BY <2>19 DEF StopWaiting, GivesUp, Recovered, RecoverStep
  <2>20. CASE End(t)
    BY <2>20 DEF End, ForgetStopToken
  <2>21. CASE Report(t)
    BY <2>21 DEF Report
  <2>22. CASE Release(t)
    BY <2>22 DEF Release, Leave
  <2>. QED
    BY <1>1, <2>1, <2>2, <2>3, <2>4, <2>5, <2>6, <2>7, <2>8, <2>9, <2>10, <2>11, <2>12, <2>13, <2>14, <2>15, <2>16, <2>17, <2>18, <2>19, <2>20, <2>21, <2>22
    DEF Begin, Work, Recovery
<1>2. ASSUME NEW t \in Tasks, Client(t) PROVE Channels'
  <2>1. CASE Receive(t)
    <3>1. UNCHANGED <<pc, call, handle>> /\ handle[t] = "open"
      BY <2>1 DEF Receive
    <3>2. CASE queued[t] > 0 /\ queued' = [queued EXCEPT ![t] = @ - 1] /\ UNCHANGED terminal
      <4>1. queued[t] \in 0..Capacity /\ queued[t] - 1 < Capacity
        BY AppAssumption
      <4>. QED BY <3>1, <3>2, <4>1
    <3>3. CASE /\ queued[t] = 0 /\ terminal[t] = "queued"
               /\ terminal' = [terminal EXCEPT ![t] = "received"] /\ UNCHANGED queued
      BY <3>1, <3>3
    <3>. QED BY <2>1, <3>2, <3>3 DEF Receive
  <2>2. CASE CancelOperation(t)
    BY <2>2 DEF CancelOperation
  <2>3. CASE DropOperation(t)
    BY <2>3 DEF DropOperation, Drop
  <2>4. CASE StopRepeat(t)
    BY <2>4 DEF StopRepeat
  <2>5. CASE Forget(t)
    BY <2>5, AppAssumption DEF Forget, Leave
  <2>6. ASSUME NEW k \in Kinds, NEW s \in Stores \cup {"none"}, NEW i \in 0..issued,
               Request(t, k, s, i)
        PROVE  Channels'
    BY <2>6 DEF Request
  <2>. QED
    BY <1>2, <2>1, <2>2, <2>3, <2>4, <2>5, <2>6 DEF Client
<1>3. CASE Shutdown
  BY <1>3 DEF Shutdown, Cancel, Lock, CloseDevice
<1>4. CASE Machine
  BY <1>4 DEF Machine, MachineRests, Alarm, AlarmCleared, Reconnect, Environment
<1>5. CASE UNCHANGED vars
  BY <1>5 DEF vars
<1>. QED
  BY <1>1, <1>2, <1>3, <1>4, <1>5 DEF Next

-----------------------------------------------------------------------------
(* Types, one group of variables at a time.                                *)

TypesGuard ==
  /\ holder \in Tasks \cup {NoOne, Service}
  /\ closing \in {"open", "cancelled", "queued", "closing", "closed"}
  /\ active \in BOOLEAN /\ recoveryFailed \in BOOLEAN
  /\ stopToken \in Tasks \cup {NoOne}
TypesTasks ==
  /\ pc \in [Tasks -> Held \cup {"idle", "entering", "done"}]
  /\ call \in [Tasks -> Calls]
  /\ epoch \in [Tasks -> Nat] /\ took \in [Tasks -> Entries]
TypesStores ==
  /\ pending \in [Stores -> Entries] /\ completed \in [Stores -> Entries]
  /\ issued \in 0..MaxReviews
  /\ begun \in [1..MaxReviews -> SUBSET AllKinds]
TypesStreams ==
  /\ cancelled \in [Tasks -> BOOLEAN] /\ stopped \in [Tasks -> BOOLEAN]
  /\ handle \in [Tasks -> {"none", "open", "dropped"}]
  /\ queued \in [Tasks -> 0..Capacity]
  /\ terminal \in [Tasks -> {"none", "queued", "received", "lost"}]
TypesMachine == session \in Nat /\ blocked \in BOOLEAN /\ moving \in Tasks \cup {NoOne}

\* TypeOK in five groups, one lemma below for each.
LEMMA Types ==
  TypeOK <=> TypesGuard /\ TypesTasks /\ TypesStores /\ TypesStreams /\ TypesMachine
BY DEF TypeOK, TypesGuard, TypesTasks, TypesStores, TypesStreams, TypesMachine

\* The guard, the flags and the stop token.
LEMMA GuardTypes == ASSUME IInv, [Next]_vars PROVE TypesGuard'
<1>. USE DEF IInv, TypeOK, TypesGuard, statusVars
<1>1. ASSUME NEW t \in Tasks, Acquire(t) PROVE TypesGuard'
  BY <1>1 DEF Acquire, Leave, Unlock
<1>2. ASSUME NEW t \in Tasks, Review(t) PROVE TypesGuard'
  BY <1>2 DEF Review, Leave, Unlock
<1>3. ASSUME NEW t \in Tasks, Decline(t) PROVE TypesGuard'
  BY <1>3 DEF Decline, Refuse, Leave, Unlock
<1>4. ASSUME NEW t \in Tasks, Take(t) PROVE TypesGuard'
  BY <1>4 DEF Take, Stream, Unlock
<1>5. ASSUME NEW t \in Tasks, TakeNothing(t) PROVE TypesGuard'
  BY <1>5 DEF TakeNothing, Refuse, Leave, Unlock
<1>6. ASSUME NEW t \in Tasks, TakeInVain(t) PROVE TypesGuard'
  BY <1>6 DEF TakeInVain, Leave, Unlock
<1>7. ASSUME NEW t \in Tasks, StartRepeat(t) PROVE TypesGuard'
  BY <1>7 DEF StartRepeat, Stream, Unlock
<1>8. ASSUME NEW t \in Tasks, Succeed(t) PROVE TypesGuard'
  BY <1>8 DEF Succeed, Settled, Leave, Unlock
<1>9. ASSUME NEW t \in Tasks, FailAtRest(t) PROVE TypesGuard'
  BY <1>9 DEF FailAtRest, Settled, Leave, Unlock
<1>10. ASSUME NEW t \in Tasks, Fail(t) PROVE TypesGuard'
  BY <1>10 DEF Fail, Recovers, Leave, Unlock
<1>11. ASSUME NEW t \in Tasks, StopSucceeds(t) PROVE TypesGuard'
  BY <1>11 DEF StopSucceeds, Recovered, RecoverStep, Unlock
<1>12. ASSUME NEW t \in Tasks, StopFails(t) PROVE TypesGuard'
  BY <1>12 DEF StopFails, GivesUp, Recovered, RecoverStep, Unlock
<1>13. ASSUME NEW t \in Tasks, End(t) PROVE TypesGuard'
  BY <1>13 DEF End, ForgetStopToken, Unlock
<1>14. ASSUME NEW t \in Tasks, Release(t) PROVE TypesGuard'
  BY <1>14 DEF Release, Leave, Unlock
<1>15. ASSUME NEW t \in Tasks,
             \/ ReadSession(t) \/ ReadMachine(t) \/ Move(t)
             \/ Progress(t) \/ LookForAlarm(t) \/ RetryStop(t)
             \/ StopWaiting(t) \/ Report(t) \/ Receive(t)
             \/ CancelOperation(t) \/ DropOperation(t) \/ StopRepeat(t)
             \/ Forget(t)
      PROVE  TypesGuard'
  <2>1. UNCHANGED <<holder, closing, active, recoveryFailed, stopToken>>
    BY <1>15
    DEF ReadSession, ReadMachine, Move, Progress, LookForAlarm, Recovered,
        RecoverStep, RetryStop, StopWaiting, GivesUp, Report, Receive,
        CancelOperation, DropOperation, Drop, StopRepeat, Forget, Leave
  <2>. QED BY <2>1
<1>16. ASSUME NEW t \in Tasks, NEW k \in Kinds, NEW s \in Stores \cup {"none"},
             NEW i \in 0..issued, Request(t, k, s, i)
      PROVE  TypesGuard'
  BY <1>16 DEF Request
<1>17. CASE Shutdown
  BY <1>17 DEF Shutdown, Cancel, Lock, CloseDevice
<1>18. CASE Machine
  BY <1>18 DEF Machine, Environment, MachineRests, Alarm, AlarmCleared, Reconnect
<1>19. CASE UNCHANGED vars
  BY <1>19 DEF vars
<1>. QED
  BY <1>1, <1>2, <1>3, <1>4, <1>5, <1>6, <1>7, <1>8, <1>9, <1>10, <1>11, <1>12, <1>13, <1>14, <1>15, <1>16, <1>17, <1>18, <1>19
  DEF Next, Begin, Work, Recovery, Client

\* The machine.
LEMMA MachineTypes == ASSUME IInv, [Next]_vars PROVE TypesMachine'
<1>. USE DEF IInv, TypeOK, TypesMachine, machineVars
<1>1. ASSUME NEW t \in Tasks, Move(t) PROVE TypesMachine'
  BY <1>1 DEF Move
<1>2. ASSUME NEW t \in Tasks, LookForAlarm(t) PROVE TypesMachine'
  BY <1>2 DEF LookForAlarm, Recovered, RecoverStep
<1>3. ASSUME NEW t \in Tasks, StopSucceeds(t) PROVE TypesMachine'
  BY <1>3 DEF StopSucceeds, Recovered, RecoverStep
<1>4. ASSUME NEW t \in Tasks, StopFails(t) PROVE TypesMachine'
  BY <1>4 DEF StopFails, GivesUp, Recovered, RecoverStep
<1>5. ASSUME NEW t \in Tasks, RetryStop(t) PROVE TypesMachine'
  BY <1>5 DEF RetryStop, RecoverStep
<1>6. ASSUME NEW t \in Tasks, StopWaiting(t) PROVE TypesMachine'
  BY <1>6 DEF StopWaiting, GivesUp, Recovered, RecoverStep
<1>7. ASSUME NEW t \in Tasks,
             \/ Acquire(t) \/ ReadSession(t) \/ ReadMachine(t)
             \/ Review(t) \/ Decline(t) \/ Take(t) \/ TakeNothing(t)
             \/ TakeInVain(t) \/ StartRepeat(t) \/ Progress(t)
             \/ Succeed(t) \/ FailAtRest(t) \/ Fail(t) \/ End(t)
             \/ Report(t) \/ Release(t) \/ Receive(t)
             \/ CancelOperation(t) \/ DropOperation(t) \/ StopRepeat(t)
             \/ Forget(t)
      PROVE  TypesMachine'
  <2>1. UNCHANGED <<session, blocked, moving>>
    BY <1>7
    DEF Acquire, Leave, ReadSession, ReadMachine, Review, Decline, Refuse,
        Take, Stream, TakeNothing, TakeInVain, StartRepeat, Progress,
        Succeed, Settled, FailAtRest, Fail, Recovers, End, ForgetStopToken,
        Report, Release, Receive, CancelOperation, DropOperation, Drop,
        StopRepeat, Forget
  <2>. QED BY <2>1
<1>8. ASSUME NEW t \in Tasks, NEW k \in Kinds, NEW s \in Stores \cup {"none"},
             NEW i \in 0..issued, Request(t, k, s, i)
      PROVE  TypesMachine'
  BY <1>8 DEF Request
<1>9. CASE Shutdown
  BY <1>9 DEF Shutdown, Cancel, Lock, CloseDevice
<1>10. CASE Machine
  <2>1. CASE Reconnect
    <3>1. session + 1 \in Nat
      OBVIOUS
    <3>. QED BY <2>1, <3>1 DEF Reconnect
  <2>2. CASE MachineRests \/ Alarm \/ AlarmCleared
    BY <2>2 DEF MachineRests, Alarm, AlarmCleared
  <2>. QED BY <1>10, <2>1, <2>2 DEF Machine
<1>11. CASE UNCHANGED vars
  BY <1>11 DEF vars
<1>. QED
  BY <1>1, <1>2, <1>3, <1>4, <1>5, <1>6, <1>7, <1>8, <1>9, <1>10, <1>11
  DEF Next, Begin, Work, Recovery, Client

\* The Operations and their channels.
LEMMA StreamTypes == ASSUME IInv, [Next]_vars PROVE TypesStreams'
<1>. USE DEF IInv, TypeOK, TypesStreams, streamVars
<1>1. ASSUME NEW t \in Tasks, Take(t) PROVE TypesStreams'
  BY <1>1 DEF Take, Stream
<1>2. ASSUME NEW t \in Tasks, StartRepeat(t) PROVE TypesStreams'
  BY <1>2 DEF StartRepeat, Stream
<1>3. ASSUME NEW t \in Tasks, CancelOperation(t) PROVE TypesStreams'
  BY <1>3 DEF CancelOperation
<1>4. ASSUME NEW t \in Tasks, DropOperation(t) PROVE TypesStreams'
  BY <1>4 DEF DropOperation, Drop
<1>5. ASSUME NEW t \in Tasks, StopRepeat(t) PROVE TypesStreams'
  BY <1>5 DEF StopRepeat
<1>6. ASSUME NEW t \in Tasks, Report(t) PROVE TypesStreams'
  BY <1>6 DEF Report
<1>7. ASSUME NEW t \in Tasks, Progress(t) PROVE TypesStreams'
  <2>1. CASE RoomForProgress(t) /\ queued' = [queued EXCEPT ![t] = @ + 1] /\ UNCHANGED cancelled
    <3>1. queued[t] + 1 \in 0..Capacity
      BY <2>1, AppAssumption DEF RoomForProgress
    <3>. QED BY <1>7, <2>1, <3>1 DEF Progress
  <2>2. CASE cancelled' = [cancelled EXCEPT ![t] = TRUE] /\ UNCHANGED queued
    BY <1>7, <2>2 DEF Progress
  <2>3. \/ RoomForProgress(t) /\ queued' = [queued EXCEPT ![t] = @ + 1] /\ UNCHANGED cancelled
        \/ cancelled' = [cancelled EXCEPT ![t] = TRUE] /\ UNCHANGED queued
    BY <1>7 DEF Progress
  <2>. QED BY ONLY <2>1, <2>2, <2>3
<1>8. ASSUME NEW t \in Tasks, Receive(t) PROVE TypesStreams'
  <2>1. CASE queued[t] > 0 /\ queued' = [queued EXCEPT ![t] = @ - 1] /\ UNCHANGED terminal
    <3>1. queued[t] - 1 \in 0..Capacity
      BY <2>1, AppAssumption
    <3>. QED BY <1>8, <2>1, <3>1 DEF Receive
  <2>2. CASE terminal' = [terminal EXCEPT ![t] = "received"] /\ UNCHANGED queued
    BY <1>8, <2>2 DEF Receive
  <2>3. \/ queued[t] > 0 /\ queued' = [queued EXCEPT ![t] = @ - 1] /\ UNCHANGED terminal
        \/ terminal' = [terminal EXCEPT ![t] = "received"] /\ UNCHANGED queued
    BY <1>8 DEF Receive
  <2>. QED BY ONLY <2>1, <2>2, <2>3
<1>9. ASSUME NEW t \in Tasks, Forget(t) PROVE TypesStreams'
  <2>1. 0 \in 0..Capacity
    BY AppAssumption
  <2>. QED BY <1>9, <2>1 DEF Forget
<1>10. ASSUME NEW t \in Tasks,
             \/ Acquire(t) \/ ReadSession(t) \/ ReadMachine(t)
             \/ Review(t) \/ Decline(t) \/ TakeNothing(t)
             \/ TakeInVain(t) \/ Move(t) \/ Succeed(t) \/ FailAtRest(t)
             \/ Fail(t) \/ LookForAlarm(t) \/ StopSucceeds(t)
             \/ StopFails(t) \/ RetryStop(t) \/ StopWaiting(t)
             \/ End(t) \/ Release(t)
      PROVE  TypesStreams'
  <2>1. UNCHANGED <<cancelled, stopped, handle, queued, terminal>>
    BY <1>10
    DEF Acquire, Leave, ReadSession, ReadMachine, Review, Decline, Refuse,
        TakeNothing, TakeInVain, Move, Succeed, Settled, FailAtRest, Fail,
        Recovers, LookForAlarm, Recovered, RecoverStep, StopSucceeds,
        StopFails, GivesUp, RetryStop, StopWaiting, End, ForgetStopToken,
        Release
  <2>. QED BY <2>1
<1>11. ASSUME NEW t \in Tasks, NEW k \in Kinds, NEW s \in Stores \cup {"none"},
             NEW i \in 0..issued, Request(t, k, s, i)
      PROVE  TypesStreams'
  BY <1>11 DEF Request
<1>12. CASE Shutdown
  BY <1>12 DEF Shutdown, Cancel, Lock, CloseDevice
<1>13. CASE Machine
  BY <1>13 DEF Machine, Environment, MachineRests, Alarm, AlarmCleared, Reconnect
<1>14. CASE UNCHANGED vars
  BY <1>14 DEF vars
<1>. QED
  BY <1>1, <1>2, <1>3, <1>4, <1>5, <1>6, <1>7, <1>8, <1>9, <1>10, <1>11, <1>12, <1>13, <1>14
  DEF Next, Begin, Work, Recovery, Client

\* A record keeps its shape.
LEMMA EntryChanged ==
  ASSUME NEW e \in Entries, NEW i \in Nat, NEW b \in BOOLEAN
  PROVE  /\ [e EXCEPT !.id = i] \in Entries
         /\ [e EXCEPT !.returned = b] \in Entries
         /\ [e EXCEPT !.positioned = b] \in Entries
BY DEF Entries

\* A request that is over leaves nothing behind.
LEMMA LeaveTyped ==
  ASSUME TypesTasks, NEW t \in Tasks, Leave(t) PROVE TypesTasks'
BY Defaults DEF TypesTasks, Leave, Go

\* What a request finds in the store it asks.
LEMMA SourceTyped ==
  ASSUME IInv, NEW t \in Tasks, pc[t] = "taking" PROVE Source(t) \in Entries
<1>1. Store(t) \in Stores
  BY DEF IInv, Paths
<1>. QED
  BY <1>1 DEF IInv, TypeOK, Source

\* Where each request is, and what it carries.
LEMMA TaskTypes == ASSUME IInv, [Next]_vars PROVE TypesTasks'
<1>. USE DEF IInv, TypeOK, TypesTasks, taskVars
<1>1. ASSUME NEW t \in Tasks, Acquire(t) PROVE TypesTasks'
  <2>1. \/ Leave(t)
        \/ /\ Go(t, "starting") \/ Go(t, "working") \/ Go(t, "holding")
           /\ UNCHANGED <<call, epoch, took>>
    BY <1>1 DEF Acquire
  <2>2. CASE Leave(t)
    BY <2>2, LeaveTyped
  <2>3. CASE /\ Go(t, "starting") \/ Go(t, "working") \/ Go(t, "holding")
             /\ UNCHANGED <<call, epoch, took>>
    BY <2>3 DEF Go, Held
  <2>. QED BY ONLY <2>1, <2>2, <2>3
<1>2. ASSUME NEW t \in Tasks, ReadSession(t) PROVE TypesTasks'
  <2>1. pc' \in [Tasks -> Held \cup {"idle", "entering", "done"}]
    BY <1>2 DEF ReadSession, Go, Held
  <2>2. epoch' \in [Tasks -> Nat]
    BY <1>2 DEF ReadSession
  <2>. QED BY <1>2, <2>1, <2>2 DEF ReadSession
<1>3. ASSUME NEW t \in Tasks, ReadMachine(t) PROVE TypesTasks'
  <2>1. [Nothing EXCEPT !.session = epoch[t], !.read = session] \in Entries
    BY DEF Nothing, Entries
  <2>2. pc' \in [Tasks -> Held \cup {"idle", "entering", "done"}]
    BY <1>3 DEF ReadMachine, Go, Held
  <2>3. took' \in [Tasks -> Entries]
    BY <1>3, <2>1 DEF ReadMachine
  <2>. QED BY <1>3, <2>2, <2>3 DEF ReadMachine
<1>4. ASSUME NEW t \in Tasks, Review(t) PROVE TypesTasks'
  BY <1>4, LeaveTyped DEF Review, Refuse
<1>5. ASSUME NEW t \in Tasks, Decline(t) PROVE TypesTasks'
  BY <1>5, LeaveTyped DEF Decline, Refuse
<1>6. ASSUME NEW t \in Tasks, Take(t) PROVE TypesTasks'
  <2>1. Source(t) \in Entries
    BY <1>6, SourceTyped DEF Take
  <2>2. pc' \in [Tasks -> Held \cup {"idle", "entering", "done"}]
    BY <1>6 DEF Take, Go, Held
  <2>3. took' \in [Tasks -> Entries] /\ UNCHANGED <<call, epoch>>
    BY <1>6, <2>1 DEF Take
  <2>. QED BY <2>2, <2>3
<1>7. ASSUME NEW t \in Tasks, TakeNothing(t) PROVE TypesTasks'
  BY <1>7, LeaveTyped DEF TakeNothing, Refuse
<1>8. ASSUME NEW t \in Tasks, TakeInVain(t) PROVE TypesTasks'
  BY <1>8, LeaveTyped DEF TakeInVain, Refuse
<1>9. ASSUME NEW t \in Tasks, StartRepeat(t) PROVE TypesTasks'
  BY <1>9 DEF StartRepeat, Stream, Go, Held
<1>10. ASSUME NEW t \in Tasks, Succeed(t) PROVE TypesTasks'
  <2>1. (Go(t, "ending") /\ UNCHANGED <<call, epoch, took>>) \/ Leave(t)
    BY <1>10 DEF Succeed, Settled
  <2>2. CASE Leave(t)
    BY <2>2, LeaveTyped
  <2>3. CASE Go(t, "ending") /\ UNCHANGED <<call, epoch, took>>
    BY <2>3 DEF Go, Held
  <2>. QED BY ONLY <2>1, <2>2, <2>3
<1>11. ASSUME NEW t \in Tasks, FailAtRest(t) PROVE TypesTasks'
  <2>1. (Go(t, "ending") /\ UNCHANGED <<call, epoch, took>>) \/ Leave(t)
    BY <1>11 DEF FailAtRest, Settled
  <2>2. CASE Leave(t)
    BY <2>2, LeaveTyped
  <2>3. CASE Go(t, "ending") /\ UNCHANGED <<call, epoch, took>>
    BY <2>3 DEF Go, Held
  <2>. QED BY ONLY <2>1, <2>2, <2>3
<1>12. ASSUME NEW t \in Tasks, Fail(t) PROVE TypesTasks'
  <2>1. (Go(t, "failed") /\ UNCHANGED <<call, epoch, took>>) \/ Leave(t)
    BY <1>12 DEF Fail
  <2>2. CASE Leave(t)
    BY <2>2, LeaveTyped
  <2>3. CASE Go(t, "failed") /\ UNCHANGED <<call, epoch, took>>
    BY <2>3 DEF Go, Held
  <2>. QED BY ONLY <2>1, <2>2, <2>3
<1>13. ASSUME NEW t \in Tasks, LookForAlarm(t) PROVE TypesTasks'
  BY <1>13 DEF LookForAlarm, Recovered, RecoverStep, Go, Held
<1>14. ASSUME NEW t \in Tasks, StopSucceeds(t) PROVE TypesTasks'
  BY <1>14 DEF StopSucceeds, Recovered, RecoverStep, Go, Held
<1>15. ASSUME NEW t \in Tasks, StopFails(t) PROVE TypesTasks'
  BY <1>15 DEF StopFails, GivesUp, Recovered, RecoverStep, Go, Held
<1>16. ASSUME NEW t \in Tasks, RetryStop(t) PROVE TypesTasks'
  BY <1>16 DEF RetryStop, RecoverStep, Go, Held
<1>17. ASSUME NEW t \in Tasks, StopWaiting(t) PROVE TypesTasks'
  BY <1>17 DEF StopWaiting, GivesUp, Recovered, RecoverStep, Go, Held
<1>18. ASSUME NEW t \in Tasks, End(t) PROVE TypesTasks'
  BY <1>18 DEF End, ForgetStopToken, Go, Held
<1>19. ASSUME NEW t \in Tasks, Report(t) PROVE TypesTasks'
  BY <1>19 DEF Report, Go, Held
<1>20. ASSUME NEW t \in Tasks, Release(t) PROVE TypesTasks'
  <2>1. (Go(t, "done") /\ UNCHANGED <<call, epoch, took>>) \/ Leave(t)
    BY <1>20 DEF Release
  <2>2. CASE Leave(t)
    BY <2>2, LeaveTyped
  <2>3. CASE Go(t, "done") /\ UNCHANGED <<call, epoch, took>>
    BY <2>3 DEF Go, Held
  <2>. QED BY ONLY <2>1, <2>2, <2>3
<1>21. ASSUME NEW t \in Tasks, Forget(t) PROVE TypesTasks'
  BY <1>21, LeaveTyped DEF Forget, Refuse
<1>22. ASSUME NEW t \in Tasks,
             \/ Move(t) \/ Progress(t) \/ Receive(t)
             \/ CancelOperation(t) \/ DropOperation(t) \/ StopRepeat(t)
      PROVE  TypesTasks'
  <2>1. UNCHANGED <<pc, call, epoch, took>>
    BY <1>22
    DEF Move, Progress, Receive, CancelOperation, DropOperation, Drop,
        StopRepeat
  <2>. QED BY <2>1
<1>23. ASSUME NEW t \in Tasks, NEW k \in Kinds, NEW s \in Stores \cup {"none"},
             NEW i \in 0..issued, Request(t, k, s, i)
      PROVE  TypesTasks'
  <2>1. [kind |-> k, store |-> s, id |-> i] \in Calls
    BY AppAssumption DEF Calls
  <2>2. pc' \in [Tasks -> Held \cup {"idle", "entering", "done"}]
    BY <1>23 DEF Request, Go
  <2>3. call' \in [Tasks -> Calls]
    BY <1>23, <2>1 DEF Request
  <2>. QED BY <1>23, <2>2, <2>3 DEF Request
<1>24. CASE Shutdown
  BY <1>24 DEF Shutdown, Cancel, Lock, CloseDevice
<1>25. CASE Machine
  BY <1>25 DEF Machine, Environment, MachineRests, Alarm, AlarmCleared, Reconnect
<1>26. CASE UNCHANGED vars
  BY <1>26 DEF vars
<1>. QED
  BY <1>1, <1>2, <1>3, <1>4, <1>5, <1>6, <1>7, <1>8, <1>9, <1>10, <1>11, <1>12, <1>13, <1>14, <1>15, <1>16, <1>17, <1>18, <1>19, <1>20, <1>21, <1>22, <1>23, <1>24, <1>25, <1>26
  DEF Next, Begin, Work, Recovery, Client

\* The reviews and results.
LEMMA StoreTypes == ASSUME IInv, [Next]_vars PROVE TypesStores'
<1>. USE DEF IInv, TypeOK, TypesStores, storeVars
<1>1. ASSUME NEW t \in Tasks, Review(t) PROVE TypesStores'
  <2>1. [took[t] EXCEPT !.id = issued + 1] \in Entries
    <3>1. issued + 1 \in Nat /\ took[t] \in Entries
      BY AppAssumption
    <3>. QED BY <3>1, EntryChanged
  <2>2. issued' \in 0..MaxReviews
    BY <1>1, AppAssumption DEF Review
  <2>3. pending' \in [Stores -> Entries] /\ completed' \in [Stores -> Entries]
    BY <1>1, <2>1, Defaults DEF Review, Put
  <2>. QED BY <1>1, <2>2, <2>3 DEF Review
<1>2. ASSUME NEW t \in Tasks, Take(t) PROVE TypesStores'
  <2>1. Kind(t) \in AllKinds
    BY DEF Kind, Calls
  <2>2. begun' \in [1..MaxReviews -> SUBSET AllKinds]
    BY <1>2, <2>1 DEF Take
  <2>. QED BY <1>2, <2>2, Defaults DEF Take, Removed
<1>3. ASSUME NEW t \in Tasks, TakeInVain(t) PROVE TypesStores'
  BY <1>3, Defaults DEF TakeInVain, Removed
<1>4. ASSUME NEW t \in Tasks, Succeed(t) PROVE TypesStores'
  <2>1. Outcomes(t) \subseteq Entries
    <3>1. took[t] \in Entries
      OBVIOUS
    <3>. QED BY <3>1, EntryChanged DEF Outcomes
  <2>. QED BY <1>4, <2>1 DEF Succeed, Finish
<1>5. ASSUME NEW t \in Tasks, FailAtRest(t) PROVE TypesStores'
  BY <1>5 DEF FailAtRest, Finish
<1>6. ASSUME NEW t \in Tasks, Fail(t) PROVE TypesStores'
  BY <1>6 DEF Fail, Finish
<1>7. ASSUME NEW t \in Tasks,
             \/ Acquire(t) \/ ReadSession(t) \/ ReadMachine(t)
             \/ Decline(t) \/ TakeNothing(t) \/ StartRepeat(t)
             \/ Move(t) \/ Progress(t) \/ LookForAlarm(t)
             \/ StopSucceeds(t) \/ StopFails(t) \/ RetryStop(t)
             \/ StopWaiting(t) \/ End(t) \/ Report(t) \/ Release(t)
             \/ Receive(t) \/ CancelOperation(t) \/ DropOperation(t)
             \/ StopRepeat(t) \/ Forget(t)
      PROVE  TypesStores'
  <2>1. UNCHANGED <<pending, completed, issued, begun>>
    BY <1>7
    DEF Acquire, Leave, ReadSession, ReadMachine, Decline, Refuse,
        TakeNothing, StartRepeat, Stream, Move, Progress, LookForAlarm,
        Recovered, RecoverStep, StopSucceeds, StopFails, GivesUp,
        RetryStop, StopWaiting, End, ForgetStopToken, Report, Release,
        Receive, CancelOperation, DropOperation, Drop, StopRepeat, Forget
  <2>. QED BY <2>1
<1>8. ASSUME NEW t \in Tasks, NEW k \in Kinds, NEW s \in Stores \cup {"none"},
             NEW i \in 0..issued, Request(t, k, s, i)
      PROVE  TypesStores'
  BY <1>8 DEF Request
<1>9. CASE Shutdown
  BY <1>9 DEF Shutdown, Cancel, Lock, CloseDevice
<1>10. CASE Machine
  BY <1>10 DEF Machine, Environment, MachineRests, Alarm, AlarmCleared, Reconnect
<1>11. CASE UNCHANGED vars
  BY <1>11 DEF vars
<1>. QED
  BY <1>1, <1>2, <1>3, <1>4, <1>5, <1>6, <1>7, <1>8, <1>9, <1>10, <1>11
  DEF Next, Begin, Work, Recovery, Client

-----------------------------------------------------------------------------
(* The theorems.                                                           *)

\* The invariant is inductive: each of its parts is kept by every step.
LEMMA IInvKept == IInv /\ [Next]_vars => IInv'
<1>. SUFFICES ASSUME IInv, [Next]_vars PROVE IInv'
  OBVIOUS
<1>1. TypesGuard' /\ TypesTasks' /\ TypesStores' /\ TypesStreams' /\ TypesMachine'
  BY GuardTypes, TaskTypes, StoreTypes, StreamTypes, MachineTypes
<1>2. TypeOK'
  BY <1>1 DEF TypeOK, TypesGuard, TypesTasks, TypesStores, TypesStreams, TypesMachine
<1>. QED
  BY <1>2, PathsKept, GuardedKept, LeftoverKept, ContactKept, ChannelsKept DEF IInv

\* The strengthening of every safety property below, for all constants.
THEOREM Inductive == Spec => []IInv
BY InitIInv, IInvKept, PTL DEF Spec

\* Types, and the bound of every event channel.
THEOREM TypeCorrect == Spec => []TypeOK
<1>1. IInv => TypeOK
  BY DEF IInv
<1>. QED BY <1>1, Inductive, PTL

\* The guard outlives the motion: it is let go of a moving machine only by a
\* stopping service that could not stop it.
THEOREM GuardOutlivesMotion == Spec => []MotionIsOwned
<1>1. IInv => MotionIsOwned
  <2>. SUFFICES ASSUME IInv, moving # NoOne PROVE holder = moving \/ (recoveryFailed /\ closing # "open")
    BY DEF MotionIsOwned
  <2>1. moving \in Tasks
    BY DEF IInv, TypeOK
  <2>. QED BY <2>1 DEF IInv, Leftover, Guarded, Held, Recovering
<1>. QED BY <1>1, Inductive, PTL

\* No operation works on a machine that another one still moves.
THEOREM ExclusiveMachine == Spec => []OneOperationMoves
<1>1. IInv => OneOperationMoves
  <2>. SUFFICES ASSUME IInv, NEW t \in Tasks, pc[t] = "working", moving # NoOne, moving # t
                PROVE  FALSE
    BY DEF OneOperationMoves
  <2>1. holder = t /\ moving \in Tasks
    BY DEF IInv, Guarded, Held, TypeOK
  <2>2. pc[moving] \notin {"working", "failed"} \cup Recovering
    BY <2>1 DEF IInv, Guarded, Held, Recovering
  <2>3. recoveryFailed
    BY <2>2 DEF IInv, Leftover
  <2>. QED BY <2>1, <2>3 DEF IInv, Leftover, Recovering
<1>. QED BY <1>1, Inductive, PTL

\* recovery_failed is never left set by a service that goes on.
THEOREM NoForgottenRecovery == Spec => []RecoveryIsSettled
<1>1. IInv => RecoveryIsSettled
  BY DEF IInv, Leftover, RecoveryIsSettled
<1>. QED BY <1>1, Inductive, PTL

\* The stop button and the contact light belong to the run that holds the guard.
THEOREM StopReachesItsRun == Spec => []ContactIsCurrent
<1>1. IInv => ContactIsCurrent
  BY DEF IInv, Contact, ContactIsCurrent
<1>. QED BY <1>1, Inductive, PTL

\* The terminal event always finds a slot.
THEOREM TerminalEventDelivered == Spec => []TerminalEventFits
<1>1. IInv => TerminalEventFits
  BY DEF IInv, Channels, TerminalEventFits
<1>. QED BY <1>1, Inductive, PTL

-----------------------------------------------------------------------------
(* ProbeApp implements MachineOwner.                                       *)

\* A step that touches neither the guard, nor the shutdown, nor the motion.
LEMMA Stutter ==
  ASSUME UNCHANGED <<holder, closing, moving>> PROVE UNCHANGED Owner!ownerVars
BY DEF Owner!ownerVars

\* The guard is let go of a machine at rest, or by a service that is leaving.
LEMMA Unlocking ==
  ASSUME IInv, NEW t \in Tasks, pc[t] \in Held, Unlock, UNCHANGED moving,
         moving = NoOne \/ closing # "open"
  PROVE  Owner!Release(t)
<1>1. holder = t /\ closing # "closing" /\ holder' \notin Tasks
  BY Defaults DEF IInv, Guarded, Unlock
<1>2. /\ (closing' # "open") = (closing # "open")
      /\ (closing' = "closed") = (closing = "closed")
  BY DEF Unlock
<1>. QED
  BY <1>1, <1>2 DEF Owner!Release

\* Only a request that works or recovers has its motion under way.
LEMMA AtRest ==
  ASSUME IInv, NEW t \in Tasks, pc[t] \in Held,
         pc[t] \notin {"working", "failed"} \cup Recovering \/ Kind(t) \notin Streams \/ moving # t
  PROVE  moving = NoOne \/ closing # "open"
<1>. SUFFICES ASSUME moving # NoOne PROVE closing # "open"
  OBVIOUS
<1>1. holder = t /\ moving \in Tasks
  BY DEF IInv, Guarded, TypeOK
<1>2. CASE moving = t
  BY <1>2 DEF IInv, Leftover
<1>3. CASE moving # t
  <2>1. pc[moving] \notin Held
    BY <1>1, <1>3 DEF IInv, Guarded
  <2>. QED BY <2>1 DEF IInv, Leftover, Held, Recovering
<1>. QED BY <1>2, <1>3

\* Every step of a request, of shutdown() or of the machine is one of the
\* abstract owner's steps or leaves owner, mover and shutdown as they are.
LEMMA OwnerStep ==
  ASSUME IInv, [Next]_vars PROVE [Owner!Next]_(Owner!ownerVars)
<1>1. ASSUME NEW t \in Tasks,
             \/ ReadSession(t) \/ ReadMachine(t) \/ Take(t)
             \/ StartRepeat(t) \/ Progress(t) \/ LookForAlarm(t)
             \/ StopFails(t)
      PROVE  UNCHANGED Owner!ownerVars
  BY <1>1, Stutter
  DEF ReadSession, ReadMachine, Take, StartRepeat, Progress, LookForAlarm,
      Recovered, RecoverStep, StopFails, taskVars, machineVars
<1>2. ASSUME NEW t \in Tasks,
             \/ RetryStop(t) \/ StopWaiting(t) \/ End(t) \/ Report(t)
             \/ Receive(t) \/ CancelOperation(t) \/ DropOperation(t)
             \/ StopRepeat(t) \/ Forget(t)
      PROVE  UNCHANGED Owner!ownerVars
  BY <1>2, Stutter
  DEF RetryStop, RecoverStep, StopWaiting, Recovered, End, Report, Receive,
      CancelOperation, DropOperation, StopRepeat, Forget, taskVars,
      machineVars
<1>3. ASSUME NEW t \in Tasks,
             \/ Review(t) \/ Decline(t) \/ TakeNothing(t) \/ TakeInVain(t) \/ Release(t)
      PROVE  Owner!Release(t)
  <2>1. /\ pc[t] \in {"reading", "checking", "starting", "taking", "releasing"}
        /\ Unlock /\ UNCHANGED moving
    BY <1>3 DEF Review, Decline, TakeNothing, TakeInVain, Release, Refuse, machineVars
  <2>2. pc[t] \in Held /\ pc[t] \notin {"working", "failed"} \cup Recovering
    BY <2>1 DEF Held, Recovering
  <2>. QED BY <2>1, <2>2, AtRest, Unlocking
<1>4. ASSUME NEW t \in Tasks, Succeed(t) \/ FailAtRest(t) \/ Fail(t)
      PROVE  Owner!Release(t) \/ UNCHANGED Owner!ownerVars
  <2>1. /\ pc[t] \in Held /\ UNCHANGED moving
        /\ \/ UNCHANGED <<holder, closing>>
           \/ Unlock /\ (moving # t \/ Kind(t) \notin Streams)
    BY <1>4 DEF Succeed, FailAtRest, Fail, Recovers, Settled, Held, machineVars
  <2>2. CASE UNCHANGED <<holder, closing>>
    BY <2>1, <2>2, Stutter
  <2>3. CASE Unlock /\ (moving # t \/ Kind(t) \notin Streams)
    BY <2>1, <2>3, AtRest, Unlocking
  <2>. QED BY <2>1, <2>2, <2>3
<1>5. ASSUME NEW t \in Tasks, Acquire(t) PROVE Owner!Take(t) \/ UNCHANGED Owner!ownerVars
  <2>1. UNCHANGED <<closing, moving>>
    BY <1>5 DEF Acquire, machineVars
  <2>2. CASE TryAcquire
    <3>1. moving = NoOne
      BY <2>2, Defaults DEF TryAcquire, IInv, Leftover, Guarded, TypeOK, Held, Recovering
    <3>2. holder' = t /\ holder = NoOne
      BY <1>5, <2>2 DEF Acquire, TryAcquire
    <3>. QED BY <2>1, <3>1, <3>2, Defaults DEF Owner!Take
  <2>3. CASE ~TryAcquire
    BY <1>5, <2>1, <2>3, Stutter DEF Acquire
  <2>. QED BY <2>2, <2>3
<1>6. ASSUME NEW t \in Tasks, Move(t) PROVE Owner!Move(t)
  <2>1. holder = t /\ closing # "closed"
    BY <1>6 DEF Move, IsCancelled, IInv, Guarded, Held
  <2>. QED BY <1>6, <2>1 DEF Move, Owner!Move
<1>7. ASSUME NEW t \in Tasks, StopSucceeds(t) PROVE Owner!Rest
  BY <1>7 DEF StopSucceeds, Recovered, RecoverStep, Owner!Rest
<1>8. ASSUME NEW t \in Tasks, NEW k \in Kinds, NEW s \in Stores \cup {"none"},
             NEW i \in 0..issued, Request(t, k, s, i)
      PROVE  UNCHANGED Owner!ownerVars
  BY <1>8, Stutter DEF Request, machineVars
<1>9. CASE Cancel
  <2>1. UNCHANGED <<holder, moving>> /\ closing = "open" /\ closing' = "cancelled"
    BY <1>9 DEF Cancel, machineVars
  <2>. QED BY <2>1 DEF Owner!Next, Owner!Leaving
<1>10. CASE Lock
  <2>1. UNCHANGED moving /\ closing = "cancelled" /\ closing' \in {"closing", "queued"}
    BY <1>10 DEF Lock, machineVars
  <2>2. \/ holder' = holder
        \/ holder' \notin Tasks /\ holder \notin Tasks
    BY <1>10, Defaults DEF Lock
  <2>. QED BY <2>1, <2>2 DEF Owner!ownerVars
<1>11. CASE CloseDevice
  <2>1. /\ UNCHANGED moving /\ closing = "closing" /\ closing' = "closed"
        /\ holder \notin Tasks /\ holder' \notin Tasks
    BY <1>11, Defaults DEF CloseDevice, IInv, Guarded, machineVars
  <2>. QED BY <2>1 DEF Owner!Next, Owner!Close
<1>12. CASE MachineRests \/ Alarm
  <2>1. UNCHANGED <<holder, closing>> /\ moving' = NoOne
    BY <1>12 DEF MachineRests, Alarm, Environment
  <2>. QED BY <2>1 DEF Owner!Next, Owner!Rest
<1>13. CASE AlarmCleared \/ Reconnect
  BY <1>13, Stutter DEF AlarmCleared, Reconnect, Environment
<1>14. CASE UNCHANGED vars
  BY <1>14, Stutter DEF vars, machineVars
<1>. QED
  BY <1>1, <1>2, <1>3, <1>4, <1>5, <1>6, <1>7, <1>8, <1>9, <1>10, <1>11, <1>12,
     <1>13, <1>14
  DEF Next, Begin, Work, Recovery, Client, Shutdown, Machine, Owner!Next

\* The application implements the abstract machine owner: every guard, recovery
\* and shutdown behaviour of the code is one that MachineOwner allows.
THEOREM Implements == Spec => OwnsMachine
<1>1. Init => Owner!Init
  BY Defaults DEF Init, Owner!Init
<1>2. IInv /\ [Next]_vars => [Owner!Next]_(Owner!ownerVars)
  BY OwnerStep
<1>. QED
  BY <1>1, <1>2, Inductive, PTL DEF Spec, OwnsMachine, Owner!Spec
===============================================================================
