------------------------------- MODULE ProbeApp -------------------------------
(***************************************************************************)
(* Machine ownership in crates/probe-app: requests compete for one action  *)
(* guard, consume one-shot reviews and results, run an operation that      *)
(* streams progress to a client, and recover the machine before they let   *)
(* the guard go, while clients disconnect and the service stops.           *)
(*                                                                         *)
(* The machine is the environment.  `moving` names the request whose motion*)
(* it carries out; the code never sees that, it only acts so as to know.   *)
(* probe-core is used through its results: an operation that ends with Ok  *)
(* or with one of the errors recover() lets pass leaves the machine at     *)
(* rest; with any other error the machine may still move.                  *)
(***************************************************************************)
EXTENDS Naturals

CONSTANTS
  Tasks,        \* requests that may be under way at a time
  NoOne, Service,  \* holders of the guard: nobody, shutdown()
  Stores,       \* the two instances of Reviews: "routine" and "rotary"
  Kinds,        \* the requests made, a subset of AllKinds
  MaxReviews,   \* bound: reviews put in one behaviour
  MaxSessions,  \* bound: connections to the machine in one behaviour
  Capacity      \* slots of the event channel (256 in the code)

Streams == {"run", "return", "measured", "repeat"}  \* requests with an Operation
Results == {"return", "measured", "zero", "keep", "apply"}  \* that use a result
AllKinds == Streams \cup Results \cup {"review", "other"}

ASSUME AppAssumption ==
  /\ {NoOne, Service} \cap Tasks = {} /\ NoOne # Service
  /\ Stores \subseteq {"routine", "rotary"}
  /\ Kinds \subseteq AllKinds
  /\ MaxReviews \in Nat /\ MaxSessions \in Nat /\ Capacity \in Nat \ {0}

VARIABLES
  holder,          \* who has the action guard
  closing,         \* how far shutdown() is
  active, recoveryFailed,
  stopToken,       \* repeatability_stop: the run it would stop
  pending, completed,  \* the review and the result each store holds
  issued,          \* reviews put so far; ids are 1, 2, ...
  pc, call,        \* where each request is, and what it asks
  epoch,           \* the session id it read
  took,            \* the review or result it took, or the plan it reads
  cancelled, stopped,  \* its own tokens
  handle,          \* the client's Operation
  queued, terminal,    \* progress events in the channel; the terminal event
  session, blocked, moving,  \* the machine: connection, alarm, whose motion
  begun            \* history: the motions begun for each review

machineVars == <<session, blocked, moving>>
storeVars == <<pending, completed, issued, begun>>
statusVars == <<active, recoveryFailed, stopToken>>
streamVars == <<cancelled, stopped, handle, queued, terminal>>
taskVars == <<pc, call, epoch, took>>
vars == <<holder, closing, statusVars, storeVars, taskVars, streamVars,
          machineVars>>

\* A review (plan) or a result.  read: the session its machine state was read in.
Entries == [id : Nat, session : Nat, read : Nat,
            returned : BOOLEAN, positioned : BOOLEAN]
Nothing == [id |-> 0, session |-> 0, read |-> 0,
            returned |-> FALSE, positioned |-> FALSE]
Calls == [kind : AllKinds, store : Stores \cup {"none"}, id : Nat]
NoCall == [kind |-> "other", store |-> "none", id |-> 0]
Kind(t) == call[t].kind
Store(t) == call[t].store

\* The requests of each store, and those that use none.
Asks(k, s) ==
  CASE k \in {"repeat", "other"} -> s = "none"
    [] k \in {"return", "measured", "zero"} -> s = "routine"
    [] k = "apply" -> s = "rotary"
    [] OTHER -> s \in {"routine", "rotary"}

Init ==
  /\ holder = NoOne /\ closing = "open"
  /\ active = FALSE /\ recoveryFailed = FALSE /\ stopToken = NoOne
  /\ pending = [s \in Stores |-> Nothing] /\ completed = [s \in Stores |-> Nothing]
  /\ issued = 0 /\ begun = [i \in 1..MaxReviews |-> {}]
  /\ pc = [t \in Tasks |-> "idle"] /\ call = [t \in Tasks |-> NoCall]
  /\ epoch = [t \in Tasks |-> 0] /\ took = [t \in Tasks |-> Nothing]
  /\ cancelled = [t \in Tasks |-> FALSE] /\ stopped = [t \in Tasks |-> FALSE]
  /\ handle = [t \in Tasks |-> "none"] /\ queued = [t \in Tasks |-> 0]
  /\ terminal = [t \in Tasks |-> "none"]
  /\ session = 1 /\ blocked = FALSE /\ moving = NoOne

-----------------------------------------------------------------------------
(* Helpers.                                                                *)

Go(t, where) == pc' = [pc EXCEPT ![t] = where]

\* CancellationToken: a run's token is a child of the service's.
IsCancelled(t) == cancelled[t] \/ closing # "open"

\* A request is over and has no Operation.
Leave(t) ==
  /\ Go(t, "idle")
  /\ call' = [call EXCEPT ![t] = NoCall]
  /\ epoch' = [epoch EXCEPT ![t] = 0]
  /\ took' = [took EXCEPT ![t] = Nothing]

\* The guard is dropped; tokio's mutex hands itself to the task that waits.
Unlock ==
  /\ holder' = IF closing = "queued" THEN Service ELSE NoOne
  /\ closing' = IF closing = "queued" THEN "closing" ELSE closing

\* The request returns an error, or its future is dropped, with the guard held.
Refuse(t) ==
  /\ Unlock /\ Leave(t)
  /\ UNCHANGED <<statusVars, storeVars, streamVars, machineVars>>

-----------------------------------------------------------------------------
(* acquire().                                                              *)

Request(t, k, s, i) ==
  /\ pc[t] = "idle" /\ closing = "open"
  /\ Asks(k, s)
  /\ i \in IF k \in Results \cup {"run"} THEN 1..issued ELSE {0}
  /\ Go(t, "entering")
  /\ call' = [call EXCEPT ![t] = [kind |-> k, store |-> s, id |-> i]]
  /\ UNCHANGED <<holder, closing, statusVars, storeVars, epoch, took,
                 streamVars, machineVars>>

TryAcquire == holder = NoOne /\ ~recoveryFailed
Acquire(t) ==
  /\ pc[t] = "entering"
  /\ IF TryAcquire
       THEN /\ holder' = t
            /\ Go(t, IF Kind(t) = "repeat" THEN "starting"
                     ELSE IF Kind(t) = "other" THEN "working" ELSE "holding")
            /\ UNCHANGED <<call, epoch, took>>
       ELSE UNCHANGED holder /\ Leave(t)
  /\ UNCHANGED <<closing, statusVars, storeVars, streamVars, machineVars>>

ReadSession(t) ==
  /\ pc[t] = "holding"
  /\ Go(t, IF Kind(t) = "review" THEN "reading" ELSE "taking")
  /\ epoch' = [epoch EXCEPT ![t] = session]
  /\ UNCHANGED <<holder, closing, statusVars, storeVars, call, took,
                 streamVars, machineVars>>

-----------------------------------------------------------------------------
(* review(), review_rotary(): in the client's future, which may be dropped.*)

ReadMachine(t) ==
  /\ pc[t] = "reading"
  /\ Go(t, "checking")
  /\ took' = [took EXCEPT ![t] = [Nothing EXCEPT !.session = epoch[t], !.read = session]]
  /\ UNCHANGED <<holder, closing, statusVars, storeVars, call, epoch,
                 streamVars, machineVars>>

\* Reviews::put
Put(s, plan) ==
  /\ pending' = [pending EXCEPT ![s] = plan]
  /\ completed' = [completed EXCEPT ![s] = Nothing]

SameSession(t) == session = epoch[t]
Review(t) ==
  /\ pc[t] = "checking" /\ SameSession(t) /\ issued < MaxReviews
  /\ issued' = issued + 1
  /\ Put(Store(t), [took[t] EXCEPT !.id = issued + 1])
  /\ Unlock /\ Leave(t)
  /\ UNCHANGED <<statusVars, begun, streamVars, machineVars>>

\* Any of the `?` of a request that has not started its task yet.
Decline(t) ==
  /\ pc[t] \in {"reading", "checking", "starting"}
  /\ Refuse(t)

-----------------------------------------------------------------------------
(* start_motion(), run_rotary(), repeatability(), zero() and the actions of*)
(* results.rs up to the point where they touch the machine.                *)

MatchesId(entry, t) == entry.id = call[t].id  \* mutant
Matches(entry, t) == entry.id = call[t].id /\ entry.session = epoch[t]
Source(t) == IF Kind(t) = "run" THEN pending[Store(t)] ELSE completed[Store(t)]

\* Reviews::take, Reviews::take_completed
RemovedByCopy(t) == UNCHANGED <<pending, completed>>  \* mutant: cloned, not taken
Removed(t) ==
  IF Kind(t) = "run"
    THEN pending' = [pending EXCEPT ![Store(t)] = Nothing] /\ UNCHANGED completed
    ELSE completed' = [completed EXCEPT ![Store(t)] = Nothing] /\ UNCHANGED pending

AlreadyDone(t) == \/ Kind(t) = "return" /\ Source(t).returned
                  \/ Kind(t) = "measured" /\ Source(t).positioned

\* The Operation the client gets, and the contact light it sees.
Stream(t) ==
  /\ active' = TRUE
  /\ handle' = [handle EXCEPT ![t] = "open"]
  /\ UNCHANGED <<recoveryFailed, cancelled, stopped, queued, terminal>>

Take(t) ==
  /\ pc[t] = "taking" /\ Matches(Source(t), t) /\ ~AlreadyDone(t)
  /\ took' = [took EXCEPT ![t] = Source(t)]
  /\ Removed(t)
  /\ begun' = [begun EXCEPT ![call[t].id] = @ \cup {Kind(t)}]
  /\ Go(t, "working")
  /\ IF Kind(t) \in Streams THEN Stream(t) /\ UNCHANGED stopToken
                            ELSE UNCHANGED <<statusVars, streamVars>>
  /\ UNCHANGED <<holder, closing, issued, call, epoch, machineVars>>

TakeNothing(t) ==
  /\ pc[t] = "taking" /\ (~Matches(Source(t), t) \/ AlreadyDone(t))
  /\ Refuse(t)

\* The review is taken but the log of the run cannot be started.
TakeInVain(t) ==
  /\ pc[t] = "taking" /\ Kind(t) = "run" /\ Matches(Source(t), t)
  /\ Removed(t) /\ Unlock /\ Leave(t)
  /\ UNCHANGED <<statusVars, issued, begun, streamVars, machineVars>>

StartRepeat(t) ==
  /\ pc[t] = "starting"
  /\ Go(t, "working") /\ stopToken' = t
  /\ Stream(t)
  /\ UNCHANGED <<holder, closing, storeVars, call, epoch, took, machineVars>>

-----------------------------------------------------------------------------
(* The task of an operation, from its first command to its outcome.        *)

Move(t) ==
  /\ pc[t] = "working" /\ Kind(t) \in Streams
  /\ ~IsCancelled(t) /\ ~blocked
  /\ moving' = t
  /\ UNCHANGED <<holder, closing, statusVars, storeVars, taskVars, streamVars,
                 session, blocked>>

\* queue_progress
RoomForAny(t) == queued[t] < Capacity  \* mutant: no slot is kept back
RoomForProgress(t) == Capacity - queued[t] > 1
Progress(t) ==
  /\ pc[t] = "working" /\ Kind(t) \in Streams
  /\ IF RoomForProgress(t) /\ handle[t] = "open"
       THEN queued' = [queued EXCEPT ![t] = @ + 1] /\ UNCHANGED cancelled
       ELSE cancelled' = [cancelled EXCEPT ![t] = TRUE] /\ UNCHANGED queued
  /\ UNCHANGED <<holder, closing, statusVars, storeVars, taskVars, stopped,
                 handle, terminal, machineVars>>

\* Reviews::finish
Finish(s, result) == completed' = [completed EXCEPT ![s] = result]

\* Where an operation that streams goes on once its outcome is known.
Settled(t) == Go(t, "ending") /\ UNCHANGED <<holder, closing, call, epoch, took>>

\* measured_inner and return_inner refuse a result already used; a run of an
\* angle routine ends where it started.
Outcomes(t) ==
  CASE Kind(t) = "run" -> {[took[t] EXCEPT !.returned = b] : b \in BOOLEAN}
    [] Kind(t) = "return" -> {[took[t] EXCEPT !.returned = TRUE]}
    [] Kind(t) = "measured" -> {[took[t] EXCEPT !.positioned = TRUE]}
    [] OTHER -> {took[t]}
Succeed(t) ==
  /\ pc[t] = "working" /\ moving # t
  /\ IF Kind(t) \in Results \cup {"run"}
       THEN \E result \in Outcomes(t) : Finish(Store(t), result)
       ELSE UNCHANGED completed
  /\ IF Kind(t) \in Streams THEN Settled(t) ELSE Unlock /\ Leave(t)
  /\ UNCHANGED <<statusVars, pending, issued, begun, streamVars, machineVars>>

\* Errors after which recover() does nothing.  Stopped is the answer to the
\* stop token; a request for a kept result puts it back whatever happens.
FailAtRest(t) ==
  /\ pc[t] = "working" /\ moving # t
  /\ IF Kind(t) \in {"keep", "apply"}
       THEN Finish(Store(t), took[t]) ELSE UNCHANGED completed
  /\ IF Kind(t) \in Streams THEN Settled(t) ELSE Unlock /\ Leave(t)
  /\ UNCHANGED <<statusVars, pending, issued, begun, streamVars, machineVars>>

\* All others: Cancelled, Timeout, Disconnected, Controller, Position, ...
RecoversForClient(t) == handle[t] = "open"  \* mutant
Recovers(t) == Kind(t) \in Streams \cup {"zero"}
Fail(t) ==
  /\ pc[t] = "working"
  /\ IF Kind(t) = "keep" THEN Finish(Store(t), took[t]) ELSE UNCHANGED completed
  /\ IF Recovers(t) THEN Go(t, "failed") /\ UNCHANGED <<holder, closing, call, epoch, took>>
                    ELSE Unlock /\ Leave(t)
  /\ UNCHANGED <<statusVars, pending, issued, begun, streamVars, machineVars>>

-----------------------------------------------------------------------------
(* recover().                                                              *)

RecoverStep(t, where) ==
  /\ Go(t, where)
  /\ UNCHANGED <<holder, closing, active, stopToken, storeVars, call, epoch,
                 took, streamVars, session, blocked>>
Recovered(t) == RecoverStep(t, IF Kind(t) = "zero" THEN "releasing" ELSE "ending")

LookForAlarm(t) ==
  /\ pc[t] = "failed"
  /\ IF blocked THEN Recovered(t) ELSE RecoverStep(t, "stopping")
  /\ UNCHANGED <<recoveryFailed, moving>>

\* device.stop() returns Ok once it has seen the machine stand still.
StopSucceedsOnly(t) ==  \* mutant: the flag of an earlier attempt stays
  /\ pc[t] = "stopping" /\ closing # "closed"
  /\ moving' = NoOne /\ UNCHANGED recoveryFailed
  /\ Recovered(t)
StopSucceeds(t) ==
  /\ pc[t] = "stopping" /\ closing # "closed"
  /\ moving' = NoOne /\ recoveryFailed' = FALSE
  /\ Recovered(t)

\* select!: a stopping service is noticed at once, the sleep never is.
GivesUpNever == FALSE  \* mutant: no look at the shutdown token
GivesUp == closing # "open"
StopFails(t) ==
  /\ pc[t] = "stopping"
  /\ recoveryFailed' = TRUE
  /\ IF GivesUp THEN Recovered(t) ELSE RecoverStep(t, "waiting")
  /\ UNCHANGED moving

RetryStop(t) ==
  /\ pc[t] = "waiting"
  /\ RecoverStep(t, "stopping") /\ UNCHANGED <<recoveryFailed, moving>>

StopWaiting(t) ==
  /\ pc[t] = "waiting" /\ GivesUp
  /\ Recovered(t) /\ UNCHANGED <<recoveryFailed, moving>>

-----------------------------------------------------------------------------
(* The end of a task, and the client.                                      *)

StopTokenLeft(t) == UNCHANGED stopToken  \* mutant
ForgetStopToken(t) ==
  stopToken' = IF Kind(t) = "repeat" THEN NoOne ELSE stopToken
End(t) ==
  /\ pc[t] = "ending"
  /\ Go(t, "reporting")
  /\ ForgetStopToken(t) /\ active' = FALSE
  /\ UNCHANGED <<holder, closing, recoveryFailed, storeVars, call, epoch, took,
                 streamVars, machineVars>>

Report(t) ==
  /\ pc[t] = "reporting"
  /\ Go(t, "releasing")
  /\ terminal' = [terminal EXCEPT ![t] =
       IF handle[t] = "open" /\ queued[t] < Capacity THEN "queued" ELSE "lost"]
  /\ UNCHANGED <<holder, closing, statusVars, storeVars, call, epoch, took,
                 cancelled, stopped, handle, queued, machineVars>>

Release(t) ==
  /\ pc[t] = "releasing"
  /\ Unlock
  /\ IF Kind(t) \in Streams THEN Go(t, "done") /\ UNCHANGED <<call, epoch, took>>
                            ELSE Leave(t)
  /\ UNCHANGED <<statusVars, storeVars, streamVars, machineVars>>

Receive(t) ==
  /\ handle[t] = "open"
  /\ \/ /\ queued[t] > 0
        /\ queued' = [queued EXCEPT ![t] = @ - 1] /\ UNCHANGED terminal
     \/ /\ queued[t] = 0 /\ terminal[t] = "queued"
        /\ terminal' = [terminal EXCEPT ![t] = "received"] /\ UNCHANGED queued
  /\ UNCHANGED <<holder, closing, statusVars, storeVars, taskVars, cancelled,
                 stopped, handle, machineVars>>

\* Operation::cancel, and the Drop of an Operation, which also closes the
\* channel.
CancelOperation(t) ==
  /\ handle[t] = "open"
  /\ cancelled' = [cancelled EXCEPT ![t] = TRUE]
  /\ UNCHANGED <<holder, closing, statusVars, storeVars, taskVars, stopped,
                 handle, queued, terminal, machineVars>>
DropSilently(t) == handle' = [handle EXCEPT ![t] = "dropped"] /\ UNCHANGED cancelled  \* mutant
Drop(t) ==
  /\ handle' = [handle EXCEPT ![t] = "dropped"]
  /\ cancelled' = [cancelled EXCEPT ![t] = TRUE]
DropOperation(t) ==
  /\ handle[t] = "open" /\ Drop(t)
  /\ UNCHANGED <<holder, closing, statusVars, storeVars, taskVars, stopped,
                 queued, terminal, machineVars>>

\* stop_repeatability()
StopRepeat(t) ==
  /\ stopToken = t
  /\ stopped' = [stopped EXCEPT ![t] = TRUE]
  /\ UNCHANGED <<holder, closing, statusVars, storeVars, taskVars, cancelled,
                 handle, queued, terminal, machineVars>>

\* The task and the Operation are both gone.
Forget(t) ==
  /\ pc[t] = "done" /\ handle[t] = "dropped"
  /\ Leave(t)
  /\ cancelled' = [cancelled EXCEPT ![t] = FALSE]
  /\ stopped' = [stopped EXCEPT ![t] = FALSE]
  /\ handle' = [handle EXCEPT ![t] = "none"]
  /\ queued' = [queued EXCEPT ![t] = 0]
  /\ terminal' = [terminal EXCEPT ![t] = "none"]
  /\ UNCHANGED <<holder, closing, statusVars, storeVars, machineVars>>

-----------------------------------------------------------------------------
(* shutdown().                                                             *)

Cancel ==
  /\ closing = "open" /\ closing' = "cancelled"
  /\ UNCHANGED <<holder, statusVars, storeVars, taskVars, streamVars, machineVars>>
Lock ==
  /\ closing = "cancelled"
  /\ IF holder = NoOne THEN holder' = Service /\ closing' = "closing"
                       ELSE UNCHANGED holder /\ closing' = "queued"
  /\ UNCHANGED <<statusVars, storeVars, taskVars, streamVars, machineVars>>
CloseDevice ==
  /\ closing = "closing"
  /\ closing' = "closed" /\ holder' = NoOne
  /\ UNCHANGED <<statusVars, storeVars, taskVars, streamVars, machineVars>>

-----------------------------------------------------------------------------
(* The machine and its connection.                                         *)

Environment == UNCHANGED <<holder, closing, statusVars, storeVars, taskVars, streamVars>>
MachineRests == moving # NoOne /\ moving' = NoOne /\ UNCHANGED <<session, blocked>> /\ Environment
Alarm == ~blocked /\ blocked' = TRUE /\ moving' = NoOne /\ UNCHANGED session /\ Environment
AlarmCleared == blocked /\ blocked' = FALSE /\ UNCHANGED <<session, moving>> /\ Environment
Reconnect ==
  /\ session < MaxSessions /\ session' = session + 1
  /\ UNCHANGED <<blocked, moving>> /\ Environment

-----------------------------------------------------------------------------
Recovery(t) == \/ LookForAlarm(t) \/ StopSucceeds(t) \/ StopFails(t)
               \/ RetryStop(t) \/ StopWaiting(t)
Work(t) == Move(t) \/ Progress(t) \/ Succeed(t) \/ FailAtRest(t) \/ Fail(t)
Begin(t) == \/ Acquire(t) \/ ReadSession(t) \/ ReadMachine(t) \/ Review(t)
            \/ Decline(t) \/ Take(t) \/ TakeNothing(t) \/ TakeInVain(t)
            \/ StartRepeat(t)
Client(t) == \/ \E k \in Kinds, s \in Stores \cup {"none"}, i \in 0..issued : Request(t, k, s, i)
             \/ Receive(t) \/ CancelOperation(t) \/ DropOperation(t)
             \/ StopRepeat(t) \/ Forget(t)
Shutdown == Cancel \/ Lock \/ CloseDevice
Machine == MachineRests \/ Alarm \/ AlarmCleared \/ Reconnect

Next ==
  \/ \E t \in Tasks : \/ Begin(t) \/ Work(t) \/ Recovery(t)
                      \/ End(t) \/ Report(t) \/ Release(t) \/ Client(t)
  \/ Shutdown \/ Machine

Spec == Init /\ [][Next]_vars

\* Every wait of a task has a time limit, so it takes its next step; only an
\* operation that nobody cancels may go on for as long as its routine does, a
\* stopped one too: what a run does about the stop button is in CapturedState.
Proceed(t) == \/ Begin(t) \/ Recovery(t) \/ End(t) \/ Report(t) \/ Release(t)
EndWork(t) == Succeed(t) \/ FailAtRest(t) \/ Fail(t)
Heeds(t) == IsCancelled(t) \/ Kind(t) \notin Streams
Obey(t) == Heeds(t) /\ EndWork(t)
Fairness ==
  /\ \A t \in Tasks : WF_vars(Proceed(t)) /\ WF_vars(Obey(t))
  /\ WF_vars(Lock) /\ WF_vars(CloseDevice)
FairSpec == Spec /\ Fairness

-----------------------------------------------------------------------------
(* Properties.                                                             *)

Held == {"holding", "reading", "checking", "taking", "starting", "working",
         "failed", "stopping", "waiting", "ending", "reporting", "releasing"}

\* Types, and the channel never holds more than its capacity.
TypeOK ==
  /\ holder \in Tasks \cup {NoOne, Service}
  /\ closing \in {"open", "cancelled", "queued", "closing", "closed"}
  /\ active \in BOOLEAN /\ recoveryFailed \in BOOLEAN
  /\ stopToken \in Tasks \cup {NoOne}
  /\ pending \in [Stores -> Entries] /\ completed \in [Stores -> Entries]
  /\ issued \in 0..MaxReviews
  /\ begun \in [1..MaxReviews -> SUBSET AllKinds]
  /\ pc \in [Tasks -> Held \cup {"idle", "entering", "done"}]
  /\ call \in [Tasks -> Calls]
  /\ epoch \in [Tasks -> Nat] /\ took \in [Tasks -> Entries]
  /\ cancelled \in [Tasks -> BOOLEAN] /\ stopped \in [Tasks -> BOOLEAN]
  /\ handle \in [Tasks -> {"none", "open", "dropped"}]
  /\ queued \in [Tasks -> 0..Capacity]
  /\ terminal \in [Tasks -> {"none", "queued", "received", "lost"}]
  /\ session \in Nat /\ blocked \in BOOLEAN /\ moving \in Tasks \cup {NoOne}

\* The guard outlives the motion: while the machine moves, the operation that
\* moves it holds the guard, or could not stop it before the service ended
\* and has left recovery_failed behind.
MotionIsOwned ==
  moving # NoOne => \/ holder = moving
                    \/ recoveryFailed /\ closing # "open"

\* No operation works on a machine that another one still moves, even in the
\* window between a shutdown's cancel and its lock.
OneOperationMoves ==
  \A t \in Tasks : pc[t] = "working" => moving \in {NoOne, t}

\* recovery_failed blocks every acquire: it is never left set with nobody there
\* to clear it, unless the service is stopping.
RecoveryIsSettled == recoveryFailed => closing # "open" \/ holder \in Tasks

\* contact_active and the repeatability stop token belong to the run that holds
\* the guard: the stop button never reaches another run.
ContactIsCurrent ==
  /\ active => holder \in Tasks /\ Kind(holder) \in Streams
  /\ stopToken # NoOne =>
       active /\ holder = stopToken /\ Kind(stopToken) = "repeat"

\* A new review takes the place of the last result: nothing can be applied
\* from the one while the other waits to be run.
ReviewSupersedesResult ==
  \A s \in Stores : pending[s] = Nothing \/ completed[s] = Nothing

\* What a run moves by was read on the connection the run was accepted on.
RunsAsReviewed ==
  \A t \in Tasks : pc[t] = "working" /\ Kind(t) = "run" => took[t].read = epoch[t]

\* A client that keeps its Operation always gets the terminal event, however
\* slowly it reads.
TerminalEventFits ==
  \A t \in Tasks : terminal[t] = "lost" => handle[t] = "dropped"

\* Every authorization is one-shot: no review is run twice, and no result is
\* used twice for the same motion.
MotionsAreOneShot ==
  [][\A t \in Tasks : Kind(t) \in {"run", "return", "measured"}
       /\ pc[t] = "taking" /\ pc'[t] = "working" => Kind(t) \notin begun[call[t].id]]_vars

\* shutdown() returns, whatever operation is under way and however the machine
\* answers.
ShutdownCompletes == closing = "cancelled" ~> closing = "closed"

\* A client that leaves lets the machine go: its operation ends, or recovery is
\* being retried and state() says so.
DroppedOperationEnds ==
  \A t \in Tasks : (handle[t] = "dropped" /\ pc[t] = "working")
                     ~> (pc[t] \notin Held \/ recoveryFailed)

\* The application is a machine owner: it refines MachineOwner.
Owner == INSTANCE MachineOwner WITH
  owner <- IF holder \in Tasks THEN holder ELSE NoOne, mover <- moving,
  leaving <- closing # "open", gone <- closing = "closed"
OwnsMachine == Owner!Spec
===============================================================================
