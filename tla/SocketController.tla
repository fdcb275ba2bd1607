--------------------------- MODULE SocketController ---------------------------
(***************************************************************************)
(* The controller client of crates/controller: one reconnect task owns the *)
(* bridge socket and reads machine reports from it; any number of callers  *)
(* write command frames through a writer slot that a mutex protects.       *)
(*                                                                         *)
(* A caller takes the socket OUT of the slot while its frame is being      *)
(* written and puts it back only when the whole frame went out.  A failed, *)
(* timed out or cancelled write leaves the slot empty and invalidates the  *)
(* stored machine state, because the peer may have seen half a frame.      *)
(*                                                                         *)
(* Reports are broadcast to the callers that wait for a confirmation       *)
(* (select_wcs and stop).  An invalidation is broadcast as the controller  *)
(* error -1, here the event of type "lost".                                *)
(***************************************************************************)
EXTENDS Naturals, Sequences

CONSTANTS
  Callers,        \* tasks that call into the controller
  NoOne,          \* the action mutex is free
  Wcs,            \* work coordinate systems a caller may select
  Reports,        \* the status reports the machine may send
  Frames,         \* the frames it may send, each a sequence of records
  NoReport,       \* Option::None for a status
  NotFinite,      \* a position with a coordinate that is not finite
  MaxSockets,     \* bound: connections the bridge accepts in one behaviour
  EventCapacity   \* capacity of the broadcast channel (512 in the code)

Modes == {"Ready", "Busy", "Blocked"}
\* What parse_line makes of a line: a status, or one of the records whose data
\* no confirmation looks at; "garbage" is a line it refuses.
Record(type, report) == [type |-> type, report |-> report]
Records == {Record("status", r) : r \in Reports}
           \cup {Record(t, NoReport) : t \in {"error", "other", "garbage"}}

ASSUME ConstantsAssumption ==
  /\ NoOne \notin Callers
  /\ Wcs # {}
  /\ MaxSockets \in Nat
  /\ EventCapacity \in Nat \ {0}
  /\ NoReport \notin Reports
  /\ \A r \in Reports : r.mode \in Modes
  /\ Frames \subseteq Seq(Records)

VARIABLES
  worker,     \* where the reconnect task is
  dialed,     \* the socket that task connected last; sockets are 1, 2, ...
  lines,      \* records of the received frame that are still to be applied
  slot,       \* the writer slot: a socket, or 0 for None
  connected, session, status, fresh,  \* the stored machine state
  action,     \* holder of the action mutex
  pc, op,     \* where each caller is, and in which method
  target,     \* the WCS a caller selects
  initial,    \* the status a selecting caller started from
  settled,    \* the event `stop` measures standstill from
  taken,      \* the socket a caller writes, or wrote, its frame to
  inbox,      \* events a subscribed caller has not received yet
  torn,       \* history: sockets that carry an incomplete frame
  stopping    \* the stop signal of shutdown(), or of the last dropped handle

storedVars == <<connected, session, status, fresh>>
callVars == <<op, target, initial, settled, taken>>
vars == <<worker, dialed, lines, slot, storedVars, action, pc, callVars, inbox,
          torn, stopping>>

EventSet == [type : {"none", "status", "error", "other", "lost", "lagged"},
             report : Reports \cup {NoReport}, origin : Nat]
Event(type, report, origin) ==
  [type |-> type, report |-> report, origin |-> origin]
SomeWcs == CHOOSE w \in Wcs : TRUE  \* the value of an unused target
NoEvent == Event("none", NoReport, 0)
Lagged == Event("lagged", NoReport, 0)

-----------------------------------------------------------------------------
(* Shared helpers.                                                         *)

\* Only a caller that is writing a frame holds the slot's mutex across an
\* await; the reconnect task locks it, assigns the slot and unlocks at once.
WriterUnguarded == TRUE  \* mutant: the lock is released before the write ends
WriterFree == \A c \in Callers : pc[c] # "writing"

\* broadcast::Sender::send: a receiver that is a whole channel behind loses the
\* oldest events, and its next recv() says so.  The origin of an event is a
\* history tag: the socket the task had connected when the event was made.
Deliver(queue, e) ==
  IF Len(queue) < EventCapacity THEN Append(queue, e) ELSE <<Lagged>>
Broadcast(type, report) ==
  inbox' = [c \in Callers |-> IF op[c] \in {"select", "stop"}
                              THEN Deliver(inbox[c], Event(type, report, dialed))
                              ELSE inbox[c]]

\* invalidate(): the stored state becomes the default but for the session id.
InvalidateStatusOnly ==  \* mutant: `connected` survives
  status' = NoReport /\ fresh' = FALSE /\ UNCHANGED <<connected, session>>
InvalidateSession ==  \* mutant: the session id is not carried over
  connected' = FALSE /\ status' = NoReport /\ fresh' = FALSE /\ session' = 0
Invalidate ==
  /\ connected' = FALSE
  /\ status' = NoReport
  /\ fresh' = FALSE
  /\ UNCHANGED session

\* The call of c ends: it returned, or its future was dropped.
LeaveCall(c) ==
  /\ pc' = [pc EXCEPT ![c] = "idle"]
  /\ op' = [op EXCEPT ![c] = "none"]
  /\ target' = [target EXCEPT ![c] = SomeWcs]
  /\ initial' = [initial EXCEPT ![c] = NoReport]
  /\ settled' = [settled EXCEPT ![c] = NoEvent]
  /\ taken' = [taken EXCEPT ![c] = 0]
  /\ action' = IF action = c THEN NoOne ELSE action
Leave(c) == LeaveCall(c) /\ inbox' = [inbox EXCEPT ![c] = <<>>]

-----------------------------------------------------------------------------
(* The reconnect task.                                                     *)

Dial ==
  /\ worker = "connect" /\ dialed < MaxSockets
  /\ worker' = "greet" /\ dialed' = dialed + 1
  /\ UNCHANGED <<lines, slot, storedVars, action, pc, callVars, inbox, torn,
                 stopping>>

\* session() writes the two opening queries on the socket before anybody else
\* can reach it, then waits for the slot.
Greet ==
  /\ worker = "greet" /\ worker' = "publish"
  /\ UNCHANGED <<dialed, lines, slot, storedVars, action, pc, callVars, inbox,
                 torn, stopping>>

Publish ==
  /\ worker = "publish" /\ WriterFree
  /\ worker' = "read"
  /\ slot' = dialed
  /\ connected' = TRUE /\ session' = session + 1
  /\ status' = NoReport /\ fresh' = FALSE
  /\ UNCHANGED <<dialed, lines, action, pc, callVars, inbox, torn, stopping>>

\* A frame is dropped, and the session ends, when the stored state has been
\* invalidated since the last one.
ReadFrameBlindly ==  \* mutant: the look at `connected` is missing
  /\ worker = "read" /\ worker' = "apply"
  /\ \E frame \in Frames : lines' = frame
  /\ UNCHANGED <<dialed, slot, storedVars, action, pc, callVars, inbox, torn,
                 stopping>>
ReadFrame ==
  /\ worker = "read"
  /\ \/ /\ connected
        /\ \E frame \in Frames : lines' = frame
        /\ worker' = "apply"
     \/ /\ ~connected
        /\ worker' = "clear" /\ UNCHANGED lines
  /\ UNCHANGED <<dialed, slot, storedVars, action, pc, callVars, inbox, torn,
                 stopping>>

\* apply() takes the records of a frame one at a time; each looks at
\* `connected` again, because a failed write may have intervened.
Applies == connected
ApplyLine ==
  /\ worker = "apply" /\ lines # <<>> /\ Head(lines).type # "garbage"
  /\ lines' = Tail(lines)
  /\ \/ /\ Applies
        /\ IF Head(lines).type = "status"
           THEN status' = Head(lines).report /\ fresh' = TRUE
           ELSE UNCHANGED <<status, fresh>>
        /\ Broadcast(Head(lines).type, Head(lines).report)
     \/ /\ ~Applies
        /\ UNCHANGED <<status, fresh, inbox>>
  /\ UNCHANGED <<worker, dialed, slot, connected, session, action, pc,
                 callVars, torn, stopping>>

FrameDone ==
  /\ worker = "apply" /\ lines = <<>>
  /\ worker' = "read"
  /\ UNCHANGED <<dialed, lines, slot, storedVars, action, pc, callVars, inbox,
                 torn, stopping>>

\* The connection attempt, an opening query, a read (end of file, I/O error, a
\* frame of the wrong kind, 3 s of silence or 600 s of homing) or a record that
\* does not parse ends the session.
SessionFails ==
  /\ \/ worker \in {"connect", "greet", "read"}
     \/ worker = "apply" /\ lines # <<>> /\ Head(lines).type = "garbage"
  /\ worker' = "clear" /\ lines' = <<>>
  /\ UNCHANGED <<dialed, slot, storedVars, action, pc, callVars, inbox, torn,
                 stopping>>

\* disconnect() in two steps: the slot under its mutex, then the stored state.
EmptySlot ==
  /\ worker \in {"clear", "lastClear"} /\ WriterFree
  /\ slot' = 0
  /\ worker' = IF worker = "clear" THEN "mark" ELSE "lastMark"
  /\ UNCHANGED <<dialed, lines, storedVars, action, pc, callVars, inbox, torn,
                 stopping>>

MarkDisconnected ==
  /\ worker \in {"mark", "lastMark"}
  /\ Invalidate
  /\ Broadcast("lost", NoReport)
  /\ worker' = IF worker = "mark" THEN "connect" ELSE "done"
  /\ UNCHANGED <<dialed, lines, slot, action, pc, callVars, torn, stopping>>

\* select! drops the reconnect future at the await it is suspended in.
PreemptAt(places, next) ==
  /\ stopping
  /\ worker \in places
  /\ worker' = next
  /\ UNCHANGED <<dialed, lines, slot, storedVars, action, pc, callVars, inbox,
                 torn, stopping>>
PreemptDialing ==  \* mutant: only the reconnect loop looks at the signal
  PreemptAt({"connect"}, "lastClear")
Preempt == PreemptAt({"connect", "greet", "publish", "read", "clear"}, "lastClear")

-----------------------------------------------------------------------------
(* Callers.                                                                *)

\* send() and send_realtime() queue for the slot; stop() subscribes first.
Write(c, method) ==
  /\ pc[c] = "idle" /\ method \in {"send", "stop"}
  /\ pc' = [pc EXCEPT ![c] = "queued"]
  /\ op' = [op EXCEPT ![c] = method]
  /\ UNCHANGED <<worker, dialed, lines, slot, storedVars, action, target,
                 initial, settled, taken, inbox, torn, stopping>>

\* select_wcs() takes the action mutex or fails, and subscribes ...
BeginSelect(c, w) ==
  /\ pc[c] = "idle" /\ action = NoOne
  /\ action' = c
  /\ pc' = [pc EXCEPT ![c] = "checking"]
  /\ op' = [op EXCEPT ![c] = "select"]
  /\ target' = [target EXCEPT ![c] = w]
  /\ UNCHANGED <<worker, dialed, lines, slot, storedVars, initial, settled,
                 taken, inbox, torn, stopping>>

\* ... before it looks at the state; it sends only from a fresh Ready.
CheckSelect(c) ==
  /\ pc[c] = "checking"
  /\ IF /\ connected /\ fresh /\ status # NoReport
        /\ status.mode = "Ready" /\ status.wcs # target[c]
     THEN /\ pc' = [pc EXCEPT ![c] = "queued"]
          /\ initial' = [initial EXCEPT ![c] = status]
          /\ UNCHANGED <<action, op, target, settled, taken, inbox>>
     ELSE Leave(c)
  /\ UNCHANGED <<worker, dialed, lines, slot, storedVars, torn, stopping>>

\* write() gets the mutex: an empty slot is Disconnected, else it is emptied.
TakeSocket(c) ==
  /\ pc[c] = "queued" /\ WriterFree
  /\ \/ /\ slot = 0
        /\ Leave(c) /\ UNCHANGED slot
     \/ /\ slot # 0
        /\ slot' = 0
        /\ taken' = [taken EXCEPT ![c] = slot]
        /\ pc' = [pc EXCEPT ![c] = "writing"]
        /\ UNCHANGED <<action, op, target, initial, settled, inbox>>
  /\ UNCHANGED <<worker, dialed, lines, storedVars, torn, stopping>>

\* The whole frame went out: the socket returns to the slot.
FrameWritten(c) ==
  /\ pc[c] = "writing"
  /\ slot' = taken[c]
  /\ IF op[c] = "send"
     THEN Leave(c)
     ELSE /\ pc' = [pc EXCEPT ![c] = "waiting"]
          /\ UNCHANGED <<action, callVars, inbox>>
  /\ UNCHANGED <<worker, dialed, lines, storedVars, torn, stopping>>

\* An I/O error, the 3 s limit, or the caller's future dropped while the frame
\* is being written: FrameWrite::drop invalidates, then the mutex is released.
CutFrame(c) ==
  /\ pc[c] = "writing"
  /\ torn' = torn \cup {taken[c]}
  /\ Invalidate
  /\ LeaveCall(c)
  /\ inbox' = [d \in Callers |->
                 IF d = c THEN <<>>
                 ELSE IF op[d] \in {"select", "stop"}
                      THEN Deliver(inbox[d], Event("lost", NoReport, dialed))
                      ELSE inbox[d]]
  /\ UNCHANGED <<worker, dialed, lines, stopping>>
FrameCutPutBack(c) == CutFrame(c) /\ slot' = taken[c]  \* mutant
FrameCut(c) == CutFrame(c) /\ UNCHANGED slot

\* A future dropped while it waits, or the 3 s limit of a confirmation.
Abandon(c) ==
  /\ pc[c] \in {"queued", "waiting"}
  /\ Leave(c)
  /\ UNCHANGED <<worker, dialed, lines, slot, storedVars, torn, stopping>>

Finite(r) == r.pos # NotFinite
\* select_wcs: the next event is the confirmation, ends the wait in an error,
\* or is passed over.
SelectConfirmed(c, e) ==
  /\ op[c] = "select" /\ e.type = "status"
  /\ e.report.mode = "Ready" /\ e.report.wcs = target[c]
  /\ Finite(e.report) /\ e.report.pos = initial[c].pos
SelectRefusedByError(c, e) ==  \* mutant: the wait ignores a lost connection
  op[c] = "select" /\ e.type = "error"
SelectRefused(c, e) ==
  /\ op[c] = "select"
  /\ \/ e.type \in {"error", "lost", "lagged"}
     \/ /\ e.type = "status"
        /\ \/ e.report.mode = "Blocked"
           \/ ~Finite(e.report)
           \/ e.report.pos # initial[c].pos

\* stop: two reports of one position, with no moving report between them and
\* half a second apart (`late`), show standstill; a gap of more than a second
\* (`gap`) starts over.
Standing(c, e, gap) ==
  /\ ~gap /\ settled[c] # NoEvent
  /\ settled[c].report.pos = e.report.pos
StopConfirmed(c, e, gap, late) ==
  /\ op[c] = "stop" /\ e.type = "status"
  /\ e.report.mode # "Busy" /\ Finite(e.report)
  /\ Standing(c, e, gap) /\ late
StopRefused(c, e) ==
  /\ op[c] = "stop"
  /\ \/ e.type \in {"lost", "lagged"}
     \/ e.type = "status" /\ e.report.mode # "Busy" /\ ~Finite(e.report)
NextSettled(c, e, gap) ==
  IF op[c] # "stop" \/ e.type # "status" THEN settled[c]
  ELSE IF e.report.mode = "Busy" THEN NoEvent
  ELSE IF Standing(c, e, gap) THEN settled[c]
  ELSE e

Confirmed(c, gap, late) ==
  LET e == Head(inbox[c])
  IN  SelectConfirmed(c, e) \/ StopConfirmed(c, e, gap, late)

\* The call returns Ok.
Confirm(c) ==
  /\ pc[c] = "waiting" /\ inbox[c] # <<>>
  /\ \E gap, late \in BOOLEAN : Confirmed(c, gap, late)
  /\ Leave(c)
  /\ UNCHANGED <<worker, dialed, lines, slot, storedVars, torn, stopping>>

\* The call returns an error.
Refuse(c) ==
  /\ pc[c] = "waiting" /\ inbox[c] # <<>>
  /\ SelectRefused(c, Head(inbox[c])) \/ StopRefused(c, Head(inbox[c]))
  /\ Leave(c)
  /\ UNCHANGED <<worker, dialed, lines, slot, storedVars, torn, stopping>>

\* The wait goes on.
PassOver(c) ==
  /\ pc[c] = "waiting" /\ inbox[c] # <<>>
  /\ ~SelectRefused(c, Head(inbox[c])) /\ ~StopRefused(c, Head(inbox[c]))
  /\ \E gap, late \in BOOLEAN :
       /\ ~Confirmed(c, gap, late)
       /\ settled' = [settled EXCEPT ![c] = NextSettled(c, Head(inbox[c]), gap)]
  /\ inbox' = [inbox EXCEPT ![c] = Tail(@)]
  /\ UNCHANGED <<worker, dialed, lines, slot, storedVars, action, pc, op,
                 target, initial, taken, torn, stopping>>

-----------------------------------------------------------------------------
(* Time and shutdown.                                                      *)

\* FRESHNESS (2 s) passes without a status.
Stale ==
  /\ fresh /\ fresh' = FALSE
  /\ UNCHANGED <<worker, dialed, lines, slot, connected, session, status,
                 action, pc, callVars, inbox, torn, stopping>>

Shutdown ==
  /\ ~stopping /\ stopping' = TRUE
  /\ UNCHANGED <<worker, dialed, lines, slot, storedVars, action, pc, callVars,
                 inbox, torn>>

Session == \/ Dial \/ Greet \/ Publish \/ ReadFrame \/ ApplyLine \/ FrameDone
           \/ SessionFails \/ EmptySlot \/ MarkDisconnected \/ Preempt
Caller(c) == \/ Write(c, "send") \/ Write(c, "stop")
             \/ \E w \in Wcs : BeginSelect(c, w)
             \/ CheckSelect(c) \/ TakeSocket(c) \/ FrameWritten(c)
             \/ FrameCut(c) \/ Abandon(c) \/ Confirm(c) \/ Refuse(c)
             \/ PassOver(c)

Init ==
  /\ worker = "connect" /\ dialed = 0 /\ lines = <<>>
  /\ slot = 0
  /\ connected = FALSE /\ session = 0 /\ status = NoReport /\ fresh = FALSE
  /\ action = NoOne
  /\ pc = [c \in Callers |-> "idle"]
  /\ op = [c \in Callers |-> "none"]
  /\ target = [c \in Callers |-> SomeWcs]
  /\ initial = [c \in Callers |-> NoReport]
  /\ settled = [c \in Callers |-> NoEvent]
  /\ taken = [c \in Callers |-> 0]
  /\ inbox = [c \in Callers |-> <<>>]
  /\ torn = {}
  /\ stopping = FALSE

Next == Session \/ (\E c \in Callers : Caller(c)) \/ Stale \/ Shutdown

\* Every await of the reconnect task and of a write has a time limit, so each
\* of their steps happens; tokio's mutex is first come first served, so a step
\* that needs it is not passed over for ever; a waiting caller is woken by an
\* event.  select! polls its two branches in random order each time the task
\* wakes, so a stop signal does not lose for ever to a busy socket.
\* Confirmation time limits, new calls and dropped futures are not assumed.
Fairness ==
  /\ WF_vars(Dial \/ (worker = "connect" /\ SessionFails))
  /\ WF_vars(Greet \/ (worker = "greet" /\ SessionFails))
  /\ WF_vars(ReadFrame \/ (worker = "read" /\ SessionFails))
  /\ WF_vars(ApplyLine \/ FrameDone \/ (worker = "apply" /\ SessionFails))
  /\ WF_vars(MarkDisconnected)
  /\ SF_vars(Publish) /\ SF_vars(EmptySlot) /\ SF_vars(Preempt)
  /\ \A c \in Callers :
       /\ SF_vars(TakeSocket(c))
       /\ WF_vars(CheckSelect(c))
       /\ WF_vars(FrameWritten(c) \/ FrameCut(c))
       /\ WF_vars(Confirm(c) \/ Refuse(c) \/ PassOver(c))

Spec == Init /\ [][Next]_vars
FairSpec == Spec /\ Fairness

-----------------------------------------------------------------------------
(* Properties.                                                             *)

TypeOK ==
  /\ worker \in {"connect", "greet", "publish", "read", "apply", "clear",
                 "mark", "lastClear", "lastMark", "done"}
  /\ dialed \in Nat
  /\ lines \in Seq(Records)
  /\ slot \in Nat
  /\ connected \in BOOLEAN
  /\ session \in Nat
  /\ status \in Reports \cup {NoReport}
  /\ fresh \in BOOLEAN
  /\ action \in Callers \cup {NoOne}
  /\ pc \in [Callers -> {"idle", "checking", "queued", "writing", "waiting"}]
  /\ op \in [Callers -> {"none", "send", "select", "stop"}]
  /\ target \in [Callers -> Wcs]
  /\ initial \in [Callers -> Reports \cup {NoReport}]
  /\ settled \in [Callers -> EventSet]
  /\ taken \in [Callers -> Nat]
  /\ inbox \in [Callers -> Seq(EventSet)]
  /\ \A c \in Callers : Len(inbox[c]) <= EventCapacity
  /\ torn \subseteq Nat
  /\ stopping \in BOOLEAN

\* Whoever can write, can write only on the socket that the task is reading,
\* and only while the stored state is that socket's: a slow write can never
\* put an old socket back, nor invalidate the session that came after it.
\* (write() against session() and disconnect().)
WriterBelongsToSession ==
  /\ slot # 0 => connected /\ slot = dialed
  /\ \A c \in Callers :
       pc[c] = "writing" => connected /\ slot = 0 /\ taken[c] = dialed

\* A socket on which a frame was cut short is never written to again: the
\* bridge would read the rest of the next frame as a header.
\* (FrameWrite: "Remove the socket until the whole frame succeeds".)
TornSocketIsNotReused ==
  /\ slot \notin torn
  /\ \A c \in Callers : pc[c] = "writing" => taken[c] \notin torn

\* While the state is connected there is a way to write: the slot holds the
\* socket, a caller has it out for one frame, or disconnect() is between its
\* two steps.  A cancelled call cannot leave a connected but mute controller.
ConnectedCanWrite ==
  connected => \/ slot # 0
               \/ \E c \in Callers : pc[c] = "writing"
               \/ worker \in {"mark", "lastMark"}

\* Nothing of an earlier connection survives: the state becomes connected only
\* under a new, larger session id, ids never decrease, and the id tells the
\* socket.  Review tokens rely on it (reviews.rs compares session ids).
SessionNamesConnection ==
  [][/\ session' >= session
     /\ connected' => \/ connected /\ session' = session /\ dialed' = dialed
                      \/ ~connected /\ session' > session]_vars

\* A report that was in hand when a write failed is not written into the
\* invalidated state: a disconnected state shows no status.
NoStatusWhileDisconnected == ~connected => status = NoReport /\ ~fresh

\* select_wcs and stop never return Ok on a report of a connection made after
\* the one their command went out on, and stop never compares positions of two
\* connections: the machine may have been restarted in between.
ConfirmedByOwnConnection ==
  [][\A c \in Callers : Confirm(c) =>
       /\ Head(inbox[c]).origin <= taken[c]
       /\ op[c] = "stop" => settled[c].origin = Head(inbox[c]).origin]_vars

\* Once shutdown() has returned the controller is disconnected and no call can
\* reach a socket any more.
ShutdownIsFinal ==
  worker = "done" => ~connected /\ slot = 0 /\ WriterFree

\* shutdown() returns whatever callers and the machine do.
ShutdownCompletes == stopping ~> worker = "done"

\* A session whose writer was poisoned is given up and the task dials again.
PoisonedSessionIsReplaced ==
  (worker \in {"read", "apply"} /\ ~connected)
     ~> worker \in {"connect", "done"}

\* "Publish disconnects as errors to terminate in-flight waits": a caller that
\* waits for a confirmation does not sit out its time limit after a loss.
LossEndsWaits ==
  \A c \in Callers : (pc[c] = "waiting" /\ ~connected) ~> pc[c] = "idle"
===============================================================================
