----------------------------- MODULE CapturedState -----------------------------
(***************************************************************************)
(* What an operation borrows from the machine and gives back: the G-code   *)
(* modes, the work rotation and the arc plane (crates/probe-core: runtime, *)
(* rotary, angle, repeatability; crates/probe-app: the ends of the runs).  *)
(*                                                                         *)
(* Lines go to the machine in order and are answered in order; what the    *)
(* service knows of the machine is the last status and the last answer. An *)
(* operation asks, sets and confirms; it may be cancelled, time out, lose  *)
(* the connection or meet an alarm at each step. The motion of an          *)
(* operation is one move here, and positions are not looked at.            *)
(***************************************************************************)
EXTENDS Naturals, Sequences

CONSTANTS
  Operations,    \* the operations of this instance
  Found,         \* modes, rotation and plane the machine may be found in
  Measured,      \* a rotation that was measured
  MaxOps,        \* bound: operations
  MaxLost,       \* bound: answers lost
  MaxDrops,      \* bound: lost connections
  MaxAlarms      \* bound: alarms

Modes == {"probing", "metric", "inch"}
Motions == {"routine", "angle", "rotary", "measured", "return", "repeat"}
Reviewed == {"routine", "angle", "rotary"}
ResultActions == {"measured", "return", "zero"}
Writes == {"zero", "recorded", "rotaryzero", "levelzero", "align", "rotate"}
ASSUME OperationsAssumption == Operations \subseteq Motions \cup Writes \cup {"review"}

ASSUME FoundAssumption == \A f \in Found : f.modes \in Modes /\ f.plane \in 17..19
\* No rotation is called like the places of one in an instruction.
ASSUME RotationsAssumption ==
  {"none", "reviewed"} \cap ({f.rotation : f \in Found} \cup {Measured}) = {}

VARIABLES
  machine,    \* the machine: modes, rotation, plane, origin, moving, touching, blocked
  wire,       \* lines it has not read
  link,       \* the connection
  seen,       \* Controller::state(): ready, touching, blocked, modes
  reviewed,   \* plan.start of the last review
  op, part, todo, pc,
  verdict,    \* how the part ended
  captured,   \* modes queried by the operation
  cause, recovery,   \* its error, and whether that is inside Error::Recovery
  stop,       \* the stop button: "asked", or "late" once a motion began after it
  ops, lost, drops, alarms   \* counters of the bounds

counters == <<ops, lost, drops, alarms>>
machineVars == <<machine, wire, link, seen>>
opVars == <<op, part, todo, pc, verdict, captured, cause, recovery, stop>>
vars == <<machineVars, reviewed, opVars, counters>>

None == "none"
Unrotated == "R0"
\* Modes { units: 21, ..modes }
Metric(m) == IF m = "inch" THEN "metric" ELSE m

Init ==
  /\ \E f \in Found :
       /\ machine = [modes |-> f.modes, rotation |-> f.rotation, plane |-> f.plane,
                       origin |-> "old", moving |-> FALSE, touching |-> FALSE,
                       blocked |-> FALSE]
       /\ seen = [ready |-> TRUE, touching |-> FALSE, blocked |-> FALSE, modes |-> f.modes]
  /\ wire = <<>> /\ link = TRUE /\ reviewed = <<>>
  /\ op = None /\ part = None /\ todo = <<>> /\ pc = "idle" /\ verdict = "ok"
  /\ captured = None /\ cause = "ok" /\ recovery = FALSE /\ stop = "no"
  /\ ops = 0 /\ lost = 0 /\ drops = 0 /\ alarms = 0

-----------------------------------------------------------------------------
(* What each operation does, in parts.                                     *)

Do(what, v) == [do |-> what, v |-> v]
Ask(what) == Do(what, None)
Set(m) == Do("set", m)
Write(z, r) == Do("write", [zero |-> z, rotation |-> r])
Rotate(r) == Write(FALSE, r)
Move(arc) == Do("move", arc)
Jog == Ask("jog")
CheckStop == Ask("stop")
Parts(prepare, work, restore) == [prepare |-> prepare, work |-> work, restore |-> restore]

query_rotary_state == <<Ask("modes"), Ask("coordinates")>>
Review == Parts(query_rotary_state, <<>>, <<>>)
Run == Parts(<<Set("probing")>>, <<Move(FALSE)>>, <<Set("reviewed")>>)
RestoreRotaryButModes == <<Ask("preflight"), Rotate("reviewed")>>  \* mutant: no plane, no modes
restore_rotary_state ==
  <<Ask("preflight"), Rotate("reviewed"), Do("plane", "reviewed"), Set("reviewed")>>
RunRotary ==
  Parts(<<>>, <<Set("probing"), Rotate(Unrotated), Move(TRUE)>>, restore_rotary_state)
OneMove == Parts(<<Ask("modes"), Set("probing")>>, <<Move(FALSE)>>, <<Set("captured")>>)
\* A jog near home, which needs no modes and changes them, comes between the
\* moves of two measurements; the stop button is looked at before each motion.
RepetitionsByJog ==  \* mutant: jog_home does not look at the stop button
  [OneMove EXCEPT !.work = <<CheckStop, Move(FALSE), Jog, CheckStop, Set("probing"), CheckStop,
                             Move(FALSE), CheckStop>>]
RepetitionsUnset ==  \* mutant: the modes are not set again behind the jog
  [OneMove EXCEPT !.work = <<CheckStop, Move(FALSE), CheckStop, Jog, CheckStop, Move(FALSE),
                             CheckStop>>]
Repetitions ==
  [OneMove EXCEPT !.work = <<CheckStop, Move(FALSE), CheckStop, Jog, CheckStop, Set("probing"),
                             CheckStop, Move(FALSE), CheckStop>>]

\* "change" sets modes only when they differ from those that were asked for.
ZeroResult ==
  Parts(<<Ask("modes"), Do("change", "metric")>>, <<Ask("coordinates"), Ask("zero")>>,
        <<Do("change", "captured")>>)
ZeroRecorded ==
  Parts(<<Ask("preflight"), Ask("coordinates"), Ask("modes"), Do("change", "metric")>>,
        <<Write(TRUE, None)>>, <<Do("change", "captured")>>)
ZeroRotary(r) ==
  Parts(<<Ask("preflight"), Ask("coordinates"), Ask("modes"), Set("metric")>>,
        <<Write(TRUE, r)>>, <<Set("captured")>>)
ZeroLevel == ZeroRotary(None)
RotateAngle == Parts(<<Ask("preflight")>>, <<Rotate(Measured)>>, <<>>)

Program(o) ==
  CASE o = "review" -> Review
    [] o \in {"routine", "angle"} -> Run
    [] o = "rotary" -> RunRotary
    [] o \in {"measured", "return"} -> OneMove
    [] o = "repeat" -> Repetitions
    [] o = "zero" -> ZeroResult
    [] o = "recorded" -> ZeroRecorded
    [] o = "rotaryzero" -> ZeroRotary(None)
    [] o = "levelzero" -> ZeroLevel
    [] o = "align" -> ZeroRotary(Measured)
    [] o = "rotate" -> RotateAngle
PartOf(o, p) ==
  CASE p = "clear" -> <<Rotate(Unrotated)>>
    [] p = "rotation" -> <<Rotate("reviewed")>>
    [] p = "again" -> IF o = "rotary" THEN restore_rotary_state ELSE <<Set("reviewed")>>
    [] OTHER -> Program(o)[p]

\* Errors after which the machine is known to rest clear of contacts; and when
\* an operation goes on to give back what it set.
Settled(o) ==
  CASE o \in {"routine", "angle"} -> {"Missed", "Released", "Compensation"}
    [] o \in {"measured", "return"} -> {"Released"}
    [] o = "repeat" -> {"Missed", "Released", "Stopped"}
RestoresUnsettled(o, e) ==  \* mutant: after any error but an alarm
  e = "ok" \/ (~seen.blocked /\ e \notin {"Cancelled", "Disconnected"})
RestoresSuccess(o, e) ==  \* mutant: a released contact leaves the modes
  e = "ok" \/ (o \notin Motions /\ ~seen.blocked)
Restores(o, e) ==
  IF o = "rotary" THEN ~seen.blocked /\ e \notin {"Cancelled", "Disconnected"}
  ELSE IF o \in Motions
       THEN e = "ok" \/ (e \in Settled(o) /\ (o \in {"routine", "angle"} => ~seen.blocked))
       ELSE ~seen.blocked /\ e # "Cancelled"

-----------------------------------------------------------------------------
(* The machine and the connection (external).                              *)

Line(what, v) == [is |-> what, v |-> v]
MoveLines == {"move", "arc", "jog"}
After(m, l) ==
  CASE l.is = "modes" -> [m EXCEPT !.modes = l.v]
    [] l.is = "plane" -> [m EXCEPT !.plane = l.v]
    [] l.is = "write" -> [m EXCEPT !.rotation = IF l.v.rotation = None THEN @ ELSE l.v.rotation,
                                   !.origin = IF ~l.v.zero THEN @
                                              ELSE IF m.modes = "inch" THEN "wrong" ELSE "new"]
    [] l.is = "arc" -> [m EXCEPT !.plane = 19, !.moving = TRUE]
    [] l.is = "move" -> [m EXCEPT !.moving = TRUE]
    [] l.is = "jog" -> [m EXCEPT !.modes = IF @ = "probing" THEN "metric" ELSE @, !.moving = TRUE]
    [] OTHER -> m
\* The machine when it has read a line: an alarm makes it deaf.
Reads(m, l) == IF m.blocked THEN m ELSE After(m, l)

\* A status: what the service knows of rest, contacts and alarms.
Status ==
  /\ link
  /\ seen' = [seen EXCEPT !.ready = ~machine.moving /\ ~machine.blocked,
                          !.touching = machine.touching, !.blocked = machine.blocked]
  /\ seen' # seen
  /\ UNCHANGED <<machine, wire, link, reviewed, opVars, counters>>

\* The move in progress comes to its end.
MoveOver ==
  /\ machine.moving /\ machine' = [machine EXCEPT !.moving = FALSE]
  /\ UNCHANGED <<wire, link, seen, reviewed, opVars, counters>>

Alarm ==
  /\ alarms < MaxAlarms /\ alarms' = alarms + 1
  /\ machine' = [machine EXCEPT !.blocked = TRUE, !.moving = FALSE]
  /\ UNCHANGED <<wire, link, seen, reviewed, opVars, ops, lost, drops>>

\* The operator unlocks the machine, or frees the probe, after the operation.
Cleared ==
  /\ machine.blocked \/ machine.touching
  /\ pc = "idle" /\ wire = <<>> /\ link
  /\ machine' = [machine EXCEPT !.blocked = FALSE, !.touching = FALSE]
  /\ seen' = [seen EXCEPT !.blocked = FALSE, !.touching = FALSE, !.ready = ~machine.moving]
  /\ UNCHANGED <<wire, link, reviewed, opVars, counters>>

\* What was on its way goes with the connection; a new one starts unready.
Drop ==
  /\ link /\ drops < MaxDrops /\ drops' = drops + 1
  /\ link' = FALSE /\ wire' = <<>> /\ seen' = [seen EXCEPT !.ready = FALSE]
  /\ UNCHANGED <<machine, reviewed, opVars, ops, lost, alarms>>
Reconnect ==
  /\ ~link /\ link' = TRUE
  /\ UNCHANGED <<machine, wire, seen, reviewed, opVars, counters>>

-----------------------------------------------------------------------------
(* One instruction: checks, lines, and the wait for the answer.            *)

Value(v) == CASE v = "reviewed" -> reviewed.modes
              [] v = "captured" -> captured
              [] v = "metric" -> Metric(captured)
              [] OTHER -> v
Resolved(c) == IF c.rotation = "reviewed" THEN [c EXCEPT !.rotation = reviewed.rotation] ELSE c
Lines(i) ==
  CASE i.do = "modes" -> <<Line("$G", None)>>
    [] i.do = "coordinates" -> <<Line("$#", None)>>
    [] i.do \in {"set", "change"} -> <<Line("modes", Value(i.v)), Line("$G", None)>>
    [] i.do = "write" -> <<Line("write", Resolved(i.v)), Line("$#", None)>>
    [] i.do = "plane" -> <<Line("plane", reviewed.plane), Line("$G", None)>>
    [] i.do = "zero" -> <<Line("write", [zero |-> TRUE, rotation |-> None])>>
    [] i.do = "move" -> <<Line(IF i.v THEN "arc" ELSE "move", None)>>
    [] i.do = "jog" -> <<Line("jog", None)>>

\* preflight_machine, with the probe clear; check_stop.
Moves == {"move", "jog"}
Refusal(i) ==
  IF i.do = "stop" THEN IF stop = "no" THEN "ok" ELSE "Stopped"
  ELSE IF seen.blocked /\ i.do \in {"preflight", "set", "change"} \cup Moves THEN "Blocked"
  ELSE IF i.do \in {"preflight"} \cup Moves /\ (~link \/ ~seen.ready \/ seen.touching)
       THEN "Preflight"
  ELSE IF i.do # "preflight" /\ ~link THEN "Disconnected"
  ELSE "ok"

\* zero_inner and zero_recorded_result change the modes only when they differ.
NoChange(i) == i.do = "change" /\ Metric(captured) = captured

PartEnds(e) == pc' = "over" /\ todo' = <<>> /\ verdict' = e
Advance ==
  /\ todo' = Tail(todo) /\ verdict' = "ok"
  /\ pc' = IF Tail(todo) = <<>> THEN "over" ELSE "run"

\* An instruction of nothing, or one that is refused. A jog to where the
\* machine is already is nothing.
Check ==
  /\ pc = "run"
  /\ LET i == Head(todo) IN
     \/ NoChange(i) /\ Advance
     \/ ~NoChange(i) /\ Refusal(i) # "ok" /\ PartEnds(Refusal(i))
     \/ i.do \in {"preflight", "stop", "jog"} /\ Refusal(i) = "ok" /\ Advance
  /\ UNCHANGED <<machineVars, reviewed, op, part, captured, cause, recovery, stop, counters>>

\* The lines of an instruction, one after the other: the query that confirms
\* a change is a submission of its own.
Submit ==
  /\ pc = "run"
  /\ LET i == Head(todo) IN
       /\ i.do \notin {"preflight", "stop"} /\ ~NoChange(i) /\ Refusal(i) = "ok"
       /\ wire' = Append(wire, Lines(i)[1])
       /\ pc' = IF Len(Lines(i)) = 2 THEN "sent" ELSE IF i.do \in Moves THEN "moving" ELSE "wait"
       /\ stop' = IF i.do \in Moves /\ stop = "asked" THEN "late" ELSE stop
  /\ UNCHANGED <<machine, link, seen, reviewed, op, part, todo, verdict, captured,
                 cause, recovery, counters>>
SubmitQuery ==
  /\ pc = "sent" /\ link
  /\ wire' = Append(wire, Lines(Head(todo))[2]) /\ pc' = "wait"
  /\ UNCHANGED <<machine, link, seen, reviewed, op, part, todo, verdict, captured,
                 cause, recovery, stop, counters>>

\* Whether a report of the machine is the one an instruction waits for, and
\* whether it says what was asked.
AwaitsRotation(i, l) ==  \* mutant: the stored probe contact is left to arrive
  \/ l.is = "$G" /\ i.do \in {"modes", "set", "change", "plane"}
  \/ l.is = "$#" /\ i.do = "coordinates"
  \/ l.is = "write" /\ i.do \in {"zero", "write"}
Awaits(i, l) ==
  \/ l.is = "$G" /\ i.do \in {"modes", "set", "change", "plane"}
  \/ l.is = "$#" /\ i.do \in {"coordinates", "write"}
  \/ l.is = "write" /\ i.do = "zero"
Confirms(i, m) ==
  CASE i.do \in {"set", "change"} -> m.modes = Value(i.v)
    [] i.do = "plane" -> m.plane = reviewed.plane
    [] i.do = "write" -> /\ Resolved(i.v).rotation \in {None, m.rotation}
                         /\ i.v.zero => m.origin = "new"
    [] i.do = "zero" -> m.origin = "new"
    [] OTHER -> TRUE

\* The machine reads a line, and its report is taken by whoever waits for one.
Execute ==
  /\ link /\ wire # <<>>
  /\ LET l == Head(wire)
         m == Reads(machine, l)
         taken == pc = "wait" /\ Awaits(Head(todo), l)
     IN /\ machine' = m /\ wire' = Tail(wire)
        /\ seen' = IF l.is = "$G" THEN [seen EXCEPT !.modes = m.modes] ELSE seen
        /\ IF ~taken THEN UNCHANGED <<todo, pc, verdict, captured, reviewed>>
           ELSE /\ captured' = IF Head(todo).do = "modes" THEN m.modes ELSE captured
                /\ reviewed' = IF op = "review" /\ Head(todo).do = "coordinates"
                                THEN [modes |-> captured, rotation |-> m.rotation,
                                      plane |-> m.plane, stage |-> "ready"]
                                ELSE reviewed
                /\ IF Confirms(Head(todo), m) THEN Advance ELSE PartEnds("Unconfirmed")
  /\ UNCHANGED <<link, op, part, cause, recovery, stop, counters>>

\* No answer within three seconds: the reports are lost, not the lines.
\* query_coordinates makes an error of its own of that.
TimedOut ==
  /\ pc = "wait" /\ link /\ lost < MaxLost /\ lost' = lost + 1
  /\ wire' = [k \in DOMAIN wire |->
                IF wire[k].is \in {"$G", "$#"} THEN Line("unheard", None) ELSE wire[k]]
  /\ PartEnds(IF Head(todo).do = "coordinates" THEN "Preflight" ELSE "Timeout")
  /\ UNCHANGED <<machine, link, seen, reviewed, op, part, captured, cause, recovery,
                 stop, ops, drops, alarms>>

\* receive(): an alarm or the end of the connection.
Interrupted ==
  /\ \/ pc \in {"wait", "moving"} /\ (~link \/ seen.blocked)
     \/ pc = "sent" /\ ~link
  /\ PartEnds(IF ~link THEN "Disconnected" ELSE "Blocked")
  /\ UNCHANGED <<machineVars, reviewed, op, part, captured, cause, recovery, stop, counters>>

\* The motion of the operation is over (module Motion): done, released from a
\* contact, without one, found useless, left touching, or failed. It can fail
\* at any time after it was sent, on an error that the machine reports, a
\* contact or a work coordinate system that do not fit, an event missed or a
\* time limit: the machine may be moving, or not even have read the line, and
\* the last status may be the one before the move.
MoveEnds(e) ==
  /\ pc = "moving" /\ link
  /\ Head(todo).do = "jog" => e \in {"ok", "Failed"}
  /\ e = "Missed" => op \in {"routine", "angle", "rotary", "repeat"}
  /\ e = "Compensation" => op \in {"routine", "angle", "rotary"}
  /\ \/ e = "Failed" /\ UNCHANGED <<machine, seen>>
     \/ /\ ~machine.blocked /\ ~\E k \in DOMAIN wire : wire[k].is \in MoveLines
        /\ machine' = [machine EXCEPT !.moving = FALSE, !.touching = e = "Touching"]
        /\ seen' = [seen EXCEPT !.ready = TRUE, !.touching = e = "Touching"]
  /\ IF e = "ok" THEN Advance ELSE PartEnds(e)
  /\ UNCHANGED <<wire, link, reviewed, op, part, captured, cause, recovery, stop, counters>>

\* The button that stops a repeatability check: a token of the run's own.
StopPressed ==
  /\ op = "repeat" /\ pc # "idle" /\ stop = "no" /\ stop' = "asked"
  /\ UNCHANGED <<machineVars, reviewed, op, part, todo, pc, verdict, captured, cause, recovery,
                 counters>>

\* The cancellation token: the operation goes no further, whatever it awaits.
Cancel ==
  /\ pc \in {"run", "sent", "wait", "moving"} /\ op \in Motions \cup {"zero"}
  /\ part \in {"prepare", "work", "restore"}
  /\ PartEnds("Cancelled")
  /\ UNCHANGED <<machineVars, reviewed, op, part, captured, cause, recovery, stop, counters>>

-----------------------------------------------------------------------------
(* From part to part, and the end of the operation.                        *)

Enter(p) == part' = p /\ todo' = PartOf(op, p) /\ pc' = "run" /\ verdict' = "ok"
Able == link /\ seen.ready /\ ~seen.blocked
Spawned == Motions \cup {"zero"}
Finish(e) ==
  /\ pc' = IF op \in Spawned /\ e # "ok" THEN "recover" ELSE "idle"
  /\ UNCHANGED <<part, todo, verdict>>
  /\ reviewed' = IF op \in {"routine"} \cup ResultActions /\ e = "ok" THEN [reviewed EXCEPT !.stage = "completed"]
                  ELSE reviewed
\* run(): the rotation of an angle comes back after run_inner, if the machine
\* is thought to be ready.
CoreOver(e) ==
  IF op = "angle" /\ reviewed.rotation # Unrotated /\ Able
  THEN Enter("rotation") /\ UNCHANGED reviewed ELSE Finish(e)

OverAt(p) == pc = "over" /\ part = p /\ UNCHANGED <<machineVars, op, captured, stop, counters>>
ClearOver ==
  /\ OverAt("clear") /\ cause' = verdict /\ UNCHANGED recovery
  /\ IF verdict = "ok" THEN Enter("prepare") /\ UNCHANGED reviewed ELSE Finish(verdict)
PrepareOver ==
  /\ OverAt("prepare") /\ cause' = verdict /\ UNCHANGED recovery
  /\ IF verdict = "ok" /\ op # "review" THEN Enter("work") /\ UNCHANGED reviewed
     ELSE CoreOver(verdict)
WorkOver ==
  /\ OverAt("work") /\ cause' = verdict /\ UNCHANGED recovery
  /\ IF Restores(op, verdict) /\ op # "rotate" THEN Enter("restore") /\ UNCHANGED reviewed
     ELSE CoreOver(verdict)
\* A failed restoration is the error of a success, and inside Recovery the
\* company of another; the writes return it alone.
RestoreOver ==
  /\ OverAt("restore")
  /\ \/ verdict = "ok" /\ UNCHANGED <<cause, recovery>>
     \/ verdict # "ok" /\ (verdict = "Cancelled" \/ cause = "ok" \/ op \in Writes \ {"zero"})
        /\ cause' = verdict /\ UNCHANGED recovery
     \/ verdict \notin {"ok", "Cancelled"} /\ cause # "ok" /\ op \notin Writes \ {"zero"}
        /\ recovery' = TRUE /\ UNCHANGED cause
  /\ CoreOver(cause')
RotationOver ==
  /\ OverAt("rotation")
  /\ cause' = (IF cause = "ok" THEN verdict ELSE cause)
  /\ recovery' = (recovery \/ (cause # "ok" /\ verdict # "ok"))
  /\ Finish(cause')

\* ProbeApp::recover: stops the machine until that is confirmed, unless the
\* error says that it rests. The statuses that confirm it are half a second
\* apart: what was submitted before has been read.
Exempt == ~recovery /\ cause \in {"Stopped", "Preflight", "Blocked", "Missed", "Released"}
Recover ==
  /\ pc = "recover"
  /\ IF Exempt \/ seen.blocked THEN UNCHANGED machineVars
     ELSE /\ link /\ wire = <<>>
          /\ machine' = [machine EXCEPT !.moving = FALSE]
          /\ seen' = [seen EXCEPT !.ready = ~machine.blocked, !.blocked = machine.blocked,
                                  !.touching = machine.touching]
          /\ UNCHANGED <<wire, link>>
  /\ pc' = "recovered"
  /\ UNCHANGED <<reviewed, op, part, todo, verdict, captured, cause, recovery, stop, counters>>

\* The ends of the rotary runs and of the move over the measured point try
\* to restore again.
RestoresAgain ==
  /\ Able
  /\ \/ op = "rotary" /\ (recovery \/ cause # "Preflight")
     \/ op = "measured" /\ seen.modes # reviewed.modes
RestoreAgain ==
  /\ pc = "recovered"
  /\ IF RestoresAgain THEN Enter("again")
     ELSE pc' = "idle" /\ UNCHANGED <<part, todo, verdict>>
  /\ UNCHANGED <<machineVars, reviewed, op, captured, cause, recovery, stop, counters>>
AgainOver ==
  /\ OverAt("again") /\ pc' = "idle"
  /\ recovery' = IF verdict # "ok" THEN TRUE ELSE recovery /\ op # "rotary"
  /\ UNCHANGED <<reviewed, part, todo, verdict, cause>>

\* An operation begins: a run with the last review, an action with its result.
Start(o) ==
  /\ pc = "idle" /\ ops < MaxOps /\ ops' = ops + 1
  /\ o \in Reviewed => reviewed # <<>> /\ reviewed.stage = "ready"
  /\ o \in ResultActions => reviewed # <<>> /\ reviewed.stage = "completed"
  /\ o \in Spawned => Able /\ ~seen.touching
  /\ op' = o /\ cause' = "ok" /\ recovery' = FALSE /\ captured' = None /\ verdict' = "ok"
  /\ stop' = "no"
  /\ machine' = [machine EXCEPT !.origin = "old"]
  /\ part' = IF o = "rotary" THEN "work"
             ELSE IF o = "angle" /\ reviewed.rotation # Unrotated THEN "clear" ELSE "prepare"
  /\ todo' = PartOf(o, part') /\ pc' = "run"
  /\ reviewed' = IF o \in Reviewed \cup ResultActions THEN [reviewed EXCEPT !.stage = "taken"]
                 ELSE reviewed
  /\ UNCHANGED <<wire, link, seen, lost, drops, alarms>>

Next ==
  \/ Status \/ MoveOver \/ Alarm \/ Cleared \/ Drop \/ Reconnect
  \/ Check \/ Submit \/ SubmitQuery \/ Execute \/ TimedOut \/ Interrupted \/ Cancel
  \/ \E e \in {"ok", "Missed", "Released", "Compensation", "Touching", "Failed"} : MoveEnds(e)
  \/ StopPressed
  \/ ClearOver \/ PrepareOver \/ WorkOver \/ RestoreOver \/ RotationOver
  \/ Recover \/ RestoreAgain \/ AgainOver
  \/ \E o \in Operations : Start(o)

Spec == Init /\ [][Next]_vars

-----------------------------------------------------------------------------
(* Properties.                                                             *)

Errors == {"Cancelled", "Disconnected", "Blocked", "Preflight", "Timeout", "Unconfirmed",
           "Missed", "Released", "Compensation", "Stopped", "Touching", "Failed"}
TypeOK ==
  /\ machine.modes \in Modes /\ machine.plane \in 17..19 /\ machine.origin \in {"old", "new", "wrong"}
  /\ machine.rotation \in {f.rotation : f \in Found} \cup {Unrotated, Measured}
  /\ seen.modes \in Modes /\ captured \in Modes \cup {None}
  /\ pc \in {"idle", "run", "sent", "wait", "moving", "over", "recover", "recovered"}
  /\ pc \in {"run", "sent", "wait", "moving"} => todo # <<>>
  /\ {cause, verdict} \subseteq Errors \cup {"ok"}
  /\ stop \in {"no", "asked", "late"}

\* The machine has this setting, and none of these lines makes it another one.
StaysIn(S, l) ==
  /\ l.is = "modes" => l.v \in S
  /\ l.is = "jog" /\ "probing" \in S => "metric" \in S
ModesIn(S, lines) ==
  /\ machine.modes \in S
  /\ machine.blocked \/ \A k \in DOMAIN lines : StaysIn(S, lines[k])
RotationIs(r) ==
  /\ machine.rotation = r
  /\ machine.blocked
     \/ \A k \in DOMAIN wire : wire[k].is = "write" => wire[k].v.rotation \in {None, r}
PlaneIs(p) ==
  /\ machine.plane = p
  /\ machine.blocked
     \/ \A k \in DOMAIN wire :
          (wire[k].is = "plane" => wire[k].v = p) /\ (wire[k].is = "arc" => p = 19)

\* Every move is read in the modes it was planned in, relative and metric, a
\* jog, which brings its own distances, and a work zero in metric: a number is
\* never read in units or distances that an earlier operation or a jog left or
\* that this one has already given back (set_modes confirms before anything is
\* submitted, and is called again behind jog_home).
ReadIn(line) == IF line = "jog" THEN {"probing", "metric"} ELSE {"probing"}
NumbersAreMetric ==
  /\ machine.origin # "wrong"
  /\ \A k \in DOMAIN wire : wire[k].is \in MoveLines =>
       ModesIn(ReadIn(wire[k].is), SubSeq(wire, 1, k - 1))

\* What an operation gives back: what the review captured, for a run; the
\* modes it asked for itself, for an action on a result. The move over the
\* measured point may end with either.
GivenBack ==
  /\ \/ op \notin Reviewed /\ ModesIn({captured}, wire)
     \/ op \in Reviewed \cup {"measured"} /\ ModesIn({reviewed.modes}, wire)
  /\ (op = "rotary" \/ (op = "angle" /\ reviewed.rotation # Unrotated))
       => RotationIs(reviewed.rotation)
  /\ op = "rotary" => PlaneIs(reviewed.plane)

\* An operation that reports success leaves modes, rotation and plane as they
\* were captured, whatever earlier operations left unanswered (run, run_rotary,
\* measured_inner, return_inner, repeat_inner, zero_inner, the writes). What
\* is given back only to a machine without an alarm, or only to a connected
\* one, may then be missing.
SuccessGivesBack ==
  /\ pc = "idle" /\ op \notin {None, "review", "rotate"} /\ cause = "ok"
  /\ alarms = 0 \/ op \in {"routine", "measured", "return", "repeat"}
  /\ drops = 0 \/ op # "angle"
  => GivenBack

\* An operation that ends in an error at rest, or that stops and restores in
\* its end, has given everything back, unless its error says Recovery or says
\* what the restoration met (the ends of run_inner, of run_rotary and of the
\* spawned runs).
FaultFree == alarms = 0 /\ drops = 0 /\ lost = 0
ErrorGivesBackOrSays ==
  /\ pc = "idle" /\ op \in Motions /\ ~recovery /\ FaultFree
  /\ \/ op = "rotary" /\ cause # "Preflight"
     \/ cause \in {"ok", "Missed", "Released", "Stopped"}
     \/ cause = "Compensation" /\ op \in {"routine", "angle"}
  => GivenBack

\* The stored probe contact that ends the coordinates is never on its way
\* while a move waits for a contact of its own (write_coordinate_data,
\* query_coordinates).
NoOldContactInMotion == pc = "moving" => ~\E k \in DOMAIN wire : wire[k].is = "$#"

\* Nothing of what an operation restores, itself or in its end, is submitted
\* while a move is in progress or on its way. One restoration is excepted: the
\* one a rotary run does itself after a move that failed. Its preflight reads
\* the stored status, and that may be the one before the move.
Moving == machine.moving \/ \E k \in DOMAIN wire : wire[k].is \in MoveLines
Restoring == part \in {"restore", "again"} /\ Len(wire') > Len(wire)
Overlooked == op = "rotary" /\ part = "restore" /\ cause = "Failed"
RestoresAtRest == [][Restoring => ~Moving \/ Overlooked]_vars

\* The same of the rotation that run() gives back after an angle.
RotationWaitsForRest == [][part = "rotation" /\ Len(wire') > Len(wire) => ~Moving]_vars

\* A stopped repeatability check begins no motion but the one that its last
\* look at the button had let through: every motion, a contact with its
\* retraction being one, has a look at the button behind the motion before it
\* (check_stop, jog_home, repeat_inner).
StopIsHeeded ==
  [][stop = "late" /\ Len(wire') > Len(wire) => wire'[Len(wire')].is \notin MoveLines]_vars

\* The end of a cancelled move over the measured point has restored the modes
\* of its plan, unless its error says Recovery (start_motion).
MeasuredModesComeBack ==
  pc = "idle" /\ op = "measured" /\ cause = "Cancelled" /\ ~recovery /\ FaultFree => GivenBack
====
