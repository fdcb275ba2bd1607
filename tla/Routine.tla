-------------------------------- MODULE Routine --------------------------------
(***************************************************************************)
(* A reviewed routine as it runs (crates/probe-core/runtime.rs): the steps *)
(* submitted one after the other to a machine that stops where it touches, *)
(* while an operator may change what the review relied on, and the actions *)
(* on its result: back to the start, over the measured point, work zero.   *)
(*                                                                         *)
(* The modes a routine sets and restores are the subject of CapturedState, *)
(* the single stages that of Motion: a command ends here at once.          *)
(***************************************************************************)
EXTENDS RoutinePlan, FiniteSets

CONSTANTS
  Cases,         \* bound: options and starting position of each routine
  Grain,         \* bound: stops lie at every Grain-th coordinate
  Clearances,    \* bound: Safe Z offsets asked for
  Jogs,          \* bound: places the operator jogs to after a routine
  Offsets,       \* bound: offsets of a work zero
  MaxActions     \* bound: actions on one result

Configs ==
  [family : STRING, feature : STRING, x : Int, y : Int, z : BOOLEAN, zero : BOOLEAN,
   depth : Int, searchX : Int, searchY : Int, retract : Int, radius : Int]
ASSUME RoutineAssumption ==
  /\ \A k \in Cases : k.config \in Configs /\ k.start \in [Axes -> Int]
  /\ Grain \in Nat \ {0}
  /\ Clearances \subseteq Int /\ Jogs \subseteq [Axes -> Int] /\ Offsets \subseteq Int

VARIABLES
  plan,
  at, origin,               \* the machine: carriage and work zero
  changed,                  \* what an operator changed, and at which step and stage
  pc, op, outcome,
  index, stage, position, refs, touches,  \* the locals of run_inner()
  legs,                     \* moves an action on the result has left
  result,
  cursor, scripted, last,   \* Stream: next line; one is shown and not sent; the last sent
  actions                   \* counter of the bound

machineVars == <<at, origin, changed>>
streamVars == <<cursor, scripted, last>>
localVars == <<index, stage, position, refs, touches>>
vars == <<plan, machineVars, pc, op, outcome, localVars, legs, result, streamVars, actions>>

Changes == {"moved", "wcs", "tool", "probe", "zero"}
Change(what, i, k) == [what |-> what, index |-> i, stage |-> k]
NoChange == Change("nothing", 0, 0)
Errors == {"Preflight", "Position", "CoarseNoContact", "NoContact", "Compensation",
           "Released", "Touching", "Failed", "Recovery"}
NoResult == [point |-> [a \in Axes |-> None], zeroed |-> FALSE, returned |-> FALSE,
             positioned |-> FALSE, settled |-> FALSE, offset |-> 0]
NoLine == <<"none">>
NoRefs == [n \in Surfaces |-> None]
config == plan.config
Lines == plan.script
Done == Len(plan.steps) + 1
ValueOf(name) == IF name[1] = "start" THEN plan.start[name[2]] ELSE refs[name]

Init ==
  /\ \E k \in Cases : plan = Plan(k.config, k.start, [a \in Axes |-> 0]) /\ at = k.start
                     /\ Reviewed(plan)
  /\ origin = [a \in Axes |-> 0] /\ changed = NoChange
  /\ pc = "idle" /\ op = "none" /\ outcome = "none"
  /\ index = 0 /\ stage = 0 /\ position = at /\ touches = <<>> /\ legs = <<>>
  /\ refs = NoRefs /\ result = NoResult
  /\ cursor = 1 /\ scripted = FALSE /\ last = <<NoLine, NoLine>> /\ actions = 0

-----------------------------------------------------------------------------
(* Checks, commands and stops.                                             *)

\* check_state: a move, the coordinate system, the tool, the calibration and
\* for all but angles the work zero; an action looks at the position it finds.
CheckStateButTool(expected, zero) ==  \* mutant: the loaded tool is not looked at
  /\ changed.what \notin {"wcs", "probe"} /\ at = expected
  /\ config.family # "angle" => origin = zero
check_state(expected, zero) ==
  /\ changed.what \notin {"wcs", "tool", "probe"} /\ at = expected
  /\ config.family # "angle" => origin = zero

LinesOf(step, from) ==
  {n \in DOMAIN Lines : n >= from /\ Lines[n].step = step
                        /\ \A m \in from..n : Lines[m].step = step}
After(ns, from) == IF ns = {} THEN from ELSE 1 + CHOOSE n \in ns : \A m \in ns : m <= n
First(ns) == CHOOSE n \in ns : \A m \in ns : n <= m

\* Stream::command shows a step's lines up to its next command.
NextCommand(step) == {n \in LinesOf(step, cursor) : Lines[n].is = "command"}
\* Observed::send shows the command itself when no line of the script did.
Sent(shown, cmd) == <<IF shown = {} THEN (IF scripted THEN Lines[cursor - 1].cmd ELSE <<"own">>)
                      ELSE Lines[First(shown)].cmd, cmd>>
CursorAfter(step, shown) == IF shown = {} THEN After(LinesOf(step, cursor), cursor)
                            ELSE First(shown) + 1
\* A command shown by the script and sent.
Show(step, cmd) ==
  LET shown == NextCommand(step)
  IN cursor' = CursorAfter(step, shown) /\ scripted' = FALSE /\ last' = Sent(shown, cmd)
ShowNothing(step) == UNCHANGED streamVars  \* mutant: the line of a move of nothing stays
\* A command shown by the script and found to have nothing to do.
ShowOnly(step) ==
  LET shown == NextCommand(step)
  IN cursor' = CursorAfter(step, shown) /\ scripted' = (scripted \/ shown # {})
     /\ UNCHANGED last
\* Stream::declarations and Stream::rest, from where the command left off.
Declared(step, from) ==
  After({n \in LinesOf(step, from) : \A m \in from..n : Lines[m].is = "declaration"}, from)

Between(a, b) == Lesser(a, b)..Greater(a, b)
OnGrain(S) == {v \in S : v % Grain = 0}
\* Where a guarded move along these axes may be stopped.
Stops(from, to) ==
  LET on(a) == OnGrain(Between(from[a], to[a])) \cup {to[a]}
  IN {[from EXCEPT !["X"] = x, !["Y"] = y, !["Z"] = z] : x \in on("X"), y \in on("Y"), z \in on("Z")}

\* positioning_stage: only a plain rise does without the probe.
Differing(from, to) == {a \in Axes : from[a] # to[a]}
Guarded(from, to) == Differing(from, to) # {"Z"} \/ to["Z"] < from["Z"]
CommandFor(from, to) == MoveCommand(Differing(from, to), ~Guarded(from, to))

Fail(e) == pc' = "failed" /\ outcome' = e
Over(e) == pc' = "over" /\ outcome' = e

\* run_position_stage: there, stopped by a contact and released back along
\* the way, stopped where there is no room to release, or failed under way.
\* Lifts do not look for contacts.
PositionStage(to, Arrived) ==
  \/ at' = to /\ Arrived
  \/ /\ at' \in Stops(at, to)
     /\ \/ Fail("Failed")
        \/ Guarded(at, to) /\ (Fail("Released") \/ Fail("Recovery"))
        \/ Guarded(at, to) /\ at' = at /\ Fail("Touching")
     /\ UNCHANGED <<position, index, stage, legs, result>>

-----------------------------------------------------------------------------
(* run_inner.                                                              *)

Begin ==
  /\ pc = "idle" /\ op = "none"
  /\ op' = "run"
  /\ IF check_state(plan.start, plan.origin)
       THEN /\ Show(0, <<"modes">>)
            /\ \/ pc' = "step" /\ index' = 1 /\ UNCHANGED outcome
               \/ Over("Failed") /\ UNCHANGED index
       ELSE Over("Preflight") /\ UNCHANGED <<streamVars, index>>
  /\ UNCHANGED <<plan, machineVars, stage, position, refs, touches, legs, result, actions>>

Here == plan.steps[index]
AtStep(kind) == pc = "step" /\ index < Done /\ Here.kind = kind
Checked == check_state(position, plan.origin)

\* The check that begins every step.
StepRefused ==
  /\ pc = "step" /\ ~Checked
  /\ Fail("Preflight")
  /\ UNCHANGED <<plan, machineVars, op, localVars, legs, result, streamVars, actions>>

CenterStep ==
  LET a == Here.axis
      low == refs[Surface(a, "low")]
      high == refs[Surface(a, "high")]
      center == (low + high) \div 2
  IN
  /\ AtStep("center") /\ Checked
  /\ IF high <= low
       THEN Fail("Compensation") /\ UNCHANGED <<index, refs, result, cursor>>
       ELSE /\ index' = index + 1
            /\ refs' = [refs EXCEPT ![Surface(a, "whole")] = center]
            /\ result' = [result EXCEPT !.point[a] = center]
            /\ cursor' = After(LinesOf(index, cursor), cursor)
            /\ UNCHANGED <<pc, outcome>>
  /\ UNCHANGED <<plan, machineVars, op, stage, position, touches, legs, scripted, last, actions>>

\* How far the coarse search may still go, and preview_contact for it.
CoarseTravel == (Here.limit - position[Here.axis]) * Here.dir
PreviewFits ==
  LET a == Here.axis
      ends == {position[a], position[a] - Here.dir * 2 * config.retract,
               position[a] + Here.dir * (CoarseTravel + Slack)}
  IN \A e \in ends : Slack - Limits[a] <= e /\ e <= 0

ContactBegin ==
  /\ AtStep("contact") /\ Checked
  /\ IF CoarseTravel <= 0
       THEN Fail("CoarseNoContact") /\ UNCHANGED stage
       ELSE IF PreviewFits THEN pc' = "contact" /\ stage' = 1 /\ UNCHANGED outcome
            ELSE Fail("Preflight") /\ UNCHANGED stage
  /\ UNCHANGED <<plan, machineVars, op, index, position, refs, touches, legs, result,
                 streamVars, actions>>

\* Looked at again before every stage.
StageRefused ==
  /\ pc = "contact" /\ (changed.what = "wcs" \/ at # position)
  /\ Fail("Position")
  /\ UNCHANGED <<plan, machineVars, op, localVars, legs, result, streamVars, actions>>

Shifted(a, by) == [at EXCEPT ![a] = @ + by]
StageReach == IF Stages[stage] = "coarse" THEN CoarseTravel ELSE config.retract + Slack

\* A coarse or a fine search: it touches, or ends where it may not go on.
Probe(a, d) ==
  \/ \E n \in 0..StageReach :
       /\ (at[a] + d * n) % Grain = 0
       /\ at' = Shifted(a, d * n) /\ position' = at' /\ stage' = stage + 1
       /\ refs' = IF Stages[stage] = "fine"
                    THEN [refs EXCEPT ![Surface(a, Here.tag)] =
                            at'[a] + (IF a = "Z" THEN -ProbeOffset[a]
                                      ELSE ProbeOffset[a] + d * config.radius)]
                    ELSE refs
       /\ touches' = IF Stages[stage] = "fine" /\ config.family = "angle"
                       THEN Append(touches, at') ELSE touches
       /\ UNCHANGED <<pc, outcome>>
  \/ /\ at' = Shifted(a, d * StageReach)
     /\ Fail(IF Stages[stage] = "coarse" THEN "CoarseNoContact" ELSE "NoContact")
     /\ UNCHANGED <<stage, position, refs, touches>>
\* A backoff; after the last one the surface is known.
BackOff(a, d) ==
  /\ at' = Shifted(a, -d * config.retract) /\ position' = at'
  /\ stage' = stage + 1 /\ UNCHANGED <<refs, touches, pc, outcome>>

ContactStage ==
  LET a == Here.axis
      d == Here.dir
      shown == NextCommand(index)
  IN
  /\ pc = "contact" /\ stage <= 4 /\ changed.what # "wcs" /\ at = position
  /\ \/ Probe(a, d) /\ Stages[stage] # "retract"
     \/ BackOff(a, d) /\ Stages[stage] = "retract"
     \/ /\ \E p \in Stops(at, Shifted(a, IF Stages[stage] = "retract" THEN -d * config.retract
                                         ELSE d * StageReach)) : at' = p
        /\ Fail("Failed") /\ UNCHANGED <<stage, position, refs, touches>>
  /\ last' = Sent(shown, <<Stages[stage], {a}>>) /\ scripted' = FALSE
  /\ cursor' = IF pc' = "contact" THEN Declared(index, CursorAfter(index, shown))
               ELSE CursorAfter(index, shown)
  /\ UNCHANGED <<plan, origin, changed, op, index, legs, result, actions>>

ContactEnd ==
  LET a == Here.axis
  IN
  /\ pc = "contact" /\ stage = 5
  /\ pc' = "step" /\ index' = index + 1 /\ stage' = 0
  /\ result' = IF Here.tag = "whole" THEN [result EXCEPT !.point[a] = refs[Surface(a, "whole")]]
               ELSE result
  /\ cursor' = After(LinesOf(index, cursor), cursor)
  /\ UNCHANGED <<plan, machineVars, op, outcome, position, refs, touches, legs,
                 scripted, last, actions>>

\* The targets of a move, from the values measured so far.
Goal(s) ==
  [a \in Axes |->
     IF a \in AxesOf(s) THEN ValueOf(TargetOf(s, a).name) + TargetOf(s, a).offset
     ELSE position[a]]
MoveStep ==
  LET goal == Goal(Here)
      arrived == /\ position' = goal /\ index' = index + 1
                 /\ UNCHANGED <<pc, outcome, stage, legs, result>>
  IN
  /\ AtStep("move") /\ Checked
  /\ IF goal = position
       THEN ShowOnly(index) /\ arrived /\ UNCHANGED at
       ELSE Show(index, CommandFor(position, goal)) /\ PositionStage(goal, arrived)
  /\ UNCHANGED <<plan, origin, changed, op, refs, touches, actions>>

\* from_touches: two touches far enough apart.
Spacing == LET along == AngleAxes(config.feature)[2]
           IN touches[2][along] - touches[1][along]

StepsDone ==
  /\ pc = "step" /\ index = Done /\ Checked
  /\ IF config.family = "angle" /\ Spacing = 0
       THEN Fail("Compensation") /\ UNCHANGED result
       ELSE /\ pc' = IF config.zero THEN "query" ELSE "finish"
            /\ result' = [result EXCEPT !.returned = (config.family = "angle")]
            /\ UNCHANGED outcome
  /\ UNCHANGED <<plan, machineVars, op, localVars, legs, streamVars, actions>>

-----------------------------------------------------------------------------
(* write_zero, of a routine that asks for it and of a finished one.        *)

\* G10 L20 gives the place where the machine is the coordinates worked out for
\* the place where it was queried.
Zeroed(z) ==
  origin' = [a \in Axes |-> IF a \in MeasuredAxes(config)
                             THEN result.point[a] + z + at[a] - position[a] ELSE origin[a]]

\* The coordinates are queried, and looked at, before the command is sent.
ZeroQuery ==
  /\ pc = "query"
  /\ IF op = "run" THEN Show(Done, <<"$#">>) ELSE UNCHANGED streamVars
  /\ \/ check_state(at, plan.origin) /\ pc' = "zero" /\ position' = at /\ UNCHANGED outcome
     \/ Fail("Preflight") /\ UNCHANGED position
  /\ UNCHANGED <<plan, machineVars, op, index, stage, refs, touches, legs, result, actions>>

ConfirmedAnywhere ==  \* mutant: a move since the query is not noticed
  /\ changed.what # "wcs"
  /\ \A a \in Axes \ MeasuredAxes(config) : origin[a] = plan.origin[a]
\* It counts when a status shows the new coordinates where the machine was.
Confirmed ==
  /\ at = position /\ changed.what # "wcs"
  /\ \A a \in Axes \ MeasuredAxes(config) : origin[a] = plan.origin[a]
WriteZero ==
  /\ pc = "zero"
  /\ IF op = "run" THEN last' = Sent({}, <<"zero">>) /\ scripted' = FALSE /\ UNCHANGED cursor
     ELSE UNCHANGED streamVars
  /\ \E z \in (IF op = "run" THEN {0} ELSE Offsets) :
       \/ /\ Confirmed /\ Zeroed(z)
          /\ result' = [result EXCEPT !.zeroed = TRUE, !.offset = z]
          /\ pc' = (IF op = "run" THEN "finish" ELSE "applied") /\ UNCHANGED outcome
       \/ (Zeroed(z) \/ UNCHANGED origin) /\ Fail("Failed") /\ UNCHANGED result
  /\ UNCHANGED <<plan, at, changed, op, localVars, legs, actions>>

-----------------------------------------------------------------------------
(* How run_inner ends.                                                     *)

\* A miss of a Z search first raises the probe to where it started.
Settled(e) == e \in {"CoarseNoContact", "Compensation", "Released"}
RaiseAfterMiss ==
  LET lifted == [at EXCEPT !["Z"] = plan.start["Z"]]
      straight == at["X"] = position["X"] /\ at["Y"] = position["Y"]
  IN
  /\ pc = "failed" /\ op = "run" /\ outcome = "CoarseNoContact" /\ config.z
  /\ IF check_state(at, plan.origin) /\ straight
       THEN \/ at' = lifted /\ pc' = "restore" /\ UNCHANGED outcome
            \/ at' \in Stops(at, lifted) /\ Over("Recovery")
       ELSE Over("Recovery") /\ UNCHANGED at
  /\ UNCHANGED <<plan, origin, changed, op, localVars, legs, result, streamVars, actions>>

\* The captured modes come back only when the machine is known to rest.
RestoreAfterFailure ==
  /\ \/ pc = "restore"
     \/ pc = "failed" /\ op = "run" /\ ~(outcome = "CoarseNoContact" /\ config.z)
  /\ IF Settled(outcome) THEN Over(outcome) \/ Over("Recovery") ELSE Over(outcome)
  /\ UNCHANGED <<plan, machineVars, op, localVars, legs, result, streamVars, actions>>

Finish ==
  /\ pc = "finish"
  /\ Show(Done + 1, <<"modes">>)
  /\ \/ Over("ok") /\ result' = [result EXCEPT !.settled = TRUE]
     \/ Over("Failed") /\ UNCHANGED result
  /\ UNCHANGED <<plan, machineVars, op, localVars, legs, actions>>

\* The outcome is reported and the locals are gone.  A failed routine keeps no
\* result, and a failed action gives up the result it was for.
Report ==
  /\ pc = "over"
  /\ pc' = "idle" /\ outcome' = "none"
  /\ index' = 0 /\ stage' = 0 /\ position' = at /\ refs' = NoRefs /\ touches' = <<>> /\ legs' = <<>>
  /\ cursor' = 1 /\ scripted' = FALSE /\ last' = <<NoLine, NoLine>>
  /\ result' = IF outcome = "ok" THEN result ELSE NoResult
  /\ UNCHANGED <<plan, machineVars, op, actions>>

-----------------------------------------------------------------------------
(* Actions on a completed result, from wherever the machine then is.       *)

Jog ==
  /\ pc = "idle" /\ result.settled
  /\ at' \in Jogs
  /\ UNCHANGED <<plan, origin, changed, pc, op, outcome, localVars, legs, result,
                 streamVars, actions>>

Act(name) ==
  /\ pc = "idle" /\ result.settled /\ actions < MaxActions
  /\ actions' = actions + 1 /\ op' = name
  /\ index' = 0 /\ stage' = 0 /\ position' = at
  /\ UNCHANGED <<plan, machineVars, refs, touches, result, streamVars>>

\* The work zero an action expects: its own, if it set one.
ExpectedOrigin == IF result.zeroed THEN origin ELSE plan.origin
PathFits(axes, from, to) ==
  \A a \in axes : check_path(a, Lesser(from[a], to[a]), Greater(from[a], to[a]))

ReturnBeside ==  \* mutant: the last leg is forgotten
  LET beside == [plan.start EXCEPT !["Z"] = at["Z"]]
  IN
  /\ Act("return") /\ ~result.returned
  /\ IF check_state(at, ExpectedOrigin) /\ PathFits(Axes, at, plan.start)
       THEN pc' = "legs" /\ legs' = <<beside>> /\ UNCHANGED outcome
       ELSE Over("Preflight") /\ UNCHANGED legs
\* return_inner: X and Y at the present height, then Z.
ReturnToStart ==
  LET beside == [plan.start EXCEPT !["Z"] = at["Z"]]
  IN
  /\ Act("return") /\ ~result.returned
  /\ IF check_state(at, ExpectedOrigin) /\ PathFits(Axes, at, plan.start)
       THEN pc' = "legs" /\ legs' = <<beside, plan.start>> /\ UNCHANGED outcome
       ELSE Over("Preflight") /\ UNCHANGED legs

\* measured_inner: up by the clearance, then over the measured point.
GoToMeasured(clearance) ==
  LET up == [at EXCEPT !["Z"] = @ + clearance]
      over == [a \in Axes |-> IF a \in MeasuredAxes(config)
                              THEN result.point[a] - ProbeOffset[a] ELSE up[a]]
  IN
  /\ Act("measured") /\ ~result.positioned
  /\ IF /\ config.family = "inside" /\ ~config.z
        /\ check_state(at, ExpectedOrigin) /\ PathFits(MeasuredAxes(config) \cup {"Z"}, at, over)
       THEN pc' = "legs" /\ legs' = <<up, over>> /\ UNCHANGED outcome
       ELSE Over("Preflight") /\ UNCHANGED legs

Leg ==
  LET to == Head(legs)
      arrived == /\ legs' = Tail(legs) /\ position' = to
                 /\ UNCHANGED <<pc, outcome, index, stage, result>>
  IN
  /\ pc = "legs" /\ legs # <<>>
  /\ IF check_state(position, ExpectedOrigin)
       THEN PositionStage(to, arrived)
       ELSE Fail("Preflight") /\ UNCHANGED <<at, legs, position, index, stage, result>>
  /\ UNCHANGED <<plan, origin, changed, op, refs, touches, streamVars, actions>>

LegsDone ==
  /\ pc = "legs" /\ legs = <<>>
  /\ \/ /\ Over("ok")
        /\ result' = IF op = "return" THEN [result EXCEPT !.returned = TRUE]
                     ELSE [result EXCEPT !.positioned = TRUE]
     \/ Over("Failed") /\ UNCHANGED result
  /\ UNCHANGED <<plan, machineVars, op, localVars, legs, streamVars, actions>>

\* zero_inner, and the app's rebase_start once it is done.
ZeroResult ==
  /\ Act("zero")
  /\ IF check_state(at, plan.origin) THEN pc' = "query" /\ UNCHANGED outcome
     ELSE Over("Preflight")
  /\ UNCHANGED legs

ZeroApplied ==
  /\ pc = "applied"
  /\ Over("ok") /\ plan' = [plan EXCEPT !.origin = origin]
  /\ UNCHANGED <<machineVars, op, localVars, legs, result, streamVars, actions>>

ActionFailed ==
  /\ pc = "failed" /\ op # "run"
  /\ \/ Over(IF outcome = "Released" /\ op = "measured" THEN "Preflight" ELSE outcome)
     \/ outcome = "Released" /\ Over("Recovery")
  /\ legs' = <<>>
  /\ UNCHANGED <<plan, machineVars, op, localVars, result, streamVars, actions>>

-----------------------------------------------------------------------------
(* An operator at the machine.                                             *)

Moved(a, by) == at' = [at EXCEPT ![a] = @ + by] /\ UNCHANGED origin
Disturb(what) ==
  /\ changed = NoChange /\ pc # "over"
  /\ changed' = Change(what, index, stage)
  /\ CASE what = "moved" -> \E a \in Axes : Moved(a, Grain) \/ Moved(a, -Grain)
       [] what = "zero" -> origin' = [origin EXCEPT !["X"] = @ + Grain] /\ UNCHANGED at
       [] OTHER -> UNCHANGED <<at, origin>>
  /\ UNCHANGED <<plan, pc, op, outcome, localVars, legs, result, streamVars, actions>>

Next ==
  \/ Begin \/ StepRefused \/ CenterStep \/ ContactBegin \/ StageRefused \/ ContactStage
  \/ ContactEnd \/ MoveStep \/ StepsDone \/ ZeroQuery \/ WriteZero
  \/ RaiseAfterMiss \/ RestoreAfterFailure \/ Finish \/ Report
  \/ Jog \/ ReturnToStart \/ (\E z \in Clearances : GoToMeasured(z)) \/ Leg \/ LegsDone
  \/ ZeroResult \/ ZeroApplied \/ ActionFailed
  \/ \E what \in Changes : Disturb(what)

Spec == Init /\ [][Next]_vars

-----------------------------------------------------------------------------
(* Properties.                                                             *)

Places == [Axes -> Int]
\* Every variable has its kind of value.
TypeOK ==
  /\ at \in Places /\ origin \in Places /\ position \in Places
  /\ changed.what \in Changes \cup {"nothing"}
  /\ pc \in {"idle", "step", "contact", "query", "zero", "applied", "finish", "failed",
             "restore", "legs", "over"}
  /\ op \in {"none", "run", "return", "measured", "zero"}
  /\ outcome \in Errors \cup {"none", "ok"}
  /\ index \in 0..Done /\ stage \in 0..5 /\ cursor \in 1..Len(Lines) + 1
  /\ refs \in [Surfaces -> Int \cup {None}] /\ result.point \in [Axes -> Int \cup {None}]

\* Whatever is touched, missed or failed on the way, a routine that passed
\* review and the actions on its result keep the carriage within the travel
\* limits: the envelope of validate_envelope and the path checks of the
\* actions cover every place where a stage may stop.
StaysInTravel ==
  changed.what # "moved" => \A a \in Axes : Slack - Limits[a] <= at[a] /\ at[a] <= 0

\* A routine that passed review is not refused for want of travel once it is
\* under way: wherever its contacts have left it, the next contact fits.
ReviewCoversPreview ==
  (AtStep("contact") /\ Checked /\ CoarseTravel > 0) => PreviewFits

\* A routine that succeeds has measured every axis of its plan and has ended
\* where the review said: at its starting height, back at the start or over
\* the measured point.  A Z search that touched nothing ends at its
\* starting height.
EndsWhereReviewed ==
  (pc = "over" /\ op = "run" /\ changed.what # "moved") =>
    /\ outcome = "ok" =>
         /\ \A a \in MeasuredAxes(config) : result.point[a] # None
         /\ \A a \in Axes :
              IF a \in MeasuredAxes(config) /\ config.family # "inside" /\ a # "Z"
                THEN at[a] = result.point[a] - ProbeOffset[a]
                ELSE at[a] = plan.start[a]
    /\ (outcome = "CoarseNoContact" /\ config.z) => at["Z"] = plan.start["Z"]

\* A result says that the machine went back to the start, or over the
\* measured point with clearance, only when it was last seen there at rest.
FlagsSayWhereItIs ==
  [][/\ (result'.returned /\ ~result.returned) => position = plan.start
     /\ (result'.positioned /\ ~result.positioned) =>
          \A a \in MeasuredAxes(config) : position[a] = result.point[a] - ProbeOffset[a]]_vars

\* A result says that the work zero is set only when it lies at the measured
\* point and the offset asked for, wherever the machine is and whatever was
\* done to it before and after its coordinates were queried.
ZeroIsWhereMeasured ==
  [][(pc = "zero" /\ pc' \in {"finish", "applied"}) =>
       \A a \in Axes : origin'[a] = IF a \in MeasuredAxes(config)
                                      THEN result'.point[a] + result'.offset ELSE plan.origin[a]]_vars

\* Once an operator has moved the machine or selected other coordinates, no
\* further stage is sent; once the tool, the calibration or the work zero has
\* changed, no further step is.
StopsAfterChange ==
  [][(op = "run" /\ last' # last /\ last'[2] \notin {NoLine, <<"modes">>, <<"$#">>}) =>
       CASE changed.what = "nothing" -> TRUE
         [] changed.what \in {"moved", "wcs"} ->
              changed.index = index /\ changed.stage = stage
         [] changed.what = "zero" /\ config.family = "angle" -> TRUE
         [] OTHER -> changed.index = index]_vars

\* Every motion of a routine is announced by its line of the script, for the
\* same axes, before it is sent.
MotionIsAnnounced ==
  /\ last[2][1] \in {"coarse", "fine", "retract"} => last[1] = last[2]
  /\ last[2][1] \in {"G1", "G38.3"} =>
       last[1][1] \in {"G1", "G38.3"} /\ last[2][2] \subseteq last[1][2]

================================================================================
