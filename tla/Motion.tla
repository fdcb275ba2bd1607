-------------------------------- MODULE Motion --------------------------------
(***************************************************************************)
(* The contact cycle and the guarded move of crates/probe-core/motion.rs:  *)
(* stages submitted one at a time to a machine whose status and probe      *)
(* reports come late, early, twice or not at all.                          *)
(*                                                                         *)
(* Coordinates are along the probing direction, in units of 0.05 mm.  The  *)
(* machine is the environment: it starts an order when it likes, stops     *)
(* some way past a contact, and reports the contact before or after its    *)
(* first status at rest, as the contract of trait Controller allows.       *)
(***************************************************************************)
EXTENDS Integers, Sequences

CONSTANTS
  Travel, Backoff,          \* ContactConfig: coarse_travel, retract_distance
  Tolerance,                \* 0.05 mm in the code
  Overtravel,               \* 0.5 mm: the fine search beyond the backoff
  StopRange,                \* 0.10 mm: a fine stop past its contact
  Guarded, Lifts,           \* distances of the positioning moves
  Low, High,                \* travel limits
  Surfaces,                 \* where the workpiece may be
  MaxOvershoot,             \* how far the machine stops past a contact
  TriggerKnown,             \* the status carries the probe input
  Capacity,                 \* slots of the event channel
  MaxJobs,                  \* bound: operations in one behaviour
  None

ASSUME MotionAssumption ==
  /\ Travel \in Nat \ {0} /\ Backoff \in Nat
  /\ Tolerance \in Nat /\ Overtravel \in Nat /\ StopRange \in Nat
  /\ Backoff > Tolerance                   \* plan_contact: at least 0.1 mm
  /\ Guarded \subseteq Int \ {0} /\ Lifts \subseteq Int \ {0}
  /\ Low \in Int /\ High \in Int /\ Low <= 0 /\ 0 <= High
  /\ Surfaces \subseteq Nat \ {0} /\ MaxOvershoot \in Nat
  /\ TriggerKnown \in BOOLEAN
  /\ Capacity \in Nat \ {0} /\ MaxJobs \in Nat /\ None \notin Int

VARIABLES
  surface, at,      \* the machine: where the workpiece and the probe are
  order,            \* a stage on its way to the machine
  motion, goal,     \* the stage it carries out
  touched, owed,    \* where it touched; the probe report it still owes
  alarm,
  state,            \* the stored controller state
  rx, lagged,       \* the subscription; it has overflowed
  pc, job, step, stage, jobs,
  origin, expected, start,  \* of the operation, of the next and of this stage
  moving, failed, hit, final, puzzled,  \* the locals of execute()
  measured, outcome

machineVars == <<surface, at, order, motion, goal, touched, owed, alarm>>
waitVars == <<start, moving, failed, hit, final, puzzled>>
jobVars == <<job, step, stage, jobs, origin, expected, measured>>
vars == <<machineVars, state, rx, lagged, pc, jobVars, waitVars, outcome>>

-----------------------------------------------------------------------------
(* Plans.                                                                  *)

Stage(kind, delta) == [kind |-> kind, delta |-> delta]
NoStage == Stage("none", 0)
Probing(s) == s.kind \in {"coarse", "fine", "guarded"}
NoError(s) == s.kind \in {"coarse", "guarded"}

plan_contact ==
  <<Stage("coarse", Travel), Stage("retract", -Backoff),
    Stage("fine", Backoff + Overtravel), Stage("retract", -Backoff)>>

Jobs == {Stage("contact", 0)} \cup {Stage("guarded", d) : d \in Guarded}
                              \cup {Stage("lift", d) : d \in Lifts}
Plan(j) == IF j.kind = "contact" THEN plan_contact ELSE <<j>>

Lesser(a, b) == IF a < b THEN a ELSE b
Greater(a, b) == IF a < b THEN b ELSE a
Distance(a, b) == Greater(a - b, b - a)
Within(a, b) == Distance(a, b) <= Tolerance

\* The path's extremes: a probing stage may stop anywhere on its way.
Extremes(p) ==
  LET lo[i \in 0..Len(p)] ==
        IF i = 0 THEN 0
        ELSE lo[i - 1] + (IF Probing(p[i]) THEN Lesser(p[i].delta, 0) ELSE p[i].delta)
      hi[i \in 0..Len(p)] ==
        IF i = 0 THEN 0
        ELSE hi[i - 1] + (IF Probing(p[i]) THEN Greater(p[i].delta, 0) ELSE p[i].delta)
  IN [lo |-> lo, hi |-> hi]
extent(p) ==
  LET e == Extremes(p)
  IN [min |-> CHOOSE m \in {e.lo[i] : i \in 0..Len(p)} :
                \A i \in 0..Len(p) : m <= e.lo[i],
      max |-> CHOOSE m \in {e.hi[i] : i \in 0..Len(p)} :
                \A i \in 0..Len(p) : m >= e.hi[i]]

PathIsFreeAlways(lo, hi) == TRUE  \* mutant: the limits are not looked at
check_path(lo, hi) == Low <= lo /\ hi <= High

-----------------------------------------------------------------------------

Init ==
  /\ surface \in Surfaces /\ at = 0 /\ order = NoStage /\ motion = NoStage /\ goal = 0
  /\ touched = None /\ owed = "none" /\ alarm = FALSE
  /\ state = [ready |-> TRUE, pos |-> 0, blocked |-> FALSE, touch |-> FALSE]
  /\ rx = <<>> /\ lagged = FALSE
  /\ pc = "idle" /\ job = NoStage /\ step = 0 /\ stage = NoStage /\ jobs = 0
  /\ origin = 0 /\ expected = 0 /\ start = 0
  /\ moving = FALSE /\ failed = FALSE /\ hit = None /\ final = None
  /\ puzzled = FALSE /\ measured = None /\ outcome = "none"

Over(o) ==
  /\ pc' = "over"
  /\ outcome' = IF stage.kind = "release" /\ o # "Cancelled"
                THEN IF o = "ok" THEN "Retracted" ELSE "Recovery" ELSE o

-----------------------------------------------------------------------------
(* Between the stages.                                                     *)

NotTouching(release) == TRUE  \* mutant: the probe input is not looked at
NotTriggered(release) == release \/ ~state.touch
\* preflight, preflight_machine
preflight(release) ==
  CASE state.blocked -> "Blocked"
    [] ~state.blocked /\ state.ready /\ NotTriggered(release) -> "ok"
    [] OTHER -> "Preflight"

preview_contact ==
  LET e == extent(plan_contact)
      flight == preflight(FALSE)
  IN IF flight # "ok" THEN flight
     ELSE IF check_path(state.pos + e.min, state.pos + e.max) THEN "ok" ELSE "Preflight"

Begin(j) ==
  /\ pc = "idle" /\ jobs < MaxJobs
  /\ jobs' = jobs + 1 /\ job' = j /\ step' = 1 /\ stage' = Plan(j)[1]
  /\ origin' = state.pos /\ expected' = state.pos /\ measured' = None
  /\ IF j.kind = "contact" /\ preview_contact # "ok"
       THEN pc' = "over" /\ outcome' = preview_contact
       ELSE pc' = "between" /\ outcome' = "none"
  /\ UNCHANGED <<machineVars, state, rx, lagged, waitVars>>

\* execute() up to the send.
Submit ==
  LET from == state.pos
      to == state.pos + stage.delta
      check == preflight(stage.kind \in {"retract", "release"})
  IN
  /\ pc = "between"
  /\ IF job.kind = "contact" /\ ~Within(expected, from)
       THEN Over("Position") /\ UNCHANGED <<rx, lagged, waitVars>>
     ELSE IF check # "ok"
       THEN Over(check) /\ UNCHANGED <<rx, lagged, waitVars>>
     ELSE IF ~check_path(Lesser(from, to), Greater(from, to))
       THEN Over("Preflight") /\ UNCHANGED <<rx, lagged, waitVars>>
     ELSE /\ pc' = "sending" /\ UNCHANGED outcome
          /\ rx' = <<>> /\ lagged' = FALSE /\ start' = from
          /\ moving' = FALSE /\ failed' = FALSE /\ hit' = None /\ final' = None
          /\ puzzled' = FALSE
  /\ UNCHANGED <<machineVars, state, jobVars>>

Send ==
  /\ pc = "sending" /\ pc' = "waiting" /\ order' = stage
  /\ UNCHANGED <<surface, at, motion, goal, touched, owed, alarm, state, rx,
                 lagged, jobVars, waitVars, outcome>>

\* The command may have gone out although send() fails.
SendFails ==
  /\ pc = "sending" /\ Over("Controller")
  /\ order' \in {order, stage}
  /\ UNCHANGED <<surface, at, motion, goal, touched, owed, alarm, state, rx,
                 lagged, jobVars, waitVars>>

\* run_position_stage(): back off from an unexpected contact.
BackOff ==
  LET back == Lesser(Backoff, Distance(final, origin))
  IN
  /\ pc = "contact"
  /\ IF ~Within(state.pos, final)
       THEN Over("Position") /\ UNCHANGED stage
     ELSE IF back <= Tolerance
       THEN Over("Contact") /\ UNCHANGED stage
     ELSE /\ stage' = Stage("release", IF stage.delta > 0 THEN -back ELSE back)
          /\ pc' = "between" /\ UNCHANGED outcome
  /\ UNCHANGED <<machineVars, state, rx, lagged, job, step, jobs, origin, expected,
                 measured, waitVars>>

\* The stage has ended well: the next one, or the end of the operation.
Advance(contact, pos) ==
  /\ expected' = pos
  /\ measured' = IF stage.kind = "fine" THEN contact ELSE measured
  /\ IF stage.kind = "release"
       THEN Over("ok") /\ UNCHANGED <<step, stage>>
     ELSE IF step < Len(Plan(job))
       THEN /\ step' = step + 1 /\ stage' = Plan(job)[step + 1]
            /\ pc' = "between" /\ UNCHANGED outcome
     ELSE pc' = "idle" /\ outcome' = "ok" /\ UNCHANGED <<step, stage>>
  /\ UNCHANGED <<job, jobs, origin>>

-----------------------------------------------------------------------------
(* The event loop of execute().                                            *)

Sign(n) == IF n < 0 THEN -1 ELSE 1
End == start + stage.delta
\* segment(): on the commanded move, give or take the tolerance.
segment(pos) ==
  (pos - start) * Sign(stage.delta)
    \in -Tolerance..(Distance(start, End) + Tolerance)

\* A status at rest ends a probing stage only if it is not one from before it.
SettledAlways(m, h, f, pos) == TRUE  \* mutant: any status at rest is the last
Settled(m, h, f, pos) == m \/ h # None \/ f \/ pos # start

JudgeShortMiss(pos) ==  \* mutant: a miss need not have reached the end
  IF segment(pos) THEN IF NoError(stage) THEN "CoarseNoContact" ELSE "NoContact"
  ELSE "Position"
JudgeMiss(pos) ==
  CASE ~segment(pos) \/ (NoError(stage) /\ ~Within(End, pos)) -> "Position"
    [] OTHER -> IF NoError(stage) THEN "CoarseNoContact" ELSE "NoContact"
JudgeHit(h, pos) ==
  IF IF NoError(stage) THEN segment(pos)
     ELSE (pos - h) * Sign(stage.delta) \in -Tolerance..StopRange
    THEN "ok" ELSE "Position"
JudgeGuarded(h, f, pos) ==
  CASE ~segment(pos) -> "Position"
    [] segment(pos) /\ h # None -> "Contact"
    [] segment(pos) /\ h = None /\ ~Within(End, pos) -> "Position"
    [] OTHER -> IF f THEN "ok" ELSE "wait"
\* What the loop makes of a contact h, a miss f and a position at rest pos.
Judge(h, f, pos) ==
  CASE pos = None -> "wait"
    [] pos # None /\ stage.kind = "guarded" -> JudgeGuarded(h, f, pos)
    [] pos # None /\ stage.kind # "guarded" /\ (f \/ h = None) ->
         IF f THEN JudgeMiss(pos) ELSE "wait"
    [] OTHER -> JudgeHit(h, pos)

Conclude(verdict, h, pos) ==
  CASE verdict = "wait" -> UNCHANGED <<pc, jobVars, outcome>>
    [] verdict = "ok" -> Advance(IF NoError(stage) THEN pos ELSE h, pos)
    [] verdict = "Contact" -> pc' = "contact" /\ UNCHANGED <<jobVars, outcome>>
    [] OTHER -> Over(verdict) /\ UNCHANGED jobVars

\* receive(): lost events, the machine's errors and alarms end the wait.
ReceiveFailure ==
  /\ pc = "waiting"
  /\ \/ lagged /\ Over("EventLagged") /\ UNCHANGED rx
     \/ /\ ~lagged /\ rx # <<>> /\ rx' = Tail(rx)
        /\ \/ Head(rx).kind = "error" /\ Over("Controller")
           \/ Head(rx).kind = "blocked" /\ Over("Blocked")
           \/ Head(rx).kind = "changed" /\ Over("Position")
  /\ UNCHANGED <<machineVars, state, lagged, jobVars, waitVars>>

ReceiveProbe ==
  LET contact == Head(rx)
      h == IF contact.flag THEN contact.pos ELSE hit
      f == failed \/ ~contact.flag
  IN
  /\ pc = "waiting" /\ ~lagged /\ rx # <<>> /\ contact.kind = "probe"
  /\ rx' = Tail(rx)
  /\ IF ~Probing(stage)
       THEN UNCHANGED <<pc, jobVars, outcome, hit, failed>>
     ELSE IF contact.flag /\ ~NoError(stage) /\ ~segment(contact.pos)
       THEN Over("Position") /\ UNCHANGED <<jobVars, hit, failed>>
     ELSE /\ hit' = h /\ failed' = f
          /\ Conclude(Judge(h, f, final), h, final)
  /\ UNCHANGED <<machineVars, state, lagged, start, moving, final, puzzled>>

HitForgotten == None  \* mutant: a report before the first motion is forgotten
HitKept == hit
ReceiveMoving ==
  /\ pc = "waiting" /\ ~lagged /\ rx # <<>>
  /\ Head(rx).kind = "status" /\ ~Head(rx).flag
  /\ rx' = Tail(rx) /\ moving' = TRUE /\ final' = None /\ hit' = HitKept
  /\ UNCHANGED <<machineVars, state, lagged, pc, jobVars, start, failed, puzzled,
                 outcome>>

ReachedAnywhere(pos) == TRUE  \* mutant: any status at rest ends a move
Reached(pos) == Within(pos, End)
ReceiveReady ==
  LET pos == Head(rx).pos
      settled == Settled(moving, hit, failed, pos)
      f == IF settled THEN pos ELSE final
  IN
  /\ pc = "waiting" /\ ~lagged /\ rx # <<>>
  /\ Head(rx).kind = "status" /\ Head(rx).flag
  /\ rx' = Tail(rx)
  /\ IF Probing(stage)
       THEN /\ final' = f /\ puzzled' = (puzzled \/ settled)
            /\ Conclude(Judge(hit, failed, f), hit, f)
     ELSE IF Reached(pos)
       THEN UNCHANGED <<final, puzzled>> /\ Advance(None, pos)
     ELSE /\ puzzled' = TRUE /\ UNCHANGED <<final, pc, jobVars, outcome>>
  /\ UNCHANGED <<machineVars, state, lagged, start, moving, failed, hit>>

\* The time limit of the stage.
Expire ==
  /\ pc \in {"sending", "waiting"}
  /\ Over(IF puzzled THEN "Position" ELSE "Timeout")
  /\ order' \in IF pc = "sending" THEN {order, stage} ELSE {order}
  /\ UNCHANGED <<surface, at, motion, goal, touched, owed, alarm, state, rx,
                 lagged, jobVars, waitVars>>

\* The run's token: the future is dropped at whatever it awaits.
Cancel ==
  /\ pc \in {"between", "sending", "waiting", "contact"}
  /\ Over("Cancelled")
  /\ order' \in IF pc = "sending" THEN {order, stage} ELSE {order}
  /\ UNCHANGED <<surface, at, motion, goal, touched, owed, alarm, state, rx,
                 lagged, jobVars, waitVars>>

-----------------------------------------------------------------------------
(* The machine.                                                            *)

AtRest == order = NoStage /\ motion = NoStage

Deliver(e) ==
  IF Len(rx) < Capacity THEN rx' = Append(rx, e) /\ UNCHANGED lagged
  ELSE rx' = Append(Tail(rx), e) /\ lagged' = TRUE
Event(kind, flag, pos) == [kind |-> kind, flag |-> flag, pos |-> pos]
hostVars == <<pc, jobVars, waitVars, outcome>>

StartMotion ==
  /\ order # NoStage /\ motion = NoStage /\ ~alarm
  /\ motion' = order /\ order' = NoStage /\ goal' = at + order.delta
  /\ touched' = None
  /\ UNCHANGED <<surface, at, owed, alarm, state, rx, lagged, hostVars>>

Touches == Probing(motion) /\ motion.delta > 0 /\ at >= surface
Travels ==
  /\ motion # NoStage /\ at # goal /\ touched = None /\ ~Touches
  /\ at' = at + Sign(goal - at)
  /\ UNCHANGED <<surface, order, motion, goal, touched, owed, alarm, state, rx,
                 lagged, hostVars>>
Touch ==
  /\ motion # NoStage /\ touched = None /\ Touches
  /\ touched' = at /\ owed' = "hit"
  /\ UNCHANGED <<surface, at, order, motion, goal, alarm, state, rx, lagged, hostVars>>
Overshoot ==
  /\ touched # None /\ motion # NoStage /\ at < Lesser(goal, touched + MaxOvershoot)
  /\ at' = at + 1
  /\ UNCHANGED <<surface, order, motion, goal, touched, owed, alarm, state, rx,
                 lagged, hostVars>>
Halt ==
  /\ motion # NoStage /\ motion' = NoStage
  /\ (at = goal /\ ~Touches) \/ touched # None
  /\ owed' = IF Probing(motion) /\ touched = None THEN "miss" ELSE owed
  /\ UNCHANGED <<surface, at, order, goal, touched, alarm, state, rx, lagged, hostVars>>
\* It stops before the end of a move, without an alarm.
StopShort ==
  /\ motion # NoStage /\ motion' = NoStage /\ at # goal /\ touched = None
  /\ owed' = IF Probing(motion) THEN "miss" ELSE owed
  /\ UNCHANGED <<surface, at, order, goal, touched, alarm, state, rx, lagged, hostVars>>
Alarm ==
  /\ ~alarm /\ alarm' = TRUE /\ motion' = NoStage /\ order' = NoStage
  /\ UNCHANGED <<surface, at, goal, touched, owed, state, rx, lagged, hostVars>>

ReportStatus ==
  /\ pc # "over"
  /\ state' = [ready |-> motion = NoStage, pos |-> at, blocked |-> alarm,
               touch |-> TriggerKnown /\ at >= surface]
  /\ Deliver(Event(IF alarm THEN "blocked" ELSE "status", motion = NoStage, at))
  /\ UNCHANGED <<machineVars, hostVars>>
ReportProbe ==
  /\ owed # "none" /\ owed' = "none"
  /\ Deliver(Event("probe", owed = "hit", IF owed = "hit" THEN touched ELSE at))
  /\ UNCHANGED <<surface, at, order, motion, goal, touched, alarm, state, hostVars>>
\* An error, or a status in another coordinate system or with no position.
ReportOther(kind) ==
  /\ pc \in {"sending", "waiting"}
  /\ Deliver(Event(kind, FALSE, at))
  /\ UNCHANGED <<machineVars, state, hostVars>>

-----------------------------------------------------------------------------

Execute == Submit \/ Send \/ BackOff \/ ReceiveProbe \/ ReceiveMoving \/ ReceiveReady
Motions == StartMotion \/ Travels \/ Touch \/ Halt
Reports == ReportStatus \/ ReportProbe
Mishaps == SendFails \/ ReceiveFailure \/ Expire \/ Cancel \/ StopShort \/ Alarm
           \/ \E kind \in {"error", "changed"} : ReportOther(kind)
Begins == \E j \in Jobs : Begin(j)

Next == Begins \/ Execute \/ Motions \/ Overshoot \/ Reports \/ Mishaps
Spec == Init /\ [][Next]_vars

-----------------------------------------------------------------------------
(* Properties.                                                             *)

Kinds == {"none", "contact", "coarse", "retract", "fine", "guarded", "release", "lift"}
Stages == [kind : Kinds, delta : Int]
Events == [kind : {"status", "blocked", "probe", "error", "changed"},
           flag : BOOLEAN, pos : Int]
Unsafe == {"Position", "NoContact", "Contact", "Recovery", "Controller", "Timeout",
           "EventLagged", "Cancelled"}
Outcomes == Unsafe \cup {"none", "ok", "Preflight", "Blocked", "CoarseNoContact", "Retracted"}

\* Types; the event channel never holds more than its capacity.
TypeOK ==
  /\ surface \in Surfaces /\ at \in Int /\ goal \in Int
  /\ order \in Stages /\ motion \in Stages /\ stage \in Stages /\ job \in Stages
  /\ touched \in Int \cup {None} /\ owed \in {"none", "hit", "miss"}
  /\ alarm \in BOOLEAN
  /\ state \in [ready : BOOLEAN, pos : Int, blocked : BOOLEAN, touch : BOOLEAN]
  /\ rx \in Seq(Events) /\ Len(rx) <= Capacity /\ lagged \in BOOLEAN
  /\ pc \in {"idle", "between", "sending", "waiting", "contact", "over"}
  /\ step \in 0..4 /\ jobs \in 0..MaxJobs
  /\ origin \in Int /\ expected \in Int /\ start \in Int
  /\ moving \in BOOLEAN /\ failed \in BOOLEAN /\ puzzled \in BOOLEAN
  /\ hit \in Int \cup {None} /\ final \in Int \cup {None}
  /\ measured \in Int \cup {None} /\ outcome \in Outcomes

\* execute() returns only when its stage is over: the next command goes to a
\* machine that stands still and owes no probe report of an earlier stage,
\* whichever way late, early and stale reports are ordered.
CommandsWaitForRest ==
  pc \in {"idle", "between", "sending", "contact"} =>
    (AtRest \/ alarm) /\ owed = "none"

\* The results that recover() of the application takes for a machine at rest
\* are only returned when it is.
SafeOutcomesAtRest ==
  /\ outcome \notin Unsafe \cup {"none", "Blocked"} => AtRest \/ alarm
  /\ outcome = "Blocked" => alarm

\* A measured contact is where the workpiece is: no report of the coarse touch,
\* of an earlier stage or of a probe that still touches is taken for it.
MeasuredSurface == outcome = "ok" /\ measured # None => measured = surface

\* No contact within the search distance is reported only where there is none
\* to be made; a move that stopped short is not taken for a full search.
NoFalseMiss == outcome = "CoarseNoContact" => surface - origin >= Travel - Tolerance

\* No operation, and no recovery move in it, passes the travel limits.
StaysInLimits == at \in Low..High

-----------------------------------------------------------------------------
(* A machine that does its part, and a host that is not interrupted.       *)

Healthy == Begins \/ Execute \/ Motions \/ Overshoot \/ Reports
HealthySpec ==
  /\ Init /\ [][Healthy]_vars
  /\ WF_vars(Execute) /\ WF_vars(Motions)
  /\ WF_vars(ReportStatus) /\ WF_vars(ReportProbe)

\* With a healthy machine no stage waits for an event that never comes: each
\* one ends without its time limit, unless the host cannot keep up with the
\* reports.
StagesFinish == pc = "waiting" ~> pc # "waiting" \/ lagged
===============================================================================
