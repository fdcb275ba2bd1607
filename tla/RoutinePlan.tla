------------------------------ MODULE RoutinePlan ------------------------------
(***************************************************************************)
(* Routines as they are reviewed (crates/probe-core/plan.rs, script.rs):   *)
(* the steps that measure a feature from the captured start, the envelope  *)
(* of positions they may reach, and the script shown to the operator.      *)
(*                                                                         *)
(* Coordinates are machine coordinates in a fixed unit; feeds and the text *)
(* of the lines are left out.                                              *)
(***************************************************************************)
EXTENDS Integers, Sequences

CONSTANTS
  Limits,        \* travel_limits: the travel of each axis below its zero
  ProbeOffset,   \* probe_offset: the ball against the carriage
  Slack,         \* 0.5 mm: a fine search past its backoff, a limit's margin
  None

Axes == {"X", "Y", "Z"}

ASSUME PlanAssumption ==
  /\ Limits \in [Axes -> Nat] /\ ProbeOffset \in [Axes -> Int]
  /\ Slack \in Nat \ {0} /\ None \notin Int

-----------------------------------------------------------------------------
(* Options.                                                                *)

\* angle_axes: the axis measured, the axis along the face, the direction.
AngleAxes(feature) ==
  CASE feature = "x-plus" -> <<"X", "Y", 1>>
    [] feature = "x-minus" -> <<"X", "Y", -1>>
    [] feature = "y-plus" -> <<"Y", "X", 1>>
    [] feature = "y-minus" -> <<"Y", "X", -1>>
    [] feature = "z-x" -> <<"Z", "X", -1>>
    [] OTHER -> <<"Z", "Y", -1>>

CenterAxes(feature) ==
  CASE feature \in {"boss", "block", "hole", "pocket"} -> <<1, 1, FALSE>>
    [] feature \in {"x-ridge", "x-valley"} -> <<1, 0, FALSE>>
    [] feature \in {"y-ridge", "y-valley"} -> <<0, 1, FALSE>>
    [] OTHER -> <<0, 0, TRUE>>
\* Outside and inside corners leave the feature empty ("none").
Features(family) ==
  CASE family = "center" -> {"boss", "block", "hole", "pocket", "x-ridge", "x-valley",
                             "y-ridge", "y-valley", "z"}
    [] family = "angle" -> {"x-plus", "x-minus", "y-plus", "y-minus", "z-x", "z-y"}
    [] OTHER -> {"none"}

\* validate: which axes an operation may probe, and every distance positive.
ValidConfig(c) ==
  /\ c.family \in {"inside", "outside", "center", "angle"}
  /\ c.x \in -1..1 /\ c.y \in -1..1 /\ c.z = (c.x = 0 /\ c.y = 0)
  /\ c.feature \in Features(c.family)
  /\ c.family = "center" => <<c.x, c.y, c.z>> = CenterAxes(c.feature)
  /\ c.family = "angle" =>
       LET a == AngleAxes(c.feature)
       IN ~c.zero /\ <<c.x, c.y, c.z>> = <<IF a[1] = "X" THEN a[3] ELSE 0,
                                          IF a[1] = "Y" THEN a[3] ELSE 0, a[1] = "Z">>
  /\ \A d \in {c.depth, c.searchX, c.searchY, c.retract, c.radius} : d > 0

center_internal(c) == c.feature \in {"hole", "pocket", "x-valley", "y-valley"}
Search(c, a) == CASE a = "X" -> c.searchX [] a = "Y" -> c.searchY [] OTHER -> c.depth
Enabled(c, a) == CASE a = "X" -> c.x # 0 [] a = "Y" -> c.y # 0 [] OTHER -> c.z
\* RoutinePlan::axes
MeasuredAxes(c) ==
  CASE c.family = "angle" -> {}
    [] OTHER -> {a \in Axes : Enabled(c, a)}

-----------------------------------------------------------------------------
(* Steps.  A value needed by a move is named by what it is of: the start   *)
(* or the surface of an axis, and which of its contacts ("whole" where the *)
(* code gives no suffix).                                                  *)

Start(a) == <<"start", a, "whole">>
Surface(a, tag) == <<"surface", a, tag>>
Backoff(a) == <<"backoff", a, "whole">>
Tags == {"whole", "low", "high", "0", "1"}
Surfaces == {"surface"} \X Axes \X Tags
Names == Surfaces \cup {Start(a) : a \in Axes}

Target(a, name, offset) == [axis |-> a, name |-> name, offset |-> offset]
Move(targets) == <<[kind |-> "move", targets |-> targets]>>
mov(a, name, offset) == Move(<<Target(a, name, offset)>>)
contact(start, a, dir, end, tag) ==
  <<[kind |-> "contact", axis |-> a, dir |-> dir, limit |-> start[a] + end, tag |-> tag]>>
Center(a) == <<[kind |-> "center", axis |-> a]>>
When(cond, steps) == IF cond THEN steps ELSE <<>>

AngleSteps(c, start) ==
  LET a == AngleAxes(c.feature)
      measured == a[1]
      along == a[2]
      touch(tag) == contact(start, measured, a[3], a[3] * Search(c, measured), tag)
                    \o mov(measured, Start(measured), 0)
  IN touch("0") \o mov(along, Start(along), Search(c, along)) \o touch("1")
     \o mov(along, Start(along), 0)

\* One side of a feature: from outside it comes down beside it first.
CenterSide(c, start, a, side) ==
  IF center_internal(c)
    THEN contact(start, a, side, side * Search(c, a), IF side < 0 THEN "low" ELSE "high")
    ELSE mov(a, Start(a), side * Search(c, a)) \o mov("Z", Start("Z"), -c.depth)
         \o contact(start, a, -side, 0, IF side < 0 THEN "low" ELSE "high")
         \o When(side < 0 \/ (a = "X" /\ c.y # 0), mov("Z", Start("Z"), 0))
CenterAxis(c, start, a) ==
  When(Enabled(c, a),
       CenterSide(c, start, a, -1) \o CenterSide(c, start, a, 1) \o Center(a)
       \o When(a = "X" /\ c.y # 0, mov(a, Surface(a, "whole"), -ProbeOffset[a])))

OutsideAxis(c, start, a, dir) ==
  When(dir # 0,
       When(a = "Y" /\ c.x # 0, mov("X", Start("X"), 0))
       \o mov(a, Start(a), -dir * Search(c, a)) \o mov("Z", Start("Z"), -c.depth)
       \o contact(start, a, dir, 0, "whole")
       \o When(a = "X" /\ c.y # 0, mov("Z", Start("Z"), 0)))

InsideSteps(c, start) ==
  When(c.x # 0, contact(start, "X", c.x, c.x * c.searchX, "whole"))
  \o When(c.y # 0, When(c.x # 0, mov("X", Start("X"), 0))
                   \o contact(start, "Y", c.y, c.y * c.searchY, "whole"))

LastMoveAtDepth(c) ==  \* mutant: it is not raised first
  LET over(a) == IF c.family = "inside" THEN Target(a, Start(a), 0)
                 ELSE Target(a, Surface(a, "whole"), -ProbeOffset[a])
  IN Move(When(c.x # 0, <<over("X")>>) \o When(c.y # 0, <<over("Y")>>))
\* Where a routine ends: over what it measured, or back inside it.
LastMove(c) ==
  LET over(a) == IF c.family = "inside" THEN Target(a, Start(a), 0)
                 ELSE Target(a, Surface(a, "whole"), -ProbeOffset[a])
  IN When(c.family # "inside" /\ ~center_internal(c), mov("Z", Start("Z"), 0))
     \o Move(When(c.x # 0, <<over("X")>>) \o When(c.y # 0, <<over("Y")>>))

Steps(c, start) ==
  CASE c.family = "angle" -> AngleSteps(c, start)
    [] c.family # "angle" /\ c.z ->
         contact(start, "Z", -1, -c.depth, "whole") \o mov("Z", Start("Z"), 0)
    [] c.family = "center" /\ ~c.z ->
         CenterAxis(c, start, "X") \o CenterAxis(c, start, "Y") \o LastMove(c)
    [] c.family = "outside" /\ ~c.z ->
         OutsideAxis(c, start, "X", c.x) \o OutsideAxis(c, start, "Y", c.y) \o LastMove(c)
    [] OTHER -> InsideSteps(c, start) \o LastMove(c)

-----------------------------------------------------------------------------
(* The envelope: an interval of positions for each axis, followed through  *)
(* the steps with the intervals the named values may lie in.               *)

Lesser(a, b) == IF a < b THEN a ELSE b
Greater(a, b) == IF a < b THEN b ELSE a

check_path(a, lo, hi) == Limits[a] > 0 /\ Slack - Limits[a] <= lo /\ lo <= hi /\ hi <= 0

EnvelopeOfContactOnce(c, e, s) ==  \* mutant: the backoff after the fine touch is forgotten
  LET a == s.axis
      lo == IF s.dir > 0 THEN e.lo[a] ELSE s.limit - Slack
      hi == IF s.dir > 0 THEN s.limit + Slack ELSE e.hi[a]
      off == ProbeOffset[a] + s.dir * c.radius
      shift == s.dir * c.retract
  IN [ok |-> e.ok /\ check_path(a, Lesser(e.lo[a], lo), Greater(e.hi[a], hi)),
      lo |-> [e.lo EXCEPT ![a] = lo - shift], hi |-> [e.hi EXCEPT ![a] = hi - shift],
      refs |-> [e.refs EXCEPT ![Surface(a, s.tag)] = <<lo + off, hi + off>>]]
EnvelopeOfContact(c, e, s) ==
  LET a == s.axis
      lo == IF s.dir > 0 THEN e.lo[a] - c.retract ELSE s.limit - Slack
      hi == IF s.dir > 0 THEN s.limit + Slack ELSE e.hi[a] + c.retract
      off == ProbeOffset[a] + s.dir * c.radius
      shift == s.dir * c.retract
  IN [ok |-> e.ok /\ check_path(a, Lesser(e.lo[a], Lesser(lo, lo - shift)),
                                   Greater(e.hi[a], Greater(hi, hi - shift))),
      lo |-> [e.lo EXCEPT ![a] = lo - shift], hi |-> [e.hi EXCEPT ![a] = hi - shift],
      refs |-> [e.refs EXCEPT ![Surface(a, s.tag)] = <<lo + off, hi + off>>]]

\* A center is halfway; kept as the sum of its ends where that is odd.
EnvelopeOfCenter(e, s) ==
  LET low == e.refs[Surface(s.axis, "low")]
      high == e.refs[Surface(s.axis, "high")]
      middle == <<(low[1] + high[1]) \div 2, (low[2] + high[2] + 1) \div 2>>
  IN [ok |-> e.ok, lo |-> e.lo, hi |-> e.hi,
      refs |-> [e.refs EXCEPT ![Surface(s.axis, "whole")] = middle]]

\* Where a target may lie.
EnvelopeOfTargetOfName(e, t) == e.refs[t.name]  \* mutant: the offset of a move is forgotten
EnvelopeOfTarget(e, t) == <<e.refs[t.name][1] + t.offset, e.refs[t.name][2] + t.offset>>
\* The targets of a move are of different axes.
AxesOf(s) == {s.targets[k].axis : k \in DOMAIN s.targets}
TargetOf(s, a) == s.targets[CHOOSE k \in DOMAIN s.targets : s.targets[k].axis = a]
EnvelopeOfMove(e, s) ==
  LET to == [a \in Axes |-> IF a \in AxesOf(s) THEN EnvelopeOfTarget(e, TargetOf(s, a))
                            ELSE <<e.lo[a], e.hi[a]>>]
  IN [ok |-> e.ok /\ \A a \in AxesOf(s) :
                       check_path(a, Lesser(e.lo[a], to[a][1]), Greater(e.hi[a], to[a][2])),
      lo |-> [a \in Axes |-> to[a][1]], hi |-> [a \in Axes |-> to[a][2]], refs |-> e.refs]

EnvelopeOfStart(start) ==
  [ok |-> TRUE, lo |-> start, hi |-> start,
   refs |-> [n \in Names |-> IF n[1] = "start" THEN <<start[n[2]], start[n[2]]>> ELSE <<0, 0>>]]
EnvelopeAfter(c, e, s) ==
  CASE s.kind = "contact" -> EnvelopeOfContact(c, e, s)
    [] s.kind = "center" -> EnvelopeOfCenter(e, s)
    [] OTHER -> EnvelopeOfMove(e, s)
\* The envelopes before every step, and after the last one.
Envelopes(c, start, steps) ==
  LET e[i \in 1..Len(steps) + 1] ==
        IF i = 1 THEN EnvelopeOfStart(start) ELSE EnvelopeAfter(c, e[i - 1], steps[i - 1])
  IN e
validate_envelope(c, start, steps) ==
  \E e \in {Envelopes(c, start, steps)} : \A i \in 1..Len(steps) : e[i + 1].ok

-----------------------------------------------------------------------------
(* The script: lines by the step they belong to.  A command is named by    *)
(* what it does, a move by its axes and whether it is a plain lift.        *)

Line(step, is, cmd) == <<[step |-> step, is |-> is, cmd |-> cmd]>>
Note(step) == Line(step, "note", <<"note">>)
Command(step, cmd) == Line(step, "command", cmd)
Declaration(step) == Line(step, "declaration", <<"note">>)

Stages == <<"coarse", "retract", "fine", "retract">>
MoveCommand(axes, lift) == IF lift THEN <<"G1", axes>> ELSE <<"G38.3", axes>>

ContactLines(i, s) ==
  Note(i) \o Note(i) \o Command(i, <<"coarse", {s.axis}>>)
  \o Command(i, <<"retract", {s.axis}>>)
  \o Note(i) \o Command(i, <<"fine", {s.axis}>>) \o Declaration(i)
  \o Command(i, <<"retract", {s.axis}>>) \o Declaration(i)

\* Positions are symbolic here: a named value and an offset from it.
MoveLines(c, i, s, pos) ==
  LET differs(t) == <<t.name, t.offset>> # pos[t.axis]
      words == {t \in {s.targets[k] : k \in DOMAIN s.targets} : differs(t)}
      axes == {t.axis : t \in words}
      rises(t) == t.name[1] = "start" /\ pos["Z"][1][1] = "start" /\ t.offset > pos["Z"][2]
      lift == axes = {"Z"} /\ (c.z \/ \E t \in words : rises(t))
  IN When(words # {}, Note(i) \o Command(i, MoveCommand(axes, lift)))

\* The lines of one step, and where the script takes each axis to be after it.
LinesOfStep(c, i, s, pos) ==
  CASE s.kind = "contact" -> ContactLines(i, s)
    [] s.kind = "center" -> Note(i)
    [] OTHER -> MoveLines(c, i, s, pos)
PlaceAfter(s, pos) ==
  CASE s.kind = "contact" -> [pos EXCEPT ![s.axis] = <<Backoff(s.axis), 0>>]
    [] s.kind = "center" -> pos
    [] OTHER -> [a \in Axes |-> IF a \in AxesOf(s)
                                  THEN <<TargetOf(s, a).name, TargetOf(s, a).offset>> ELSE pos[a]]
ScriptOfStart == [lines |-> <<>>, pos |-> [a \in Axes |-> <<Start(a), 0>>]]
ScriptAfter(c, i, w, s) ==
  [lines |-> w.lines \o LinesOfStep(c, i, s, w.pos), pos |-> PlaceAfter(s, w.pos)]
\* What is written before every step, and after the last one.
Writing(c, steps) ==
  LET w[i \in 1..Len(steps) + 1] ==
        IF i = 1 THEN ScriptOfStart ELSE ScriptAfter(c, i - 1, w[i - 1], steps[i - 1])
  IN w
Script(c, steps) ==
  Note(0) \o Command(0, <<"modes">>) \o Writing(c, steps)[Len(steps) + 1].lines
  \o When(c.zero, Command(Len(steps) + 1, <<"zero">>))
  \o Command(Len(steps) + 2, <<"modes">>)

-----------------------------------------------------------------------------
\* review: the plan for these options from here, if it fits.
Plan(c, start, origin) ==
  [config |-> c, start |-> start, origin |-> origin, steps |-> Steps(c, start),
   script |-> Script(c, Steps(c, start))]
Reviewed(p) == ValidConfig(p.config) /\ validate_envelope(p.config, p.start, p.steps)

================================================================================
