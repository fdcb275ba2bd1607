------------------------------- MODULE Actuator -------------------------------
(***************************************************************************)
(* The probe actuator: set_probe_extended() and the arrival of a status in *)
(* crates/controller, and actuate() of the repeatability check, which waits*)
(* for the end position.  The action guard admits one of them at a time.   *)
(*                                                                         *)
(* The machine is the environment.  It accepts an order, moves the probe   *)
(* some time later, and it may report the end position in between, before  *)
(* it has moved, as a test of the controller has it do.                    *)
(* Orders and calls are quick: none is still on its way, and no call is    *)
(* between its first look at the state and its order, when the probe       *)
(* starts or ends a motion.                                                *)
(***************************************************************************)
EXTENDS Naturals, Sequences

CONSTANTS
  Capacity,      \* events the waiting routine may fall behind
  MaxSessions    \* bound: connections in one behaviour

ASSUME ActuatorAssumption ==
  /\ Capacity \in Nat \ {0} /\ MaxSessions \in Nat \ {0}

VARIABLES
  early,     \* the machine may report the end position before the motion
  sampled,   \* each motion lasts until one status has been reported in it
  probe,     \* the machine: "in", "extending", "out", "retracting"
  link,      \* orders on their way to it
  accepted,  \* an order it has accepted and not begun
  seen,      \* the motion has been reported
  session, connected,
  shown,     \* the stored status: probe_actuator, 0 in, 1 out, 2 and 3 between
  pending, target, transition,  \* the stored actuator state
  pc, waits, want,  \* the call: where it is, is it actuate(), extended
  already,   \* already_at_target
  rx,        \* the reports actuate() has not looked at yet
  outcome

habits == <<early, sampled>>
machineVars == <<habits, probe, link, accepted, seen>>
storedVars == <<shown, pending, target, transition>>
callVars == <<pc, waits, want, already, outcome>>
vars == <<machineVars, session, connected, storedVars, callVars, rx>>

Unknown == 9  \* no status, or one without the actuator
Between == {2, 3}
PositionOf(extended) == IF extended THEN 1 ELSE 0
\* state().probe_extended
probe_extended == connected /\ shown = 1 /\ ~pending

Init ==
  /\ early \in BOOLEAN /\ sampled \in BOOLEAN
  /\ probe \in {"in", "out"} /\ link = <<>> /\ accepted = "none" /\ seen = FALSE
  /\ session = 1 /\ connected = TRUE /\ shown = Unknown
  /\ pending = FALSE /\ target = 0 /\ transition = FALSE
  /\ pc = "idle" /\ waits = FALSE /\ want = FALSE /\ already = FALSE
  /\ rx = <<>> /\ outcome = "none"

Return(o) == pc' = "idle" /\ outcome' = o

-----------------------------------------------------------------------------
(* The calls.                                                              *)

\* The app's set_extended(), or actuate() of the check, which retracts only a
\* probe that it has found extended.
Call(routine, extended) ==
  /\ pc = "idle" /\ pc' = "checking"
  /\ routine /\ ~extended => probe_extended
  /\ waits' = routine /\ want' = extended
  /\ already' = (probe_extended = extended)
  /\ rx' = <<>> /\ outcome' = "none"
  /\ UNCHANGED <<machineVars, session, connected, storedVars>>

\* set_probe_extended(): a machine that is not connected, idle, clear of alarms
\* and known to be at rest is refused.  The alarms, the mode and the age of the
\* status are a choice of the environment.
Refused == ~connected \/ pending \/ shown = Unknown
NotRetracted(extended) == extended /\ shown # 0
Refuse ==
  /\ pc = "checking" /\ Return("refused")
  /\ UNCHANGED <<machineVars, session, connected, storedVars, waits, want, already, rx>>
AlreadyThere ==
  /\ pc = "checking" /\ ~Refused /\ shown = PositionOf(want)
  /\ IF waits /\ ~already THEN pc' = "waiting" /\ UNCHANGED outcome ELSE Return("ok")
  /\ UNCHANGED <<machineVars, session, connected, storedVars, waits, want, already, rx>>
MarkedLater(extended) == FALSE  \* mutant: not pending until the motion shows
Marked(extended) == TRUE
Mark ==
  /\ pc = "checking" /\ ~Refused /\ shown # PositionOf(want) /\ ~NotRetracted(want)
  /\ pc' = "sending"
  /\ pending' = Marked(want) /\ target' = PositionOf(want)
  /\ transition' = (shown \in Between)
  /\ UNCHANGED <<machineVars, session, connected, shown, waits, want, already, rx, outcome>>

Send ==
  /\ pc = "sending" /\ connected
  /\ link' = Append(link, IF want THEN "extend" ELSE "retract")
  /\ IF waits /\ ~already THEN pc' = "waiting" /\ UNCHANGED outcome ELSE Return("ok")
  /\ UNCHANGED <<habits, probe, accepted, seen, session, connected, storedVars, waits, want,
                 already, rx>>

\* A failed or cancelled send leaves no whole frame, and ends the session.
Invalidate ==
  /\ connected' = FALSE /\ shown' = Unknown
  /\ pending' = FALSE /\ target' = 0 /\ transition' = FALSE
SendFails ==
  /\ pc = "sending" /\ Return("failed") /\ Invalidate
  /\ UNCHANGED <<machineVars, session, waits, want, already, rx>>

\* actuate(): the end position, a lost connection or events, the time limit,
\* the run's token.
Confirms(report) == report = PositionOf(want)
Confirmed(report) == Confirms(report)
Receive ==
  /\ pc = "waiting" /\ rx # <<>> /\ rx' = Tail(rx)
  /\ IF Confirmed(Head(rx)) THEN Return("ok") ELSE UNCHANGED <<pc, outcome>>
  /\ UNCHANGED <<machineVars, session, connected, storedVars, waits, want, already>>
GiveUp ==
  /\ pc = "waiting" /\ Return("failed")
  /\ UNCHANGED <<machineVars, session, connected, storedVars, waits, want, already, rx>>

-----------------------------------------------------------------------------
(* The connection and the machine.                                         *)

SettlesOut(report) ==  \* mutant: only the extended end settles
  transition /\ report = target /\ report = 1
Settles(report) == transition /\ report = target
\* apply(): Record::Status.
Apply(report) ==
  /\ shown' = report
  /\ IF ~pending \/ report = Unknown THEN UNCHANGED <<pending, target, transition>>
     ELSE IF report \in Between THEN transition' = TRUE /\ UNCHANGED <<pending, target>>
     ELSE IF Settles(report)
       THEN pending' = FALSE /\ transition' = FALSE /\ UNCHANGED target
     ELSE UNCHANGED <<pending, target, transition>>

Quick == pc \notin {"checking", "sending"}
AtRest == probe \in {"in", "out"}
Reading ==
  CASE probe = "extending" -> 3
    [] probe = "retracting" -> 2
    [] AtRest /\ early /\ accepted # "none" -> PositionOf(accepted = "extend")
    [] OTHER -> PositionOf(probe = "out")
Report ==
  /\ connected
  /\ Apply(Reading)
  /\ rx' = IF pc # "idle" /\ waits /\ Len(rx) < Capacity THEN Append(rx, Reading) ELSE rx
  /\ seen' = ~AtRest
  /\ UNCHANGED <<habits, probe, link, accepted, session, connected, callVars>>
\* A status without the actuator, or one that does not parse to a known value.
ReportUnknown ==
  /\ connected /\ Apply(Unknown)
  /\ UNCHANGED <<machineVars, session, connected, callVars, rx>>

\* The connection is lost; the new session's first status comes after the
\* machine has begun what it had accepted.  Early reports are for one session:
\* after a loss in mid-motion the transition may be that of an order before.
Disconnect ==
  /\ connected /\ pc # "sending" /\ Invalidate
  /\ IF pc = "waiting" THEN Return("failed") ELSE UNCHANGED <<pc, outcome>>
  /\ UNCHANGED <<machineVars, session, waits, want, already, rx>>
Reconnect ==
  /\ ~connected /\ ~early /\ session < MaxSessions /\ link = <<>> /\ accepted = "none"
  /\ connected' = TRUE /\ session' = session + 1
  /\ UNCHANGED <<machineVars, storedVars, callVars, rx>>

Accept ==
  /\ link # <<>> /\ accepted = "none"
  /\ link' = Tail(link) /\ accepted' = Head(link)
  /\ UNCHANGED <<habits, probe, seen, session, connected, storedVars, callVars, rx>>
StartMotion ==
  /\ Quick /\ accepted # "none" /\ AtRest /\ accepted' = "none" /\ seen' = FALSE
  /\ probe' = IF accepted = "extend" THEN IF probe = "out" THEN "out" ELSE "extending"
              ELSE IF probe = "in" THEN "in" ELSE "retracting"
  /\ UNCHANGED <<habits, link, session, connected, storedVars, callVars, rx>>
EndMotion ==
  /\ Quick /\ link = <<>> /\ ~AtRest /\ (sampled => seen \/ ~connected)
  /\ probe' = (IF probe = "extending" THEN "out" ELSE "in") /\ seen' = FALSE
  /\ UNCHANGED <<habits, link, accepted, session, connected, storedVars, callVars, rx>>

-----------------------------------------------------------------------------

Calls == \E routine, extended \in BOOLEAN : Call(routine, extended)
Check == Refuse \/ AlreadyThere \/ Mark
Machine == Accept \/ StartMotion \/ EndMotion
Mishaps == SendFails \/ GiveUp \/ ReportUnknown \/ Disconnect \/ Reconnect
Next == Calls \/ Check \/ Send \/ Receive \/ Report \/ Machine \/ Mishaps
Spec == Init /\ [][Next]_vars
FairSpec ==
  /\ Spec /\ WF_vars(Check) /\ WF_vars(Send) /\ SF_vars(Machine) /\ SF_vars(Report)

-----------------------------------------------------------------------------
(* Properties.                                                             *)

\* Types, and a routine falls at most a channel behind.
TypeOK ==
  /\ early \in BOOLEAN /\ sampled \in BOOLEAN
  /\ probe \in {"in", "extending", "out", "retracting"}
  /\ link \in Seq({"extend", "retract"})
  /\ accepted \in {"none", "extend", "retract"} /\ seen \in BOOLEAN
  /\ session \in 1..MaxSessions /\ connected \in BOOLEAN
  /\ shown \in {0, 1, 2, 3, Unknown}
  /\ pending \in BOOLEAN /\ target \in {0, 1} /\ transition \in BOOLEAN
  /\ pc \in {"idle", "checking", "sending", "waiting"}
  /\ waits \in BOOLEAN /\ want \in BOOLEAN /\ already \in BOOLEAN
  /\ rx \in Seq({0, 1, 2, 3, Unknown}) /\ Len(rx) <= Capacity
  /\ outcome \in {"none", "ok", "refused", "failed"}

\* The state that routines start from calls the probe extended only while it is
\* out and no order to retract it is on its way, also when the end position is
\* reported early, or the status is older than the order.
ExtendedIsOut ==
  probe_extended => probe = "out" /\ accepted # "retract" /\ link = <<>>

\* The probe is never told to extend while it still retracts.
NoExtendWhileRetracting ==
  link # <<>> /\ Head(link) = "extend" =>
    probe # "retracting" /\ ~(probe = "out" /\ accepted = "retract")

\* Without early reports actuate() returns once the probe is where it was sent.
ActuatedIsThere ==
  outcome = "ok" /\ waits /\ ~early =>
    probe = (IF want THEN "out" ELSE "in") /\ link = <<>> /\ accepted = "none"

\* An order that goes through does not leave the controller refusing the next,
\* if each motion is seen by a status.
PendingClears == pending /\ sampled ~> ~pending
===============================================================================
