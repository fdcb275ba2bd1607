----------------------------- MODULE Motion_proofs -----------------------------
(***************************************************************************)
(* The stages of contact cycles and guarded moves, for any distances, any  *)
(* workpiece, any channel capacity and any order of the machine's reports. *)
(***************************************************************************)
EXTENDS Motion, TLAPS

(* A lift that is no longer than the tolerance is confirmed by the status  *)
(* from before it; for those the theorems do not hold.                     *)
Long(d) == Distance(d, 0) > Tolerance
LongLifts == \A d \in Lifts : Long(d)

(* The plan: what is under way, and what a stage has been told of it.      *)
Planned ==
  /\ pc # "idle" => job \in Jobs /\ step \in 1..Len(Plan(job))
  /\ pc \in {"between", "sending", "waiting"} /\ ~Probing(stage) => Long(stage.delta)
  /\ pc \notin {"idle", "over"} => outcome = "none"

Waiting == pc \in {"idle", "between", "sending", "contact"}
Evidence == moving \/ failed \/ hit # None
Shows(e) == e.kind = "probe" \/ (e.kind = "status" /\ ~e.flag)
Ready(e) == e.kind = "status" /\ e.flag
Known == AtRest /\ state.pos = at

(* Between the stages the machine stands still where it says.              *)
Resting ==
  /\ Waiting => Known /\ owed = "none"
  /\ pc = "contact" => final # None
  /\ order # NoStage => motion = NoStage /\ owed = "none"
  /\ owed = "hit" => touched # None
  /\ outcome \notin Unsafe \cup {"none", "Blocked"} => AtRest
  /\ outcome = "Blocked" => alarm
  /\ state.blocked => alarm
  /\ \A i \in 1..Len(rx) : rx[i].kind = "blocked" => alarm

(* An order that has not begun has left no trace in the reports.           *)
NotBegun ==
  /\ motion = NoStage /\ owed = "none" /\ start = at /\ ~Evidence /\ final = None
  /\ ~lagged => \A i \in 1..Len(rx) : ~Shows(rx[i]) /\ (Ready(rx[i]) => rx[i].pos = start)

(* A probe report was the only one, and the last the machine owed.         *)
Reported == owed = "none" /\ order = NoStage /\ (motion = NoStage \/ touched # None)

(* A status at rest with a trace of the motion before it is from after it. *)
Trace(i) == Evidence \/ rx[i].pos # start \/ \E j \in 1..(i - 1) : Shows(rx[j])
Follows ==
  pc = "waiting" =>
    /\ order # NoStage => order = stage /\ NotBegun
    /\ motion # NoStage => motion = stage
    /\ ~Probing(stage) => owed = "none"
    /\ owed = "miss" => motion = NoStage
    /\ failed \/ hit # None => Reported
    /\ final # None => Known
    /\ ~lagged => \A i \in 1..Len(rx) :
         /\ rx[i].kind = "probe" => Reported
         /\ Ready(rx[i]) /\ Trace(i) => Known
Quiet == pc = "sending" => NotBegun

MInv == TypeOK /\ Planned /\ Resting /\ Quiet /\ Follows

-----------------------------------------------------------------------------
(* The channel.                                                            *)

LEMMA First ==
  ASSUME NEW S, NEW q \in Seq(S), q # <<>>
  PROVE  /\ Head(q) = q[1] /\ q[1] \in S /\ Len(q) \in Nat \ {0}
         /\ Tail(q) \in Seq(S) /\ Len(Tail(q)) = Len(q) - 1
         /\ \A i \in 1..Len(Tail(q)) : Tail(q)[i] = q[i + 1]
<1>1. /\ Head(q) = q[1] /\ q[1] \in S /\ Len(q) \in Nat \ {0}
      /\ Tail(q) \in Seq(S) /\ Len(Tail(q)) = Len(q) - 1
  OBVIOUS
<1>2. \A i \in 1..Len(Tail(q)) : Tail(q)[i] = q[i + 1]
  BY <1>1
<1>. QED BY <1>1, <1>2

LEMMA Last ==
  ASSUME NEW S, NEW q \in Seq(S), NEW e \in S
  PROVE  /\ Append(q, e) \in Seq(S) /\ Len(Append(q, e)) = Len(q) + 1 /\ Len(q) \in Nat
         /\ Append(q, e)[Len(q) + 1] = e
         /\ \A i \in 1..Len(q) : Append(q, e)[i] = q[i]
OBVIOUS

LEMMA Shortened ==
  ASSUME NEW S, NEW q \in Seq(S), q # <<>>
  PROVE  /\ Tail(q) \in Seq(S) /\ Len(Tail(q)) \in Nat /\ Len(Tail(q)) < Len(q)
         /\ \A i \in 1..Len(Tail(q)) : \E j \in 1..Len(q) : Tail(q)[i] = q[j]
<1>1. PICK t \in Seq(S) : t = Tail(q)
  BY First
<1>2. Len(t) = Len(q) - 1 /\ Len(q) \in Nat /\ \A i \in 1..Len(t) : t[i] = q[i + 1]
  BY <1>1, First
<1>3. ASSUME NEW i \in 1..Len(t) PROVE i + 1 \in 1..Len(q)
  BY <1>2
<1>. QED BY <1>1, <1>2, <1>3

LEMMA Shifted ==
  ASSUME NEW S, NEW q \in Seq(S), NEW e \in S, q # <<>>
  PROVE  /\ Append(Tail(q), e) \in Seq(S) /\ Len(Append(Tail(q), e)) = Len(q)
         /\ \A i \in 1..Len(Append(Tail(q), e)) :
              Append(Tail(q), e)[i] = e \/ \E j \in 1..Len(q) : Append(Tail(q), e)[i] = q[j]
<1>1. PICK t \in Seq(S) : t = Tail(q)
  BY First
<1>2. Len(t) = Len(q) - 1 /\ Len(q) \in Nat /\ \A i \in 1..Len(t) : t[i] = q[i + 1]
  BY <1>1, First
<1>3. /\ Append(t, e) \in Seq(S) /\ Len(Append(t, e)) = Len(q) /\ Append(t, e)[Len(q)] = e
      /\ \A i \in 1..(Len(q) - 1) : Append(t, e)[i] = q[i + 1]
  BY <1>2, Last
<1>4. ASSUME NEW i \in 1..Len(q)
      PROVE  i = Len(q) \/ (i \in 1..(Len(q) - 1) /\ i + 1 \in 1..Len(q))
  BY <1>2
<1>. QED BY <1>1, <1>3, <1>4

\* What is in the channel was delivered before, or just now; nothing is lost
\* that `lagged` does not tell of.
LEMMA Delivered ==
  ASSUME TypeOK, NEW e \in Events, Deliver(e)
  PROVE  /\ rx' \in Seq(Events) /\ Len(rx') <= Capacity /\ lagged' \in BOOLEAN
         /\ \A i \in 1..Len(rx') : rx'[i] = e \/ \E j \in 1..Len(rx) : rx'[i] = rx[j]
         /\ ~lagged' => /\ ~lagged /\ Len(rx') = Len(rx) + 1 /\ Len(rx) \in Nat
                        /\ rx'[Len(rx) + 1] = e
                        /\ \A i \in 1..Len(rx) : rx'[i] = rx[i]
<1>0. rx \in Seq(Events) /\ Len(rx) <= Capacity /\ lagged \in BOOLEAN /\ Capacity \in Nat \ {0}
  BY MotionAssumption DEF TypeOK
<1>1. CASE Len(rx) < Capacity
  <2>1. rx' = Append(rx, e) /\ lagged' = lagged
    BY <1>1 DEF Deliver
  <2>2. /\ rx' \in Seq(Events) /\ Len(rx') = Len(rx) + 1 /\ Len(rx) \in Nat
        /\ rx'[Len(rx) + 1] = e /\ \A i \in 1..Len(rx) : rx'[i] = rx[i]
    BY <1>0, <2>1, Last
  <2>3. ASSUME NEW i \in 1..Len(rx') PROVE rx'[i] = e \/ \E j \in 1..Len(rx) : rx'[i] = rx[j]
    <3>1. i = Len(rx) + 1 \/ i \in 1..Len(rx)
      BY <2>2
    <3>. QED BY <2>2, <3>1
  <2>. QED BY <1>0, <1>1, <2>1, <2>2, <2>3
<1>2. CASE ~(Len(rx) < Capacity)
  <2>1. rx' = Append(Tail(rx), e) /\ lagged' = TRUE /\ rx # <<>>
    BY <1>0, <1>2 DEF Deliver
  <2>2. /\ rx' \in Seq(Events) /\ Len(rx') = Len(rx)
        /\ \A i \in 1..Len(rx') : rx'[i] = e \/ \E j \in 1..Len(rx) : rx'[i] = rx[j]
    BY <1>0, <2>1, Shifted
  <2>. QED BY <1>0, <2>1, <2>2
<1>. QED BY <1>1, <1>2

-----------------------------------------------------------------------------
(* Plans and verdicts.                                                     *)

LEMMA PlanTyped ==
  ASSUME NEW j \in Jobs
  PROVE  /\ j \in Stages /\ Len(Plan(j)) \in 1..4
         /\ \A i \in 1..Len(Plan(j)) : Plan(j)[i] \in Stages
<1>1. CASE j = Stage("contact", 0)
  <2>1. Plan(j) = plan_contact /\ j \in Stages
    BY <1>1 DEF Plan, Stage, Stages, Kinds
  <2>2. Len(plan_contact) = 4 /\ \A i \in 1..4 : plan_contact[i] \in Stages
    BY MotionAssumption DEF plan_contact, Stage, Stages, Kinds
  <2>. QED BY <2>1, <2>2
<1>2. CASE j # Stage("contact", 0)
  <2>1. PICK d \in Int : j = Stage("guarded", d) \/ j = Stage("lift", d)
    BY <1>2, MotionAssumption DEF Jobs
  <2>2. Plan(j) = <<j>> /\ j \in Stages
    BY <2>1 DEF Plan, Stage, Stages, Kinds
  <2>. QED BY <2>2
<1>. QED BY <1>1, <1>2

\* A stage that does not probe goes further than the tolerance.
LEMMA PlanLong ==
  ASSUME LongLifts, NEW j \in Jobs, NEW i \in 1..Len(Plan(j)), ~Probing(Plan(j)[i])
  PROVE  Long(Plan(j)[i].delta)
<1>1. CASE j = Stage("contact", 0)
  <2>1. Plan(j) = plan_contact
    BY <1>1 DEF Plan, Stage
  <2>2. Len(plan_contact) = 4 /\ i \in 1..4
    BY <2>1 DEF plan_contact
  <2>3. Plan(j)[i].delta = -Backoff
    BY <2>1, <2>2 DEF plan_contact, Probing, Stage
  <2>. QED BY <2>3, MotionAssumption DEF Long, Distance, Greater
<1>2. CASE j # Stage("contact", 0)
  <2>1. Plan(j) = <<j>> /\ i = 1
    BY <1>2 DEF Plan, Jobs, Stage
  <2>2. j.kind = "lift" /\ j.delta \in Lifts
    BY <1>2, <2>1 DEF Jobs, Stage, Probing
  <2>. QED BY <2>1, <2>2 DEF LongLifts
<1>. QED BY <1>1, <1>2

Verdicts == {"wait", "ok", "Contact", "Position", "CoarseNoContact", "NoContact"}

\* The loop decides nothing without a position at rest, and lets an operation
\* go on only after a probe report.
LEMMA Judged ==
  ASSUME NEW h, NEW f \in BOOLEAN, NEW pos
  PROVE  /\ Judge(h, f, pos) \in Verdicts
         /\ Judge(h, f, pos) # "wait" => pos # None
         /\ Judge(h, f, pos) \in {"ok", "Contact"} => f \/ h # None
<1>1. CASE pos = None
  BY <1>1 DEF Judge, Verdicts
<1>2. CASE pos # None /\ stage.kind = "guarded"
  <2>1. Judge(h, f, pos) = JudgeGuarded(h, f, pos)
    BY <1>2 DEF Judge
  <2>2. /\ JudgeGuarded(h, f, pos) \in {"Position", "Contact", "ok", "wait"}
        /\ JudgeGuarded(h, f, pos) = "Contact" => h # None
        /\ JudgeGuarded(h, f, pos) = "ok" => f
    BY DEF JudgeGuarded
  <2>. QED BY <1>2, <2>1, <2>2 DEF Verdicts
<1>3. CASE pos # None /\ stage.kind # "guarded" /\ (f \/ h = None)
  <2>1. Judge(h, f, pos) = IF f THEN JudgeMiss(pos) ELSE "wait"
    BY <1>3 DEF Judge
  <2>2. JudgeMiss(pos) \in {"Position", "CoarseNoContact", "NoContact"}
    BY DEF JudgeMiss
  <2>. QED BY <1>3, <2>1, <2>2 DEF Verdicts
<1>4. CASE pos # None /\ stage.kind # "guarded" /\ ~(f \/ h = None)
  <2>1. Judge(h, f, pos) = JudgeHit(h, pos)
    BY <1>4 DEF Judge
  <2>2. JudgeHit(h, pos) \in {"ok", "Position"}
    BY DEF JudgeHit
  <2>. QED BY <1>4, <2>1, <2>2 DEF Verdicts
<1>. QED BY <1>1, <1>2, <1>3, <1>4

(* What the operation keeps of itself; the rest of TypeOK.                 *)
JobTyped ==
  /\ stage \in Stages /\ job \in Stages /\ step \in 0..4 /\ jobs \in 0..MaxJobs
  /\ origin \in Int /\ expected \in Int /\ measured \in Int \cup {None}
  /\ outcome \in Outcomes
  /\ pc \in {"idle", "between", "sending", "waiting", "contact", "over"}

LEMMA Closed ==
  ASSUME NEW o \in Outcomes, Over(o)
  PROVE  /\ pc' = "over" /\ outcome' \in Outcomes
         /\ outcome' = "Blocked" => o = "Blocked"
         /\ o = "Blocked" => outcome' \in Unsafe \cup {"Blocked"}
         /\ o \in Unsafe => outcome' \in Unsafe
BY DEF Over, Outcomes, Unsafe

LEMMA Advanced ==
  ASSUME LongLifts, TypeOK, Planned, pc = "waiting",
         NEW contact \in Int \cup {None}, NEW pos \in Int, Advance(contact, pos)
  PROVE  /\ JobTyped' /\ Planned'
         /\ pc' \in {"idle", "between", "over"} /\ outcome' # "Blocked"
<1>1. job \in Jobs /\ step \in 1..Len(Plan(job)) /\ Len(Plan(job)) \in 1..4
      /\ outcome = "none" /\ \A i \in 1..Len(Plan(job)) : Plan(job)[i] \in Stages
  BY PlanTyped DEF Planned
<1>2. CASE stage.kind = "release"
  <2>1. pc' = "over" /\ outcome' = "Retracted" /\ UNCHANGED <<step, stage, job, jobs, origin>>
    BY <1>2 DEF Advance, Over
  <2>2. expected' = pos /\ measured' = measured
    BY <1>2 DEF Advance
  <2>. QED BY <1>1, <2>1, <2>2 DEF TypeOK, JobTyped, Planned, Outcomes
<1>3. CASE stage.kind # "release" /\ step < Len(Plan(job))
  <2>1. /\ step' = step + 1 /\ stage' = Plan(job)[step + 1] /\ pc' = "between"
        /\ UNCHANGED <<outcome, job, jobs, origin>>
    BY <1>3 DEF Advance
  <2>2. expected' = pos /\ measured' \in {measured, contact}
    BY DEF Advance
  <2>3. step + 1 \in 1..Len(Plan(job)) /\ step + 1 \in 0..4
    BY <1>1, <1>3
  <2>4. JobTyped'
    BY <1>1, <2>1, <2>2, <2>3 DEF TypeOK, JobTyped
  <2>5. ~Probing(stage') => Long(stage'.delta)
    BY <1>1, <2>1, <2>3, PlanLong
  <2>6. Plan(job') = Plan(job) /\ job' \in Jobs /\ step' \in 1..Len(Plan(job)) /\ outcome' = "none"
    BY <1>1, <2>1, <2>3
  <2>7. Planned'
    BY <2>1, <2>5, <2>6 DEF Planned, Probing, Plan
  <2>. QED BY <1>1, <2>1, <2>4, <2>7
<1>4. CASE stage.kind # "release" /\ ~(step < Len(Plan(job)))
  <2>1. pc' = "idle" /\ outcome' = "ok" /\ UNCHANGED <<step, stage, job, jobs, origin>>
    BY <1>4 DEF Advance
  <2>2. expected' = pos /\ measured' \in {measured, contact}
    BY DEF Advance
  <2>. QED BY <1>1, <2>1, <2>2 DEF TypeOK, JobTyped, Planned, Outcomes
<1>. QED BY <1>2, <1>3, <1>4

\* A stage, once it is judged, makes place for the next or ends the operation.
LEMMA Ended ==
  ASSUME LongLifts, TypeOK, Planned, pc = "waiting", NEW v \in Verdicts,
         NEW h \in Int \cup {None}, NEW pos \in Int \cup {None},
         v # "wait" => pos # None, Conclude(v, h, pos)
  PROVE  /\ JobTyped' /\ Planned'
         /\ \/ v = "wait" /\ UNCHANGED <<pc, jobVars, outcome>>
            \/ /\ v # "wait" /\ pc' \in {"idle", "between", "contact", "over"}
               /\ pc' # "over" => v \in {"ok", "Contact"}
               /\ outcome' # "Blocked"
<1>1. CASE v = "wait"
  <2>1. UNCHANGED <<pc, jobVars, outcome>>
    BY <1>1 DEF Conclude
  <2>. QED BY <1>1, <2>1 DEF TypeOK, JobTyped, Planned, jobVars, Plan, Probing, Long, Distance, Greater
<1>2. CASE v = "Contact"
  <2>1. pc' = "contact" /\ UNCHANGED <<jobVars, outcome>>
    BY <1>2 DEF Conclude
  <2>. QED BY <1>2, <2>1 DEF TypeOK, JobTyped, Planned, jobVars, Plan
<1>3. CASE v = "ok"
  <2>1. Advance(IF NoError(stage) THEN pos ELSE h, pos) /\ pos \in Int
    BY <1>3 DEF Conclude
  <2>. QED BY <1>3, <2>1, Advanced
<1>4. CASE v \notin {"wait", "Contact", "ok"}
  <2>1. Over(v) /\ UNCHANGED jobVars /\ v \in Outcomes /\ v # "Blocked"
    BY <1>4 DEF Conclude, Verdicts, Outcomes, Unsafe
  <2>2. pc' = "over" /\ outcome' \in Outcomes /\ outcome' # "Blocked"
    BY <2>1, Closed
  <2>. QED BY <1>4, <2>1, <2>2 DEF TypeOK, JobTyped, Planned, jobVars, Plan
<1>. QED BY <1>1, <1>2, <1>3, <1>4

-----------------------------------------------------------------------------
(* The host between two stages.                                            *)

LEMMA BeginKeeps ==
  ASSUME LongLifts, MInv, NEW j \in Jobs, Begin(j)
  PROVE  MInv'
<1>1. /\ pc = "idle" /\ jobs' = jobs + 1 /\ jobs < MaxJobs /\ job' = j /\ step' = 1
      /\ stage' = Plan(j)[1] /\ origin' = state.pos /\ expected' = state.pos /\ measured' = None
      /\ UNCHANGED <<machineVars, state, rx, lagged, waitVars>>
  BY DEF Begin
<1>2. j \in Stages /\ Len(Plan(j)) \in 1..4 /\ stage' \in Stages /\ 1 \in 1..Len(Plan(j))
  BY <1>1, PlanTyped
<1>3. \/ pc' = "over" /\ outcome' \in {"Blocked", "Preflight"} /\ (outcome' = "Blocked" => state.blocked)
      \/ pc' = "between" /\ outcome' = "none"
  BY DEF Begin, preview_contact, preflight
<1>4. TypeOK'
  BY <1>1, <1>2, <1>3, MotionAssumption
  DEF MInv, TypeOK, machineVars, waitVars, Outcomes
<1>5. Planned'
  <2>1. ~Probing(stage') => Long(stage'.delta)
    BY <1>1, <1>2, PlanLong
  <2>2. Plan(job') = Plan(j) /\ job' \in Jobs /\ step' \in 1..Len(Plan(j))
    BY <1>1, <1>2
  <2>3. (Plan(job))' = Plan(j)
    BY <2>2 DEF Plan, plan_contact
  <2>4. Long(stage.delta)' = Long(stage'.delta) /\ Probing(stage)' = Probing(stage')
    BY DEF Long, Probing, Distance, Greater
  <2>. QED BY <1>3, <2>1, <2>2, <2>3, <2>4 DEF Planned
<1>6. Known /\ owed = "none"
  BY <1>1 DEF MInv, Resting, Waiting
<1>7. Resting'
  BY <1>1, <1>3, <1>6 DEF MInv, Resting, Waiting, Known, AtRest, machineVars, Unsafe
<1>. QED BY <1>3, <1>4, <1>5, <1>7 DEF MInv, Quiet, Follows

LEMMA SubmitKeeps ==
  ASSUME MInv, Submit
  PROVE  MInv'
<1>1. pc = "between" /\ UNCHANGED <<machineVars, state, jobVars>> /\ Known /\ owed = "none"
      /\ outcome = "none"
  BY DEF Submit, MInv, Resting, Waiting, Planned
<1>2. CASE \E o \in {"Position", "Blocked", "Preflight"} :
             /\ Over(o) /\ UNCHANGED <<rx, lagged, waitVars>>
             /\ o = "Blocked" => state.blocked
  <2>1. PICK o \in {"Position", "Blocked", "Preflight"} :
             /\ Over(o) /\ UNCHANGED <<rx, lagged, waitVars>>
             /\ o = "Blocked" => state.blocked
    BY <1>2
  <2>2. pc' = "over" /\ outcome' \in Outcomes /\ (outcome' = "Blocked" => state.blocked)
    BY <2>1, Closed DEF Outcomes, Unsafe
  <2>3. TypeOK'
    BY <1>1, <2>1, <2>2 DEF MInv, TypeOK, machineVars, waitVars, jobVars
  <2>4. Planned'
    BY <1>1, <2>2 DEF MInv, Planned, jobVars, Plan, plan_contact
  <2>5. Resting'
    BY <1>1, <2>1, <2>2 DEF MInv, Resting, Waiting, Known, AtRest, machineVars
  <2>. QED BY <2>2, <2>3, <2>4, <2>5 DEF MInv, Quiet, Follows
<1>3. CASE /\ pc' = "sending" /\ UNCHANGED outcome
           /\ rx' = <<>> /\ lagged' = FALSE /\ start' = state.pos
           /\ moving' = FALSE /\ failed' = FALSE /\ hit' = None /\ final' = None
           /\ puzzled' = FALSE
  <2>1. TypeOK'
    <3>1. state.pos \in Int /\ rx' \in Seq(Events) /\ Len(rx') <= Capacity
      BY <1>3, MotionAssumption DEF MInv, TypeOK
    <3>. QED BY <1>1, <1>3, <3>1 DEF MInv, TypeOK, machineVars, jobVars
  <2>2. Planned'
    BY <1>1, <1>3 DEF MInv, Planned, jobVars, Plan, plan_contact, Probing, Long, Distance, Greater
  <2>3. Resting' /\ Quiet'
    BY <1>1, <1>3
    DEF MInv, Resting, Waiting, Known, AtRest, machineVars, Quiet, NotBegun, Evidence
  <2>. QED BY <1>3, <2>1, <2>2, <2>3 DEF MInv, Follows
<1>4. preflight(stage.kind \in {"retract", "release"}) \in {"ok", "Blocked", "Preflight"}
      /\ (preflight(stage.kind \in {"retract", "release"}) = "Blocked" => state.blocked)
  BY DEF preflight
<1>. QED BY <1>2, <1>3, <1>4 DEF Submit

LEMMA SendKeeps ==
  ASSUME MInv, Send
  PROVE  MInv'
<1>1. /\ pc = "sending" /\ pc' = "waiting" /\ order' = stage
      /\ UNCHANGED <<surface, at, motion, goal, touched, owed, alarm, state, rx,
                     lagged, jobVars, waitVars, outcome>>
  BY DEF Send
<1>2. TypeOK'
  BY <1>1 DEF MInv, TypeOK, waitVars, jobVars
<1>3. Planned'
  BY <1>1 DEF MInv, Planned, jobVars, Plan, plan_contact, Probing, Long, Distance, Greater
<1>4. NotBegun /\ outcome = "none"
  BY <1>1 DEF MInv, Quiet, Planned
<1>5. Resting'
  BY <1>1, <1>4 DEF MInv, Resting, Waiting, NotBegun
<1>6. Follows'
  BY <1>1, <1>4
  DEF MInv, Follows, NotBegun, Evidence, Trace, Shows, Ready, waitVars, jobVars, Reported, AtRest
<1>. QED BY <1>1, <1>2, <1>3, <1>5, <1>6 DEF MInv, Quiet

LEMMA OverKeeps ==
  ASSUME MInv, pc \notin {"idle", "over"}, NEW o \in Unsafe \cup {"Blocked"}, o = "Blocked" => alarm,
         Over(o), order' = order \/ (pc = "sending" /\ order' = stage), rx' = rx \/ (rx # <<>> /\ rx' = Tail(rx)),
         UNCHANGED <<surface, at, motion, goal, touched, owed, alarm, state, lagged, waitVars>>,
         stage' = stage, UNCHANGED <<job, step, jobs, origin, expected, measured>>
  PROVE  MInv'
<1>1. /\ pc' = "over" /\ outcome' \in Unsafe \cup {"Blocked"} /\ outcome' \in Outcomes
      /\ outcome' = "Blocked" => alarm
  <2>1. o \in Outcomes
    BY DEF Outcomes, Unsafe
  <2>. QED BY <2>1, Closed DEF Unsafe
<1>2. rx' \in Seq(Events) /\ Len(rx') <= Capacity
      /\ \A i \in 1..Len(rx') : \E j \in 1..Len(rx) : rx'[i] = rx[j]
  <2>1. rx \in Seq(Events) /\ Len(rx) <= Capacity /\ Capacity \in Nat
    BY MotionAssumption DEF MInv, TypeOK
  <2>2. CASE rx' = rx
    BY <2>1, <2>2
  <2>3. CASE rx # <<>> /\ rx' = Tail(rx)
    BY <2>1, <2>3, Shortened
  <2>. QED BY <2>2, <2>3
<1>3. TypeOK'
  BY <1>1, <1>2 DEF MInv, TypeOK, waitVars
<1>4. Planned'
  BY <1>1 DEF MInv, Planned, Plan, plan_contact
<1>5. Resting'
  <2>1. order' # NoStage => motion = NoStage /\ owed = "none"
    BY DEF MInv, Resting, Waiting, Known, AtRest
  <2>. QED BY <1>1, <1>2, <2>1 DEF MInv, Resting, Waiting, Unsafe
<1>. QED BY <1>1, <1>3, <1>4, <1>5 DEF MInv, Quiet, Follows

LEMMA BackOffKeeps ==
  ASSUME MInv, BackOff
  PROVE  MInv'
<1>1. /\ pc = "contact" /\ UNCHANGED <<machineVars, state, rx, lagged, job, step, jobs, origin,
                                       expected, measured, waitVars>>
  BY DEF BackOff
<1>2. CASE \E o \in {"Position", "Contact"} : Over(o) /\ UNCHANGED stage
  BY <1>1, <1>2, OverKeeps DEF Unsafe, machineVars, MInv, TypeOK
<1>3. CASE ~(\E o \in {"Position", "Contact"} : Over(o) /\ UNCHANGED stage)
  <2>1. Known /\ owed = "none" /\ outcome = "none" /\ final \in Int
    BY <1>1 DEF MInv, Resting, Waiting, Planned, TypeOK
  <2>2. PICK back \in Int : back = Lesser(Backoff, Distance(final, origin))
    <3>1. Backoff \in Int /\ final \in Int /\ origin \in Int
      BY <2>1, MotionAssumption DEF MInv, TypeOK
    <3>2. Distance(final, origin) \in Int
      BY <3>1 DEF Distance, Greater
    <3>3. Lesser(Backoff, Distance(final, origin)) \in Int
      BY <3>1, <3>2 DEF Lesser
    <3>. QED BY <3>3
  <2>3. /\ ~(back <= Tolerance) /\ pc' = "between" /\ UNCHANGED outcome
        /\ stage' = Stage("release", IF stage.delta > 0 THEN -back ELSE back)
    BY <1>3, <2>2 DEF BackOff
  <2>4. stage' \in Stages /\ stage'.delta \in {back, -back} /\ Distance(stage'.delta, 0) > Tolerance
    BY <2>2, <2>3, MotionAssumption DEF Stage, Stages, Kinds, Distance, Greater
  <2>5. TypeOK'
    BY <1>1, <2>1, <2>3, <2>4 DEF MInv, TypeOK, machineVars, waitVars
  <2>6. Planned'
    BY <1>1, <2>1, <2>3, <2>4 DEF MInv, Planned, Plan, plan_contact, Long, Distance, Greater
  <2>7. Resting'
    BY <1>1, <2>1, <2>3 DEF MInv, Resting, Waiting, Known, AtRest, machineVars
  <2>. QED BY <2>3, <2>5, <2>6, <2>7 DEF MInv, Quiet, Follows
<1>. QED BY <1>2, <1>3

-----------------------------------------------------------------------------
(* The event loop.                                                         *)

\* What is left in the channel keeps its traces.
LEMMA Received ==
  ASSUME TypeOK, ~lagged, rx # <<>>, rx' = Tail(rx), start' = start,
         Evidence' => Evidence \/ Shows(rx[1])
  PROVE  /\ Head(rx) = rx[1] /\ rx[1] \in Events /\ 1 \in 1..Len(rx)
         /\ rx' \in Seq(Events) /\ Len(rx') <= Capacity
         /\ \A i \in 1..Len(rx') : /\ i + 1 \in 1..Len(rx) /\ rx'[i] = rx[i + 1]
                                   /\ Trace(i)' => Trace(i + 1)
<1>0. rx \in Seq(Events) /\ Len(rx) <= Capacity /\ Capacity \in Nat
  BY MotionAssumption DEF TypeOK
<1>1. PICK t \in Seq(Events) : t = rx'
  BY <1>0, First
<1>2. /\ Head(rx) = rx[1] /\ rx[1] \in Events /\ Len(rx) \in Nat \ {0}
      /\ Len(t) = Len(rx) - 1 /\ \A i \in 1..Len(t) : t[i] = rx[i + 1]
  BY <1>0, <1>1, First
<1>3. ASSUME NEW i \in 1..Len(t)
      PROVE  i + 1 \in 1..Len(rx) /\ \A j \in 1..(i - 1) : j \in 1..Len(t) /\ j + 1 \in 1..i
  BY <1>2
<1>4. ASSUME NEW i \in 1..Len(t), Trace(i)'
      PROVE  Trace(i + 1)
  <2>1. CASE Evidence'
    <3>1. 1 \in 1..((i + 1) - 1)
      BY <1>2
    <3>. QED BY <2>1, <3>1 DEF Trace
  <2>2. CASE rx'[i].pos # start
    BY <1>1, <1>2, <2>2 DEF Trace
  <2>3. CASE \E j \in 1..(i - 1) : Shows(t[j])
    <3>1. PICK j \in 1..(i - 1) : Shows(t[j])
      BY <2>3
    <3>2. Shows(rx[j + 1]) /\ j + 1 \in 1..((i + 1) - 1)
      BY <1>2, <1>3, <3>1
    <3>. QED BY <3>2 DEF Trace
  <2>. QED BY <1>1, <1>4, <2>1, <2>2, <2>3 DEF Trace, Shows
<1>. QED BY <1>0, <1>1, <1>2, <1>3, <1>4

\* The events after this one tell no more than they did.
LEMMA StillFollows ==
  ASSUME TypeOK, Follows, pc = "waiting", ~lagged, rx # <<>>, rx' = Tail(rx),
         Evidence' => Evidence \/ Shows(rx[1]),
         UNCHANGED <<start, stage, machineVars, state, lagged>>,
         order # NoStage => ~Evidence' /\ final' = None,
         failed' \/ hit' # None => Reported,
         final' # None => Known
  PROVE  Follows'
<1>1. /\ \A i \in 1..Len(rx') : /\ i + 1 \in 1..Len(rx) /\ rx'[i] = rx[i + 1]
                                /\ Trace(i)' => Trace(i + 1)
  BY Received
<1>2. /\ order # NoStage => order = stage /\ NotBegun
      /\ motion # NoStage => motion = stage
      /\ ~Probing(stage) => owed = "none"
      /\ owed = "miss" => motion = NoStage
      /\ \A i \in 1..Len(rx) : /\ rx[i].kind = "probe" => Reported
                               /\ Ready(rx[i]) /\ Trace(i) => Known
  BY DEF Follows
<1>3. Reported' = Reported /\ Known' = Known /\ Probing(stage)' = Probing(stage)
  BY DEF Reported, Known, AtRest, Probing, machineVars
<1>4. order # NoStage => NotBegun'
  <2>1. ASSUME order # NoStage, NEW i \in 1..Len(rx')
        PROVE  ~Shows(rx[i + 1]) /\ (Ready(rx[i + 1]) => rx[i + 1].pos = start)
    BY <1>1, <1>2, <2>1 DEF NotBegun
  <2>2. ASSUME order # NoStage, NEW i \in 1..Len(rx')
        PROVE  ~Shows(rx'[i]) /\ (Ready(rx'[i]) => rx'[i].pos = start)
    BY <1>1, <2>1, <2>2
  <2>. QED BY <1>2, <2>2 DEF NotBegun, machineVars, Shows, Ready
<1>5. ASSUME NEW i \in 1..Len(rx')
      PROVE  /\ rx'[i].kind = "probe" => Reported
             /\ Ready(rx'[i]) /\ Trace(i)' => Known
  BY <1>1, <1>2
<1>6. Ready(rx[1])' = Ready(rx'[1])
  BY DEF Ready
<1>. QED BY <1>2, <1>3, <1>4, <1>5 DEF Follows, Ready, machineVars

\* How a verdict leaves the rest of the system.
LEMMA VerdictKeeps ==
  ASSUME LongLifts, MInv, pc = "waiting", ~lagged, rx # <<>>, rx' = Tail(rx),
         NEW v \in Verdicts, NEW h \in Int \cup {None}, NEW pos \in Int \cup {None},
         v # "wait" => pos # None, Conclude(v, h, pos),
         Evidence' => Evidence \/ Shows(rx[1]),
         UNCHANGED <<machineVars, state, lagged, start, moving>>,
         failed' \in BOOLEAN, puzzled' \in BOOLEAN, hit' = h, final' = pos,
         order # NoStage => ~Evidence' /\ pos = None,
         failed' \/ h # None => Reported,
         v \in {"ok", "Contact"} => failed' \/ h # None,
         pos # None => Known
  PROVE  MInv'
<1>1. /\ JobTyped' /\ Planned'
      /\ \/ v = "wait" /\ UNCHANGED <<pc, jobVars, outcome>>
         \/ /\ v # "wait" /\ pc' \in {"idle", "between", "contact", "over"}
            /\ pc' # "over" => v \in {"ok", "Contact"}
            /\ outcome' # "Blocked"
  BY Ended DEF MInv
<1>2. /\ \A i \in 1..Len(rx') : i + 1 \in 1..Len(rx) /\ rx'[i] = rx[i + 1]
      /\ rx' \in Seq(Events) /\ Len(rx') <= Capacity
  BY Received DEF MInv
<1>3. TypeOK'
  BY <1>1, <1>2 DEF MInv, TypeOK, JobTyped, machineVars
<1>4. \A i \in 1..Len(rx') : rx'[i].kind = "blocked" => alarm
  BY <1>2 DEF MInv, Resting
<1>5. CASE v = "wait"
  <2>1. Follows'
    BY <1>1, <1>5, StillFollows DEF MInv, jobVars
  <2>2. Resting'
    BY <1>1, <1>4, <1>5 DEF MInv, Resting, Waiting, machineVars, AtRest
  <2>. QED BY <1>1, <1>3, <1>5, <2>1, <2>2 DEF MInv, Quiet
<1>6. CASE v # "wait"
  <2>1. Known /\ AtRest
    BY <1>6 DEF Known
  <2>2. pc' # "over" => owed = "none"
    BY <1>1, <1>6 DEF Reported
  <2>3. Known' /\ AtRest' /\ (pc' # "over" => owed' = "none")
    BY <2>1, <2>2 DEF Known, AtRest, machineVars
  <2>4. Resting'
    BY <1>1, <1>4, <1>6, <2>3 DEF MInv, Resting, Waiting, machineVars
  <2>. QED BY <1>1, <1>3, <1>6, <2>4 DEF MInv, Quiet, Follows
<1>. QED BY <1>5, <1>6

LEMMA ProbeKeeps ==
  ASSUME LongLifts, MInv, ReceiveProbe
  PROVE  MInv'
<1> DEFINE contact == Head(rx)
           h == IF contact.flag THEN contact.pos ELSE hit
           f == failed \/ ~contact.flag
<1>1. /\ pc = "waiting" /\ ~lagged /\ rx # <<>> /\ rx' = Tail(rx) /\ contact.kind = "probe"
      /\ UNCHANGED <<machineVars, state, lagged, start, moving, final, puzzled>>
  BY DEF ReceiveProbe
<1>2. contact = rx[1] /\ contact \in Events /\ 1 \in 1..Len(rx) /\ Shows(rx[1]) /\ Reported
  <2>1. contact = rx[1] /\ contact \in Events /\ 1 \in 1..Len(rx)
    BY <1>1, First DEF MInv, TypeOK
  <2>. QED BY <1>1, <2>1 DEF MInv, Follows, Shows
<1>3. CASE ~Probing(stage)
  <2>1. UNCHANGED <<pc, jobVars, outcome, hit, failed>>
    BY <1>3 DEF ReceiveProbe
  <2>2. "wait" \in Verdicts /\ Conclude("wait", hit, final)
    BY <2>1 DEF Verdicts, Conclude
  <2>. QED BY <1>1, <1>2, <2>1, <2>2, VerdictKeeps DEF MInv, Follows, TypeOK, Reported, Evidence
<1>4. CASE Probing(stage) /\ contact.flag /\ ~NoError(stage) /\ ~segment(contact.pos)
  <2>1. Over("Position") /\ UNCHANGED <<jobVars, hit, failed>>
    BY <1>4 DEF ReceiveProbe
  <2>. QED BY <1>1, <2>1, OverKeeps DEF machineVars, jobVars, waitVars, MInv, TypeOK, Unsafe
<1>5. CASE Probing(stage) /\ ~(contact.flag /\ ~NoError(stage) /\ ~segment(contact.pos))
  <2>1. hit' = h /\ failed' = f /\ Conclude(Judge(h, f, final), h, final)
    BY <1>5 DEF ReceiveProbe
  <2>2. h \in Int \cup {None} /\ f \in BOOLEAN /\ final \in Int \cup {None}
    BY <1>2 DEF MInv, TypeOK, Events
  <2>3. PICK v \in Verdicts : v = Judge(h, f, final)
    BY <2>2, Judged
  <2>4. (v # "wait" => final # None) /\ (v \in {"ok", "Contact"} => f \/ h # None)
    BY <2>2, <2>3, Judged
  <2>5. order = NoStage /\ (final # None => Known)
    BY <1>1, <1>2 DEF MInv, Follows, Reported
  <2>. HIDE DEF contact, h, f
  <2>. QED BY <1>1, <1>2, <2>1, <2>2, <2>3, <2>4, <2>5, VerdictKeeps DEF MInv, TypeOK
<1>. QED BY <1>3, <1>4, <1>5

LEMMA MovingKeeps ==
  ASSUME LongLifts, MInv, ReceiveMoving
  PROVE  MInv'
<1>1. /\ pc = "waiting" /\ ~lagged /\ rx # <<>> /\ rx' = Tail(rx)
      /\ Head(rx).kind = "status" /\ ~Head(rx).flag
      /\ moving' = TRUE /\ final' = None /\ hit' = hit
      /\ UNCHANGED <<machineVars, state, lagged, pc, jobVars, start, failed, puzzled, outcome>>
  BY DEF ReceiveMoving, HitKept
<1>2. Head(rx) = rx[1] /\ 1 \in 1..Len(rx) /\ Shows(rx[1])
  <2>1. Head(rx) = rx[1] /\ 1 \in 1..Len(rx)
    BY <1>1, First DEF MInv, TypeOK
  <2>. QED BY <1>1, <2>1 DEF Shows
<1>3. order = NoStage
  BY <1>1, <1>2 DEF MInv, Follows, NotBegun
<1>4. /\ \A i \in 1..Len(rx') : i + 1 \in 1..Len(rx) /\ rx'[i] = rx[i + 1]
      /\ rx' \in Seq(Events) /\ Len(rx') <= Capacity
  BY <1>1, <1>2, Received DEF MInv
<1>5. TypeOK'
  BY <1>1, <1>4 DEF MInv, TypeOK, machineVars, jobVars
<1>6. Planned'
  BY <1>1 DEF MInv, Planned, jobVars, Plan, plan_contact, Probing, Long, Distance, Greater
<1>7. Resting'
  BY <1>1, <1>4 DEF MInv, Resting, Waiting, machineVars, AtRest
<1>8. Follows'
  BY <1>1, <1>2, <1>3, StillFollows DEF MInv, Follows, jobVars
<1>. QED BY <1>1, <1>5, <1>6, <1>7, <1>8 DEF MInv, Quiet

LEMMA ReadyKeeps ==
  ASSUME LongLifts, MInv, ReceiveReady
  PROVE  MInv'
<1> DEFINE pos == Head(rx).pos
           settled == Settled(moving, hit, failed, pos)
           f == IF settled THEN pos ELSE final
<1>1. /\ pc = "waiting" /\ ~lagged /\ rx # <<>> /\ rx' = Tail(rx)
      /\ Head(rx).kind = "status" /\ Head(rx).flag
      /\ UNCHANGED <<machineVars, state, lagged, start, moving, failed, hit>>
  BY DEF ReceiveReady
<1>2. Head(rx) = rx[1] /\ rx[1] \in Events /\ 1 \in 1..Len(rx) /\ Ready(rx[1]) /\ pos \in Int
  <2>1. Head(rx) = rx[1] /\ rx[1] \in Events /\ 1 \in 1..Len(rx)
    BY <1>1, First DEF MInv, TypeOK
  <2>. QED BY <1>1, <2>1 DEF Ready, Events
\* What lets the loop look at the position shows that it is from after the motion.
<1>3. Evidence \/ pos # start => Known /\ order = NoStage
  <2>1. Evidence \/ pos # start => Trace(1)
    BY <1>2 DEF Trace
  <2>2. Trace(1) => Known
    BY <1>1, <1>2 DEF MInv, Follows
  <2>. QED BY <2>1, <2>2 DEF Known, AtRest
<1>4. settled => Evidence \/ pos # start
  BY DEF Settled, Evidence
<1>5. /\ failed \/ hit # None => Reported
      /\ final # None => Known
      /\ order # NoStage => ~Evidence /\ final = None
      /\ ~Probing(stage) => owed = "none" /\ Long(stage.delta)
  BY <1>1 DEF MInv, Follows, NotBegun, Planned
<1>6. Evidence' = Evidence
  BY <1>1 DEF Evidence
<1>7. CASE Probing(stage)
  <2>1. final' = f /\ puzzled' = (puzzled \/ settled) /\ Conclude(Judge(hit, failed, f), hit, f)
    BY <1>7 DEF ReceiveReady
  <2>2. f \in Int \cup {None} /\ hit \in Int \cup {None} /\ failed \in BOOLEAN
        /\ settled \in BOOLEAN /\ puzzled \in BOOLEAN
    BY <1>2 DEF MInv, TypeOK, Settled
  <2>3. PICK v \in Verdicts : v = Judge(hit, failed, f)
    BY <2>2, Judged
  <2>4. (v # "wait" => f # None) /\ (v \in {"ok", "Contact"} => failed \/ hit # None)
    BY <2>2, <2>3, Judged
  <2>5. (f # None => Known) /\ (order # NoStage => f = None)
    BY <1>3, <1>4, <1>5
  <2>6. puzzled' \in BOOLEAN
    BY <2>1, <2>2
  <2>. HIDE DEF pos, settled, f
  <2>. QED BY <1>1, <1>5, <1>6, <2>1, <2>2, <2>3, <2>4, <2>5, <2>6, VerdictKeeps
           DEF MInv, TypeOK
<1>8. CASE ~Probing(stage) /\ Reached(pos)
  <2>1. UNCHANGED <<final, puzzled>> /\ Advance(None, pos)
    BY <1>8 DEF ReceiveReady
  \* The end is further than the tolerance from the start.
  <2>2. pos # start
    <3>. HIDE DEF pos
    <3>1. start \in Int /\ stage.delta \in Int /\ pos \in Int /\ Tolerance \in Nat
      BY <1>2, MotionAssumption DEF MInv, TypeOK, Stages
    <3>2. Distance(pos, start + stage.delta) <= Tolerance
      BY <1>8 DEF Reached, Within, End
    <3>3. Distance(stage.delta, 0) > Tolerance
      BY <1>5, <1>8 DEF Long
    <3>. QED BY <3>1, <3>2, <3>3 DEF Distance, Greater
  <2>3. Known /\ owed = "none" /\ AtRest
    BY <1>3, <1>5, <1>8, <2>2 DEF Known
  <2>4. JobTyped' /\ Planned' /\ pc' \in {"idle", "between", "over"} /\ outcome' # "Blocked"
    <3>1. None \in Int \cup {None} /\ pos \in Int
      BY <1>2
    <3>. HIDE DEF pos
    <3>. QED BY <1>1, <2>1, <3>1, Advanced DEF MInv
  <2>5. /\ \A i \in 1..Len(rx') : i + 1 \in 1..Len(rx) /\ rx'[i] = rx[i + 1]
        /\ rx' \in Seq(Events) /\ Len(rx') <= Capacity
    BY <1>1, <1>6, Received DEF MInv
  <2>6. TypeOK'
    BY <1>1, <2>1, <2>4, <2>5 DEF MInv, TypeOK, JobTyped, machineVars
  <2>7. Known' /\ AtRest' /\ owed' = "none"
    BY <1>1, <2>3 DEF Known, AtRest, machineVars
  <2>8. Resting'
    BY <1>1, <2>4, <2>5, <2>7 DEF MInv, Resting, Waiting, machineVars
  <2>. QED BY <2>4, <2>6, <2>8 DEF MInv, Quiet, Follows
<1>9. CASE ~Probing(stage) /\ ~Reached(pos)
  <2>1. puzzled' = TRUE /\ UNCHANGED <<final, pc, jobVars, outcome>>
    BY <1>9 DEF ReceiveReady
  <2>2. "wait" \in Verdicts /\ Conclude("wait", hit, final)
    BY <2>1 DEF Verdicts, Conclude
  <2>. QED BY <1>1, <1>5, <1>6, <2>1, <2>2, VerdictKeeps DEF MInv, TypeOK
<1>. QED BY <1>7, <1>8, <1>9

-----------------------------------------------------------------------------
(* The machine.                                                            *)

\* The machine moves only while its stage waits, or when the operation is over.
LEMMA MachineKeeps ==
  ASSUME MInv, StartMotion \/ Travels \/ Touch \/ Overshoot \/ Halt \/ StopShort \/ Alarm
  PROVE  MInv'
<1>1. UNCHANGED <<surface, state, rx, lagged, pc, jobVars, waitVars, outcome>>
  BY DEF StartMotion, Travels, Touch, Overshoot, Halt, StopShort, Alarm, hostVars
<1>2. TypeOK'
  <2>1. /\ at' \in Int /\ goal' \in Int /\ order' \in Stages /\ motion' \in Stages
        /\ touched' \in Int \cup {None} /\ owed' \in {"none", "hit", "miss"} /\ alarm' \in BOOLEAN
    <3>1. NoStage \in Stages
      BY DEF NoStage, Stage, Stages, Kinds
    <3>2. order.delta \in Int
      BY DEF MInv, TypeOK, Stages
    <3>3. /\ at \in Int /\ goal \in Int /\ order \in Stages /\ motion \in Stages
          /\ touched \in Int \cup {None} /\ owed \in {"none", "hit", "miss"} /\ alarm \in BOOLEAN
      BY DEF MInv, TypeOK
    <3>4. CASE StartMotion
      BY <3>2, <3>1, <3>3, <3>4 DEF StartMotion
    <3>5. CASE Travels \/ Overshoot
      BY <3>3, <3>5 DEF Travels, Overshoot, Sign
    <3>6. CASE Touch
      BY <3>3, <3>6 DEF Touch
    <3>7. CASE Halt \/ StopShort
      BY <3>1, <3>3, <3>7 DEF Halt, StopShort
    <3>8. CASE Alarm
      BY <3>1, <3>3, <3>8 DEF Alarm
    <3>. QED BY <3>4, <3>5, <3>6, <3>7, <3>8
  <2>. QED BY <1>1, <2>1 DEF MInv, TypeOK, jobVars, waitVars
<1>3. Planned'
  BY <1>1 DEF MInv, Planned, jobVars, Plan, plan_contact, Probing, Long, Distance, Greater
<1>4. (AtRest => AtRest') /\ (alarm => alarm') /\ (Known /\ owed = "none" => Known' /\ owed' = "none")
  BY <1>1 DEF AtRest, Known, StartMotion, Travels, Touch, Overshoot, Halt, StopShort, Alarm
<1>5. Resting'
  <2>1. order' # NoStage => motion' = NoStage /\ owed' = "none"
    BY DEF MInv, Resting, StartMotion, Travels, Touch, Overshoot, Halt, StopShort, Alarm
  <2>2. owed' = "hit" => touched' # None
    BY MotionAssumption
    DEF MInv, TypeOK, Resting, StartMotion, Travels, Touch, Overshoot, Halt, StopShort, Alarm
  <2>. QED BY <1>1, <1>4, <2>1, <2>2 DEF MInv, Resting, Waiting, waitVars
<1>6. Quiet'
  BY <1>1 DEF MInv, Quiet, Resting, Waiting, Known, AtRest, NotBegun, Evidence, Shows, Ready,
    waitVars, StartMotion, Travels, Touch, Overshoot, Halt, StopShort, Alarm
<1>7. ASSUME pc = "waiting"
      PROVE  Follows'
  <2>1. (Evidence' = Evidence) /\ UNCHANGED <<start, stage, final, failed, hit>>
        /\ \A i \in 1..Len(rx) : Trace(i)' = Trace(i)
    BY <1>1 DEF Evidence, waitVars, jobVars, Trace, Shows
  <2>2. /\ order # NoStage => order = stage /\ NotBegun
        /\ motion # NoStage => motion = stage
        /\ ~Probing(stage) => owed = "none"
        /\ owed = "miss" => motion = NoStage
        /\ failed \/ hit # None => Reported
        /\ final # None => Known
        /\ ~lagged => \A i \in 1..Len(rx) : /\ rx[i].kind = "probe" => Reported
                                            /\ Ready(rx[i]) /\ Trace(i) => Known
    BY <1>7 DEF MInv, Follows
  <2>3. CASE StartMotion
    <3>1. /\ order = stage /\ NotBegun /\ motion' = order /\ order' = NoStage
          /\ UNCHANGED <<at, owed>>
      BY <2>2, <2>3 DEF StartMotion
    <3>2. ASSUME ~lagged, NEW i \in 1..Len(rx)
          PROVE  rx[i].kind # "probe" /\ ~(Ready(rx[i]) /\ Trace(i))
      <4>1. \A j \in 1..(i - 1) : j \in 1..Len(rx)
        OBVIOUS
      <4>. QED BY <3>1, <3>2, <4>1 DEF NotBegun, Trace, Shows
    <3>. QED BY <1>1, <2>1, <3>1, <3>2 DEF Follows, NotBegun, Evidence, Ready, Probing
  <2>4. CASE Travels \/ Touch \/ Overshoot \/ Halt \/ StopShort
    <3>1. motion # NoStage /\ order = NoStage /\ ~Known /\ order' = order
      BY <2>2, <2>4 DEF Travels, Touch, Overshoot, Halt, StopShort, NotBegun, Known, AtRest
    <3>2. Reported => touched # None
      BY <3>1 DEF Reported
    <3>3. Reported => Reported'
      BY <3>1, <3>2, <2>4 DEF Reported, Travels, Touch, Overshoot, Halt, StopShort
    <3>4. /\ motion' # NoStage => motion' = stage
          /\ ~Probing(stage) => owed' = "none"
          /\ owed' = "miss" => motion' = NoStage
      BY <2>2, <2>4, <3>1, MotionAssumption
      DEF Travels, Touch, Overshoot, Halt, StopShort, Touches, MInv, TypeOK
    <3>. QED BY <1>1, <2>1, <2>2, <3>1, <3>3, <3>4 DEF Follows, Ready, Probing
  <2>5. CASE Alarm
    <3>1. motion' = NoStage /\ order' = NoStage /\ UNCHANGED <<at, touched, owed>>
      BY <2>5 DEF Alarm
    <3>2. (Reported => Reported') /\ (Known => Known')
      BY <1>1, <3>1 DEF Reported, Known, AtRest
    <3>. QED BY <1>1, <2>1, <2>2, <3>1, <3>2 DEF Follows, Ready, Probing
  <2>. QED BY <2>3, <2>4, <2>5
<1>8. Follows'
  BY <1>1, <1>7 DEF Follows
<1>. QED BY <1>2, <1>3, <1>5, <1>6, <1>8 DEF MInv

-----------------------------------------------------------------------------
(* The reports.                                                            *)

\* A report that tells of the machine as it is disturbs none of those before it.
LEMMA ReportKeeps ==
  ASSUME MInv, NEW e \in Events, Deliver(e),
         UNCHANGED <<surface, at, order, motion, goal, touched, alarm, hostVars>>,
         state' = state \/ (state'.pos = at /\ (state'.blocked => alarm)),
         state' \in [ready : BOOLEAN, pos : Int, blocked : BOOLEAN, touch : BOOLEAN],
         owed' \in {owed, "none"},
         e.kind = "blocked" => alarm,
         e.kind = "probe" => owed # "none" /\ owed' = "none",
         e.kind = "status" /\ ~e.flag => motion # NoStage,
         Ready(e) => motion = NoStage /\ e.pos = at /\ state'.pos = at
  PROVE  MInv'
<1>1. /\ rx' \in Seq(Events) /\ Len(rx') <= Capacity /\ lagged' \in BOOLEAN
      /\ \A i \in 1..Len(rx') : rx'[i] = e \/ \E j \in 1..Len(rx) : rx'[i] = rx[j]
      /\ ~lagged' => /\ ~lagged /\ Len(rx') = Len(rx) + 1 /\ Len(rx) \in Nat
                     /\ rx'[Len(rx) + 1] = e
                     /\ \A i \in 1..Len(rx) : rx'[i] = rx[i]
  BY Delivered DEF MInv
<1>2. UNCHANGED <<pc, outcome, job, step, stage, jobs, origin, expected, measured,
                  start, moving, failed, hit, final, puzzled>>
  BY DEF hostVars, jobVars, waitVars
<1>3. TypeOK'
  BY <1>1, <1>2 DEF MInv, TypeOK
<1>4. Planned'
  BY <1>2 DEF MInv, Planned, Plan, plan_contact, Probing, Long, Distance, Greater
<1>5. /\ Evidence' = Evidence /\ AtRest' = AtRest /\ (Known => Known')
      /\ Reported => Reported'
  BY <1>2 DEF Evidence, AtRest, Known, Reported
<1>6. Resting'
  BY <1>1, <1>2, <1>5 DEF MInv, Resting, Waiting
<1>7. ASSUME ~lagged', NEW i \in 1..Len(rx')
      PROVE  /\ (i \in 1..Len(rx) /\ rx'[i] = rx[i]) \/ (i = Len(rx) + 1 /\ rx'[i] = e)
             /\ \A j \in 1..(i - 1) : j \in 1..Len(rx) /\ rx'[j] = rx[j]
  <2>1. Len(rx') = Len(rx) + 1 /\ Len(rx) \in Nat /\ rx'[Len(rx) + 1] = e
        /\ \A k \in 1..Len(rx) : rx'[k] = rx[k]
    BY <1>1, <1>7
  <2>2. i = Len(rx) + 1 \/ i \in 1..Len(rx)
    BY <2>1
  <2>3. \A j \in 1..(i - 1) : j \in 1..Len(rx)
    BY <2>1, <2>2
  <2>. QED BY <2>1, <2>2, <2>3
\* An order that has not begun is not reported on.
<1>8. ASSUME NotBegun
      PROVE  NotBegun' /\ ~Shows(e) /\ (Ready(e) => e.pos = start)
  <2>1. ~Shows(e) /\ (Ready(e) => e.pos = start)
    BY <1>8 DEF NotBegun, Shows
  <2>2. ASSUME ~lagged', NEW i \in 1..Len(rx')
        PROVE  ~Shows(rx'[i]) /\ (Ready(rx'[i]) => rx'[i].pos = start)
    BY <1>1, <1>7, <1>8, <2>1, <2>2 DEF NotBegun
  <2>3. NotBegun'
    BY <1>2, <1>5, <1>8, <2>2 DEF NotBegun, Shows, Ready
  <2>. QED BY <2>1, <2>3
<1>9. Quiet'
  BY <1>2, <1>8 DEF MInv, Quiet
<1>10. ASSUME pc = "waiting"
       PROVE  Follows'
  <2>2. /\ order # NoStage => order = stage /\ NotBegun
        /\ motion # NoStage => motion = stage
        /\ ~Probing(stage) => owed = "none"
        /\ owed = "miss" => motion = NoStage
        /\ failed \/ hit # None => Reported
        /\ final # None => Known
        /\ ~lagged => \A i \in 1..Len(rx) : /\ rx[i].kind = "probe" => Reported
                                            /\ Ready(rx[i]) /\ Trace(i) => Known
    BY <1>10 DEF MInv, Follows
  <2>3. e.kind = "probe" => Reported'
    <3>1. owed \in {"none", "hit", "miss"}
      BY DEF MInv, TypeOK
    <3>. QED BY <2>2, <3>1 DEF MInv, Resting, Reported
  <2>4. ASSUME ~lagged', NEW i \in 1..Len(rx') PROVE rx'[i].kind = "probe" => Reported'
    BY <1>1, <1>5, <1>7, <2>2, <2>3, <2>4
  <2>5. ASSUME ~lagged', NEW i \in 1..Len(rx'), Ready(rx'[i]), Trace(i)' PROVE Known'
    <3>1. CASE i \in 1..Len(rx) /\ rx'[i] = rx[i]
      <4>1. Trace(i)
        BY <1>2, <1>5, <1>7, <2>5, <3>1 DEF Trace, Shows
      <4>. QED BY <1>1, <1>5, <2>2, <2>5, <3>1, <4>1
    <3>2. CASE i = Len(rx) + 1 /\ rx'[i] = e
      <4>1. ASSUME NotBegun PROVE FALSE
        <5>1. ~Evidence /\ e.pos = start /\ \A j \in 1..Len(rx) : ~Shows(rx[j])
          BY <1>1, <1>8, <2>5, <3>2, <4>1 DEF NotBegun
        <5>2. \A j \in 1..(i - 1) : ~Shows(rx'[j])
          BY <1>7, <2>5, <5>1
        <5>3. ~Evidence' /\ rx'[i].pos = start'
          BY <1>2, <1>5, <3>2, <5>1
        <5>. QED BY <2>5, <5>2, <5>3 DEF Trace, Shows
      <4>2. order = NoStage /\ motion = NoStage /\ state'.pos = at
        BY <2>2, <2>5, <3>2, <4>1
      <4>. QED BY <4>2 DEF Known, AtRest
    <3>. QED BY <1>7, <2>5, <3>1, <3>2
  <2>6. ~lagged' => \A i \in 1..Len(rx') : /\ rx'[i].kind = "probe" => Reported'
                                           /\ Ready(rx'[i]) /\ Trace(i)' => Known'
    BY <2>4, <2>5
  <2>7. /\ order' # NoStage => order' = stage' /\ NotBegun'
        /\ motion' # NoStage => motion' = stage'
        /\ ~Probing(stage)' => owed' = "none"
        /\ owed' = "miss" => motion' = NoStage
        /\ failed' \/ hit' # None => Reported'
        /\ final' # None => Known'
    BY <1>2, <1>5, <1>8, <2>2 DEF Probing
  <2>. QED BY <2>6, <2>7 DEF Follows, Ready
<1>. QED BY <1>2, <1>3, <1>4, <1>6, <1>9, <1>10 DEF MInv, Follows

-----------------------------------------------------------------------------
(* The theorems.                                                           *)

LEMMA InitMInv == Init => MInv
<1> SUFFICES ASSUME Init PROVE MInv
  OBVIOUS
<1>1. TypeOK
  <2>1. NoStage \in Stages
    BY DEF NoStage, Stage, Stages, Kinds
  <2>2. rx \in Seq(Events) /\ Len(rx) <= Capacity
    BY MotionAssumption DEF Init
  <2>3. state \in [ready : BOOLEAN, pos : Int, blocked : BOOLEAN, touch : BOOLEAN]
    BY DEF Init
  <2>4. 0 \in 0..MaxJobs /\ "none" \in Outcomes
    BY MotionAssumption DEF Outcomes
  <2>5. surface \in Surfaces /\ at = 0 /\ order = NoStage /\ motion = NoStage /\ goal = 0
        /\ touched = None /\ owed = "none" /\ alarm = FALSE /\ lagged = FALSE
    BY DEF Init
  <2>6. /\ pc = "idle" /\ job = NoStage /\ step = 0 /\ stage = NoStage /\ jobs = 0
        /\ origin = 0 /\ expected = 0 /\ start = 0 /\ moving = FALSE /\ failed = FALSE
        /\ hit = None /\ final = None /\ puzzled = FALSE /\ measured = None /\ outcome = "none"
    BY DEF Init
  <2>7. /\ surface \in Surfaces /\ at \in Int /\ goal \in Int
        /\ order \in Stages /\ motion \in Stages /\ stage \in Stages /\ job \in Stages
        /\ touched \in Int \cup {None} /\ owed \in {"none", "hit", "miss"}
        /\ alarm \in BOOLEAN /\ lagged \in BOOLEAN
    <3>1. surface \in Surfaces /\ at \in Int /\ goal \in Int
      BY <2>5
    <3>2. order \in Stages /\ motion \in Stages /\ stage \in Stages /\ job \in Stages
      BY <2>1, <2>5, <2>6
    <3>3. touched \in Int \cup {None} /\ owed \in {"none", "hit", "miss"}
      BY <2>5
    <3>4. alarm \in BOOLEAN /\ lagged \in BOOLEAN
      BY <2>5
    <3>. QED BY <3>1, <3>2, <3>3, <3>4
  <2>8. /\ pc \in {"idle", "between", "sending", "waiting", "contact", "over"}
        /\ step \in 0..4 /\ jobs \in 0..MaxJobs
        /\ origin \in Int /\ expected \in Int /\ start \in Int
        /\ moving \in BOOLEAN /\ failed \in BOOLEAN /\ puzzled \in BOOLEAN
        /\ hit \in Int \cup {None} /\ final \in Int \cup {None}
        /\ measured \in Int \cup {None} /\ outcome \in Outcomes
    <3>1. /\ pc \in {"idle", "between", "sending", "waiting", "contact", "over"}
          /\ jobs \in 0..MaxJobs /\ outcome \in Outcomes
      BY <2>4, <2>6
    <3>2. step \in 0..4 /\ origin \in Int /\ expected \in Int /\ start \in Int
      BY <2>6
    <3>3. moving \in BOOLEAN /\ failed \in BOOLEAN /\ puzzled \in BOOLEAN
      BY <2>6
    <3>4. hit \in Int \cup {None} /\ final \in Int \cup {None} /\ measured \in Int \cup {None}
      BY <2>6
    <3>. QED BY <3>1, <3>2, <3>3, <3>4
  <2>. QED BY <2>2, <2>3, <2>7, <2>8 DEF TypeOK
<1>2. Planned /\ Quiet /\ Follows
  BY DEF Init, Planned, Quiet, Follows
<1>3. Resting
  BY DEF Init, Resting, Waiting, Known, AtRest
<1>. QED BY <1>1, <1>2, <1>3 DEF MInv

LEMMA StepMInv == LongLifts /\ MInv /\ [Next]_vars => MInv'
<1> SUFFICES ASSUME LongLifts, MInv, [Next]_vars PROVE MInv'
  OBVIOUS
<1>1. CASE Begins
  BY <1>1, BeginKeeps DEF Begins
<1>2. CASE Submit \/ Send \/ BackOff
  BY <1>2, SubmitKeeps, SendKeeps, BackOffKeeps
<1>3. CASE ReceiveProbe \/ ReceiveMoving \/ ReceiveReady
  BY <1>3, ProbeKeeps, MovingKeeps, ReadyKeeps
<1>4. CASE StartMotion \/ Travels \/ Touch \/ Overshoot \/ Halt \/ StopShort \/ Alarm
  BY <1>4, MachineKeeps
<1>5. CASE SendFails \/ Expire \/ Cancel
  <2>1. order' = order \/ (pc = "sending" /\ order' = stage)
    BY <1>5 DEF SendFails, Expire, Cancel
  <2>2. \E o \in {"Controller", "Position", "Timeout", "Cancelled"} : Over(o)
    BY <1>5 DEF SendFails, Expire, Cancel
  <2>. QED BY <1>5, <2>1, <2>2, OverKeeps DEF SendFails, Expire, Cancel, Unsafe, jobVars
<1>6. CASE ReceiveFailure
  <2>1. \E o \in {"EventLagged", "Controller", "Blocked", "Position"} :
          /\ Over(o) /\ (rx' = rx \/ (rx # <<>> /\ rx' = Tail(rx)))
          /\ o = "Blocked" => rx # <<>> /\ Head(rx).kind = "blocked"
    BY <1>6 DEF ReceiveFailure
  <2>2. rx # <<>> /\ Head(rx).kind = "blocked" => alarm
    BY First DEF MInv, TypeOK, Resting
  <2>. QED BY <1>6, <2>1, <2>2, OverKeeps
       DEF ReceiveFailure, Unsafe, machineVars, jobVars, MInv, TypeOK
<1>7. CASE ReportStatus
  <2> DEFINE e == Event(IF alarm THEN "blocked" ELSE "status", motion = NoStage, at)
  <2>1. /\ e \in Events /\ e.kind \in {"blocked", "status"} /\ e.pos = at
        /\ (e.kind = "blocked" <=> alarm) /\ (e.flag <=> motion = NoStage)
    BY DEF Event, Events, MInv, TypeOK
  <2>2. /\ Deliver(e) /\ UNCHANGED <<machineVars, hostVars>>
        /\ state' = [ready |-> motion = NoStage, pos |-> at, blocked |-> alarm,
                     touch |-> TriggerKnown /\ at >= surface]
    BY <1>7 DEF ReportStatus
  <2>3. /\ state' \in [ready : BOOLEAN, pos : Int, blocked : BOOLEAN, touch : BOOLEAN]
        /\ state'.pos = at /\ (state'.blocked => alarm)
    BY <2>2, MotionAssumption DEF MInv, TypeOK
  <2>. HIDE DEF e
  <2>. QED BY <2>1, <2>2, <2>3, ReportKeeps DEF machineVars, Ready
<1>8. CASE ReportProbe
  <2> DEFINE e == Event("probe", owed = "hit", IF owed = "hit" THEN touched ELSE at)
  <2>1. owed # "none" /\ owed' = "none" /\ Deliver(e)
        /\ UNCHANGED <<surface, at, order, motion, goal, touched, alarm, state, hostVars>>
    BY <1>8 DEF ReportProbe
  <2>2. e \in Events /\ e.kind = "probe"
    BY DEF Event, Events, MInv, TypeOK, Resting
  <2>. HIDE DEF e
  <2>. QED BY <2>1, <2>2, ReportKeeps DEF Ready, MInv, TypeOK
<1>9. CASE \E kind \in {"error", "changed"} : ReportOther(kind)
  <2>1. PICK kind \in {"error", "changed"} : ReportOther(kind)
    BY <1>9
  <2> DEFINE e == Event(kind, FALSE, at)
  <2>2. e \in Events /\ e.kind = kind /\ Deliver(e) /\ UNCHANGED <<machineVars, state, hostVars>>
    BY <2>1 DEF ReportOther, Event, Events, MInv, TypeOK
  <2>. HIDE DEF e
  <2>. QED BY <2>2, ReportKeeps DEF Ready, MInv, TypeOK, machineVars
<1>10. CASE UNCHANGED vars
  <2>1. UNCHANGED <<machineVars, state, rx, lagged, pc, jobVars, waitVars, outcome>>
    BY <1>10 DEF vars
  <2>2. TypeOK' /\ Planned'
    BY <2>1 DEF MInv, TypeOK, Planned, machineVars, jobVars, waitVars, Plan, plan_contact, Probing,
                Long, Distance, Greater
  <2>3. Resting' /\ Quiet' /\ Follows'
    BY <2>1 DEF MInv, Resting, Quiet, Follows, Waiting, Known, AtRest, NotBegun, Evidence, Shows,
                Ready, Reported, Trace, Probing, machineVars, jobVars, waitVars
  <2>. QED BY <2>2, <2>3 DEF MInv
<1>. QED BY <1>1, <1>2, <1>3, <1>4, <1>5, <1>6, <1>7, <1>8, <1>9, <1>10
     DEF Next, Execute, Motions, Reports, Mishaps

\* The invariant holds where no lift is as short as the tolerance of the check
\* that ends it.
THEOREM Inductive == LongLifts => (Spec => []MInv)
<1> SUFFICES ASSUME LongLifts PROVE Spec => []MInv
  OBVIOUS
<1>1. MInv /\ [Next]_vars => MInv'
  BY StepMInv
<1>. QED BY <1>1, InitMInv, PTL DEF Spec

\* Types, and an event channel within its capacity.
THEOREM TypeCorrect == LongLifts => (Spec => []TypeOK)
<1> SUFFICES ASSUME LongLifts PROVE Spec => []TypeOK
  OBVIOUS
<1>1. MInv => TypeOK
  BY DEF MInv
<1>2. Spec => []MInv
  BY Inductive
<1>. QED BY <1>1, <1>2, PTL

\* The next command of a cycle goes to a machine that stands still and owes no
\* report of an earlier stage, in whichever order its reports arrive.
THEOREM RestBeforeCommands == LongLifts => (Spec => []CommandsWaitForRest)
<1> SUFFICES ASSUME LongLifts PROVE Spec => []CommandsWaitForRest
  OBVIOUS
<1>1. MInv => CommandsWaitForRest
  BY DEF MInv, Resting, Waiting, Known, CommandsWaitForRest
<1>2. Spec => []MInv
  BY Inductive
<1>. QED BY <1>1, <1>2, PTL

\* A result from which the application need not recover is the result of an
\* operation whose machine stands still.
THEOREM RestAfterSafeOutcomes == LongLifts => (Spec => []SafeOutcomesAtRest)
<1> SUFFICES ASSUME LongLifts PROVE Spec => []SafeOutcomesAtRest
  OBVIOUS
<1>1. MInv => SafeOutcomesAtRest
  BY DEF MInv, Resting, SafeOutcomesAtRest
<1>2. Spec => []MInv
  BY Inductive
<1>. QED BY <1>1, <1>2, PTL

-----------------------------------------------------------------------------
(* The travel limits.                                                      *)

Free(p) == p \in Low..High
Allowed ==
  /\ Free(at)
  /\ pc = "sending" => Free(at + stage.delta)
  /\ order # NoStage => Free(at + order.delta)
  /\ motion # NoStage => Free(goal)

\* A move that is checked at both its ends goes nowhere else.
LEMMA SubmitChecked ==
  ASSUME MInv, Allowed, Submit, pc' = "sending"
  PROVE  Free(at + stage.delta)
<1>1. pc = "between" /\ state.pos = at /\ at \in Int /\ stage.delta \in Int
      /\ Low \in Int /\ High \in Int
  BY MotionAssumption DEF Submit, MInv, TypeOK, Resting, Waiting, Known, Stages
<1>2. check_path(Lesser(at, at + stage.delta), Greater(at, at + stage.delta))
  BY <1>1 DEF Submit, Over
<1>. QED BY <1>1, <1>2 DEF check_path, Lesser, Greater, Free

LEMMA StepAllowed ==
  ASSUME MInv, Allowed, [Next]_vars
  PROVE  Allowed'
<1>0. /\ at \in Int /\ goal \in Int /\ Low \in Int /\ High \in Int
      /\ order.delta \in Int /\ stage.delta \in Int /\ MaxOvershoot \in Int
      /\ touched \in Int \cup {None}
  BY MotionAssumption DEF MInv, TypeOK, Stages
<1>1. CASE Begins
  BY <1>1 DEF Begins, Begin, Allowed, machineVars, Free
<1>2. CASE Submit
  <2>1. UNCHANGED <<machineVars, stage>> /\ pc' \in {"over", "sending"}
    BY <1>2 DEF Submit, Over, jobVars
  <2>. QED BY <1>2, <2>1, SubmitChecked DEF Allowed, machineVars, Free
<1>3. CASE Send
  BY <1>3 DEF Send, Allowed, Free, jobVars
<1>4. CASE SendFails \/ Expire \/ Cancel
  <2>1. /\ pc' = "over" /\ (order' = order \/ (pc = "sending" /\ order' = stage))
        /\ UNCHANGED <<at, motion, goal>>
    BY <1>4 DEF SendFails, Expire, Cancel, Over
  <2>. QED BY <2>1 DEF Allowed, Free
<1>5. CASE BackOff \/ ReceiveFailure \/ ReceiveProbe \/ ReceiveMoving \/ ReceiveReady
  <2>1. UNCHANGED machineVars /\ pc' # "sending"
    BY <1>5 DEF BackOff, ReceiveFailure, ReceiveProbe, ReceiveMoving, ReceiveReady, Over,
                Conclude, Advance
  <2>. QED BY <2>1 DEF Allowed, machineVars, Free
<1>6. CASE StartMotion \/ Travels \/ Touch \/ Overshoot \/ Halt \/ StopShort \/ Alarm
  <2>1. UNCHANGED <<pc, stage>>
    BY <1>6 DEF StartMotion, Travels, Touch, Overshoot, Halt, StopShort, Alarm, hostVars, jobVars
  <2>2. /\ order # NoStage => motion = NoStage
        /\ pc = "sending" => motion = NoStage /\ order = NoStage
    BY DEF MInv, Resting, Waiting, Known, AtRest
  <2>3. CASE StartMotion
    BY <2>1, <2>3 DEF StartMotion, Allowed, Free
  <2>4. CASE Travels
    <3>1. motion # NoStage /\ at # goal /\ at' = at + Sign(goal - at) /\ UNCHANGED <<order, motion, goal>>
      BY <2>4 DEF Travels
    <3>2. Free(at')
      BY <1>0, <3>1 DEF Allowed, Free, Sign
    <3>. QED BY <2>1, <2>2, <3>1, <3>2 DEF Allowed, Free
  <2>5. CASE Overshoot
    <3>1. motion # NoStage /\ at' = at + 1 /\ at < goal /\ UNCHANGED <<order, motion, goal>>
      BY <1>0, <2>5 DEF Overshoot, Lesser
    <3>2. Free(at')
      BY <1>0, <3>1 DEF Allowed, Free
    <3>. QED BY <2>1, <2>2, <3>1, <3>2 DEF Allowed, Free
  <2>6. CASE Touch \/ Halt \/ StopShort \/ Alarm
    BY <2>1, <2>6 DEF Touch, Halt, StopShort, Alarm, Allowed, Free
  <2>. QED BY <1>6, <2>3, <2>4, <2>5, <2>6
<1>7. CASE ReportStatus \/ ReportProbe \/ \E kind \in {"error", "changed"} : ReportOther(kind)
  BY <1>7 DEF ReportStatus, ReportProbe, ReportOther, machineVars, hostVars, jobVars, Allowed, Free
<1>8. CASE UNCHANGED vars
  BY <1>8 DEF vars, machineVars, jobVars, Allowed, Free
<1>. QED BY <1>1, <1>2, <1>3, <1>4, <1>5, <1>6, <1>7, <1>8
     DEF Next, Execute, Motions, Reports, Mishaps

\* No operation passes the travel limits, the recovery moves included: the
\* machine leaves for a checked end from where the check saw it.
THEOREM LimitsKept == LongLifts => (Spec => []StaysInLimits)
<1> SUFFICES ASSUME LongLifts PROVE Spec => []StaysInLimits
  OBVIOUS
<1>1. Init => Allowed
  BY MotionAssumption DEF Init, Allowed, Free
<1>2. MInv /\ Allowed /\ [Next]_vars => Allowed'
  BY StepAllowed
<1>3. Allowed => StaysInLimits
  BY DEF Allowed, Free, StaysInLimits
<1>4. Spec => []MInv
  BY Inductive
<1>. QED BY <1>1, <1>2, <1>3, <1>4, PTL DEF Spec


-----------------------------------------------------------------------------
(* Where the workpiece is.                                                 *)

Approaching(s) == Probing(s) /\ s.delta > 0

(* Without the probe input in the status a search may begin on the         *)
(* workpiece; it then touches before it moves.                             *)
Ahead == at <= surface \/ (~TriggerKnown /\ at = start)
Approach ==
  /\ state.touch <=> TriggerKnown /\ state.pos >= surface
  /\ pc = "sending" /\ Approaching(stage) => Ahead
  /\ order # NoStage /\ Approaching(order) => Ahead
  /\ motion # NoStage /\ Approaching(motion) /\ touched = None => Ahead
  /\ pc = "waiting" /\ Approaching(stage) /\ touched = None => Ahead

(* With it, every contact the host knows of is where the workpiece is.     *)
Contacts ==
  /\ touched # None => touched = surface
  /\ hit # None => hit = surface
  /\ measured # None => measured = surface
  /\ \A i \in 1..Len(rx) : rx[i].kind = "probe" /\ rx[i].flag => rx[i].pos = surface

LEMMA SubmitApart ==
  ASSUME MInv, Approach, Submit, pc' = "sending", Approaching(stage)
  PROVE  Ahead'
<1>1. /\ pc = "between" /\ state.pos = at /\ at \in Int /\ surface \in Int
      /\ UNCHANGED machineVars
  BY MotionAssumption DEF Submit, MInv, TypeOK, Resting, Waiting, Known
<1>2. stage.kind \notin {"retract", "release"}
  BY DEF Approaching, Probing
<1>3. preflight(stage.kind \in {"retract", "release"}) = "ok" /\ start' = state.pos
  BY <1>1 DEF Submit, Over
<1>4. ~state.touch
  BY <1>2, <1>3 DEF preflight, NotTriggered
<1>. QED BY <1>1, <1>3, <1>4 DEF Approach, Ahead, machineVars

LEMMA StepApproach ==
  ASSUME LongLifts, MInv, Approach, [Next]_vars
  PROVE  Approach'
<1>0. /\ at \in Int /\ surface \in Int /\ start \in Int /\ goal \in Int /\ state.pos \in Int
      /\ TriggerKnown \in BOOLEAN /\ touched \in Int \cup {None}
  BY MotionAssumption DEF MInv, TypeOK
<1>1. CASE Begins
  BY <1>1 DEF Begins, Begin, Approach, machineVars, waitVars, Approaching, Probing, Ahead
<1>2. CASE Submit
  <2>1. UNCHANGED <<machineVars, state, stage>> /\ pc' \in {"over", "sending"}
    BY <1>2 DEF Submit, Over, jobVars
  <2>2. order = NoStage /\ motion = NoStage
    BY <1>2 DEF Submit, MInv, Resting, Waiting, Known, AtRest
  <2>. QED BY <1>2, <2>1, <2>2, SubmitApart DEF Approach, machineVars, Approaching, Probing
<1>3. CASE Send
  BY <1>3 DEF Send, Approach, jobVars, waitVars, Approaching, Probing, Ahead
<1>4. CASE SendFails \/ Expire \/ Cancel
  <2>1. /\ pc' = "over" /\ (order' = order \/ (pc = "sending" /\ order' = stage))
        /\ UNCHANGED <<surface, at, start, state, motion, touched>>
    BY <1>4 DEF SendFails, Expire, Cancel, Over, waitVars
  <2>. QED BY <2>1 DEF Approach, Approaching, Probing, Ahead
<1>5. CASE BackOff \/ ReceiveFailure \/ ReceiveProbe \/ ReceiveMoving \/ ReceiveReady
  <2>1. UNCHANGED <<machineVars, state, start>>
    BY <1>5 DEF BackOff, ReceiveFailure, ReceiveProbe, ReceiveMoving, ReceiveReady, waitVars
  <2>2. pc' # "sending" /\ (pc' = "waiting" => pc = "waiting" /\ stage' = stage)
    BY <1>5 DEF BackOff, ReceiveFailure, ReceiveProbe, ReceiveMoving, ReceiveReady, Over,
                Conclude, Advance, jobVars
  <2>. QED BY <2>1, <2>2 DEF Approach, machineVars, Approaching, Probing, Ahead
<1>6. CASE StartMotion \/ Travels \/ Touch \/ Overshoot \/ Halt \/ StopShort \/ Alarm
  <2>1. UNCHANGED <<surface, state, pc, stage, start>>
    BY <1>6 DEF StartMotion, Travels, Touch, Overshoot, Halt, StopShort, Alarm, hostVars, jobVars,
                waitVars
  <2>2. /\ order # NoStage => motion = NoStage
        /\ pc = "sending" => motion = NoStage /\ order = NoStage
        /\ pc = "waiting" /\ order # NoStage => order = stage
        /\ pc = "waiting" /\ motion # NoStage => motion = stage
    BY DEF MInv, Resting, Waiting, Known, AtRest, Follows
  <2>3. CASE StartMotion
    BY <2>1, <2>2, <2>3 DEF StartMotion, Approach, Approaching, Probing, Ahead
  <2>4. CASE Travels
    <3>1. /\ motion # NoStage /\ touched = None /\ (Approaching(motion) => at < surface)
          /\ at' = at + Sign(goal - at) /\ UNCHANGED <<order, motion, touched>>
      BY <1>0, <2>4 DEF Travels, Touches, Approaching
    <3>2. Approaching(motion) => Ahead'
      BY <1>0, <2>1, <3>1 DEF Sign, Ahead
    <3>. QED BY <2>1, <2>2, <3>1, <3>2 DEF Approach, Approaching, Probing
  <2>5. CASE Touch \/ Overshoot
    <3>1. motion # NoStage /\ touched' # None /\ UNCHANGED <<order, motion>>
      BY <1>0, <2>5, MotionAssumption DEF Touch, Overshoot
    <3>. QED BY <2>1, <2>2, <3>1 DEF Approach, Approaching, Probing
  <2>6. CASE Halt \/ StopShort \/ Alarm
    BY <2>1, <2>6 DEF Halt, StopShort, Alarm, Approach, Approaching, Probing, Ahead
  <2>. QED BY <1>6, <2>3, <2>4, <2>5, <2>6
<1>7. CASE ReportStatus \/ ReportProbe \/ \E kind \in {"error", "changed"} : ReportOther(kind)
  <2>1. UNCHANGED <<surface, at, order, motion, touched, pc, stage, start>>
    BY <1>7 DEF ReportStatus, ReportProbe, ReportOther, machineVars, hostVars, jobVars, waitVars
  <2>2. ReportStatus => state'.pos = at /\ (state'.touch <=> TriggerKnown /\ at >= surface)
    <3> DEFINE touch == TriggerKnown /\ at >= surface
    <3>1. ASSUME ReportStatus PROVE state'.pos = at /\ state'.touch = touch
      <4>1. state' = [ready |-> motion = NoStage, pos |-> at, blocked |-> alarm, touch |-> touch]
        BY <3>1 DEF ReportStatus
      <4>. HIDE DEF touch
      <4>. QED BY <4>1
    <3>. QED BY <3>1
  <2>3. state'.touch <=> TriggerKnown /\ state'.pos >= surface
    BY <1>7, <2>1, <2>2 DEF Approach, ReportProbe, ReportOther
  <2>. QED BY <2>1, <2>3 DEF Approach, Approaching, Probing, Ahead
<1>8. CASE UNCHANGED vars
  BY <1>8 DEF vars, machineVars, jobVars, waitVars, Approach, Approaching, Probing, Ahead
<1>. QED BY <1>1, <1>2, <1>3, <1>4, <1>5, <1>6, <1>7, <1>8
     DEF Next, Execute, Motions, Reports, Mishaps


\* A stage measures nothing but what its probe report said.
LEMMA Measures ==
  ASSUME NEW v \in Verdicts, NEW h, NEW pos, Conclude(v, h, pos)
  PROVE  measured' = measured \/ measured' = h
<1>1. CASE v = "ok"
  <2>1. measured' = IF stage.kind = "fine" THEN IF NoError(stage) THEN pos ELSE h ELSE measured
    BY <1>1 DEF Conclude, Advance
  <2>. QED BY <2>1 DEF NoError
<1>2. CASE v # "ok"
  BY <1>2 DEF Conclude, jobVars
<1>. QED BY <1>1, <1>2

LEMMA StepContacts ==
  ASSUME TriggerKnown, MInv, Approach, Contacts, [Next]_vars
  PROVE  Contacts'
<1>0. /\ at \in Int /\ surface \in Int /\ rx \in Seq(Events) /\ touched \in Int \cup {None}
      /\ hit \in Int \cup {None} /\ None \notin Int
  BY MotionAssumption DEF MInv, TypeOK
\* What the channel holds after a delivery, or after it is read.
<1>a. ASSUME NEW e \in Events, Deliver(e), e.kind = "probe" /\ e.flag => e.pos = surface
      PROVE  \A i \in 1..Len(rx') : rx'[i].kind = "probe" /\ rx'[i].flag => rx'[i].pos = surface
  <2>1. \A i \in 1..Len(rx') : rx'[i] = e \/ \E j \in 1..Len(rx) : rx'[i] = rx[j]
    BY <1>a, Delivered DEF MInv
  <2>. QED BY <1>a, <2>1 DEF Contacts
<1>b. ASSUME rx # <<>>, rx' = Tail(rx)
      PROVE  /\ \A i \in 1..Len(rx') : rx'[i].kind = "probe" /\ rx'[i].flag => rx'[i].pos = surface
             /\ Head(rx) \in Events
             /\ Head(rx).kind = "probe" /\ Head(rx).flag => Head(rx).pos = surface
  <2>1. \A i \in 1..Len(rx') : \E j \in 1..Len(rx) : rx'[i] = rx[j]
    BY <1>0, <1>b, Shortened
  <2>2. Head(rx) = rx[1] /\ rx[1] \in Events /\ 1 \in 1..Len(rx)
    BY <1>0, <1>b, First
  <2>. QED BY <2>1, <2>2 DEF Contacts
<1>1. CASE Begins
  BY <1>1 DEF Begins, Begin, Contacts, machineVars, waitVars
<1>2. CASE Submit
  <2>1. UNCHANGED <<machineVars, measured>> /\ (hit' = hit \/ hit' = None)
        /\ (rx' = rx \/ rx' = <<>>)
    BY <1>2 DEF Submit, jobVars, waitVars
  <2>. QED BY <2>1 DEF Contacts, machineVars
<1>3. CASE Send \/ SendFails \/ Expire \/ Cancel \/ BackOff
  BY <1>3 DEF Send, SendFails, Expire, Cancel, BackOff, Contacts, machineVars, jobVars, waitVars
<1>4. CASE ReceiveFailure \/ ReceiveMoving
  <2>1. UNCHANGED <<machineVars, measured, hit>> /\ (rx' = rx \/ (rx # <<>> /\ rx' = Tail(rx)))
    BY <1>4 DEF ReceiveFailure, ReceiveMoving, HitKept, jobVars, waitVars
  <2>. QED BY <2>1, <1>b DEF Contacts, machineVars
<1>5. CASE ReceiveProbe
  <2>1. /\ rx # <<>> /\ rx' = Tail(rx) /\ Head(rx).kind = "probe" /\ UNCHANGED machineVars
    BY <1>5 DEF ReceiveProbe
  <2> DEFINE h == IF Head(rx).flag THEN Head(rx).pos ELSE hit
             f == failed \/ ~Head(rx).flag
  <2>2. h # None => h = surface
    BY <1>b, <2>1 DEF Contacts
  <2>3. \/ UNCHANGED <<measured, hit>>
        \/ hit' = h /\ Conclude(Judge(h, f, final), h, final)
    BY <1>5 DEF ReceiveProbe, jobVars
  <2>4. hit' = hit \/ hit' = h
    BY <2>3
  <2>5. measured' \in {measured, h}
    <3>1. Judge(h, f, final) \in Verdicts
      <4>1. f \in BOOLEAN
        BY <1>b, <2>1 DEF Events, MInv, TypeOK
      <4>. HIDE DEF h, f
      <4>. QED BY <4>1, Judged
    <3>. HIDE DEF h, f
    <3>. QED BY <2>3, <3>1, Measures
  <2>. HIDE DEF h, f
  <2>. QED BY <1>b, <2>1, <2>2, <2>4, <2>5 DEF Contacts, machineVars
<1>6. CASE ReceiveReady
  <2>1. /\ rx # <<>> /\ rx' = Tail(rx) /\ UNCHANGED <<machineVars, hit>>
    BY <1>6 DEF ReceiveReady
  <2>2. measured' \in {measured, hit, None}
    <3>1. \/ \E f : Conclude(Judge(hit, failed, f), hit, f)
          \/ \E pos : Advance(None, pos)
          \/ UNCHANGED measured
      BY <1>6 DEF ReceiveReady, jobVars
    <3>2. \A f : Judge(hit, failed, f) \in Verdicts
      BY Judged DEF MInv, TypeOK
    <3>3. \A pos : Advance(None, pos) => measured' \in {measured, None}
      BY DEF Advance
    <3>. QED BY <3>1, <3>2, <3>3, Measures
  <2>. QED BY <1>b, <2>1, <2>2 DEF Contacts, machineVars
<1>7. CASE StartMotion \/ Travels \/ Overshoot \/ Halt \/ StopShort \/ Alarm
  <2>1. UNCHANGED <<surface, rx, hit, measured>> /\ (touched' = touched \/ touched' = None)
    BY <1>7 DEF StartMotion, Travels, Overshoot, Halt, StopShort, Alarm, hostVars, jobVars, waitVars
  <2>. QED BY <2>1 DEF Contacts
<1>8. CASE Touch
  <2>1. at >= surface /\ at <= surface /\ touched' = at /\ UNCHANGED <<surface, rx, hit, measured>>
    BY <1>8 DEF Touch, Touches, Approach, Approaching, Ahead, hostVars, jobVars, waitVars
  <2>. QED BY <1>0, <2>1 DEF Contacts
<1>9. CASE ReportStatus \/ ReportProbe \/ \E kind \in {"error", "changed"} : ReportOther(kind)
  <2>1. UNCHANGED <<surface, touched, hit, measured>>
    BY <1>9 DEF ReportStatus, ReportProbe, ReportOther, machineVars, hostVars, jobVars, waitVars
  <2>2. \E e \in Events : Deliver(e) /\ (e.kind = "probe" /\ e.flag => e.pos = surface)
    <3>1. ASSUME NEW kind \in {"blocked", "status", "error", "changed"}, NEW flag \in BOOLEAN
          PROVE  Event(kind, flag, at) \in Events /\ Event(kind, flag, at).kind # "probe"
      BY <1>0 DEF Event, Events
    <3>2. CASE ReportStatus
      <4>1. Deliver(Event(IF alarm THEN "blocked" ELSE "status", motion = NoStage, at))
        BY <3>2 DEF ReportStatus
      <4>. QED BY <3>1, <4>1
    <3>3. CASE ReportProbe
      <4>1. owed = "hit" => touched = surface /\ touched \in Int
        BY <1>0 DEF MInv, Resting, Contacts
      <4> DEFINE flag == owed = "hit"
                 pos == IF owed = "hit" THEN touched ELSE at
      <4>2. Deliver(Event("probe", flag, pos)) /\ pos \in Int /\ (flag => pos = surface)
            /\ flag \in BOOLEAN
        BY <1>0, <3>3, <4>1 DEF ReportProbe
      <4>. HIDE DEF flag, pos
      <4>3. Event("probe", flag, pos) \in Events /\ Event("probe", flag, pos).flag = flag
            /\ Event("probe", flag, pos).pos = pos
        BY <4>2 DEF Event, Events
      <4>. QED BY <4>2, <4>3
    <3>4. CASE \E kind \in {"error", "changed"} : ReportOther(kind)
      BY <3>1, <3>4 DEF ReportOther
    <3>. QED BY <1>9, <3>2, <3>3, <3>4
  <2>. QED BY <1>a, <2>1, <2>2 DEF Contacts
<1>10. CASE UNCHANGED vars
  BY <1>10 DEF vars, machineVars, jobVars, waitVars, Contacts
<1>. QED BY <1>1, <1>2, <1>3, <1>4, <1>5, <1>6, <1>7, <1>8, <1>9, <1>10
     DEF Next, Execute, Motions, Reports, Mishaps

\* A contact is measured where the workpiece is, whichever reports of earlier
\* stages are still on their way, on a machine that reports its probe input.
THEOREM SurfaceMeasured == LongLifts /\ TriggerKnown => (Spec => []MeasuredSurface)
<1> SUFFICES ASSUME LongLifts, TriggerKnown PROVE Spec => []MeasuredSurface
  OBVIOUS
<1>1. Init => Approach /\ Contacts
  BY MotionAssumption DEF Init, Approach, Contacts, NoStage, Stage
<1>2. MInv /\ Approach /\ [Next]_vars => Approach'
  BY StepApproach
<1>3. MInv /\ Approach /\ Contacts /\ [Next]_vars => Contacts'
  BY StepContacts
<1>4. Contacts => MeasuredSurface
  BY DEF Contacts, MeasuredSurface
<1>5. Spec => []MInv
  BY Inductive
<1>. QED BY <1>1, <1>2, <1>3, <1>4, <1>5, PTL DEF Spec


-----------------------------------------------------------------------------
(* A search that found nothing.                                            *)

(* A miss was reported by a machine that has not touched, and the position *)
(* at rest that the loop looks at is where the machine is.                 *)
Misses ==
  /\ owed = "miss" => touched = None
  /\ pc = "waiting" =>
       /\ failed => touched = None
       /\ final # None => final = at
       /\ ~lagged => \A i \in 1..Len(rx) :
            /\ rx[i].kind = "probe" /\ ~rx[i].flag => touched = None
            /\ Ready(rx[i]) /\ Trace(i) => rx[i].pos = at

(* A coarse search covers its travel from where the operation began.       *)
Searches ==
  /\ pc \notin {"idle", "over"} /\ stage.kind = "coarse" =>
       /\ stage.delta = Travel
       /\ pc = "between" => origin = at
       /\ pc \in {"sending", "waiting"} => origin = start
  /\ NoFalseMiss

LEMMA HeadOfMisses ==
  ASSUME MInv, Misses, pc = "waiting", ~lagged, rx # <<>>
  PROVE  /\ Head(rx) = rx[1] /\ Head(rx) \in Events /\ 1 \in 1..Len(rx)
         /\ Head(rx).kind = "probe" /\ ~Head(rx).flag => touched = None
         /\ Ready(Head(rx)) /\ (Evidence \/ Head(rx).pos # start) => Head(rx).pos = at
<1>1. Head(rx) = rx[1] /\ Head(rx) \in Events /\ 1 \in 1..Len(rx)
  BY First DEF MInv, TypeOK
<1>2. Evidence \/ rx[1].pos # start => Trace(1)
  BY DEF Trace
<1>. QED BY <1>1, <1>2 DEF Misses

\* What a read leaves in the channel still tells of this stage.
LEMMA ReadMisses ==
  ASSUME MInv, Misses, pc = "waiting", ~lagged, rx # <<>>, rx' = Tail(rx),
         UNCHANGED <<machineVars, start, lagged>>,
         Evidence' => Evidence \/ Shows(rx[1]),
         failed' => touched = None, final' # None => final' = at
  PROVE  Misses'
<1>1. \A i \in 1..Len(rx') : i + 1 \in 1..Len(rx) /\ rx'[i] = rx[i + 1] /\ (Trace(i)' => Trace(i + 1))
  BY Received DEF MInv
<1>2. ASSUME NEW i \in 1..Len(rx')
      PROVE  /\ rx'[i].kind = "probe" /\ ~rx'[i].flag => touched' = None
             /\ Ready(rx'[i]) /\ Trace(i)' => rx'[i].pos = at'
  <2>1. i + 1 \in 1..Len(rx) /\ rx'[i] = rx[i + 1] /\ (Trace(i)' => Trace(i + 1))
    BY <1>1
  <2>. QED BY <2>1 DEF Misses, machineVars
<1>. QED BY <1>2 DEF Misses, machineVars, Ready

LEMMA StepMisses ==
  ASSUME LongLifts, MInv, Misses, [Next]_vars
  PROVE  Misses'
<1>0. /\ at \in Int /\ rx \in Seq(Events) /\ touched \in Int \cup {None} /\ None \notin Int
      /\ owed \in {"none", "hit", "miss"}
  BY MotionAssumption DEF MInv, TypeOK
<1>1. CASE Begins \/ Submit \/ BackOff \/ SendFails \/ Expire \/ Cancel
  BY <1>1 DEF Begins, Begin, Submit, BackOff, SendFails, Expire, Cancel, Over, Misses, machineVars
<1>2. CASE Send
  <2>1. NotBegun /\ UNCHANGED <<at, touched, owed, rx, lagged, start, failed, hit, moving, final>>
    BY <1>2 DEF Send, MInv, Quiet, waitVars
  <2>2. ASSUME ~lagged, NEW i \in 1..Len(rx)
        PROVE  rx[i].kind # "probe" /\ (Ready(rx[i]) => rx[i].pos = at)
    BY <2>1, <2>2 DEF NotBegun, Shows
  <2>. QED BY <2>1, <2>2 DEF Misses, NotBegun, Evidence, Ready
<1>3. CASE ReceiveFailure
  BY <1>3 DEF ReceiveFailure, Over, Misses, machineVars
<1>4. CASE ReceiveProbe
  <2>1. /\ pc = "waiting" /\ ~lagged /\ rx # <<>> /\ rx' = Tail(rx) /\ Head(rx).kind = "probe"
        /\ UNCHANGED <<machineVars, start, lagged, moving, final>>
        /\ failed' => failed \/ ~Head(rx).flag
    BY <1>4 DEF ReceiveProbe
  <2>2. Shows(rx[1]) /\ (failed' => touched = None)
    BY <2>1, HeadOfMisses DEF Shows, Misses
  <2>. QED BY <2>1, <2>2, ReadMisses DEF Misses
<1>5. CASE ReceiveMoving
  <2>1. /\ pc = "waiting" /\ ~lagged /\ rx # <<>> /\ rx' = Tail(rx)
        /\ Head(rx).kind = "status" /\ ~Head(rx).flag
        /\ UNCHANGED <<machineVars, start, lagged, failed>> /\ final' = None
    BY <1>5 DEF ReceiveMoving
  <2>2. Shows(rx[1])
    BY <2>1, HeadOfMisses DEF Shows
  <2>. QED BY <2>1, <2>2, ReadMisses DEF Misses
<1>6. CASE ReceiveReady
  <2> DEFINE pos == Head(rx).pos
             settled == Settled(moving, hit, failed, pos)
  <2>1. /\ pc = "waiting" /\ ~lagged /\ rx # <<>> /\ rx' = Tail(rx) /\ Ready(Head(rx))
        /\ UNCHANGED <<machineVars, start, lagged, moving, failed, hit>>
        /\ final' = final \/ (settled /\ final' = pos)
    BY <1>6 DEF ReceiveReady, Ready
  <2>2. settled => pos = at
    BY <2>1, HeadOfMisses DEF Settled, Evidence
  <2>3. final' # None => final' = at
    BY <2>1, <2>2 DEF Misses
  <2>. QED BY <2>1, <2>3, ReadMisses DEF Misses, Evidence
<1>7. CASE StartMotion \/ Travels \/ Touch \/ Overshoot \/ Halt \/ StopShort \/ Alarm
  <2>1. UNCHANGED <<rx, lagged, pc, start, moving, failed, hit, final, stage>>
    BY <1>7 DEF StartMotion, Travels, Touch, Overshoot, Halt, StopShort, Alarm, hostVars, waitVars,
                jobVars
  <2>2. \A i \in 1..Len(rx) : Trace(i)' = Trace(i)
    BY <2>1 DEF Trace, Evidence, Shows
  \* A machine that moves has told of nothing yet.
  <2>3. pc = "waiting" /\ motion # NoStage =>
          /\ final = None
          /\ ~lagged => \A i \in 1..Len(rx) : ~(Ready(rx[i]) /\ Trace(i))
    BY DEF MInv, Follows, Known, AtRest
  <2>4. pc = "waiting" /\ ~Reported =>
          /\ ~failed
          /\ ~lagged => \A i \in 1..Len(rx) : rx[i].kind # "probe"
    BY DEF MInv, Follows
  <2>5. CASE Travels \/ Overshoot
    BY <2>1, <2>2, <2>3, <2>5 DEF Travels, Overshoot, Misses, Ready
  <2>6. CASE Touch
    <3>1. motion # NoStage /\ touched = None /\ owed' = "hit" /\ at' = at
      BY <2>6 DEF Touch
    <3>2. ~Reported
      BY <3>1 DEF Reported
    <3>. QED BY <2>1, <2>2, <2>4, <3>1, <3>2 DEF Misses, Ready
  <2>7. CASE StartMotion
    BY <2>1, <2>2, <2>7 DEF StartMotion, Misses, Ready
  <2>8. CASE Halt \/ StopShort \/ Alarm
    BY <2>1, <2>2, <2>8 DEF Halt, StopShort, Alarm, Misses, Ready
  <2>. QED BY <1>7, <2>5, <2>6, <2>7, <2>8
<1>8. CASE ReportStatus \/ ReportProbe \/ \E kind \in {"error", "changed"} : ReportOther(kind)
  <2>1. UNCHANGED <<at, touched, pc, start, moving, failed, hit, final>> /\ owed' \in {owed, "none"}
    BY <1>8 DEF ReportStatus, ReportProbe, ReportOther, machineVars, hostVars, waitVars
  <2>2. \E e \in Events : /\ Deliver(e) /\ e.pos \in Int
                          /\ e.kind = "probe" /\ ~e.flag => touched = None
                          /\ Ready(e) => e.pos = at
    <3>1. ASSUME NEW kind \in {"blocked", "status", "error", "changed"}, NEW flag \in BOOLEAN
          PROVE  /\ Event(kind, flag, at) \in Events /\ Event(kind, flag, at).kind # "probe"
                 /\ Event(kind, flag, at).pos = at
      BY <1>0 DEF Event, Events
    <3>2. CASE ReportStatus
      <4>1. Deliver(Event(IF alarm THEN "blocked" ELSE "status", motion = NoStage, at))
        BY <3>2 DEF ReportStatus
      <4>. QED BY <1>0, <3>1, <4>1
    <3>3. CASE ReportProbe
      <4> DEFINE flag == owed = "hit"
                 pos == IF owed = "hit" THEN touched ELSE at
      <4>2. Deliver(Event("probe", flag, pos)) /\ pos \in Int /\ (~flag => touched = None)
            /\ flag \in BOOLEAN
        BY <1>0, <3>3 DEF ReportProbe, Misses, MInv, Resting
      <4>. HIDE DEF flag, pos
      <4>3. Event("probe", flag, pos) \in Events /\ Event("probe", flag, pos).flag = flag
            /\ Event("probe", flag, pos).pos = pos /\ Event("probe", flag, pos).kind = "probe"
        BY <4>2 DEF Event, Events
      <4>. QED BY <4>2, <4>3 DEF Ready
    <3>4. CASE \E kind \in {"error", "changed"} : ReportOther(kind)
      BY <1>0, <3>1, <3>4 DEF ReportOther
    <3>. QED BY <1>8, <3>2, <3>3, <3>4
  <2>3. PICK e \in Events : /\ Deliver(e)
                            /\ e.kind = "probe" /\ ~e.flag => touched = None
                            /\ Ready(e) => e.pos = at
    BY <2>2
  <2>4. ASSUME pc = "waiting", ~lagged', NEW i \in 1..Len(rx')
        PROVE  /\ rx'[i].kind = "probe" /\ ~rx'[i].flag => touched = None
               /\ Ready(rx'[i]) /\ Trace(i)' => rx'[i].pos = at
    <3>1. /\ ~lagged /\ Len(rx') = Len(rx) + 1 /\ Len(rx) \in Nat /\ rx'[Len(rx) + 1] = e
          /\ \A k \in 1..Len(rx) : rx'[k] = rx[k]
      BY <2>3, <2>4, Delivered DEF MInv
    <3>2. CASE i = Len(rx) + 1
      BY <2>3, <3>1, <3>2
    <3>3. CASE i \in 1..Len(rx)
      <4>1. \A j \in 1..(i - 1) : j \in 1..Len(rx)
        BY <3>1, <3>3
      <4>2. Trace(i)' => Trace(i)
        BY <2>1, <3>1, <3>3, <4>1 DEF Trace, Evidence, Shows
      <4>. QED BY <2>4, <3>1, <3>3, <4>2 DEF Misses
    <3>. QED BY <3>1, <3>2, <3>3
  <2>. QED BY <2>1, <2>4 DEF Misses, Ready
<1>9. CASE UNCHANGED vars
  BY <1>9 DEF vars, machineVars, waitVars, Misses, Ready, Trace, Evidence, Shows
<1>. QED BY <1>1, <1>2, <1>3, <1>4, <1>5, <1>6, <1>7, <1>8, <1>9
     DEF Next, Execute, Motions, Reports, Mishaps


LEMMA CoarseFirst ==
  ASSUME NEW j \in Jobs, NEW i \in 1..Len(Plan(j)), Plan(j)[i].kind = "coarse"
  PROVE  i = 1 /\ Plan(j)[i].delta = Travel
<1>1. CASE j = Stage("contact", 0)
  <2>1. Plan(j) = plan_contact
    BY <1>1 DEF Plan, Stage
  <2>2. Len(plan_contact) = 4 /\ i \in 1..4
    BY <2>1 DEF plan_contact
  <2>. QED BY <2>1, <2>2 DEF plan_contact, Stage
<1>2. CASE j # Stage("contact", 0)
  <2>1. Plan(j) = <<j>> /\ i = 1 /\ j.kind # "coarse"
    BY <1>2 DEF Plan, Jobs, Stage
  <2>. QED BY <2>1
<1>. QED BY <1>1, <1>2

\* The verdict of a search in vain: the end was reached without a contact.
LEMMA InVain ==
  ASSUME NEW h, NEW f \in BOOLEAN, NEW pos, Probing(stage), Judge(h, f, pos) = "CoarseNoContact"
  PROVE  f /\ pos # None /\ stage.kind = "coarse" /\ Within(End, pos)
<1>1. pos # None /\ (stage.kind = "guarded" => Judge(h, f, pos) = JudgeGuarded(h, f, pos))
  BY DEF Judge
<1>2. JudgeGuarded(h, f, pos) # "CoarseNoContact" /\ JudgeHit(h, pos) # "CoarseNoContact"
  BY DEF JudgeGuarded, JudgeHit
<1>3. stage.kind # "guarded" /\ f /\ Judge(h, f, pos) = JudgeMiss(pos)
  BY <1>1, <1>2 DEF Judge
<1>4. NoError(stage) /\ Within(End, pos)
  BY <1>3 DEF JudgeMiss
<1>. QED BY <1>1, <1>3, <1>4 DEF NoError

LEMMA AdvanceSearches ==
  ASSUME Planned, pc = "waiting", Searches, NEW contact, NEW pos, Advance(contact, pos),
         UNCHANGED machineVars
  PROVE  Searches'
<1>1. job \in Jobs /\ step \in 1..Len(Plan(job)) /\ outcome = "none"
  BY DEF Planned
<1>2. CASE stage.kind = "release" \/ ~(step < Len(Plan(job)))
  <2>1. pc' \in {"over", "idle"} /\ outcome' \in {"Retracted", "ok"}
    BY <1>2 DEF Advance, Over
  <2>. QED BY <2>1 DEF Searches, NoFalseMiss
<1>3. CASE stage.kind # "release" /\ step < Len(Plan(job))
  <2>1. stage' = Plan(job)[step + 1] /\ outcome' = outcome
    BY <1>3 DEF Advance
  <2>2. step + 1 \in 1..Len(Plan(job)) /\ step + 1 # 1
    <3>1. step \in Nat \ {0} /\ Len(Plan(job)) \in Int
      BY <1>1, PlanTyped
    <3>. QED BY <1>3, <3>1
  <2>3. stage'.kind # "coarse"
    BY <1>1, <2>1, <2>2, CoarseFirst
  <2>. QED BY <1>1, <2>1, <2>3 DEF Searches, NoFalseMiss
<1>. QED BY <1>2, <1>3

\* A verdict the loop reaches over evidence of this stage.
LEMMA ConcludeSearches ==
  ASSUME TriggerKnown \/ Travel > Tolerance, MInv, Approach, Searches, pc = "waiting",
         Probing(stage), UNCHANGED machineVars, start' = start,
         NEW h, NEW f \in BOOLEAN, NEW pos, Conclude(Judge(h, f, pos), h, pos),
         Judge(h, f, pos) \in Verdicts, f => touched = None, pos # None => pos = at
  PROVE  Searches'
<1> DEFINE v == Judge(h, f, pos)
<1>1. CASE v = "ok"
  BY <1>1, AdvanceSearches DEF Conclude, MInv
<1>2. CASE v \in {"wait", "Contact"}
  <2>1. UNCHANGED <<jobVars, outcome>> /\ pc' \in {"waiting", "contact"}
    BY <1>2 DEF Conclude
  <2>. QED BY <2>1 DEF Searches, NoFalseMiss, jobVars, machineVars
<1>3. CASE v \in {"Position", "NoContact"}
  <2>1. pc' = "over" /\ outcome' # "CoarseNoContact"
    BY <1>3 DEF Conclude, Over
  <2>. QED BY <2>1 DEF Searches, NoFalseMiss
<1>4. CASE v = "CoarseNoContact"
  <2>1. f /\ pos # None /\ stage.kind = "coarse" /\ Within(End, pos)
    BY <1>4, InVain
  <2>2. touched = None /\ pos = at /\ stage.delta = Travel /\ origin = start
    BY <2>1 DEF Searches
  <2>3. /\ at \in Int /\ start \in Int /\ surface \in Int /\ Travel \in Nat \ {0} /\ Tolerance \in Nat
    BY MotionAssumption DEF MInv, TypeOK
  <2>4. Ahead
    BY <2>2, <2>3 DEF Approach, Approaching
  <2>5. Distance(start + Travel, at) <= Tolerance
    BY <2>1, <2>2 DEF Within, End
  <2>6. at - start >= Travel - Tolerance
    BY <2>3, <2>5 DEF Distance, Greater
  <2>7. surface - origin >= Travel - Tolerance
    BY <2>2, <2>3, <2>4, <2>6 DEF Ahead
  <2>8. pc' = "over" /\ UNCHANGED <<surface, origin>>
    BY <1>4 DEF Conclude, Over, jobVars, machineVars
  <2>. QED BY <2>7, <2>8 DEF Searches, NoFalseMiss
<1>. QED BY <1>1, <1>2, <1>3, <1>4 DEF Verdicts

LEMMA StepSearches ==
  ASSUME LongLifts, TriggerKnown \/ Travel > Tolerance,
         MInv, Approach, Misses, Searches, [Next]_vars
  PROVE  Searches'
<1>0. /\ pc # "idle" => pc = "over" \/ (job \in Jobs /\ step \in 1..Len(Plan(job)))
      /\ pc \in {"idle", "between", "sending", "contact"} => state.pos = at
  BY DEF MInv, Planned, Resting, Waiting, Known
<1>1. CASE Begins
  <2>1. PICK j \in Jobs : Begin(j)
    BY <1>1 DEF Begins
  <2>2. /\ pc = "idle" /\ stage' = Plan(j)[1] /\ origin' = state.pos /\ at' = at
        /\ outcome' # "CoarseNoContact" /\ pc' \in {"over", "between"}
    BY <2>1 DEF Begin, preview_contact, preflight, machineVars
  <2>3. 1 \in 1..Len(Plan(j))
    BY PlanTyped
  <2>. QED BY <1>0, <2>2, <2>3, CoarseFirst DEF Searches, NoFalseMiss
<1>2. CASE Submit
  <2>1. /\ pc = "between" /\ UNCHANGED <<machineVars, jobVars>>
        /\ \/ pc' = "over" /\ outcome' # "CoarseNoContact"
           \/ pc' = "sending" /\ start' = state.pos /\ outcome' = outcome
    BY <1>2 DEF Submit, Over, preflight
  <2>. QED BY <1>0, <2>1 DEF Searches, NoFalseMiss, machineVars, jobVars
<1>3. CASE Send
  BY <1>3 DEF Send, Searches, NoFalseMiss, jobVars, waitVars
<1>4. CASE SendFails \/ Expire \/ Cancel \/ ReceiveFailure
  <2>1. pc' = "over" /\ outcome' # "CoarseNoContact"
    BY <1>4 DEF SendFails, Expire, Cancel, ReceiveFailure, Over
  <2>. QED BY <2>1 DEF Searches, NoFalseMiss
<1>5. CASE BackOff
  <2>1. UNCHANGED <<surface, origin>>
        /\ \/ pc' = "over" /\ outcome' # "CoarseNoContact"
           \/ pc' = "between" /\ stage'.kind = "release" /\ outcome' = outcome
    BY <1>5 DEF BackOff, Over, machineVars, Stage
  <2>. QED BY <2>1 DEF Searches, NoFalseMiss
<1>6. CASE ReceiveProbe
  <2>1. /\ pc = "waiting" /\ ~lagged /\ rx # <<>> /\ Head(rx).kind = "probe"
        /\ UNCHANGED <<machineVars, start>>
    BY <1>6 DEF ReceiveProbe
  <2>2. CASE ~Probing(stage)
    BY <1>6, <2>1, <2>2 DEF ReceiveProbe, Searches, NoFalseMiss, jobVars, machineVars
  <2>3. CASE Over("Position") /\ UNCHANGED jobVars
    BY <2>3 DEF Over, Searches, NoFalseMiss
  <2>4. CASE Probing(stage) /\ ~(Over("Position") /\ UNCHANGED jobVars)
    <3> DEFINE h == IF Head(rx).flag THEN Head(rx).pos ELSE hit
               f == failed \/ ~Head(rx).flag
    <3>1. Conclude(Judge(h, f, final), h, final)
      BY <1>6, <2>4 DEF ReceiveProbe
    <3>2. f \in BOOLEAN /\ (f => touched = None)
      BY <2>1, HeadOfMisses DEF Misses, Events, MInv, TypeOK
    <3>3. final # None => final = at
      BY <2>1 DEF Misses
    <3>. HIDE DEF h, f
    <3>4. Judge(h, f, final) \in Verdicts
      BY <3>2, Judged
    <3>. QED BY <2>1, <2>4, <3>1, <3>2, <3>3, <3>4, ConcludeSearches
  <2>. QED BY <2>2, <2>3, <2>4
<1>7. CASE ReceiveMoving
  BY <1>7 DEF ReceiveMoving, Searches, NoFalseMiss, machineVars, jobVars
<1>8. CASE ReceiveReady
  <2> DEFINE pos == Head(rx).pos
             settled == Settled(moving, hit, failed, pos)
             f == IF settled THEN pos ELSE final
  <2>1. /\ pc = "waiting" /\ ~lagged /\ rx # <<>> /\ Ready(Head(rx))
        /\ UNCHANGED <<machineVars, start, moving, failed, hit>>
    BY <1>8 DEF ReceiveReady, Ready
  <2>2. CASE Probing(stage)
    <3>1. Conclude(Judge(hit, failed, f), hit, f)
      BY <1>8, <2>2 DEF ReceiveReady
    <3>2. settled => pos = at
      BY <2>1, HeadOfMisses DEF Settled, Evidence
    <3>3. (f # None => f = at) /\ failed \in BOOLEAN /\ (failed => touched = None)
      BY <2>1, <3>2 DEF Misses, MInv, TypeOK
    <3>. HIDE DEF settled, f
    <3>4. Judge(hit, failed, f) \in Verdicts
      BY <3>3, Judged
    <3>. QED BY <2>1, <2>2, <3>1, <3>3, <3>4, ConcludeSearches
  <2>3. CASE ~Probing(stage)
    <3>1. \/ Advance(None, pos)
          \/ UNCHANGED <<pc, jobVars, outcome>>
      BY <1>8, <2>3 DEF ReceiveReady
    <3>2. CASE Advance(None, pos)
      BY <2>1, <3>2, AdvanceSearches DEF MInv
    <3>3. CASE UNCHANGED <<pc, jobVars, outcome>>
      BY <2>1, <3>3 DEF Searches, NoFalseMiss, machineVars, jobVars
    <3>. QED BY <3>1, <3>2, <3>3
  <2>. QED BY <2>2, <2>3
<1>9. CASE StartMotion \/ Travels \/ Touch \/ Overshoot \/ Halt \/ StopShort \/ Alarm
  <2>1. UNCHANGED <<surface, pc, jobVars, waitVars, outcome>>
    BY <1>9 DEF StartMotion, Travels, Touch, Overshoot, Halt, StopShort, Alarm, hostVars
  <2>2. pc = "between" => at' = at
    BY <1>9 DEF MInv, Resting, Waiting, Known, AtRest, StartMotion, Travels, Touch, Overshoot, Halt,
                StopShort, Alarm
  <2>. QED BY <2>1, <2>2 DEF Searches, NoFalseMiss, jobVars, waitVars
<1>10. CASE ReportStatus \/ ReportProbe \/ \E kind \in {"error", "changed"} : ReportOther(kind)
  BY <1>10 DEF ReportStatus, ReportProbe, ReportOther, machineVars, hostVars, jobVars, waitVars,
               Searches, NoFalseMiss
<1>11. CASE UNCHANGED vars
  BY <1>11 DEF vars, machineVars, jobVars, waitVars, Searches, NoFalseMiss
<1>. QED BY <1>1, <1>2, <1>3, <1>4, <1>5, <1>6, <1>7, <1>8, <1>9, <1>10, <1>11
     DEF Next, Execute, Motions, Reports, Mishaps

\* "No contact" is reported only after a search over the whole travel past no
\* workpiece.  A search no longer than the tolerance needs the probe input in
\* the status: it may end where it began, on the workpiece.
THEOREM MissesAreTrue ==
  LongLifts /\ (TriggerKnown \/ Travel > Tolerance) => (Spec => []NoFalseMiss)
<1> SUFFICES ASSUME LongLifts, TriggerKnown \/ Travel > Tolerance PROVE Spec => []NoFalseMiss
  OBVIOUS
<1>1. Init => Approach /\ Misses /\ Searches
  BY MotionAssumption
  DEF Init, Approach, Misses, Searches, NoFalseMiss, NoStage, Stage
<1>2. MInv /\ Approach /\ [Next]_vars => Approach'
  BY StepApproach
<1>3. MInv /\ Misses /\ [Next]_vars => Misses'
  BY StepMisses
<1>4. MInv /\ Approach /\ Misses /\ Searches /\ [Next]_vars => Searches'
  BY StepSearches
<1>5. Searches => NoFalseMiss
  BY DEF Searches
<1>6. Spec => []MInv
  BY Inductive
<1>. QED BY <1>1, <1>2, <1>3, <1>4, <1>5, <1>6, PTL DEF Spec


===============================================================================
