---------------------------- MODULE Actuator_proofs ----------------------------
(***************************************************************************)
(* The probe actuator, for any number of connections and any capacity of   *)
(* the events.                                                             *)
(***************************************************************************)
EXTENDS Actuator, TLAPS

(* The orders the probe has not carried out.                               *)
NoOrders == accepted = "none" /\ link = <<>>
Unsent == pc = "sending"
OnlyRetracts ==
  /\ accepted # "extend" /\ (Unsent => ~want)
  /\ \A i \in 1..Len(link) : link[i] = "retract"
(* An order to extend is the last one, and waits for a retracted probe.    *)
ExtendsLast ==
  /\ probe = "in"
  /\ \/ /\ Unsent /\ want /\ accepted # "extend"
        /\ \A i \in 1..Len(link) : link[i] = "retract"
     \/ /\ ~Unsent /\ link # <<>> /\ accepted # "extend" /\ link[Len(link)] = "extend"
        /\ \A i \in 1..(Len(link) - 1) : link[i] = "retract"
     \/ ~Unsent /\ link = <<>> /\ accepted = "extend"

(* What a connected controller that counts no movement may rely on: nothing*)
(* is under way, but for an order to retract a retracted probe.            *)
Calm ==
  /\ OnlyRetracts /\ ((NoOrders /\ ~Unsent) \/ probe = "in")
  /\ early => NoOrders /\ ~Unsent /\ AtRest /\ shown \notin Between
  /\ (shown = 0 => probe = "in") /\ (shown = 1 => probe = "out")
Extending ==
  \/ ExtendsLast /\ ~transition
  \/ NoOrders /\ ~Unsent /\ probe \in {"extending", "out"}
Retracting ==
  /\ OnlyRetracts
  /\ early => \/ NoOrders /\ ~Unsent
              \/ ~transition /\ AtRest
(* A machine that reports early has one order at a time.                   *)
OneOrder ==
  /\ accepted # "none" => link = <<>> /\ ~Unsent
  /\ link # <<>> => Len(link) = 1 /\ ~Unsent

Known ==
  /\ OnlyRetracts \/ ExtendsLast
  /\ Unsent => connected
  /\ ~connected => ~pending /\ shown = Unknown
  /\ connected =>
       /\ early => OneOrder
       /\ ~pending => Calm
       /\ pending /\ target = 1 => Extending
       /\ pending /\ target = 0 => Retracting

(* What actuate() waits for.                                               *)
There == NoOrders /\ probe = (IF want THEN "out" ELSE "in")
Heard == \E i \in 1..Len(rx) : rx[i] = PositionOf(want)
Waited == waits /\ ~early =>
  /\ outcome = "ok" => pc = "idle" /\ There
  /\ pc = "checking" /\ ~want => NoOrders /\ probe = "out" /\ ~Heard
  /\ pc = "checking" /\ want /\ Heard =>
       probe = "out" /\ (NoOrders \/ ~connected \/ (pending /\ target = 0))
  /\ pc = "checking" /\ already => want /\ probe = "out"
  /\ Unsent => ~Heard /\ ~already
  /\ Unsent /\ ~want => NoOrders /\ probe = "out"
  /\ pc = "waiting" => connected /\ (Heard => There)
  /\ pc = "waiting" /\ want => ~(pending /\ target = 0)
  /\ pc = "waiting" /\ ~want =>
       \/ NoOrders /\ probe \in {"retracting", "in"}
       \/ probe = "out" /\ OneOrder /\ OnlyRetracts /\ ~NoOrders

AInv == TypeOK /\ Known /\ Waited

-----------------------------------------------------------------------------
(* The orders on their way.                                                *)

Orders == {"extend", "retract"}
Reports == {0, 1, 2, 3, Unknown}

LEMMA Empty == ASSUME NEW S, NEW q \in Seq(S) PROVE q = <<>> <=> Len(q) = 0
OBVIOUS

LEMMA First == ASSUME NEW S, NEW q \in Seq(S), q # <<>> PROVE Head(q) = q[1] /\ 1 \in 1..Len(q)
OBVIOUS

\* What an order given and an order accepted do to the queue.
LEMMA Given ==
  ASSUME NEW q \in Seq(Orders), NEW o \in Orders
  PROVE  /\ Append(q, o) \in Seq(Orders) /\ Append(q, o) # <<>>
         /\ Len(Append(q, o)) = Len(q) + 1 /\ Append(q, o)[Len(q) + 1] = o
         /\ \A i \in 1..Len(q) : Append(q, o)[i] = q[i]
         /\ q = <<>> <=> Len(q) = 0
         /\ Len(q) \in Nat
OBVIOUS

LEMMA Taken ==
  ASSUME NEW q \in Seq(Orders), q # <<>>
  PROVE  /\ Tail(q) \in Seq(Orders) /\ Len(Tail(q)) = Len(q) - 1 /\ Head(q) = q[1]
         /\ Head(q) \in Orders /\ Len(q) \in Nat \ {0}
         /\ \A i \in 1..Len(Tail(q)) : Tail(q)[i] = q[i + 1]
         /\ Tail(q) = <<>> <=> Len(q) = 1
<1>1. /\ Tail(q) \in Seq(Orders) /\ Len(Tail(q)) = Len(q) - 1 /\ Head(q) = q[1]
      /\ Head(q) \in Orders /\ Len(q) \in Nat \ {0}
  OBVIOUS
<1>2. \A i \in 1..Len(Tail(q)) : Tail(q)[i] = q[i + 1]
  BY <1>1
<1>3. Tail(q) = <<>> <=> Len(Tail(q)) = 0
  BY <1>1, Empty
<1>. QED BY <1>1, <1>2, <1>3

\* The types.
LEMMA InitTypes == Init => TypeOK
<1>. SUFFICES ASSUME Init PROVE TypeOK
  OBVIOUS
<1>1. link \in Seq(Orders) /\ rx \in Seq(Reports) /\ Len(rx) <= Capacity
  BY ActuatorAssumption DEF Init
<1>2. session \in 1..MaxSessions
  BY ActuatorAssumption DEF Init
<1>. QED BY <1>1, <1>2 DEF Init, TypeOK, Orders, Reports, Unknown

LEMMA ReadingTyped == Reading \in {0, 1, 2, 3}
BY DEF Reading, PositionOf

LEMMA TypesKept == ASSUME TypeOK, [Next]_vars PROVE TypeOK'
<1>. USE DEF TypeOK, Unknown
<1>1. CASE Calls
  BY <1>1, ActuatorAssumption
  DEF Calls, Call, machineVars, habits, storedVars, PositionOf
<1>2. CASE Check
  <2>1. UNCHANGED <<machineVars, session, connected, shown, waits, want, already, rx>>
    BY <1>2 DEF Check, Refuse, AlreadyThere, Mark, storedVars
  <2>2. /\ pc' \in {"idle", "waiting", "sending"} /\ outcome' \in {outcome, "ok", "refused"}
        /\ pending' \in BOOLEAN /\ target' \in {0, 1} /\ transition' \in BOOLEAN
    <3>1. CASE Refuse \/ AlreadyThere
      BY <3>1 DEF Refuse, AlreadyThere, Return, storedVars
    <3>2. CASE Mark
      <4>1. transition' = (shown \in Between)
        BY <3>2 DEF Mark
      <4>. QED BY <3>2, <4>1 DEF Mark, Marked, PositionOf
    <3>. QED BY <1>2, <3>1, <3>2 DEF Check
  <2>. QED BY <2>1, <2>2 DEF machineVars, habits
<1>3. CASE Send
  <2>1. link' \in Seq(Orders)
    BY <1>3, Given DEF Send, Orders
  <2>. QED BY <1>3, <2>1 DEF Send, Return, habits, storedVars, Orders
<1>4. CASE Receive
  <2>1. rx' \in Seq(Reports) /\ Len(rx') <= Capacity
    BY <1>4, ActuatorAssumption DEF Receive, Reports
  <2>. QED BY <1>4, <2>1 DEF Receive, Return, machineVars, habits, storedVars, Reports
<1>5. CASE Report
  <2>1. rx' \in Seq(Reports) /\ Len(rx') <= Capacity
    BY <1>5, ReadingTyped, ActuatorAssumption DEF Report, Reports
  <2>2. /\ shown' \in Reports /\ pending' \in BOOLEAN /\ target' \in {0, 1}
        /\ transition' \in BOOLEAN
    BY <1>5, ReadingTyped DEF Report, Apply, Reports
  <2>. QED BY <1>5, <2>1, <2>2 DEF Report, habits, callVars, Reports
<1>6. CASE Accept
  <2>1. link' \in Seq(Orders) /\ accepted' \in Orders
    BY <1>6, Taken DEF Accept, Orders
  <2>. QED BY <1>6, <2>1 DEF Accept, habits, storedVars, callVars, Orders
<1>7. CASE StartMotion \/ EndMotion
  <2>1. UNCHANGED <<habits, link, session, connected, storedVars, callVars, rx>>
    BY <1>7 DEF StartMotion, EndMotion
  <2>2. /\ probe' \in {"in", "extending", "out", "retracting"}
        /\ accepted' \in {"none", accepted} /\ seen' \in BOOLEAN
    BY <1>7 DEF StartMotion, EndMotion
  <2>. QED BY <2>1, <2>2 DEF habits, storedVars, callVars
<1>8. CASE SendFails \/ GiveUp \/ Disconnect
  <2>1. UNCHANGED <<machineVars, session, waits, want, already, rx>>
    BY <1>8 DEF SendFails, GiveUp, Disconnect
  <2>2. /\ pc' \in {"idle", pc} /\ outcome' \in {outcome, "failed"} /\ connected' \in BOOLEAN
        /\ shown' \in {shown, Unknown} /\ pending' \in BOOLEAN /\ target' \in {0, 1}
        /\ transition' \in BOOLEAN
    BY <1>8 DEF SendFails, GiveUp, Disconnect, Invalidate, Return, storedVars
  <2>. QED BY <2>1, <2>2 DEF machineVars, habits
<1>9. CASE ReportUnknown \/ Reconnect
  <2>1. UNCHANGED <<machineVars, pending, target, transition, callVars, rx>>
    BY <1>9 DEF ReportUnknown, Apply, Reconnect, storedVars
  <2>2. session' \in 1..MaxSessions /\ connected' \in BOOLEAN /\ shown' \in {shown, Unknown}
    <3>1. CASE ReportUnknown
      BY <3>1 DEF ReportUnknown, Apply
    <3>2. CASE Reconnect
      BY <3>2, ActuatorAssumption DEF Reconnect, storedVars
    <3>. QED BY <1>9, <3>1, <3>2
  <2>. QED BY <2>1, <2>2 DEF machineVars, habits, callVars
<1>10. CASE UNCHANGED vars
  BY <1>10 DEF vars, machineVars, habits, storedVars, callVars
<1>. QED
  BY <1>1, <1>2, <1>3, <1>4, <1>5, <1>6, <1>7, <1>8, <1>9, <1>10 DEF Next, Machine, Mishaps

-----------------------------------------------------------------------------
(* What the controller knows.                                              *)

LEMMA KnownKept == ASSUME TypeOK, Known, [Next]_vars PROVE Known'
<1>. USE DEF TypeOK, Unsent
<1>1. CASE Calls \/ Receive \/ GiveUp \/ UNCHANGED vars
  <2>1. /\ UNCHANGED <<machineVars, connected, storedVars>>
        /\ (pc # "sending" /\ pc' # "sending") \/ UNCHANGED <<pc, want>>
    BY <1>1 DEF Calls, Call, Receive, GiveUp, Return, vars, callVars
  <2>. QED
    BY <2>1
    DEF machineVars, habits, storedVars, Known, OnlyRetracts, ExtendsLast, Calm, Extending,
        Retracting, OneOrder, NoOrders, AtRest
<1>2. CASE Refuse \/ AlreadyThere
  BY <1>2
  DEF Refuse, AlreadyThere, Return, machineVars, habits, storedVars, Known, OnlyRetracts,
      ExtendsLast, Calm, Extending, Retracting, OneOrder, NoOrders, AtRest
<1>3. CASE Mark
  <2>1. /\ Calm /\ connected /\ pc # "sending" /\ pc' = "sending" /\ pending'
        /\ UNCHANGED <<early, probe, link, accepted, connected, shown, want>>
        /\ target' = PositionOf(want) /\ transition' = (shown \in Between)
        /\ shown # PositionOf(want) /\ (want => shown = 0)
    BY <1>3 DEF Mark, Marked, Refused, NotRetracted, Known, machineVars, habits
  <2>2. CASE want
    <3>0. target' = 1 /\ ~transition'
      <4>1. shown \notin Between
        BY <2>1, <2>2 DEF Between
      <4>. QED BY <2>1, <2>2, <4>1 DEF PositionOf
    <3>1. ExtendsLast' /\ target' = 1 /\ ~transition'
      BY <2>1, <2>2, <3>0 DEF Calm, OnlyRetracts, ExtendsLast
    <3>2. early => OneOrder'
      BY <2>1 DEF Calm, OneOrder, NoOrders
    <3>. QED BY <2>1, <3>1, <3>2 DEF Known, Extending
  <2>3. CASE ~want
    BY <2>1, <2>3
    DEF Known, Calm, OnlyRetracts, Retracting, OneOrder, NoOrders, PositionOf, AtRest
  <2>. QED BY <2>2, <2>3
<1>4. CASE Send
  <2>1. /\ connected /\ pc = "sending" /\ pc' # "sending"
        /\ UNCHANGED <<early, probe, accepted, connected, shown, pending, target, transition, want>>
        /\ link' = Append(link, IF want THEN "extend" ELSE "retract")
    BY <1>4 DEF Send, Return, habits, storedVars
  <2>2. /\ link' # <<>> /\ Len(link') = Len(link) + 1 /\ Len(link) \in Nat
        /\ link'[Len(link')] = (IF want THEN "extend" ELSE "retract")
        /\ \A i \in 1..Len(link) : link'[i] = link[i]
        /\ link = <<>> <=> Len(link) = 0
    BY <2>1, Given DEF Orders
  <2>3. CASE want
    <3>1. ExtendsLast /\ pending /\ target = 1 /\ ~transition
      BY <2>1, <2>3 DEF Known, OnlyRetracts, Calm, Extending, Retracting, NoOrders
    <3>2. ExtendsLast'
      BY <2>1, <2>2, <2>3, <3>1 DEF ExtendsLast
    <3>. QED BY <2>1, <2>2, <3>1, <3>2 DEF Known, Extending, OneOrder
  <2>4. CASE ~want
    <3>1. OnlyRetracts /\ (OnlyRetracts)'
      BY <2>1, <2>2, <2>4 DEF Known, OnlyRetracts, ExtendsLast
    <3>2. early => OneOrder'
      BY <2>1, <2>2 DEF Known, OneOrder
    <3>3. ~pending => Calm'
      BY <2>1, <2>2, <3>1 DEF Known, Calm
    <3>4. ~(pending /\ target = 1)
      BY <2>1, <2>4 DEF Known, Extending, ExtendsLast
    <3>5. pending /\ target = 0 => Retracting'
      BY <2>1, <3>1 DEF Known, Retracting, AtRest
    <3>. QED BY <2>1, <3>1, <3>2, <3>3, <3>4, <3>5 DEF Known
  <2>. QED BY <2>3, <2>4
<1>5. CASE Report
  <2>1. /\ connected /\ UNCHANGED <<early, probe, link, accepted, connected, pc, want>>
        /\ Apply(Reading)
    BY <1>5 DEF Report, habits, callVars
  <2>2. /\ Reading \in {2, 3} <=> ~AtRest
        /\ ~(early /\ accepted # "none") /\ Reading = 0 => probe = "in"
        /\ ~(early /\ accepted # "none") /\ Reading = 1 => probe = "out"
    BY DEF Reading, AtRest, PositionOf
  <2>3. CASE ~pending
    <3>1. shown' = Reading /\ pending' = pending /\ Calm
      BY <2>1, <2>3 DEF Apply, Known
    <3>2. Calm'
      BY <2>1, <2>2, <3>1 DEF Calm, OnlyRetracts, NoOrders, AtRest, Between
    <3>. QED BY <2>1, <2>3, <3>1, <3>2 DEF Known, OneOrder, OnlyRetracts, ExtendsLast
  <2>4. CASE pending /\ Reading \in Between
    <3>1. shown' = Reading /\ UNCHANGED <<pending, target>> /\ ~AtRest
      BY <2>1, <2>2, <2>4, ReadingTyped DEF Apply, Between, Unknown
    <3>. QED
      BY <2>1, <2>4, <3>1
      DEF Known, OneOrder, OnlyRetracts, ExtendsLast, Extending, Retracting, NoOrders, AtRest
  <2>5. CASE pending /\ Reading \notin Between /\ Settles(Reading)
    <3>0. Reading # Unknown /\ Reading = target /\ transition /\ AtRest
      BY <2>2, <2>5, ReadingTyped DEF Settles, Between, Unknown
    <3>1. shown' = Reading /\ ~pending' /\ Reading = target /\ AtRest /\ transition
      BY <2>1, <2>5, <3>0 DEF Apply
    <3>2. CASE target = 1
      <4>1. NoOrders /\ ~Unsent /\ probe = "out"
        BY <2>1, <2>2, <2>5, <3>1, <3>2 DEF Known, Extending, NoOrders
      <4>2. Calm'
        BY <2>1, <3>1, <3>2, <4>1 DEF Calm, OnlyRetracts, NoOrders, AtRest, Between
      <4>. QED BY <2>1, <3>1, <4>2 DEF Known, OneOrder, Calm
    <3>3. CASE target = 0
      <4>1. Retracting /\ probe = "in"
        BY <2>1, <2>2, <2>5, <3>1, <3>3 DEF Known, Retracting, NoOrders
      <4>2. Calm'
        BY <2>1, <3>1, <3>3, <4>1 DEF Calm, Retracting, OnlyRetracts, NoOrders, AtRest, Between
      <4>. QED BY <2>1, <3>1, <4>2 DEF Known, OneOrder, Calm
    <3>. QED BY <3>2, <3>3
  <2>6. CASE pending /\ Reading \notin Between /\ ~Settles(Reading)
    <3>1. UNCHANGED <<pending, target, transition>>
      BY <2>1, <2>6, ReadingTyped DEF Apply, Unknown
    <3>. QED
      BY <2>1, <2>6, <3>1
      DEF Known, OneOrder, OnlyRetracts, ExtendsLast, Extending, Retracting, NoOrders, AtRest
  <2>. QED BY <2>3, <2>4, <2>5, <2>6
<1>6. CASE ReportUnknown
  <2>1. /\ UNCHANGED <<early, probe, link, accepted, connected, pc, want, pending, target, transition>>
        /\ shown' = Unknown
    BY <1>6 DEF ReportUnknown, Apply, machineVars, habits, callVars
  <2>. QED
    BY <2>1
    DEF Known, OneOrder, OnlyRetracts, ExtendsLast, Calm, Extending, Retracting, NoOrders,
        AtRest, Unknown, Between
<1>7. CASE Accept
  <2>1. /\ UNCHANGED <<early, probe, connected, pc, want, shown, pending, target, transition>>
        /\ link # <<>> /\ accepted = "none" /\ link' = Tail(link) /\ accepted' = Head(link)
    BY <1>7 DEF Accept, habits, storedVars, callVars
  <2>2. /\ Len(link') = Len(link) - 1 /\ accepted' = link[1] /\ accepted' \in Orders
        /\ Len(link) \in Nat \ {0}
        /\ \A i \in 1..Len(link') : link'[i] = link[i + 1]
        /\ link' = <<>> <=> Len(link) = 1
    BY <2>1, Taken DEF Orders
  <2>3. OnlyRetracts => OnlyRetracts'
    BY <2>1, <2>2 DEF OnlyRetracts
  <2>4. ExtendsLast => ExtendsLast'
    <3>1. CASE Len(link) = 1
      BY <2>1, <2>2, <3>1 DEF ExtendsLast
    <3>2. CASE Len(link) # 1
      BY <2>1, <2>2, <3>2 DEF ExtendsLast
    <3>. QED BY <3>1, <3>2
  <2>5. OneOrder => OneOrder'
    BY <2>1, <2>2 DEF OneOrder
  <2>. QED
    BY <2>1, <2>3, <2>4, <2>5
    DEF Known, Calm, Extending, Retracting, NoOrders, AtRest
<1>8. CASE StartMotion
  <2>1. /\ UNCHANGED <<early, link, connected, pc, want, shown, pending, target, transition>>
        /\ accepted # "none" /\ accepted' = "none" /\ pc # "sending" /\ AtRest
        /\ probe' = IF accepted = "extend" THEN IF probe = "out" THEN "out" ELSE "extending"
                    ELSE IF probe = "in" THEN "in" ELSE "retracting"
    BY <1>8 DEF StartMotion, Quick, habits, storedVars, callVars
  <2>2. CASE OnlyRetracts
    <3>1. OnlyRetracts' /\ (probe = "in" => probe' = "in")
      BY <2>1, <2>2 DEF OnlyRetracts
    <3>2. ~ExtendsLast
      BY <2>1, <2>2 DEF OnlyRetracts, ExtendsLast
    <3>. QED
      BY <2>1, <3>1, <3>2 DEF Known, Calm, Extending, Retracting, OneOrder, NoOrders, AtRest
  <2>3. CASE ExtendsLast
    <3>1. ~OnlyRetracts
      BY <2>1, <2>3 DEF OnlyRetracts, ExtendsLast
    <3>2. CASE accepted = "extend"
      <4>1. link = <<>> /\ probe' = "extending"
        BY <2>1, <2>3, <3>2 DEF ExtendsLast
      <4>2. OnlyRetracts'
        BY <2>1, <4>1 DEF OnlyRetracts
      <4>. QED
        BY <2>1, <3>1, <3>2, <4>1, <4>2 DEF Known, Calm, Extending, Retracting, OneOrder, NoOrders
    <3>3. CASE accepted # "extend"
      <4>1. ExtendsLast' /\ probe' = "in"
        BY <2>1, <2>3, <3>3 DEF ExtendsLast
      <4>. QED
        BY <2>1, <3>1, <3>3, <4>1 DEF Known, Calm, Extending, Retracting, OneOrder, NoOrders
    <3>. QED BY <3>2, <3>3
  <2>. QED BY <2>2, <2>3 DEF Known
<1>9. CASE EndMotion
  <2>1. /\ UNCHANGED <<early, link, accepted, connected, pc, want, shown, pending, target, transition>>
        /\ pc # "sending" /\ ~AtRest /\ link = <<>>
        /\ probe' = (IF probe = "extending" THEN "out" ELSE "in")
    BY <1>9 DEF EndMotion, Quick, habits, storedVars, callVars
  <2>2. probe \notin {"in", "out"} /\ AtRest'
    BY <2>1 DEF AtRest
  <2>3. ~ExtendsLast /\ OnlyRetracts /\ OnlyRetracts'
    BY <2>1, <2>2 DEF ExtendsLast, OnlyRetracts, Known
  <2>. QED
    BY <2>1, <2>2, <2>3 DEF Known, Calm, Extending, Retracting, OneOrder, NoOrders
<1>10. CASE SendFails \/ Disconnect
  <2>1. /\ UNCHANGED <<probe, link, accepted, want>> /\ pc' # "sending" /\ ~connected'
    BY <1>10 DEF SendFails, Disconnect, Invalidate, Return, machineVars, habits
  <2>. QED
    BY <1>10, <2>1
    DEF SendFails, Disconnect, Invalidate, Known, OnlyRetracts, ExtendsLast
<1>11. CASE Reconnect
  <2>1. /\ UNCHANGED <<early, probe, link, accepted, shown, pending, target, transition, pc, want>>
        /\ ~early /\ link = <<>> /\ accepted = "none" /\ ~connected
    BY <1>11 DEF Reconnect, machineVars, habits, storedVars, callVars
  <2>. QED
    BY <2>1 DEF Known, OnlyRetracts, ExtendsLast, Calm, NoOrders, Unknown
<1>. QED
  BY <1>1, <1>2, <1>3, <1>4, <1>5, <1>6, <1>7, <1>8, <1>9, <1>10, <1>11
  DEF Next, Check, Machine, Mishaps

-----------------------------------------------------------------------------
(* What actuate() is told.                                                 *)

\* A report of the end position that is waited for, in a machine that does not
\* report early, is one of a probe that is there with nothing to do.
LEMMA HeardIsThere ==
  ASSUME TypeOK, Known, connected, ~early, Reading = PositionOf(want),
         want => ~(pending /\ target = 0)
  PROVE  /\ probe = (IF want THEN "out" ELSE "in")
         /\ want => NoOrders
<1>1. probe = (IF want THEN "out" ELSE "in")
  BY DEF Reading, PositionOf, AtRest, TypeOK
<1>2. want => NoOrders
  BY <1>1 DEF Known, Calm, Extending, ExtendsLast, TypeOK
<1>. QED BY <1>1, <1>2

\* What a report adds to the ones a routine has not looked at.
LEMMA HeardMore ==
  ASSUME TypeOK, NEW report, rx' = rx \/ rx' = Append(rx, report), want' = want, Heard'
  PROVE  Heard \/ report = PositionOf(want)
<1>1. PICK i \in 1..Len(rx') : rx'[i] = PositionOf(want)
  BY DEF Heard, PositionOf
<1>2. CASE rx' = rx
  BY <1>1, <1>2 DEF Heard
<1>3. CASE rx' = Append(rx, report)
  <2>1. /\ i \in 1..(Len(rx) + 1) /\ Len(rx) \in Nat
        /\ rx'[i] = IF i = Len(rx) + 1 THEN report ELSE rx[i]
    BY <1>1, <1>3 DEF TypeOK
  <2>. QED BY <1>1, <2>1 DEF Heard
<1>. QED BY <1>2, <1>3

\* Looking at one leaves the others.
LEMMA HeardLess ==
  ASSUME TypeOK, rx # <<>>, rx' = Tail(rx), want' = want, Heard'
  PROVE  Heard
<1>1. PICK i \in 1..Len(rx') : rx'[i] = PositionOf(want)
  BY DEF Heard, PositionOf
<1>2. i + 1 \in 1..Len(rx) /\ rx'[i] = rx[i + 1]
  BY <1>1 DEF TypeOK
<1>. QED BY <1>1, <1>2 DEF Heard

LEMMA WaitedKept == ASSUME TypeOK, Known, Waited, [Next]_vars PROVE Waited'
<1>. USE DEF TypeOK, Unsent
<1>. SUFFICES ASSUME waits', ~early
              PROVE  Waited'
  BY DEF Waited, Next, Calls, Call, Check, Refuse, AlreadyThere, Mark, Send, Receive, Report,
     Machine, Accept, StartMotion, EndMotion, Mishaps, SendFails, GiveUp, ReportUnknown,
     Disconnect, Reconnect, machineVars, habits, callVars, vars
<1>1. CASE Calls
  <2>1. /\ pc' = "checking" /\ outcome' = "none" /\ ~Heard'
        /\ ~want' => probe_extended
        /\ already' = (probe_extended = want')
        /\ UNCHANGED <<probe, link, accepted>>
    BY <1>1 DEF Calls, Call, Heard, machineVars, habits
  <2>2. probe_extended => NoOrders /\ probe = "out"
    BY DEF probe_extended, Known, Calm, NoOrders
  <2>3. already' => want' /\ probe = "out"
    BY <2>1, <2>2
  <2>. QED BY <2>1, <2>2, <2>3 DEF Waited, NoOrders
<1>2. CASE Refuse
  BY <1>2 DEF Refuse, Return, Waited
<1>3. CASE AlreadyThere
  <2>1. /\ pc = "checking" /\ connected /\ ~pending /\ shown = PositionOf(want)
        /\ UNCHANGED <<early, probe, link, accepted, connected, pending, target, waits, want, rx>>
        /\ (pc' = "waiting" /\ outcome' = outcome) \/ (pc' = "idle" /\ outcome' = "ok")
        /\ waits
    BY <1>3
    DEF AlreadyThere, Refused, Return, machineVars, habits, storedVars
  <2>2. want
    <3>1. CASE ~want
      <4>1. shown = 0 /\ probe = "out"
        BY <2>1, <3>1 DEF Waited, PositionOf
      <4>. QED BY <2>1, <4>1 DEF Known, Calm
    <3>. QED BY <3>1
  <2>3. There
    BY <2>1, <2>2 DEF Known, Calm, There, NoOrders, PositionOf
  <2>4. There' /\ (Heard' <=> Heard)
    BY <2>1, <2>3 DEF There, NoOrders, Heard, PositionOf
  <2>5. outcome # "ok"
    BY <2>1 DEF Waited
  <2>. QED BY <2>1, <2>2, <2>4, <2>5 DEF Waited
<1>4. CASE Mark
  <2>1. /\ pc = "checking" /\ pc' = "sending" /\ connected /\ ~pending /\ waits
        /\ UNCHANGED <<early, probe, link, accepted, waits, want, rx, outcome>>
        /\ want => shown = 0
    BY <1>4 DEF Mark, Refused, NotRetracted, machineVars, habits
  <2>2. ~Heard
    <3>1. want => probe = "in"
      BY <2>1 DEF Known, Calm
    <3>. QED BY <2>1, <3>1 DEF Waited
  <2>3. ~Heard'
    BY <2>1, <2>2 DEF Heard, PositionOf
  <2>4. outcome # "ok" /\ ~already /\ already' = already
    BY <1>4, <2>1 DEF Mark, Waited, Known, Calm
  <2>. QED BY <2>1, <2>3, <2>4 DEF Waited, NoOrders
<1>5. CASE Send
  <2>1. /\ pc = "sending" /\ connected /\ waits
        /\ UNCHANGED <<early, probe, accepted, connected, pending, target, waits, want, rx>>
        /\ link' = Append(link, IF want THEN "extend" ELSE "retract")
    BY <1>5 DEF Send, habits, storedVars
  <2>2. ~Heard /\ ~Heard'
    BY <2>1 DEF Waited, Heard, PositionOf
  <2>3. pc' = "waiting" /\ outcome' = outcome /\ outcome # "ok"
    BY <1>5, <2>1 DEF Send, Waited
  <2>4. want => ~(pending /\ target = 0)
    BY <2>1 DEF Known, OnlyRetracts, Calm, Retracting
  <2>5. ~want => probe = "out" /\ (OneOrder /\ OnlyRetracts /\ ~NoOrders)'
    <3>1. CASE ~want
      <4>1. NoOrders /\ probe = "out"
        BY <2>1, <3>1 DEF Waited
      <4>2. link' # <<>> /\ Len(link') = 1 /\ link'[1] = "retract"
        BY <2>1, <3>1, <4>1 DEF NoOrders
      <4>. QED BY <2>1, <2>3, <4>1, <4>2 DEF OneOrder, OnlyRetracts, NoOrders
    <3>. QED BY <3>1
  <2>. QED BY <2>1, <2>2, <2>3, <2>4, <2>5 DEF Waited
<1>6. CASE Receive
  <2>1. /\ pc = "waiting" /\ rx # <<>> /\ rx' = Tail(rx) /\ waits
        /\ UNCHANGED <<early, probe, link, accepted, connected, pending, target, waits, want, already>>
        /\ Head(rx) = rx[1] /\ 1 \in 1..Len(rx)
    BY <1>6, First DEF Receive, machineVars, habits, storedVars
  <2>2. There' <=> There
    BY <2>1 DEF There, NoOrders
  <2>3. CASE Confirmed(Head(rx))
    <3>1. pc' = "idle" /\ outcome' = "ok"
      BY <1>6, <2>3 DEF Receive, Return
    <3>2. There
      BY <2>1, <2>3 DEF Confirmed, Confirms, Heard, Waited
    <3>. QED BY <2>1, <2>2, <3>1, <3>2 DEF Waited
  <2>4. CASE ~Confirmed(Head(rx))
    <3>1. UNCHANGED <<pc, outcome>>
      BY <1>6, <2>4 DEF Receive
    <3>2. Heard' => Heard
      BY <2>1, HeardLess
    <3>. QED BY <2>1, <2>2, <3>1, <3>2 DEF Waited, NoOrders, OneOrder, OnlyRetracts
  <2>. QED BY <2>3, <2>4
<1>7. CASE GiveUp \/ SendFails
  BY <1>7 DEF GiveUp, SendFails, Return, Waited
<1>8. CASE Report
  <2>1. /\ connected /\ waits /\ (rx' = rx \/ rx' = Append(rx, Reading))
        /\ UNCHANGED <<early, probe, link, accepted, connected, pc, waits, want, already, outcome>>
        /\ Apply(Reading)
    BY <1>8 DEF Report, habits, callVars
  <2>2. Heard' => Heard \/ Reading = PositionOf(want)
    BY <2>1, HeardMore
  <2>3. /\ probe = "in" => Reading = 0
        /\ probe = "out" => Reading = 1
    BY DEF Reading, AtRest, PositionOf
  <2>4. pending' => pending /\ target' = target
    BY <2>1 DEF Apply
  <2>5. pending /\ target = 0 /\ Reading = 1 => pending' /\ target' = 0
    BY <2>1 DEF Apply, Settles, Between, Unknown
  <2>6. There' <=> There
    BY <2>1 DEF There, NoOrders
  <2>7. pc = "checking" /\ ~want => ~Heard'
    BY <2>1, <2>2, <2>3 DEF Waited, PositionOf
  <2>8. pc = "checking" /\ want /\ Heard' =>
          probe = "out" /\ (NoOrders \/ (pending' /\ target' = 0))
    <3>1. SUFFICES ASSUME pc = "checking", want, Heard'
                   PROVE  probe = "out" /\ (NoOrders \/ (pending' /\ target' = 0))
      OBVIOUS
    <3>2. CASE Heard
      BY <2>1, <2>3, <2>5, <3>1, <3>2 DEF Waited
    <3>3. CASE Reading = PositionOf(want) /\ pending /\ target = 0
      BY <2>1, <2>5, <3>1, <3>3 DEF Reading, PositionOf, AtRest
    <3>4. CASE Reading = PositionOf(want) /\ ~(pending /\ target = 0)
      BY <2>1, <3>1, <3>4, HeardIsThere
    <3>. QED BY <2>2, <3>1, <3>2, <3>3, <3>4
  <2>9. Unsent => ~Heard'
    <3>1. Unsent /\ want => probe = "in"
      BY <2>1 DEF Known, OnlyRetracts, ExtendsLast
    <3>2. Unsent /\ ~want => probe = "out"
      BY <2>1 DEF Waited
    <3>. QED BY <2>1, <2>2, <2>3, <3>1, <3>2 DEF Waited, PositionOf
  <2>10. pc = "waiting" /\ Heard' => There
    <3>1. SUFFICES ASSUME pc = "waiting", ~Heard, Reading = PositionOf(want) PROVE There
      BY <2>1, <2>2 DEF Waited
    <3>2. probe = (IF want THEN "out" ELSE "in") /\ (want => NoOrders)
      BY <2>1, <3>1, HeardIsThere DEF Waited
    <3>. QED BY <2>1, <3>1, <3>2 DEF Waited, There
  <2>. QED
    BY <2>1, <2>4, <2>6, <2>7, <2>8, <2>9, <2>10 DEF Waited, NoOrders, OneOrder, OnlyRetracts
<1>9. CASE ReportUnknown \/ UNCHANGED vars
  <2>1. UNCHANGED <<early, probe, link, accepted, connected, pc, waits, want, already, outcome,
                    pending, target, rx>>
    BY <1>9 DEF ReportUnknown, Apply, machineVars, habits, storedVars, callVars, vars
  <2>. QED BY <2>1 DEF Waited, There, Heard, NoOrders, OneOrder, OnlyRetracts, PositionOf
<1>10. CASE Accept
  <2>1. /\ UNCHANGED <<early, probe, connected, pc, waits, want, already, outcome, pending, target, rx>>
        /\ link # <<>> /\ accepted = "none" /\ accepted' = Head(link) /\ link' = Tail(link)
        /\ waits
    BY <1>10 DEF Accept, habits, storedVars, callVars
  <2>2. ~There /\ ~NoOrders /\ (Heard' <=> Heard)
    BY <2>1 DEF There, NoOrders, Heard, PositionOf
  <2>3. pc = "waiting" /\ ~want => (OneOrder /\ OnlyRetracts /\ ~NoOrders)' /\ probe = "out"
    <3>1. SUFFICES ASSUME pc = "waiting", ~want
                   PROVE  (OneOrder /\ OnlyRetracts /\ ~NoOrders)' /\ probe = "out"
      OBVIOUS
    <3>2. probe = "out" /\ OneOrder /\ OnlyRetracts
      BY <2>1, <2>2, <3>1 DEF Waited
    <3>3. link' = <<>> /\ accepted' = "retract"
      BY <2>1, <3>2, Taken DEF OneOrder, OnlyRetracts, Orders
    <3>. QED BY <2>1, <3>1, <3>2, <3>3, Empty DEF OneOrder, OnlyRetracts, NoOrders
  <2>. QED BY <2>1, <2>2, <2>3 DEF Waited
<1>11. CASE StartMotion
  <2>1. /\ UNCHANGED <<early, link, connected, pc, waits, want, already, outcome, pending, target, rx>>
        /\ pc \notin {"checking", "sending"} /\ accepted # "none" /\ accepted' = "none" /\ waits
        /\ probe' = IF accepted = "extend" THEN IF probe = "out" THEN "out" ELSE "extending"
                    ELSE IF probe = "in" THEN "in" ELSE "retracting"
    BY <1>11 DEF StartMotion, Quick, habits, storedVars, callVars
  <2>2. ~There /\ ~NoOrders /\ (Heard' <=> Heard)
    BY <2>1 DEF There, NoOrders, Heard, PositionOf
  <2>3. pc = "waiting" /\ ~want => NoOrders' /\ probe' = "retracting"
    BY <2>1, <2>2 DEF Waited, OneOrder, OnlyRetracts, NoOrders
  <2>. QED BY <2>1, <2>2, <2>3 DEF Waited
<1>12. CASE EndMotion
  <2>1. /\ UNCHANGED <<early, link, accepted, connected, pc, waits, want, already, outcome, pending,
                       target, rx>>
        /\ pc \notin {"checking", "sending"} /\ ~AtRest /\ waits
        /\ probe' = (IF probe = "extending" THEN "out" ELSE "in")
    BY <1>12 DEF EndMotion, Quick, habits, storedVars, callVars
  <2>2. ~There /\ (Heard' <=> Heard)
    BY <2>1 DEF There, AtRest, Heard, PositionOf
  <2>3. pc = "waiting" /\ ~want => NoOrders' /\ probe' = "in"
    BY <2>1 DEF Waited, AtRest, NoOrders
  <2>. QED BY <2>1, <2>2, <2>3 DEF Waited
<1>13. CASE Disconnect
  <2>1. /\ UNCHANGED <<early, probe, link, accepted, waits, want, already, rx>>
        /\ waits /\ pc # "sending" /\ ~connected'
        /\ \/ pc = "waiting" /\ pc' = "idle" /\ outcome' = "failed"
           \/ pc # "waiting" /\ UNCHANGED <<pc, outcome>>
    BY <1>13 DEF Disconnect, Invalidate, Return, machineVars, habits
  <2>. QED BY <2>1 DEF Waited, There, Heard, NoOrders, PositionOf
<1>14. CASE Reconnect
  <2>1. /\ UNCHANGED <<early, probe, link, accepted, waits, want, already, rx, pc, outcome>>
        /\ waits /\ ~connected /\ link = <<>> /\ accepted = "none"
    BY <1>14 DEF Reconnect, machineVars, habits, callVars
  <2>. QED BY <2>1 DEF Waited, Known, There, Heard, NoOrders, PositionOf
<1>. QED
  BY <1>1, <1>2, <1>3, <1>4, <1>5, <1>6, <1>7, <1>8, <1>9, <1>10, <1>11, <1>12, <1>13, <1>14
  DEF Next, Check, Machine, Mishaps

-----------------------------------------------------------------------------
(* The theorems.                                                           *)

\* A controller that has just connected to a machine at rest.
LEMMA InitKnown == Init => Known /\ Waited
<1>. SUFFICES ASSUME Init PROVE Known /\ Waited
  OBVIOUS
<1>1. link = <<>> /\ \A i \in 1..Len(link) : link[i] = "retract"
  BY DEF Init
<1>. QED
  BY <1>1
  DEF Init, Known, Waited, OnlyRetracts, Calm, OneOrder, NoOrders, Unsent, AtRest, Unknown, Between

\* The strengthening of the invariants below, for any number of connections.
THEOREM Inductive == Spec => []AInv
<1>1. AInv /\ [Next]_vars => AInv'
  BY TypesKept, KnownKept, WaitedKept DEF AInv
<1>2. Init => AInv
  BY InitTypes, InitKnown DEF AInv
<1>. QED BY <1>1, <1>2, PTL DEF Spec

\* Types, for any number of orders and reports.
THEOREM TypeCorrect == Spec => []TypeOK
<1>1. AInv => TypeOK
  BY DEF AInv
<1>. QED BY <1>1, Inductive, PTL

\* A probe that the controller calls extended is out and stays out.
THEOREM OutWhenExtended == Spec => []ExtendedIsOut
<1>1. AInv => ExtendedIsOut
  BY DEF AInv, Known, Calm, OnlyRetracts, ExtendedIsOut, probe_extended, NoOrders
<1>. QED BY <1>1, Inductive, PTL

\* No order to extend comes to a probe that retracts or is about to.
THEOREM RetractsFirst == Spec => []NoExtendWhileRetracting
<1>1. AInv => NoExtendWhileRetracting
  <2>. SUFFICES ASSUME AInv, link # <<>>, Head(link) = "extend" PROVE probe = "in"
    BY DEF NoExtendWhileRetracting
  <2>1. link[1] = "extend" /\ 1 \in 1..Len(link)
    BY Taken DEF AInv, TypeOK, Orders
  <2>2. ~OnlyRetracts
    BY <2>1 DEF OnlyRetracts
  <2>. QED BY <2>2 DEF AInv, Known, ExtendsLast
<1>. QED BY <1>1, Inductive, PTL

\* actuate() returns when the probe is where it was sent, unless the machine
\* reports the end position early.
THEOREM ActuateArrives == Spec => []ActuatedIsThere
<1>1. AInv => ActuatedIsThere
  BY DEF AInv, Waited, There, NoOrders, ActuatedIsThere
<1>. QED BY <1>1, Inductive, PTL
===============================================================================
