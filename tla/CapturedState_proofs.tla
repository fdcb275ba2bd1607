-------------------------- MODULE CapturedState_proofs --------------------------
(***************************************************************************)
(* What an operation borrows it gives back: the proofs about CapturedState. *)
(***************************************************************************)
EXTENDS CapturedState, SequenceTheorems, TLAPS

(***************************************************************************)
(* The types.                                                              *)

Rotations == {f.rotation : f \in Found} \cup {Unrotated, Measured}
Machines == [modes : Modes, rotation : Rotations, plane : 17..19,
             origin : {"old", "new", "wrong"}, moving : BOOLEAN, touching : BOOLEAN,
             blocked : BOOLEAN]
Snapshots == [ready : BOOLEAN, touching : BOOLEAN, blocked : BOOLEAN, modes : Modes]
Changes == [zero : BOOLEAN, rotation : Rotations \cup {None}]
Plain == {"$G", "$#", "move", "arc", "jog", "unheard"}
WireLines == [is : Plain, v : {None}] \cup [is : {"modes"}, v : Modes]
             \cup [is : {"plane"}, v : 17..19] \cup [is : {"write"}, v : Changes]
Questions == {"$G", "$#"}
Reviews == [modes : Modes, rotation : Rotations, plane : 17..19,
            stage : {"ready", "taken", "completed"}]
Active == {"run", "sent", "wait", "moving"}
Pcs == Active \cup {"idle", "over", "recover", "recovered"}
AllOps == Motions \cup Writes \cup {"review"}

Types ==
  /\ machine \in Machines /\ seen \in Snapshots /\ wire \in Seq(WireLines) /\ link \in BOOLEAN
  /\ reviewed = <<>> \/ reviewed \in Reviews
  /\ op \in AllOps \cup {None} /\ pc \in Pcs
  /\ captured \in Modes \cup {None} /\ recovery \in BOOLEAN
  /\ cause \in Errors \cup {"ok"} /\ verdict \in Errors \cup {"ok"}
  /\ stop \in {"no", "asked", "late"}

(***************************************************************************)
(* Where an operation is: in a part it has, at one of its instructions.    *)

PartsOf(o) ==
  CASE o = "review" -> {"prepare"}
    [] o = "rotary" -> {"work", "restore", "again"}
    [] o = "measured" -> {"prepare", "work", "restore", "again"}
    [] o = "angle" -> {"clear", "prepare", "work", "restore", "rotation"}
    [] o = "rotate" -> {"prepare", "work"}
    [] OTHER -> {"prepare", "work", "restore"}
Steps == PartOf(op, part)
\* Operations that ask for the modes they find, and those that need a review.
Askers == {"measured", "return", "repeat", "zero", "recorded", "rotaryzero", "levelzero", "align"}
NeedsReview == Reviewed \cup ResultActions

At(n) ==
  /\ n \in 1..Len(Steps) /\ todo = SubSeq(Steps, n, Len(Steps))
  /\ \A m \in 1..n-1 : Steps[m].do = "modes" => captured \in Modes
(***************************************************************************)
(* Sequences.                                                              *)

\* A line joins the end of the wire.
LEMMA Appended ==
  ASSUME NEW S, NEW q \in Seq(S), NEW x \in S
  PROVE  /\ Append(q, x) \in Seq(S) /\ Len(Append(q, x)) = Len(q) + 1
         /\ DOMAIN Append(q, x) = 1..(Len(q) + 1)
         /\ \A k \in 1..Len(q) : Append(q, x)[k] = q[k]
         /\ Append(q, x)[Len(q) + 1] = x
  OBVIOUS

\* The first line leaves it.
LEMMA Tailed ==
  ASSUME NEW S, NEW q \in Seq(S), q # <<>>
  PROVE  /\ Tail(q) \in Seq(S) /\ Len(Tail(q)) = Len(q) - 1 /\ Len(q) >= 1
         /\ DOMAIN Tail(q) = 1..(Len(q) - 1)
         /\ \A k \in 1..(Len(q) - 1) : Tail(q)[k] = q[k + 1]
         /\ Head(q) = q[1] /\ Head(q) \in S
  OBVIOUS

\* What is left of a part from an instruction on.
LEMMA FromThere ==
  ASSUME NEW S, NEW q \in Seq(S), NEW n \in 1..Len(q)
  PROVE  /\ SubSeq(q, n, Len(q)) # <<>>
         /\ Head(SubSeq(q, n, Len(q))) = q[n] /\ q[n] \in S
         /\ Tail(SubSeq(q, n, Len(q))) = SubSeq(q, n + 1, Len(q))
         /\ Tail(SubSeq(q, n, Len(q))) = <<>> <=> n = Len(q)
PROOF
  <1>1. /\ Head(SubSeq(q, n, Len(q))) = q[n]
        /\ Tail(SubSeq(q, n, Len(q))) = SubSeq(q, n + 1, Len(q))
    BY HeadTailOfSubSeq
  <1>2. SubSeq(q, n, Len(q)) \in Seq(S) /\ Len(SubSeq(q, n, Len(q))) = Len(q) - n + 1
    OBVIOUS
  <1>3. SubSeq(q, n + 1, Len(q)) \in Seq(S) /\ Len(SubSeq(q, n + 1, Len(q))) = Len(q) - n
    OBVIOUS
  <1> DEFINE t == SubSeq(q, n, Len(q))
             u == SubSeq(q, n + 1, Len(q))
  <1> HIDE DEF t, u
  <1>e. Len(<<>>) = 0 /\ Len(q) \in Nat
    BY LenProperties, EmptySeq
  <1>4. t # <<>>
    <2>1. Len(t) # 0
      BY <1>2, <1>e DEF t
    <2> QED BY <2>1, <1>e
  <1>5. u = <<>> <=> n = Len(q)
    <2>1. u \in Seq(S) /\ (Len(u) = 0 <=> n = Len(q))
      BY <1>3, <1>e DEF u
    <2>2. u # <<>> => Len(u) # 0
      BY <2>1, EmptySeq
    <2> QED BY <2>1, <2>2, <1>e
  <1> QED BY <1>1, <1>4, <1>5 DEF t, u

(***************************************************************************)
(* The instructions of the operations.                                     *)

Instructions ==
  [do : {"modes", "coordinates", "preflight", "zero", "jog", "stop"}, v : {None}]
  \cup [do : {"set", "change"}, v : {"probing", "metric", "captured", "reviewed"}]
  \cup [do : {"write"}, v : [zero : BOOLEAN, rotation : {None, Unrotated, Measured, "reviewed"}]]
  \cup [do : {"plane"}, v : {"reviewed"}] \cup [do : {"move"}, v : BOOLEAN]
\* Where the modes are set, and to what.
SetsWell(o, p, q, n) ==
  /\ q[n].do = "change" /\ p = "prepare" => n > 1 /\ q[n - 1].do = "modes" /\ q[n].v = "metric"
  /\ o \in Motions /\ p = "prepare" /\ n = Len(q) => q[n] = Set("probing")
  /\ o \in Motions /\ p \in {"prepare", "work"} /\ q[n].do = "set" => q[n].v = "probing"
  /\ o \in Writes \ {"rotate"} /\ p = "prepare" /\ n = Len(q) =>
       q[n].do \in {"set", "change"} /\ q[n].v = "metric"
  /\ o \in Writes /\ p = "work" => q[n].do \notin {"set", "change", "plane", "modes", "move", "jog"}
  /\ p = "work" => q[n].do \notin {"change", "plane"}
\* Where the machine moves and where a work zero is written.
WorksWell(o, p, q, n) ==
  /\ q[n].do \in Moves => o \in Motions /\ p = "work"
  /\ o \in Motions /\ p = "work" /\ n = Len(q) => q[n].do \in {"move", "stop"}
  /\ q[n].do \in {"jog", "stop"} => o = "repeat" /\ p = "work"
  /\ q[n].do = "move" => o = "repeat" \/ n = Len(q)
  /\ q[n].do = "zero" \/ (q[n].do = "write" /\ q[n].v.zero) => o \in Writes \ {"rotate"} /\ p = "work"
\* The motions of the repeatability check and the looks at the stop button.
RepeatsWell(o, p, q, n) ==
  o = "repeat" /\ p = "work" =>
    /\ Len(q) = 9 /\ (n \in {1, 3, 5, 7, 9} => q[n] = CheckStop)
    /\ (n \in {2, 8} => q[n] = Move(FALSE)) /\ (n = 4 => q[n] = Jog)
    /\ (n = 6 => q[n] = Set("probing"))
\* What the modes, the rotation and the plane that are given back are.
AsksWell(o, p, q, n) ==
  /\ q[n].do = "modes" => p = "prepare"
  /\ q[n].do \in {"set", "change"} /\ q[n].v \in {"captured", "metric"} =>
       o \in Askers /\ (p = "restore" \/ (p = "prepare" /\ \E m \in 1..n-1 : q[m].do = "modes"))
  /\ q[n].do \in {"set", "change", "plane"} /\ q[n].v = "reviewed" => o \in NeedsReview
  /\ q[n].do = "write" /\ q[n].v.rotation = "reviewed" => o \in NeedsReview
  /\ q[n].do = "change" => q[n].v # "reviewed"
  /\ o = "review" /\ q[n].do = "coordinates" => \E m \in 1..n-1 : q[m].do = "modes"
  /\ o \in Askers /\ p = "prepare" => \E m \in 1..Len(q) : q[m].do = "modes" /\ m # Len(q)
RestoresWell(o, p, q, n) ==
  /\ (p = "restore" \/ p = "again") /\ o = "rotary" =>
       /\ Len(q) = 4 /\ (n = 1 => q[n] = Ask("preflight")) /\ (n = 2 => q[n] = Rotate("reviewed"))
       /\ (n = 3 => q[n] = Do("plane", "reviewed")) /\ (n = 4 => q[n] = Set("reviewed"))
  /\ p = "restore" /\ o # "rotary" =>
       /\ Len(q) = 1
       /\ o \in Motions => q[n].do = "set"
       /\ q[n].do \in {"set", "change"}
       /\ q[n].v = IF o \in Reviewed THEN "reviewed" ELSE "captured"
  /\ p = "again" /\ o # "rotary" => o = "measured" /\ Len(q) = 1 /\ q[n] = Set("reviewed")
  /\ p = "rotation" => o = "angle" /\ Len(q) = 1 /\ q[n] = Rotate("reviewed")
  /\ p = "clear" => o = "angle" /\ Len(q) = 1 /\ q[n] = Rotate(Unrotated)

\* Every part an operation may be in is a sequence of such instructions.
LEMMA Shape ==
  ASSUME NEW o \in AllOps, NEW p \in PartsOf(o)
  PROVE  /\ PartOf(o, p) \in Seq(Instructions) /\ Len(PartOf(o, p)) >= 1
         /\ \A n \in 1..Len(PartOf(o, p)) :
              /\ SetsWell(o, p, PartOf(o, p), n) /\ WorksWell(o, p, PartOf(o, p), n)
              /\ AsksWell(o, p, PartOf(o, p), n) /\ RestoresWell(o, p, PartOf(o, p), n)
              /\ RepeatsWell(o, p, PartOf(o, p), n)
PROOF
  <1> USE DEF SetsWell, WorksWell, AsksWell, RestoresWell, RepeatsWell, Moves, Ask, Set, Do, Rotate, Write, Move,
              Motions, Writes, Askers, NeedsReview, Reviewed, ResultActions, None, Unrotated
  <1> DEFINE q == PartOf(o, p)
             Well(n) == /\ SetsWell(o, p, q, n) /\ WorksWell(o, p, q, n)
                        /\ AsksWell(o, p, q, n) /\ RestoresWell(o, p, q, n)
                        /\ RepeatsWell(o, p, q, n)
  <1>1. CASE o = "review" /\ p = "prepare"
    <2>1. q = <<Ask("modes"), Ask("coordinates")>>
      BY <1>1 DEF PartOf, Program, Parts, Review, query_rotary_state
    <2>2. q \in Seq(Instructions) /\ Len(q) = 2
      BY <2>1 DEF Instructions, Ask, Set, Rotate, Write, Move, Do
    <2>3. q[1] = Ask("modes") /\ q[2] = Ask("coordinates")
      BY <2>1
    <2> HIDE DEF q
    <2>4. \A n \in 1..2 : Well(n)
      BY <1>1, <2>2, <2>3 DEF Well
    <2> QED BY <2>2, <2>4 DEF q, Well
  <1>2. CASE o \in {"routine", "angle"} /\ p = "prepare"
    <2>1. q = <<Set("probing")>>
      BY <1>2 DEF PartOf, Program, Parts, Run
    <2>2. q \in Seq(Instructions) /\ Len(q) = 1
      BY <2>1 DEF Instructions, Ask, Set, Rotate, Write, Move, Do
    <2>3. q[1] = Set("probing")
      BY <2>1
    <2> HIDE DEF q
    <2>4. \A n \in 1..1 : Well(n)
      BY <1>2, <2>2, <2>3 DEF Well
    <2> QED BY <2>2, <2>4 DEF q, Well
  <1>3. CASE o \in {"routine", "angle", "measured", "return"} /\ p = "work"
    <2>1. q = <<Move(FALSE)>>
      BY <1>3 DEF PartOf, Program, Parts, OneMove, Run
    <2>2. q \in Seq(Instructions) /\ Len(q) = 1
      BY <2>1 DEF Instructions, Ask, Set, Rotate, Write, Move, Do
    <2>3. q[1] = Move(FALSE)
      BY <2>1
    <2> HIDE DEF q
    <2>4. \A n \in 1..1 : Well(n)
      BY <1>3, <2>2, <2>3 DEF Well
    <2> QED BY <2>2, <2>4 DEF q, Well
  <1>4. CASE o \in {"routine", "angle"} /\ p = "restore"
    <2>1. q = <<Set("reviewed")>>
      BY <1>4 DEF PartOf, Program, Parts, Run
    <2>2. q \in Seq(Instructions) /\ Len(q) = 1
      BY <2>1 DEF Instructions, Ask, Set, Rotate, Write, Move, Do
    <2>3. q[1] = Set("reviewed")
      BY <2>1
    <2> HIDE DEF q
    <2>4. \A n \in 1..1 : Well(n)
      BY <1>4, <2>2, <2>3 DEF Well
    <2> QED BY <2>2, <2>4 DEF q, Well
  <1>5. CASE o = "angle" /\ p = "clear"
    <2>1. q = <<Rotate(Unrotated)>>
      BY <1>5 DEF PartOf, Program, Parts, Run
    <2>2. q \in Seq(Instructions) /\ Len(q) = 1
      BY <2>1 DEF Instructions, Ask, Set, Rotate, Write, Move, Do
    <2>3. q[1] = Rotate(Unrotated)
      BY <2>1
    <2> HIDE DEF q
    <2>4. \A n \in 1..1 : Well(n)
      BY <1>5, <2>2, <2>3 DEF Well
    <2> QED BY <2>2, <2>4 DEF q, Well
  <1>6. CASE o = "angle" /\ p = "rotation"
    <2>1. q = <<Rotate("reviewed")>>
      BY <1>6 DEF PartOf, Program, Parts, Run
    <2>2. q \in Seq(Instructions) /\ Len(q) = 1
      BY <2>1 DEF Instructions, Ask, Set, Rotate, Write, Move, Do
    <2>3. q[1] = Rotate("reviewed")
      BY <2>1
    <2> HIDE DEF q
    <2>4. \A n \in 1..1 : Well(n)
      BY <1>6, <2>2, <2>3 DEF Well
    <2> QED BY <2>2, <2>4 DEF q, Well
  <1>7. CASE o = "rotary" /\ p = "work"
    <2>1. q = <<Set("probing"), Rotate(Unrotated), Move(TRUE)>>
      BY <1>7 DEF PartOf, Program, Parts, RunRotary, restore_rotary_state
    <2>2. q \in Seq(Instructions) /\ Len(q) = 3
      BY <2>1 DEF Instructions, Ask, Set, Rotate, Write, Move, Do
    <2>3. q[1] = Set("probing") /\ q[2] = Rotate(Unrotated) /\ q[3] = Move(TRUE)
      BY <2>1
    <2> HIDE DEF q
    <2>4. \A n \in 1..3 : Well(n)
      BY <1>7, <2>2, <2>3 DEF Well
    <2> QED BY <2>2, <2>4 DEF q, Well
  <1>8. CASE o = "rotary" /\ p = "restore"
    <2>1. q = <<Ask("preflight"), Rotate("reviewed"), Do("plane", "reviewed"), Set("reviewed")>>
      BY <1>8 DEF PartOf, Program, Parts, RunRotary, restore_rotary_state
    <2>2. q \in Seq(Instructions) /\ Len(q) = 4
      BY <2>1 DEF Instructions, Ask, Set, Rotate, Write, Move, Do
    <2>3. q[1] = Ask("preflight") /\ q[2] = Rotate("reviewed") /\ q[3] = Do("plane", "reviewed") /\ q[4] = Set("reviewed")
      BY <2>1
    <2> HIDE DEF q
    <2>4. \A n \in 1..4 : Well(n)
      <3>1. Well(1)
        BY <1>8, <2>2, <2>3 DEF Well
      <3>2. Well(2)
        BY <1>8, <2>2, <2>3 DEF Well
      <3>3. Well(3)
        BY <1>8, <2>2, <2>3 DEF Well
      <3>4. Well(4)
        BY <1>8, <2>2, <2>3 DEF Well
      <3> HIDE DEF Well
      <3> QED BY <3>1, <3>2, <3>3, <3>4
    <2> QED BY <2>2, <2>4 DEF q, Well
  <1>9. CASE o = "rotary" /\ p = "again"
    <2>1. q = <<Ask("preflight"), Rotate("reviewed"), Do("plane", "reviewed"), Set("reviewed")>>
      BY <1>9 DEF PartOf, Program, Parts, RunRotary, restore_rotary_state
    <2>2. q \in Seq(Instructions) /\ Len(q) = 4
      BY <2>1 DEF Instructions, Ask, Set, Rotate, Write, Move, Do
    <2>3. q[1] = Ask("preflight") /\ q[2] = Rotate("reviewed") /\ q[3] = Do("plane", "reviewed") /\ q[4] = Set("reviewed")
      BY <2>1
    <2> HIDE DEF q
    <2>4. \A n \in 1..4 : Well(n)
      <3>1. Well(1)
        BY <1>9, <2>2, <2>3 DEF Well
      <3>2. Well(2)
        BY <1>9, <2>2, <2>3 DEF Well
      <3>3. Well(3)
        BY <1>9, <2>2, <2>3 DEF Well
      <3>4. Well(4)
        BY <1>9, <2>2, <2>3 DEF Well
      <3> HIDE DEF Well
      <3> QED BY <3>1, <3>2, <3>3, <3>4
    <2> QED BY <2>2, <2>4 DEF q, Well
  <1>10. CASE o \in {"measured", "return", "repeat"} /\ p = "prepare"
    <2>1. q = <<Ask("modes"), Set("probing")>>
      BY <1>10 DEF PartOf, Program, Parts, OneMove, Repetitions
    <2>2. q \in Seq(Instructions) /\ Len(q) = 2
      BY <2>1 DEF Instructions, Ask, Set, Rotate, Write, Move, Do
    <2>3. q[1] = Ask("modes") /\ q[2] = Set("probing")
      BY <2>1
    <2> HIDE DEF q
    <2>4. \A n \in 1..2 : Well(n)
      BY <1>10, <2>2, <2>3 DEF Well
    <2> QED BY <2>2, <2>4 DEF q, Well
  <1>11. CASE o \in {"measured", "return", "repeat", "rotaryzero", "levelzero", "align"} /\ p = "restore"
    <2>1. q = <<Set("captured")>>
      BY <1>11 DEF PartOf, Program, Parts, OneMove, Repetitions, ZeroLevel, ZeroRotary
    <2>2. q \in Seq(Instructions) /\ Len(q) = 1
      BY <2>1 DEF Instructions, Ask, Set, Rotate, Write, Move, Do
    <2>3. q[1] = Set("captured")
      BY <2>1
    <2> HIDE DEF q
    <2>4. \A n \in 1..1 : Well(n)
      BY <1>11, <2>2, <2>3 DEF Well
    <2> QED BY <2>2, <2>4 DEF q, Well
  <1>12. CASE o = "measured" /\ p = "again"
    <2>1. q = <<Set("reviewed")>>
      BY <1>12 DEF PartOf, Program, Parts, OneMove
    <2>2. q \in Seq(Instructions) /\ Len(q) = 1
      BY <2>1 DEF Instructions, Ask, Set, Rotate, Write, Move, Do
    <2>3. q[1] = Set("reviewed")
      BY <2>1
    <2> HIDE DEF q
    <2>4. \A n \in 1..1 : Well(n)
      BY <1>12, <2>2, <2>3 DEF Well
    <2> QED BY <2>2, <2>4 DEF q, Well
  <1>13. CASE o = "repeat" /\ p = "work"
    <2>1. q = <<CheckStop, Move(FALSE), CheckStop, Jog, CheckStop, Set("probing"), CheckStop,
                Move(FALSE), CheckStop>>
      BY <1>13 DEF PartOf, Program, Parts, OneMove, Repetitions
    <2>2. q \in Seq(Instructions) /\ Len(q) = 9
      BY <2>1 DEF Instructions, Ask, Set, Move, Do, Jog, CheckStop
    <2>3. /\ q[1] = CheckStop /\ q[2] = Move(FALSE) /\ q[3] = CheckStop /\ q[4] = Jog
          /\ q[5] = CheckStop /\ q[6] = Set("probing") /\ q[7] = CheckStop /\ q[8] = Move(FALSE)
          /\ q[9] = CheckStop
      BY <2>1
    <2> HIDE DEF q
    <2> USE DEF Jog, CheckStop
    <2>4. \A n \in 1..9 : Well(n)
      <3>1. Well(1)
        BY <1>13, <2>2, <2>3 DEF Well
      <3>2. Well(2)
        BY <1>13, <2>2, <2>3 DEF Well
      <3>3. Well(3)
        BY <1>13, <2>2, <2>3 DEF Well
      <3>4. Well(4)
        BY <1>13, <2>2, <2>3 DEF Well
      <3>5. Well(5)
        BY <1>13, <2>2, <2>3 DEF Well
      <3>6. Well(6)
        BY <1>13, <2>2, <2>3 DEF Well
      <3>7. Well(7)
        BY <1>13, <2>2, <2>3 DEF Well
      <3>8. Well(8)
        BY <1>13, <2>2, <2>3 DEF Well
      <3>9. Well(9)
        BY <1>13, <2>2, <2>3 DEF Well
      <3> HIDE DEF Well
      <3> QED BY <3>1, <3>2, <3>3, <3>4, <3>5, <3>6, <3>7, <3>8, <3>9
    <2> QED BY <2>2, <2>4 DEF q, Well
  <1>14. CASE o = "zero" /\ p = "prepare"
    <2>1. q = <<Ask("modes"), Do("change", "metric")>>
      BY <1>14 DEF PartOf, Program, Parts, ZeroResult
    <2>2. q \in Seq(Instructions) /\ Len(q) = 2
      BY <2>1 DEF Instructions, Ask, Set, Rotate, Write, Move, Do
    <2>3. q[1] = Ask("modes") /\ q[2] = Do("change", "metric")
      BY <2>1
    <2> HIDE DEF q
    <2>4. \A n \in 1..2 : Well(n)
      BY <1>14, <2>2, <2>3 DEF Well
    <2> QED BY <2>2, <2>4 DEF q, Well
  <1>15. CASE o = "zero" /\ p = "work"
    <2>1. q = <<Ask("coordinates"), Ask("zero")>>
      BY <1>15 DEF PartOf, Program, Parts, ZeroResult
    <2>2. q \in Seq(Instructions) /\ Len(q) = 2
      BY <2>1 DEF Instructions, Ask, Set, Rotate, Write, Move, Do
    <2>3. q[1] = Ask("coordinates") /\ q[2] = Ask("zero")
      BY <2>1
    <2> HIDE DEF q
    <2>4. \A n \in 1..2 : Well(n)
      BY <1>15, <2>2, <2>3 DEF Well
    <2> QED BY <2>2, <2>4 DEF q, Well
  <1>16. CASE o \in {"zero", "recorded"} /\ p = "restore"
    <2>1. q = <<Do("change", "captured")>>
      BY <1>16 DEF PartOf, Program, Parts, ZeroRecorded, ZeroResult
    <2>2. q \in Seq(Instructions) /\ Len(q) = 1
      BY <2>1 DEF Instructions, Ask, Set, Rotate, Write, Move, Do
    <2>3. q[1] = Do("change", "captured")
      BY <2>1
    <2> HIDE DEF q
    <2>4. \A n \in 1..1 : Well(n)
      BY <1>16, <2>2, <2>3 DEF Well
    <2> QED BY <2>2, <2>4 DEF q, Well
  <1>17. CASE o = "recorded" /\ p = "prepare"
    <2>1. q = <<Ask("preflight"), Ask("coordinates"), Ask("modes"), Do("change", "metric")>>
      BY <1>17 DEF PartOf, Program, Parts, ZeroRecorded
    <2>2. q \in Seq(Instructions) /\ Len(q) = 4
      BY <2>1 DEF Instructions, Ask, Set, Rotate, Write, Move, Do
    <2>3. q[1] = Ask("preflight") /\ q[2] = Ask("coordinates") /\ q[3] = Ask("modes") /\ q[4] = Do("change", "metric")
      BY <2>1
    <2> HIDE DEF q
    <2>4. \A n \in 1..4 : Well(n)
      BY <1>17, <2>2, <2>3 DEF Well
    <2> QED BY <2>2, <2>4 DEF q, Well
  <1>18. CASE o \in {"recorded", "rotaryzero", "levelzero"} /\ p = "work"
    <2>1. q = <<Write(TRUE, None)>>
      BY <1>18 DEF PartOf, Program, Parts, ZeroLevel, ZeroRecorded, ZeroRotary
    <2>2. q \in Seq(Instructions) /\ Len(q) = 1
      BY <2>1 DEF Instructions, Ask, Set, Rotate, Write, Move, Do
    <2>3. q[1] = Write(TRUE, None)
      BY <2>1
    <2> HIDE DEF q
    <2>4. \A n \in 1..1 : Well(n)
      BY <1>18, <2>2, <2>3 DEF Well
    <2> QED BY <2>2, <2>4 DEF q, Well
  <1>19. CASE o \in {"rotaryzero", "levelzero", "align"} /\ p = "prepare"
    <2>1. q = <<Ask("preflight"), Ask("coordinates"), Ask("modes"), Set("metric")>>
      BY <1>19 DEF PartOf, Program, Parts, ZeroLevel, ZeroRotary
    <2>2. q \in Seq(Instructions) /\ Len(q) = 4
      BY <2>1 DEF Instructions, Ask, Set, Rotate, Write, Move, Do
    <2>3. q[1] = Ask("preflight") /\ q[2] = Ask("coordinates") /\ q[3] = Ask("modes") /\ q[4] = Set("metric")
      BY <2>1
    <2> HIDE DEF q
    <2>4. \A n \in 1..4 : Well(n)
      BY <1>19, <2>2, <2>3 DEF Well
    <2> QED BY <2>2, <2>4 DEF q, Well
  <1>20. CASE o = "align" /\ p = "work"
    <2>1. q = <<Write(TRUE, Measured)>>
      BY <1>20 DEF PartOf, Program, Parts, ZeroRotary
    <2>2. q \in Seq(Instructions) /\ Len(q) = 1
      BY <2>1 DEF Instructions, Ask, Set, Rotate, Write, Move, Do
    <2>3. q[1] = Write(TRUE, Measured)
      BY <2>1
    <2> HIDE DEF q
    <2>4. \A n \in 1..1 : Well(n)
      BY <1>20, <2>2, <2>3, RotationsAssumption DEF Well
    <2> QED BY <2>2, <2>4 DEF q, Well
  <1>21. CASE o = "rotate" /\ p = "prepare"
    <2>1. q = <<Ask("preflight")>>
      BY <1>21 DEF PartOf, Program, Parts, RotateAngle
    <2>2. q \in Seq(Instructions) /\ Len(q) = 1
      BY <2>1 DEF Instructions, Ask, Set, Rotate, Write, Move, Do
    <2>3. q[1] = Ask("preflight")
      BY <2>1
    <2> HIDE DEF q
    <2>4. \A n \in 1..1 : Well(n)
      BY <1>21, <2>2, <2>3 DEF Well
    <2> QED BY <2>2, <2>4 DEF q, Well
  <1>22. CASE o = "rotate" /\ p = "work"
    <2>1. q = <<Rotate(Measured)>>
      BY <1>22 DEF PartOf, Program, Parts, RotateAngle
    <2>2. q \in Seq(Instructions) /\ Len(q) = 1
      BY <2>1 DEF Instructions, Ask, Set, Rotate, Write, Move, Do
    <2>3. q[1] = Rotate(Measured)
      BY <2>1
    <2> HIDE DEF q
    <2>4. \A n \in 1..1 : Well(n)
      BY <1>22, <2>2, <2>3, RotationsAssumption DEF Well
    <2> QED BY <2>2, <2>4 DEF q, Well
  <1> QED BY <1>1, <1>2, <1>3, <1>4, <1>5, <1>6, <1>7, <1>8, <1>9, <1>10, <1>11, <1>12, <1>13, <1>14, <1>15, <1>16, <1>17, <1>18, <1>19, <1>20, <1>21, <1>22 DEF AllOps, PartsOf

Fits ==
  CASE pc = "moving" -> Head(todo).do \in Moves
    [] pc = "sent" -> Head(todo).do \in {"set", "change", "write", "plane"}
    [] pc = "wait" -> Head(todo).do \notin Moves \cup {"preflight", "stop"}
    [] OTHER -> TRUE
Flow ==
  /\ pc # "idle" => op # None
  /\ pc \in Active \cup {"over"} => part \in PartsOf(op)
  /\ pc \in Active => (\E n \in 1..Len(Steps) : At(n)) /\ Fits
  /\ op \in NeedsReview => reviewed # <<>>
  /\ op \in Askers /\ (part \in {"work", "restore"} \/ (part = "prepare" /\ pc = "over" /\ verdict = "ok"))
       => captured \in Modes

\* An operation under way stands at an instruction of its part.
LEMMA Placed ==
  ASSUME Types, Flow, pc \in Active
  PROVE  /\ op \in AllOps /\ part \in PartsOf(op) /\ todo # <<>>
         /\ Steps \in Seq(Instructions) /\ Len(Steps) \in Nat
         /\ \E n \in 1..Len(Steps) :
              /\ At(n) /\ Head(todo) = Steps[n] /\ Head(todo) \in Instructions
              /\ Tail(todo) = SubSeq(Steps, n + 1, Len(Steps))
              /\ Tail(todo) = <<>> <=> n = Len(Steps)
              /\ SetsWell(op, part, Steps, n) /\ WorksWell(op, part, Steps, n)
              /\ AsksWell(op, part, Steps, n) /\ RestoresWell(op, part, Steps, n)
              /\ RepeatsWell(op, part, Steps, n) /\ Len(todo) = Len(Steps) - n + 1
PROOF
  <1>1. op \in AllOps /\ part \in PartsOf(op)
    BY DEF Types, Flow, Active
  <1>2. PICK n \in 1..Len(Steps) : At(n)
    BY DEF Flow
  <1>3. Steps \in Seq(Instructions)
    BY <1>1, Shape DEF Steps
  <1>4. /\ SetsWell(op, part, Steps, n) /\ WorksWell(op, part, Steps, n)
        /\ AsksWell(op, part, Steps, n) /\ RestoresWell(op, part, Steps, n)
        /\ RepeatsWell(op, part, Steps, n)
    BY <1>1, <1>2, Shape DEF Steps
  <1>5. todo = SubSeq(Steps, n, Len(Steps))
    BY <1>2 DEF At
  <1>6. /\ todo # <<>> /\ Head(todo) = Steps[n] /\ Steps[n] \in Instructions
        /\ Tail(todo) = SubSeq(Steps, n + 1, Len(Steps))
        /\ Tail(todo) = <<>> <=> n = Len(Steps)
    BY <1>3, <1>5, FromThere
  <1>7. Len(Steps) \in Nat
    BY <1>3, LenProperties
  <1>8. Len(todo) = Len(Steps) - n + 1
    BY <1>3, <1>5, <1>7
  <1> QED BY <1>1, <1>2, <1>3, <1>4, <1>6, <1>7, <1>8

\* It goes on to the next one, and knows the modes when it has asked for them.
LEMMA Advances ==
  ASSUME Types, Flow, pc \in Active, Advance, UNCHANGED <<op, part>>,
         captured \in Modes => captured' \in Modes,
         Head(todo).do = "modes" => captured' \in Modes,
         reviewed # <<>> => reviewed' # <<>>
  PROVE  Flow'
PROOF
  <1>1. PICK n \in 1..Len(Steps) :
              /\ At(n) /\ Head(todo) = Steps[n]
              /\ Tail(todo) = SubSeq(Steps, n + 1, Len(Steps))
              /\ Tail(todo) = <<>> <=> n = Len(Steps)
              /\ AsksWell(op, part, Steps, n)
    BY Placed
  <1>2. op \in AllOps /\ part \in PartsOf(op) /\ Len(Steps) \in Nat
    BY Placed
  <1>3. Steps' = Steps
    BY DEF Steps
  <1>4. (pc' = "over" /\ n = Len(Steps)) \/ (pc' = "run" /\ n + 1 \in 1..Len(Steps))
    BY <1>1, <1>2 DEF Advance
  <1>5. \A m \in 1..n : Steps[m].do = "modes" => captured' \in Modes
    BY <1>1 DEF At
  <1>6. pc' = "run" => At(n + 1)'
    BY <1>1, <1>2, <1>3, <1>4, <1>5 DEF At, Advance
  <1>7. (pc \in Active => (\E k \in 1..Len(Steps) : At(k)) /\ Fits)'
    BY <1>3, <1>4, <1>6 DEF Active, Fits
  <1>8. op \in Askers /\ part = "prepare" /\ n = Len(Steps) => captured' \in Modes
    BY <1>1, <1>2, <1>5 DEF AsksWell
  <1>9. op' # None /\ part' \in PartsOf(op')
    BY <1>2 DEF AllOps, Motions, Writes, None
  <1>10. op \in NeedsReview => reviewed' # <<>>
    BY DEF Flow
  <1>11. op \in Askers /\ part \in {"work", "restore"} => captured' \in Modes
    BY DEF Flow
  <1> QED BY <1>4, <1>7, <1>8, <1>9, <1>10, <1>11 DEF Flow, Advance

\* Or its part ends there with an error.
LEMMA EndsThere ==
  ASSUME Types, Flow, pc \in Active, NEW e, PartEnds(e), e # "ok", UNCHANGED <<op, part, captured>>,
         reviewed # <<>> => reviewed' # <<>>
  PROVE  Flow'
  BY Placed DEF Flow, PartEnds, Active, AllOps, Motions, Writes, None

\* It enters a part of its own.
LEMMA EntersThere ==
  ASSUME Types, Flow, NEW p \in PartsOf(op), op # None, Enter(p), UNCHANGED <<op, captured>>,
         op \in Askers /\ p \in {"work", "restore"} => captured \in Modes,
         reviewed # <<>> => reviewed' # <<>>
  PROVE  Flow'
PROOF
  <1>1. op \in AllOps /\ PartOf(op, p) \in Seq(Instructions) /\ Len(PartOf(op, p)) >= 1
    BY Shape DEF Types
  <1>2. Steps' = PartOf(op, p) /\ todo' = PartOf(op, p)
    BY DEF Steps, Enter
  <1>3. PartOf(op, p) = SubSeq(PartOf(op, p), 1, Len(PartOf(op, p)))
    BY <1>1, SubSeqFull
  <1>4. 1 \in 1..Len(PartOf(op, p))
    BY <1>1, LenProperties
  <1>5. At(1)'
    BY <1>1, <1>2, <1>3, <1>4 DEF At
  <1> QED BY <1>2, <1>4, <1>5 DEF Flow, Enter, Active, Fits

\* Modes are set to modes: those that were reviewed or captured, or others.
LEMMA ValueFits ==
  ASSUME Types, Flow, pc \in Active, Head(todo).do \in {"set", "change"}
  PROVE  Value(Head(todo).v) \in Modes
PROOF
  <1>1. PICK n \in 1..Len(Steps) :
              /\ At(n) /\ Head(todo) = Steps[n] /\ Head(todo) \in Instructions
              /\ AsksWell(op, part, Steps, n)
    BY Placed
  <1>2. Head(todo).v \in {"probing", "metric", "captured", "reviewed"}
    BY <1>1 DEF Instructions
  <1>3. CASE Head(todo).v \in {"captured", "metric"}
    <2>1. op \in Askers /\ (part = "restore" \/ (part = "prepare" /\ \E m \in 1..n-1 : Steps[m].do = "modes"))
      BY <1>1, <1>3 DEF AsksWell
    <2>2. captured \in Modes
      BY <1>1, <2>1 DEF Flow, At
    <2> QED BY <1>3, <2>2 DEF Value, Metric, Modes
  <1>4. CASE Head(todo).v = "reviewed"
    <2>1. op \in NeedsReview
      BY <1>1, <1>4 DEF AsksWell
    <2>2. reviewed \in Reviews
      BY <2>1 DEF Flow, Types
    <2> QED BY <1>4, <2>2 DEF Value, Reviews
  <1>5. CASE Head(todo).v = "probing"
    BY <1>5 DEF Value, Modes
  <1> QED BY <1>2, <1>3, <1>4, <1>5

\* A change of the coordinates names its rotation.
LEMMA ResolvedFits ==
  ASSUME Types, Flow, pc \in Active, Head(todo).do = "write"
  PROVE  /\ Resolved(Head(todo).v) \in Changes
         /\ Resolved(Head(todo).v).zero = Head(todo).v.zero
         /\ Head(todo).v.rotation = "reviewed" => Resolved(Head(todo).v).rotation = reviewed.rotation
PROOF
  <1> DEFINE c == Head(todo).v
  <1>1. PICK n \in 1..Len(Steps) :
              /\ At(n) /\ Head(todo) = Steps[n] /\ Head(todo) \in Instructions
              /\ AsksWell(op, part, Steps, n)
    BY Placed
  <1>2. c \in [zero : BOOLEAN, rotation : {None, Unrotated, Measured, "reviewed"}]
    BY <1>1 DEF Instructions
  <1>3. c.rotation = "reviewed" => op \in NeedsReview
    BY <1>1 DEF AsksWell
  <1>4. c.rotation = "reviewed" => reviewed \in Reviews
    BY <1>3 DEF Flow, Types
  <1> HIDE DEF c
  <1>5. CASE c.rotation = "reviewed"
    <2>1. reviewed.rotation \in Rotations
      BY <1>4, <1>5 DEF Reviews
    <2> QED BY <1>2, <1>5, <2>1 DEF Resolved, Changes, c
  <1>6. CASE c.rotation # "reviewed"
    BY <1>2, <1>6 DEF Resolved, Changes, Rotations, c
  <1> QED BY <1>5, <1>6

\* The lines of an instruction: the change, if it is one, and the question.
LEMMA LinesFit ==
  ASSUME Types, Flow, pc \in Active, NEW i, i = Head(todo), i.do \notin {"preflight", "stop"}
  PROVE  /\ Lines(i)[1] \in WireLines /\ Len(Lines(i)) \in {1, 2}
         /\ Len(Lines(i)) = 2 <=> i.do \in {"set", "change", "write", "plane"}
         /\ Len(Lines(i)) = 2 => Lines(i)[2] \in WireLines /\ Lines(i)[2].is \in Questions
         /\ i.do \in {"set", "change"} => Lines(i)[1] = Line("modes", Value(i.v))
         /\ i.do = "write" => Lines(i)[1] = Line("write", Resolved(i.v))
         /\ i.do = "plane" => Lines(i)[1] = Line("plane", reviewed.plane)
         /\ i.do = "zero" => Lines(i)[1] = Line("write", [zero |-> TRUE, rotation |-> None])
         /\ i.do \in {"modes", "coordinates"} => Lines(i)[1].is \in Questions
         /\ i.do = "move" => Lines(i)[1].is \in {"move", "arc"}
         /\ i.do = "jog" => Lines(i)[1].is = "jog"
PROOF
  <1>1. PICK n \in 1..Len(Steps) :
              /\ At(n) /\ i = Steps[n] /\ i \in Instructions /\ AsksWell(op, part, Steps, n)
    BY Placed
  <1>2. i.do \in {"modes", "coordinates", "zero", "set", "change", "write", "plane", "move", "jog"}
    BY <1>1 DEF Instructions
  <1> USE DEF Lines, Line, Questions
  <1>3. CASE i.do = "modes"
    BY <1>3 DEF WireLines, Plain
  <1>4. CASE i.do = "coordinates"
    BY <1>4 DEF WireLines, Plain
  <1>5. CASE i.do = "zero"
    BY <1>5 DEF WireLines, Changes
  <1>6. CASE i.do \in {"set", "change"}
    <2>1. Value(i.v) \in Modes
      BY <1>6, ValueFits
    <2> QED BY <1>6, <2>1 DEF WireLines, Plain
  <1>7. CASE i.do = "write"
    <2>1. Resolved(i.v) \in Changes
      BY <1>7, ResolvedFits
    <2> QED BY <1>7, <2>1 DEF WireLines, Plain
  <1>8. CASE i.do = "plane"
    <2>1. i.v = "reviewed"
      BY <1>1, <1>8 DEF Instructions
    <2>2. reviewed \in Reviews
      BY <1>1, <1>8, <2>1 DEF AsksWell, Flow, Types
    <2> QED BY <1>8, <2>2 DEF WireLines, Plain, Reviews
  <1>9. CASE i.do \in {"move", "jog"}
    BY <1>9 DEF WireLines, Plain
  <1> QED BY <1>2, <1>3, <1>4, <1>5, <1>6, <1>7, <1>8, <1>9

\* A machine that reads a line is a machine.
LEMMA AfterFits ==
  ASSUME NEW m \in Machines, NEW l \in WireLines
  PROVE  /\ Reads(m, l) \in Machines
         /\ Reads(m, l).blocked = m.blocked
         /\ Reads(m, l).modes = IF ~m.blocked /\ l.is = "modes" THEN l.v
                                ELSE IF ~m.blocked /\ l.is = "jog" /\ m.modes = "probing" THEN "metric"
                                ELSE m.modes
         /\ Reads(m, l).plane = IF ~m.blocked /\ l.is = "plane" THEN l.v
                                ELSE IF ~m.blocked /\ l.is = "arc" THEN 19 ELSE m.plane
         /\ Reads(m, l).rotation = IF ~m.blocked /\ l.is = "write" /\ l.v.rotation # None
                                   THEN l.v.rotation ELSE m.rotation
         /\ Reads(m, l).moving => m.moving \/ l.is \in MoveLines
PROOF
  <1> USE DEF MoveLines
  <1>1. l.is \in Plain \/ l.is \in {"modes", "plane", "write"}
    BY DEF WireLines
  <1>2. CASE m.blocked
    BY <1>2 DEF Reads
  <1>3. CASE l.is \in {"$G", "$#", "unheard"}
    BY <1>3 DEF Reads, After
  <1>4. CASE l.is \in {"move", "arc"}
    <2>1. l.is = "arc" => After(m, l) = [m EXCEPT !.plane = 19, !.moving = TRUE]
      BY DEF After
    <2>2. l.is = "move" => After(m, l) = [m EXCEPT !.moving = TRUE]
      BY DEF After
    <2>3. /\ After(m, l) \in Machines /\ After(m, l).blocked = m.blocked /\ After(m, l).modes = m.modes
          /\ After(m, l).plane = IF l.is = "arc" THEN 19 ELSE m.plane
          /\ After(m, l).rotation = m.rotation
      <3>1. CASE l.is = "arc"
        <4> DEFINE f == [m EXCEPT !.plane = 19]
        <4>1. f \in Machines /\ f.blocked = m.blocked /\ f.modes = m.modes /\ f.plane = 19
              /\ f.rotation = m.rotation
          BY DEF Machines
        <4>2. After(m, l) = [f EXCEPT !.moving = TRUE]
          BY <3>1, <2>1 DEF Machines
        <4> HIDE DEF f
        <4> QED BY <3>1, <4>1, <4>2 DEF Machines
      <3>2. CASE l.is = "move"
        BY <3>2, <2>2 DEF Machines
      <3> QED BY <1>4, <3>1, <3>2
    <2> QED BY <1>2, <1>4, <2>3 DEF Reads
  <1>8. CASE l.is = "jog"
    <2> DEFINE v == IF m.modes = "probing" THEN "metric" ELSE m.modes
    <2>1. v \in Modes
      BY DEF Machines, Modes
    <2>2. After(m, l) = [m EXCEPT !.modes = v, !.moving = TRUE]
      BY <1>8 DEF After
    <2>3. v = IF m.modes = "probing" THEN "metric" ELSE m.modes
      OBVIOUS
    <2> HIDE DEF v
    <2> DEFINE f == [m EXCEPT !.modes = v]
    <2>4. /\ f \in Machines /\ f.blocked = m.blocked /\ f.modes = v /\ f.plane = m.plane
          /\ f.rotation = m.rotation
      BY <2>1 DEF Machines
    <2>5. After(m, l) = [f EXCEPT !.moving = TRUE]
      BY <2>2 DEF Machines
    <2> HIDE DEF f
    <2>6. /\ After(m, l) \in Machines /\ After(m, l).blocked = m.blocked /\ After(m, l).modes = v
          /\ After(m, l).plane = m.plane /\ After(m, l).rotation = m.rotation
      BY <2>4, <2>5 DEF Machines
    <2> QED BY <1>2, <1>8, <2>3, <2>6 DEF Reads
  <1>5. CASE l.is = "modes"
    <2>1. l.v \in Modes
      BY <1>5 DEF WireLines, Plain
    <2> QED BY <1>5, <2>1 DEF Reads, After, Machines
  <1>6. CASE l.is = "plane"
    <2>1. l.v \in 17..19
      BY <1>6 DEF WireLines, Plain
    <2> QED BY <1>6, <2>1 DEF Reads, After, Machines
  <1>7. CASE l.is = "write"
    <2>1. l.v \in Changes
      BY <1>7 DEF WireLines, Plain
    <2>2. l.v.rotation \in Rotations \cup {None}
      BY <2>1 DEF Changes
    <2> DEFINE r == IF l.v.rotation = None THEN m.rotation ELSE l.v.rotation
               z == IF ~l.v.zero THEN m.origin ELSE IF m.modes = "inch" THEN "wrong" ELSE "new"
    <2>3. r \in Rotations /\ z \in {"old", "new", "wrong"}
      BY <2>2 DEF Machines
    <2>4. After(m, l) = [m EXCEPT !.rotation = r, !.origin = z]
      BY <1>7 DEF After
    <2> HIDE DEF r, z
    <2>5. /\ After(m, l) \in Machines /\ After(m, l).blocked = m.blocked /\ After(m, l).modes = m.modes
          /\ After(m, l).plane = m.plane /\ After(m, l).rotation = r /\ After(m, l).moving = m.moving
      BY <2>3, <2>4 DEF Machines
    <2>6. ~m.blocked => Reads(m, l) = After(m, l)
      BY DEF Reads
    <2>7. r = IF l.v.rotation # None THEN l.v.rotation ELSE m.rotation
      BY DEF r
    <2> QED BY <1>2, <1>7, <2>5, <2>6, <2>7
  <1> QED BY <1>1, <1>2, <1>3, <1>4, <1>5, <1>6, <1>7, <1>8 DEF Plain

\* Lines that stay in a set of modes keep the machine in it.
LEMMA AfterStays ==
  ASSUME NEW m \in Machines, NEW l \in WireLines, NEW S, m.modes \in S, m.blocked \/ StaysIn(S, l)
  PROVE  Reads(m, l).modes \in S
  BY AfterFits DEF StaysIn

(***************************************************************************)
(* Types and flow are kept.                                                *)

LEMMA InitTypes == Init => Types /\ Flow
PROOF
  <1> SUFFICES ASSUME Init PROVE Types /\ Flow
    OBVIOUS
  <1>1. PICK f \in Found :
              /\ machine = [modes |-> f.modes, rotation |-> f.rotation, plane |-> f.plane,
                            origin |-> "old", moving |-> FALSE, touching |-> FALSE,
                            blocked |-> FALSE]
              /\ seen = [ready |-> TRUE, touching |-> FALSE, blocked |-> FALSE, modes |-> f.modes]
    BY DEF Init
  <1>2. f.modes \in Modes /\ f.plane \in 17..19 /\ f.rotation \in Rotations
    BY FoundAssumption DEF Rotations
  <1>3. machine \in Machines /\ seen \in Snapshots
    BY <1>1, <1>2 DEF Machines, Snapshots
  <1>4. wire \in Seq(WireLines)
    BY EmptySeq DEF Init
  <1>5. Types
    BY <1>3, <1>4 DEF Init, Types, Pcs, None, Errors
  <1>6. Flow
    BY DEF Init, Flow, Active, NeedsReview, Reviewed, ResultActions, Askers, None
  <1> QED BY <1>5, <1>6

\* The snapshot is one after any change of what is known of rest and contacts.
LEMMA SeenFits ==
  ASSUME NEW s \in Snapshots, NEW r, NEW t, NEW b, r \in BOOLEAN, t \in BOOLEAN, b \in BOOLEAN
  PROVE  /\ [s EXCEPT !.ready = r] \in Snapshots
         /\ [s EXCEPT !.ready = r, !.touching = t] \in Snapshots
         /\ [s EXCEPT !.ready = r, !.touching = t, !.blocked = b] \in Snapshots
         /\ [s EXCEPT !.ready = r, !.touching = t, !.blocked = b].ready = r
         /\ [s EXCEPT !.ready = r, !.touching = t, !.blocked = b].blocked = b
         /\ [s EXCEPT !.ready = r, !.touching = t].ready = r
         /\ [s EXCEPT !.ready = r, !.touching = t].blocked = s.blocked
         /\ [s EXCEPT !.ready = r].ready = r
         /\ [s EXCEPT !.ready = r].blocked = s.blocked
  BY DEF Snapshots

\* The machine is one after any change of its motion and its contacts.
LEMMA MachineFits ==
  ASSUME NEW m \in Machines, NEW a, NEW t, NEW b, a \in BOOLEAN, t \in BOOLEAN, b \in BOOLEAN,
         NEW n, n \in {[m EXCEPT !.moving = a], [m EXCEPT !.moving = a, !.touching = t],
                       [m EXCEPT !.blocked = b, !.moving = a], [m EXCEPT !.blocked = b, !.touching = t],
                       [m EXCEPT !.origin = "old"]}
  PROVE  /\ n \in Machines /\ n.modes = m.modes /\ n.rotation = m.rotation /\ n.plane = m.plane
         /\ n.origin = m.origin \/ n.origin = "old"
PROOF
  <1>1. CASE n = [m EXCEPT !.moving = a]
    BY <1>1 DEF Machines
  <1>2. CASE n = [m EXCEPT !.moving = a, !.touching = t]
    BY <1>2 DEF Machines
  <1>3. CASE n = [m EXCEPT !.blocked = b, !.moving = a]
    BY <1>3 DEF Machines
  <1>4. CASE n = [m EXCEPT !.blocked = b, !.touching = t]
    BY <1>4 DEF Machines
  <1>5. CASE n = [m EXCEPT !.origin = "old"]
    BY <1>5 DEF Machines
  <1> QED BY <1>1, <1>2, <1>3, <1>4, <1>5

LEMMA StatusTypes == ASSUME Types, Status PROVE Types'
PROOF
  <1> DEFINE r == ~machine.moving /\ ~machine.blocked
             s == [seen EXCEPT !.ready = r, !.touching = machine.touching, !.blocked = machine.blocked]
  <1>1. machine \in Machines /\ seen \in Snapshots
    BY DEF Types
  <1>2. machine.touching \in BOOLEAN /\ machine.blocked \in BOOLEAN
    BY <1>1 DEF Machines
  <1>3. seen' = s
    BY DEF Status
  <1>4. r \in BOOLEAN
    OBVIOUS
  <1> HIDE DEF r
  <1>5. s \in Snapshots
    BY <1>1, <1>2, <1>4, SeenFits
  <1> QED BY <1>3, <1>5 DEF Types, Status, opVars

LEMMA MachineTypes ==
  ASSUME Types, MoveOver \/ Alarm \/ Cleared \/ Drop \/ Reconnect
  PROVE  Types'
PROOF
  <1>1. machine \in Machines /\ seen \in Snapshots
    BY DEF Types
  <1>2. CASE MoveOver
    <2>1. machine' \in Machines
      BY <1>1, <1>2, MachineFits DEF MoveOver
    <2> QED BY <1>2, <2>1 DEF Types, MoveOver, opVars
  <1>3. CASE Alarm
    <2>1. machine' \in Machines
      BY <1>1, <1>3, MachineFits DEF Alarm
    <2> QED BY <1>3, <2>1 DEF Types, Alarm, opVars
  <1>4. CASE Cleared
    <2> DEFINE r == ~machine.moving
    <2>1. machine' \in Machines
      BY <1>1, <1>4, MachineFits DEF Cleared
    <2>2. seen' = [seen EXCEPT !.ready = r, !.touching = FALSE, !.blocked = FALSE]
      BY <1>1, <1>4 DEF Cleared, Snapshots
    <2>3. r \in BOOLEAN
      OBVIOUS
    <2> HIDE DEF r
    <2>4. seen' \in Snapshots
      BY <1>1, <2>2, <2>3, SeenFits
    <2> QED BY <1>4, <2>1, <2>4 DEF Types, Cleared, opVars
  <1>5. CASE Drop
    <2>1. seen' \in Snapshots
      BY <1>1, <1>5, SeenFits DEF Drop
    <2>2. wire' \in Seq(WireLines)
      BY <1>5, EmptySeq DEF Drop
    <2> QED BY <1>5, <2>1, <2>2 DEF Types, Drop, opVars
  <1>6. CASE Reconnect
    BY <1>6 DEF Types, Reconnect, opVars
  <1> QED BY <1>2, <1>3, <1>4, <1>5, <1>6

LEMMA MachineFlow ==
  ASSUME Flow, Status \/ MoveOver \/ Alarm \/ Cleared \/ Drop \/ Reconnect
  PROVE  Flow'
PROOF
  <1>1. UNCHANGED <<reviewed, opVars>>
    BY DEF Status, MoveOver, Alarm, Cleared, Drop, Reconnect
  <1> QED BY <1>1 DEF Flow, Fits, At, Steps, opVars

LEMMA CheckTypes == ASSUME Types, Flow, Check PROVE Types' /\ Flow'
PROOF
  <1>1. pc \in Active /\ UNCHANGED <<machineVars, reviewed, op, part, captured, cause, recovery, stop, counters>>
    BY DEF Check, Active
  <1> DEFINE i == Head(todo)
  <1>2. CASE Advance /\ i.do \in {"change", "preflight", "stop", "jog"}
    <2>1. Flow'
      BY <1>1, <1>2, Advances
    <2> QED BY <1>1, <1>2, <2>1 DEF Types, Advance, machineVars, Pcs, Active
  <1>3. CASE PartEnds(Refusal(i)) /\ Refusal(i) # "ok"
    <2>1. Flow'
      BY <1>1, <1>3, EndsThere
    <2>2. Refusal(i) \in Errors \cup {"ok"}
      BY DEF Refusal, Errors
    <2> QED BY <1>1, <1>3, <2>1, <2>2 DEF Types, PartEnds, machineVars, Pcs, Active
  <1> QED BY <1>2, <1>3 DEF Check, NoChange

LEMMA SubmitTypes == ASSUME Types, Flow, Submit \/ SubmitQuery PROVE Types' /\ Flow'
PROOF
  <1> DEFINE i == Head(todo)
  <1>1. pc \in Active /\ i.do \notin {"preflight", "stop"} /\ wire \in Seq(WireLines)
    BY DEF Submit, SubmitQuery, Active, Flow, Fits, Types
  <1>2. CASE Submit
    <2>1. wire' = Append(wire, Lines(i)[1]) /\ Lines(i)[1] \in WireLines
      BY <1>1, <1>2, LinesFit DEF Submit
    <2>2. wire' \in Seq(WireLines)
      BY <1>1, <2>1, Appended
    <2>3. Types'
      BY <1>2, <2>2 DEF Types, Submit, Pcs, Active
    <2>4. Flow'
      BY <1>1, <1>2, LinesFit DEF Submit, Flow, Fits, At, Steps, Active, Moves
    <2> QED BY <2>3, <2>4
  <1>3. CASE SubmitQuery
    <2>0. i.do \in {"set", "change", "write", "plane"}
      BY <1>3 DEF SubmitQuery, Flow, Fits, Active
    <2>1. wire' = Append(wire, Lines(i)[2]) /\ Lines(i)[2] \in WireLines
      BY <1>1, <1>3, <2>0, LinesFit DEF SubmitQuery
    <2>2. wire' \in Seq(WireLines)
      BY <1>1, <2>1, Appended
    <2>3. Types'
      BY <1>3, <2>2 DEF Types, SubmitQuery, Pcs, Active
    <2>4. Flow'
      BY <1>1, <1>3, <2>0 DEF SubmitQuery, Flow, Fits, At, Steps, Active, Moves
    <2> QED BY <2>3, <2>4
  <1> QED BY <1>2, <1>3

\* An answer that is lost leaves its line to be read.
LEMMA Unheard ==
  ASSUME Types, TimedOut
  PROVE  /\ wire' \in Seq(WireLines) /\ Len(wire') = Len(wire) /\ DOMAIN wire' = DOMAIN wire
         /\ DOMAIN wire = 1..Len(wire)
         /\ \A k \in DOMAIN wire :
              /\ wire[k].is \in Questions => wire'[k].is = "unheard"
              /\ wire[k].is \notin Questions => wire'[k] = wire[k]
PROOF
  <1> DEFINE u(k) == IF wire[k].is \in {"$G", "$#"} THEN Line("unheard", None) ELSE wire[k]
  <1>1. wire \in Seq(WireLines) /\ wire' = [k \in DOMAIN wire |-> u(k)]
    BY DEF Types, TimedOut
  <1>2. DOMAIN wire = 1..Len(wire) /\ Len(wire) \in Nat
    BY <1>1, LenProperties
  <1>3. \A k \in 1..Len(wire) : u(k) \in WireLines
    BY <1>1 DEF WireLines, Line, Plain
  <1>4. \A k \in DOMAIN wire : wire'[k] = u(k)
    BY <1>1
  <1>5. \A k \in DOMAIN wire :
          /\ wire[k].is \in Questions => u(k).is = "unheard"
          /\ wire[k].is \notin Questions => u(k) = wire[k]
    BY DEF Questions, Line
  <1> HIDE DEF u
  <1>6. wire' \in Seq(WireLines) /\ Len(wire') = Len(wire) /\ DOMAIN wire' = DOMAIN wire
    BY <1>1, <1>2, <1>3
  <1> QED BY <1>2, <1>4, <1>5, <1>6

\* The first line is read, and the machine and the snapshot follow.
LEMMA Executed ==
  ASSUME Types, Execute
  PROVE  /\ wire # <<>> /\ Head(wire) \in WireLines /\ Head(wire) = wire[1]
         /\ wire' = Tail(wire) /\ wire' \in Seq(WireLines) /\ Len(wire') = Len(wire) - 1
         /\ DOMAIN wire = 1..Len(wire) /\ Len(wire) \in Nat /\ Len(wire) >= 1
         /\ DOMAIN wire' = 1..(Len(wire) - 1)
         /\ \A k \in 1..(Len(wire) - 1) : wire'[k] = wire[k + 1]
         /\ machine' = Reads(machine, wire[1]) /\ machine' \in Machines
         /\ seen' \in Snapshots /\ seen'.blocked = seen.blocked /\ seen'.ready = seen.ready
PROOF
  <1>1. wire \in Seq(WireLines) /\ wire # <<>> /\ machine \in Machines /\ seen \in Snapshots
    BY DEF Types, Execute
  <1>2. /\ wire' = Tail(wire) /\ wire' \in Seq(WireLines) /\ Len(wire') = Len(wire) - 1
        /\ DOMAIN wire' = 1..(Len(wire) - 1) /\ Head(wire) = wire[1] /\ Head(wire) \in WireLines
        /\ \A k \in 1..(Len(wire) - 1) : wire'[k] = wire[k + 1]
        /\ Len(wire) >= 1
    BY <1>1, Tailed DEF Execute
  <1>3. machine' = Reads(machine, wire[1]) /\ machine' \in Machines
    BY <1>1, <1>2, AfterFits DEF Execute
  <1>4. machine'.modes \in Modes
    BY <1>3 DEF Machines
  <1>5. seen' = seen \/ seen' = [seen EXCEPT !.modes = machine'.modes]
    BY <1>2, <1>3 DEF Execute
  <1>6. seen' \in Snapshots /\ seen'.blocked = seen.blocked /\ seen'.ready = seen.ready
    BY <1>1, <1>4, <1>5 DEF Snapshots
  <1> QED BY <1>1, <1>2, <1>3, <1>6, LenProperties

\* A report is taken or it is not.
LEMMA Taken ==
  ASSUME Types, Execute
  PROVE  \/ UNCHANGED <<todo, pc, verdict, captured, reviewed>>
         \/ /\ pc = "wait" /\ Awaits(Head(todo), wire[1])
            /\ captured' = IF Head(todo).do = "modes" THEN machine'.modes ELSE captured
            /\ reviewed' = IF op = "review" /\ Head(todo).do = "coordinates"
                            THEN [modes |-> captured, rotation |-> machine'.rotation,
                                  plane |-> machine'.plane, stage |-> "ready"]
                            ELSE reviewed
            /\ \/ Confirms(Head(todo), machine') /\ Advance
               \/ PartEnds("Unconfirmed")
  BY Executed DEF Execute

LEMMA ExecuteTypes == ASSUME Types, Flow, Execute PROVE Types' /\ Flow'
PROOF
  <1>1. /\ wire' \in Seq(WireLines) /\ machine' \in Machines /\ seen' \in Snapshots
        /\ machine'.modes \in Modes /\ machine'.rotation \in Rotations /\ machine'.plane \in 17..19
    BY Executed DEF Machines
  <1>2. UNCHANGED <<link, op, part, cause, recovery, stop, counters>>
    BY DEF Execute
  <1>3. CASE UNCHANGED <<todo, pc, verdict, captured, reviewed>>
    <2>1. Types'
      BY <1>1, <1>2, <1>3 DEF Types
    <2>2. Flow'
      BY <1>2, <1>3 DEF Flow, Fits, At, Steps
    <2> QED BY <2>1, <2>2
  <1>4. CASE /\ pc = "wait" /\ Awaits(Head(todo), wire[1])
             /\ captured' = IF Head(todo).do = "modes" THEN machine'.modes ELSE captured
             /\ reviewed' = IF op = "review" /\ Head(todo).do = "coordinates"
                             THEN [modes |-> captured, rotation |-> machine'.rotation,
                                   plane |-> machine'.plane, stage |-> "ready"]
                             ELSE reviewed
             /\ \/ Confirms(Head(todo), machine') /\ Advance
                \/ PartEnds("Unconfirmed")
    <2>1. pc \in Active
      BY <1>4 DEF Active
    <2>2. captured' \in Modes \cup {None} /\ (captured \in Modes => captured' \in Modes)
          /\ (Head(todo).do = "modes" => captured' \in Modes)
      BY <1>1, <1>4 DEF Types
    <2>3. op = "review" /\ Head(todo).do = "coordinates" => captured \in Modes /\ reviewed' \in Reviews
      <3>1. PICK n \in 1..Len(Steps) : At(n) /\ Head(todo) = Steps[n] /\ AsksWell(op, part, Steps, n)
        BY <2>1, Placed
      <3>2. op = "review" /\ Head(todo).do = "coordinates" => captured \in Modes
        BY <3>1 DEF AsksWell, At
      <3> QED BY <1>1, <1>4, <3>2 DEF Reviews
    <2>4. reviewed' = <<>> \/ reviewed' \in Reviews
      BY <1>4, <2>3 DEF Types
    <2>5. reviewed # <<>> => reviewed' # <<>>
      <3>1. \A r \in Reviews : r # <<>>
        <4> SUFFICES ASSUME NEW r \in Reviews PROVE r # <<>>
          OBVIOUS
        <4>1. "modes" \in DOMAIN r
          BY DEF Reviews
        <4>2. DOMAIN <<>> = 1..0
          OBVIOUS
        <4> QED BY <4>1, <4>2
      <3> QED BY <1>4, <2>3, <3>1
    <2>6. verdict' \in Errors \cup {"ok"} /\ pc' \in Pcs
      BY <1>4 DEF Advance, PartEnds, Errors, Pcs, Active
    <2>7. Types'
      BY <1>1, <1>2, <2>2, <2>4, <2>6 DEF Types
    <2>8. CASE Advance
      BY <1>2, <2>1, <2>2, <2>5, <2>8, <2>7, Advances
    <2>9. CASE PartEnds("Unconfirmed")
      <3>1. Head(todo).do # "modes" => captured' = captured
        BY <1>4
      <3>2. pc' = "over" /\ verdict' # "ok"
        BY <2>9 DEF PartEnds
      <3>3. op # None /\ part \in PartsOf(op)
        BY <2>1, Placed DEF AllOps, Motions, Writes, None
      <3> QED BY <1>2, <2>2, <2>5, <2>7, <3>2, <3>3 DEF Flow, Active
    <2> QED BY <1>4, <2>8, <2>9, <2>7
  <1> QED BY <1>3, <1>4, Taken

LEMMA BrokenTypes ==
  ASSUME Types, Flow, TimedOut \/ Interrupted \/ Cancel
  PROVE  Types' /\ Flow'
PROOF
  <1>1. pc \in Active /\ UNCHANGED <<machine, link, seen, reviewed, op, part, captured, cause, recovery, stop>>
    BY DEF TimedOut, Interrupted, Cancel, Active, machineVars
  <1>2. PICK e \in Errors : PartEnds(e)
    BY DEF TimedOut, Interrupted, Cancel, Errors
  <1>3. e # "ok"
    BY DEF Errors
  <1>4. Flow'
    BY <1>1, <1>2, <1>3, EndsThere
  <1>5. wire' \in Seq(WireLines)
    <2>1. CASE TimedOut
      BY <2>1, Unheard
    <2>2. CASE Interrupted \/ Cancel
      BY <2>2 DEF Interrupted, Cancel, machineVars, Types
    <2> QED BY <2>1, <2>2
  <1>6. Types'
    BY <1>1, <1>2, <1>5 DEF Types, PartEnds, Pcs, Active
  <1> QED BY <1>4, <1>6

MoveResults == {"ok", "Missed", "Released", "Compensation", "Touching", "Failed"}
OnWire == \E k \in DOMAIN wire : wire[k].is \in MoveLines
\* What the end of a motion says of the machine.
LEMMA MoveEnded ==
  ASSUME Types, NEW e \in MoveResults, MoveEnds(e)
  PROVE  /\ machine' \in Machines /\ seen' \in Snapshots
         /\ machine'.modes = machine.modes /\ machine'.rotation = machine.rotation
         /\ machine'.plane = machine.plane /\ machine'.origin = machine.origin
         /\ machine'.blocked = machine.blocked /\ seen'.blocked = seen.blocked
         /\ \/ e = "Failed" /\ UNCHANGED <<machine, seen>>
            \/ ~machine'.moving /\ seen'.ready /\ ~OnWire
PROOF
  <1>1. machine \in Machines /\ seen \in Snapshots
    BY DEF Types
  <1>2. CASE e = "Failed" /\ UNCHANGED <<machine, seen>>
    BY <1>1, <1>2
  <1>3. CASE ~(e = "Failed" /\ UNCHANGED <<machine, seen>>)
    <2> DEFINE t == e = "Touching"
    <2>1. machine' = [machine EXCEPT !.moving = FALSE, !.touching = t]
          /\ seen' = [seen EXCEPT !.ready = TRUE, !.touching = t]
      BY <1>3 DEF MoveEnds
    <2>6. ~OnWire
      BY <1>3 DEF MoveEnds, OnWire
    <2>2. t \in BOOLEAN
      OBVIOUS
    <2> HIDE DEF t
    <2>3. machine' \in Machines /\ machine'.modes = machine.modes /\ machine'.rotation = machine.rotation
          /\ machine'.plane = machine.plane
      BY <1>1, <2>1, <2>2 DEF Machines
    <2>4. machine'.origin = machine.origin /\ machine'.blocked = machine.blocked /\ ~machine'.moving
      BY <1>1, <2>1 DEF Machines
    <2>5. seen' \in Snapshots /\ seen'.ready /\ seen'.blocked = seen.blocked
      BY <1>1, <2>1, <2>2 DEF Snapshots
    <2> QED BY <2>3, <2>4, <2>5, <2>6
  <1> QED BY <1>2, <1>3

LEMMA MoveEndsTypes ==
  ASSUME Types, Flow, NEW e \in MoveResults, MoveEnds(e)
  PROVE  Types' /\ Flow'
PROOF
  <1>1. pc \in Active /\ Head(todo).do \in Moves
        /\ UNCHANGED <<wire, link, reviewed, op, part, captured, cause, recovery, stop>>
    BY DEF MoveEnds, Active, Flow, Fits
  <1>2. machine' \in Machines /\ seen' \in Snapshots
    BY MoveEnded
  <1>3. (e = "ok" /\ Advance) \/ (e # "ok" /\ PartEnds(e))
    BY DEF MoveEnds
  <1>4. Flow'
    BY <1>1, <1>3, Advances, EndsThere DEF Moves
  <1>5. pc' \in Pcs /\ verdict' \in Errors \cup {"ok"}
    BY <1>3 DEF Advance, PartEnds, Pcs, Active, MoveResults, Errors
  <1>6. Types'
    BY <1>1, <1>2, <1>5 DEF Types
  <1> QED BY <1>4, <1>6

\* The end of an operation, and of the part that goes before it.
LEMMA Finishes ==
  ASSUME Types, Flow, op # None, NEW e, Finish(e), UNCHANGED <<op, captured>>
  PROVE  /\ Flow' /\ pc' \in {"recover", "idle"} /\ UNCHANGED <<part, todo, verdict>>
         /\ reviewed' = <<>> \/ reviewed' \in Reviews
PROOF
  <1>1. pc' \in {"recover", "idle"} /\ UNCHANGED <<part, todo, verdict>>
    BY DEF Finish
  <1>2. reviewed' = reviewed \/ (reviewed \in Reviews /\ reviewed' \in Reviews)
    <2>1. CASE op \in {"routine"} \cup ResultActions /\ e = "ok"
      <3>1. reviewed \in Reviews
        BY <2>1 DEF Types, Flow, NeedsReview, Reviewed
      <3> QED BY <2>1, <3>1 DEF Finish, Reviews
    <2>2. CASE ~(op \in {"routine"} \cup ResultActions /\ e = "ok")
      BY <2>2 DEF Finish
    <2> QED BY <2>1, <2>2
  <1>3. \A r \in Reviews : r # <<>>
    <2> SUFFICES ASSUME NEW r \in Reviews PROVE r # <<>>
      OBVIOUS
    <2>1. "modes" \in DOMAIN r
      BY DEF Reviews
    <2>2. DOMAIN <<>> = 1..0
      OBVIOUS
    <2> QED BY <2>1, <2>2
  <1>4. op \in NeedsReview => reviewed' # <<>>
    BY <1>2, <1>3 DEF Flow
  <1>5. op \in Askers /\ part \in {"work", "restore"} => captured \in Modes
    BY DEF Flow
  <1>6. Flow'
    BY <1>1, <1>4, <1>5 DEF Flow, Active
  <1> QED BY <1>1, <1>2, <1>6 DEF Types

LEMMA CoreEnds ==
  ASSUME Types, Flow, op # None, NEW e, CoreOver(e), UNCHANGED <<op, captured>>
  PROVE  /\ Flow' /\ pc' \in Pcs /\ verdict' \in Errors \cup {"ok"}
         /\ reviewed' = <<>> \/ reviewed' \in Reviews
PROOF
  <1>1. CASE op = "angle" /\ Enter("rotation") /\ UNCHANGED reviewed
    <2>1. "rotation" \in PartsOf(op)
      BY <1>1 DEF PartsOf
    <2>2. Flow'
      BY <1>1, <2>1, EntersThere
    <2> QED BY <1>1, <2>2 DEF Enter, Types, Pcs, Active
  <1>2. CASE Finish(e)
    BY <1>2, Finishes DEF Types, Pcs
  <1> QED BY <1>1, <1>2 DEF CoreOver

\* From part to part.
LEMMA OverTypes ==
  ASSUME Types, Flow,
         ClearOver \/ PrepareOver \/ WorkOver \/ RestoreOver \/ RotationOver \/ AgainOver
  PROVE  Types' /\ Flow'
PROOF
  <1>1. pc = "over" /\ UNCHANGED <<machineVars, op, captured, stop, counters>>
    BY DEF ClearOver, PrepareOver, WorkOver, RestoreOver, RotationOver, AgainOver, OverAt
  <1>2. op # None /\ part \in PartsOf(op) /\ op \in AllOps
    BY <1>1 DEF Flow, Types
  <1>3. cause' \in Errors \cup {"ok"} /\ recovery' \in BOOLEAN
    <2>1. cause' \in {cause, verdict}
      BY DEF ClearOver, PrepareOver, WorkOver, RestoreOver, RotationOver, AgainOver
    <2>2. recovery' \in BOOLEAN
      <3>1. CASE RotationOver
        <4> DEFINE r == recovery \/ (cause # "ok" /\ verdict # "ok")
        <4>1. recovery' = r /\ r \in BOOLEAN
          BY <3>1 DEF RotationOver
        <4> QED BY <4>1
      <3>2. CASE AgainOver
        <4> DEFINE r == recovery /\ op # "rotary"
        <4>1. (recovery' = TRUE \/ recovery' = r) /\ r \in BOOLEAN
          BY <3>2 DEF AgainOver
        <4> QED BY <4>1
      <3>3. CASE ClearOver \/ PrepareOver \/ WorkOver \/ RestoreOver
        BY <3>3 DEF Types, ClearOver, PrepareOver, WorkOver, RestoreOver
      <3> QED BY <3>1, <3>2, <3>3
    <2> QED BY <2>1, <2>2 DEF Types
  <1>4. /\ Flow' /\ pc' \in Pcs /\ verdict' \in Errors \cup {"ok"}
        /\ reviewed' = <<>> \/ reviewed' \in Reviews
    <2>1. CASE ClearOver
      <3>1. part = "clear" /\ op = "angle"
        BY <1>2, <2>1 DEF ClearOver, OverAt, PartsOf
      <3>2. CASE Enter("prepare") /\ UNCHANGED reviewed
        <4>1. Flow'
          BY <1>1, <1>2, <3>1, <3>2, EntersThere DEF PartsOf
        <4> QED BY <3>2, <4>1 DEF Enter, Types, Pcs, Active
      <3>3. CASE Finish(verdict)
        BY <1>1, <1>2, <3>3, Finishes DEF Types, Pcs
      <3> QED BY <2>1, <3>2, <3>3 DEF ClearOver
    <2>2. CASE PrepareOver
      <3>1. part = "prepare"
        BY <2>2 DEF PrepareOver, OverAt
      <3>2. CASE verdict = "ok" /\ op # "review" /\ Enter("work") /\ UNCHANGED reviewed
        <4>1. "work" \in PartsOf(op)
          BY <1>2, <3>2 DEF PartsOf
        <4>2. op \in Askers => captured \in Modes
          BY <1>1, <3>1, <3>2 DEF Flow
        <4>3. Flow'
          BY <1>1, <1>2, <3>2, <4>1, <4>2, EntersThere
        <4> QED BY <3>2, <4>3 DEF Enter, Types, Pcs, Active
      <3>3. CASE CoreOver(verdict)
        BY <1>1, <1>2, <3>3, CoreEnds
      <3> QED BY <2>2, <3>2, <3>3 DEF PrepareOver
    <2>3. CASE WorkOver
      <3>1. part = "work"
        BY <2>3 DEF WorkOver, OverAt
      <3>2. CASE op # "rotate" /\ Enter("restore") /\ UNCHANGED reviewed
        <4>1. "restore" \in PartsOf(op)
          BY <1>2, <3>1, <3>2 DEF PartsOf
        <4>2. op \in Askers => captured \in Modes
          BY <3>1 DEF Flow
        <4>3. Flow'
          BY <1>1, <1>2, <3>2, <4>1, <4>2, EntersThere
        <4> QED BY <3>2, <4>3 DEF Enter, Types, Pcs, Active
      <3>3. CASE CoreOver(verdict)
        BY <1>1, <1>2, <3>3, CoreEnds
      <3> QED BY <2>3, <3>2, <3>3 DEF WorkOver
    <2>4. CASE RestoreOver
      <3>1. CoreOver(cause')
        BY <2>4 DEF RestoreOver
      <3> QED BY <1>1, <1>2, <3>1, CoreEnds
    <2>5. CASE RotationOver
      <3>1. Finish(cause')
        BY <2>5 DEF RotationOver
      <3> QED BY <1>1, <1>2, <3>1, Finishes DEF Types, Pcs
    <2>6. CASE AgainOver
      BY <1>1, <1>2, <2>6 DEF AgainOver, OverAt, Flow, Types, Pcs, Active
    <2> QED BY <2>1, <2>2, <2>3, <2>4, <2>5, <2>6
  <1>5. Types'
    BY <1>1, <1>3, <1>4 DEF Types, machineVars
  <1> QED BY <1>4, <1>5

LEMMA RecoverTypes ==
  ASSUME Types, Flow, Recover
  PROVE  /\ Types' /\ Flow'
         /\ wire' = wire /\ machine'.blocked = machine.blocked /\ machine'.modes = machine.modes
         /\ machine'.rotation = machine.rotation /\ machine'.plane = machine.plane
         /\ machine'.origin = machine.origin
         /\ \/ (Exempt \/ seen.blocked) /\ UNCHANGED machineVars
            \/ /\ ~(Exempt \/ seen.blocked) /\ link /\ wire = <<>> /\ ~machine'.moving
               /\ seen'.blocked = machine.blocked
               /\ seen'.ready = (~machine.blocked)
PROOF
  <1>1. /\ UNCHANGED <<link, reviewed, op, part, todo, verdict, captured, cause, recovery, stop, wire>>
        /\ pc = "recover" /\ pc' = "recovered"
    BY DEF Recover, machineVars
  <1>2. Flow'
    BY <1>1 DEF Flow, Active
  <1>3. machine \in Machines /\ seen \in Snapshots
    BY DEF Types
  <1>4. /\ machine' \in Machines /\ machine'.modes = machine.modes
        /\ machine'.rotation = machine.rotation /\ machine'.plane = machine.plane
        /\ machine'.origin = machine.origin /\ machine'.blocked = machine.blocked
    BY <1>3 DEF Recover, Machines, machineVars
  <1>5. CASE Exempt \/ seen.blocked
    <2>1. UNCHANGED machineVars
      BY <1>5 DEF Recover
    <2> QED BY <1>1, <1>2, <1>4, <1>5, <2>1 DEF Types, machineVars, Pcs
  <1>6. CASE ~(Exempt \/ seen.blocked)
    <2> DEFINE b == machine.blocked
               r == ~b
    <2>1. /\ link /\ wire = <<>> /\ machine' = [machine EXCEPT !.moving = FALSE]
          /\ seen' = [seen EXCEPT !.ready = r, !.touching = machine.touching, !.blocked = b]
      BY <1>3, <1>6 DEF Recover, Snapshots
    <2>2. b \in BOOLEAN /\ r \in BOOLEAN /\ machine.touching \in BOOLEAN
      BY <1>3 DEF Machines
    <2>3. ~machine'.moving
      BY <1>3, <2>1 DEF Machines
    <2> HIDE DEF b, r
    <2>4. seen' \in Snapshots /\ seen'.ready = r /\ seen'.blocked = b
      <3>1. seen' \in Snapshots
        BY <1>3, <2>1, <2>2 DEF Snapshots
      <3>2. seen'.ready = r /\ seen'.blocked = b
        BY <1>3, <2>1 DEF Snapshots
      <3> QED BY <3>1, <3>2
    <2>5. Types'
      BY <1>1, <1>4, <2>4 DEF Types, Pcs
    <2> QED BY <1>1, <1>2, <1>4, <1>6, <2>1, <2>3, <2>4, <2>5 DEF b, r
  <1> QED BY <1>5, <1>6

LEMMA AgainTypes == ASSUME Types, Flow, RestoreAgain PROVE Types' /\ Flow'
PROOF
  <1>1. pc = "recovered" /\ UNCHANGED <<machineVars, reviewed, op, captured, cause, recovery, stop, counters>>
    BY DEF RestoreAgain
  <1>2. op # None
    BY <1>1 DEF Flow
  <1>3. CASE RestoresAgain /\ Enter("again")
    <2>1. "again" \in PartsOf(op)
      BY <1>3 DEF RestoresAgain, PartsOf
    <2>2. Flow'
      BY <1>1, <1>2, <1>3, <2>1, EntersThere
    <2> QED BY <1>1, <1>3, <2>2 DEF Types, Enter, machineVars, Pcs, Active
  <1>4. CASE pc' = "idle" /\ UNCHANGED <<part, todo, verdict>>
    BY <1>1, <1>4 DEF Types, Flow, machineVars, Pcs, Active
  <1> QED BY <1>3, <1>4 DEF RestoreAgain

LEMMA StartTypes == ASSUME Types, Flow, NEW o \in Operations, Start(o) PROVE Types' /\ Flow'
PROOF
  <1>1. o \in AllOps /\ op' = o /\ o # None
    BY OperationsAssumption DEF Start, AllOps, Motions, Writes, None
  <1>2. /\ UNCHANGED <<wire, link, seen>> /\ pc' = "run" /\ todo' = PartOf(o, part')
        /\ cause' = "ok" /\ recovery' = FALSE /\ captured' = None /\ verdict' = "ok"
        /\ stop' = "no"
    BY DEF Start
  <1>3. machine' \in Machines
    BY MachineFits DEF Start, Types
  <1>4. part' \in PartsOf(o) /\ part' \in {"clear", "prepare", "work"}
        /\ (part' = "work" => o = "rotary")
    BY <1>1 DEF Start, PartsOf
  <1>5. o \in NeedsReview => reviewed \in Reviews
    BY DEF Start, NeedsReview, Types
  <1>6. (reviewed' = <<>> \/ reviewed' \in Reviews) /\ (o \in NeedsReview => reviewed' \in Reviews)
    BY <1>5 DEF Start, NeedsReview, Reviews, Types
  <1>7. \A r \in Reviews : r # <<>>
    <2> SUFFICES ASSUME NEW r \in Reviews PROVE r # <<>>
      OBVIOUS
    <2>1. "modes" \in DOMAIN r
      BY DEF Reviews
    <2>2. DOMAIN <<>> = 1..0
      OBVIOUS
    <2> QED BY <2>1, <2>2
  <1>8. Types'
    BY <1>1, <1>2, <1>3, <1>6 DEF Types, Pcs, Active
  <1>9. At(1)' /\ 1 \in 1..Len(PartOf(o, part')) /\ Steps' = PartOf(o, part')
    <2>1. PartOf(o, part') \in Seq(Instructions) /\ Len(PartOf(o, part')) >= 1
      BY <1>1, <1>4, Shape
    <2>2. PartOf(o, part') = SubSeq(PartOf(o, part'), 1, Len(PartOf(o, part')))
      BY <2>1, SubSeqFull
    <2>3. 1 \in 1..Len(PartOf(o, part'))
      BY <2>1, LenProperties
    <2> QED BY <1>1, <1>2, <2>1, <2>2, <2>3 DEF At, Steps
  <1>10. o \notin Askers \/ part' \notin {"work", "restore"}
    BY <1>4 DEF Askers
  <1>11. Flow'
    BY <1>1, <1>2, <1>4, <1>6, <1>7, <1>9, <1>10 DEF Flow, Fits, Active
  <1> QED BY <1>8, <1>11

\* Every step keeps both.
LEMMA StepTypes == ASSUME Types, Flow, [Next]_vars PROVE Types' /\ Flow'
PROOF
  <1>1. CASE UNCHANGED vars
    BY <1>1 DEF vars, machineVars, opVars, counters, Types, Flow, Fits, At, Steps
  <1>2. CASE Next
    <2>1. CASE Status \/ MoveOver \/ Alarm \/ Cleared \/ Drop \/ Reconnect
      BY <2>1, StatusTypes, MachineTypes, MachineFlow
    <2>2. CASE Check \/ Submit \/ SubmitQuery \/ Execute
      BY <2>2, CheckTypes, SubmitTypes, ExecuteTypes
    <2>3. CASE TimedOut \/ Interrupted \/ Cancel
      BY <2>3, BrokenTypes
    <2>4. CASE \E e \in MoveResults : MoveEnds(e)
      BY <2>4, MoveEndsTypes
    <2>5. CASE ClearOver \/ PrepareOver \/ WorkOver \/ RestoreOver \/ RotationOver \/ AgainOver
      BY <2>5, OverTypes
    <2>6. CASE Recover \/ RestoreAgain
      BY <2>6, RecoverTypes, AgainTypes
    <2>7. CASE \E o \in Operations : Start(o)
      BY <2>7, StartTypes
    <2>8. CASE StopPressed
      <3>1. Types'
        BY <2>8 DEF StopPressed, Types, machineVars
      <3>2. Flow'
        BY <2>8 DEF StopPressed, Flow, Fits, At, Steps, machineVars
      <3> QED BY <3>1, <3>2
    <2> QED BY <1>2, <2>1, <2>2, <2>3, <2>4, <2>5, <2>6, <2>7, <2>8 DEF Next, MoveResults
  <1> QED BY <1>1, <1>2

\* A press of the stop button leaves everything but the button.
Stays ==
  UNCHANGED <<machineVars, reviewed, op, part, todo, pc, verdict, captured, cause, recovery, counters>>
LEMMA StaysPut == StopPressed \/ UNCHANGED vars => Stays
  BY DEF StopPressed, Stays, vars, opVars

(***************************************************************************)
(* Questions on their way.                                                 *)

Hears ==
  /\ seen.blocked => machine.blocked
  /\ ~link => wire = <<>>
  /\ machine.blocked => ~machine.moving
Leaving ==
  \/ pc = "over" /\ verdict = "Cancelled" /\ op \in Spawned /\ part \in {"prepare", "work", "restore"}
  \/ cause = "Cancelled" /\ (pc = "recover" \/ (part = "rotation" /\ pc \in Active \cup {"over"}))
Asked ==
  \A k \in DOMAIN wire : wire[k].is \in Questions =>
    \/ seen.blocked /\ pc # "moving"
    \/ Leaving
    \/ pc = "wait" /\ Head(todo).do # "zero" /\ k = Len(wire)

\* A line is submitted over a connection, a move to a machine without an alarm.
LEMMA Submitted ==
  ASSUME Types, Flow, Submit \/ SubmitQuery
  PROVE  /\ pc \in {"run", "sent"} /\ link /\ Head(todo).do \notin {"preflight", "stop"}
         /\ UNCHANGED <<machine, link, seen, reviewed, op, part, todo, verdict, captured, cause, recovery, counters>>
         /\ \E l \in WireLines :
              /\ wire' = Append(wire, l) /\ wire' \in Seq(WireLines) /\ Len(wire') = Len(wire) + 1
              /\ DOMAIN wire = 1..Len(wire) /\ DOMAIN wire' = 1..(Len(wire) + 1) /\ Len(wire) \in Nat
              /\ \A k \in 1..Len(wire) : wire'[k] = wire[k]
              /\ wire'[Len(wire) + 1] = l
              /\ \/ pc = "run" /\ l = Lines(Head(todo))[1]
                 \/ pc = "sent" /\ l.is \in Questions
              /\ l.is \in Questions => pc' = "wait" /\ Head(todo).do # "zero"
         /\ pc' \in {"sent", "wait", "moving"}
         /\ pc' = "moving" <=> pc = "run" /\ Head(todo).do \in Moves
         /\ pc' = "moving" => ~seen.blocked
PROOF
  <1> DEFINE i == Head(todo)
  <1>1. pc \in {"run", "sent"} /\ pc \in Active /\ i.do \notin {"preflight", "stop"} /\ wire \in Seq(WireLines)
    BY DEF Submit, SubmitQuery, Active, Flow, Fits, Types
  <1>2. /\ UNCHANGED <<machine, link, seen, reviewed, op, part, todo, verdict, captured, cause, recovery, counters>>
        /\ link
    BY <1>1 DEF Submit, SubmitQuery, Refusal
  <1>3. CASE Submit
    <2>1. wire' = Append(wire, Lines(i)[1]) /\ Lines(i)[1] \in WireLines
      BY <1>1, <1>3, LinesFit DEF Submit
    <2>2. /\ wire' \in Seq(WireLines) /\ Len(wire') = Len(wire) + 1
          /\ DOMAIN wire = 1..Len(wire) /\ DOMAIN wire' = 1..(Len(wire) + 1) /\ Len(wire) \in Nat
          /\ \A k \in 1..Len(wire) : wire'[k] = wire[k]
          /\ wire'[Len(wire) + 1] = Lines(i)[1]
      BY <1>1, <2>1, Appended, LenProperties
    <2>3. Lines(i)[1].is \in Questions => Len(Lines(i)) # 2 /\ i.do \notin {"zero"} \cup Moves
      <3> DEFINE l == Lines(i)[1]
      <3>1. /\ Len(Lines(i)) = 2 => i.do \in {"set", "change", "write", "plane"}
            /\ i.do \in {"set", "change"} => l = Line("modes", Value(i.v))
            /\ i.do = "write" => l = Line("write", Resolved(i.v))
            /\ i.do = "plane" => l = Line("plane", reviewed.plane)
            /\ i.do = "zero" => l = Line("write", [zero |-> TRUE, rotation |-> None])
            /\ i.do = "move" => l.is \in {"move", "arc"}
            /\ i.do = "jog" => l.is = "jog"
        BY <1>1, LinesFit
      <3> HIDE DEF l
      <3>2. i.do \in {"set", "change", "write", "plane", "zero"} => l.is \in {"modes", "write", "plane"}
        BY <3>1 DEF Line
      <3>3. l.is \in Questions => i.do \notin {"set", "change", "write", "plane", "zero"} \cup Moves
        BY <3>1, <3>2 DEF Questions, Moves
      <3> QED BY <3>1, <3>3 DEF l
    <2>4. pc' \in {"sent", "wait", "moving"} /\ (pc' = "moving" <=> i.do \in Moves) /\ (i.do \in Moves => ~seen.blocked)
      BY <1>1, <1>3, LinesFit DEF Submit, Refusal, Moves
    <2>5. Lines(i)[1].is \in Questions => pc' = "wait" /\ i.do # "zero"
      BY <1>3, <2>3 DEF Submit
    <2>6. pc = "run"
      BY <1>3 DEF Submit
    <2> QED BY <1>1, <1>2, <2>1, <2>2, <2>4, <2>5, <2>6
  <1>4. CASE SubmitQuery
    <2>0. i.do \in {"set", "change", "write", "plane"} /\ pc = "sent" /\ pc' = "wait"
      BY <1>4 DEF SubmitQuery, Flow, Fits, Active
    <2>1. wire' = Append(wire, Lines(i)[2]) /\ Lines(i)[2] \in WireLines /\ Lines(i)[2].is \in Questions
      BY <1>1, <1>4, <2>0, LinesFit DEF SubmitQuery
    <2>2. /\ wire' \in Seq(WireLines) /\ Len(wire') = Len(wire) + 1
          /\ DOMAIN wire = 1..Len(wire) /\ DOMAIN wire' = 1..(Len(wire) + 1) /\ Len(wire) \in Nat
          /\ \A k \in 1..Len(wire) : wire'[k] = wire[k]
          /\ wire'[Len(wire) + 1] = Lines(i)[2]
      BY <1>1, <2>1, Appended, LenProperties
    <2> QED BY <1>1, <1>2, <2>0, <2>1, <2>2
  <1> QED BY <1>3, <1>4

LEMMA StepHears == ASSUME Types, Flow, Hears, [Next]_vars PROVE Hears'
PROOF
  <1>0. machine \in Machines /\ seen \in Snapshots
    BY DEF Types
  <1>1. CASE Stays
    BY <1>1 DEF Stays, machineVars, Hears
  <1>2. CASE Status
    BY <1>0, <1>2 DEF Status, Hears, Snapshots
  <1>3. CASE MoveOver
    BY <1>0, <1>3 DEF MoveOver, Hears, Machines
  <1>4. CASE Alarm
    BY <1>0, <1>4 DEF Alarm, Hears, Machines
  <1>5. CASE Cleared
    BY <1>0, <1>5 DEF Cleared, Hears, Machines, Snapshots
  <1>6. CASE Drop \/ Reconnect
    BY <1>0, <1>6 DEF Drop, Reconnect, Hears, Snapshots
  <1>7. CASE Submit \/ SubmitQuery
    <2>1. UNCHANGED <<machine, link, seen>> /\ link
      BY <1>7, Submitted
    <2> QED BY <2>1 DEF Hears
  <1>8. CASE Execute
    <2>1. machine' = Reads(machine, wire[1]) /\ wire[1] \in WireLines /\ seen'.blocked = seen.blocked /\ link /\ link' = link
      BY <1>8, Executed DEF Execute
    <2>2. machine'.blocked = machine.blocked /\ (machine.blocked => machine' = machine)
      BY <1>0, <2>1, AfterFits DEF Reads
    <2> QED BY <2>1, <2>2 DEF Hears
  <1>9. CASE TimedOut
    BY <1>9 DEF TimedOut, Hears
  <1>10. CASE \E e \in MoveResults : MoveEnds(e)
    <2>1. PICK e \in MoveResults : MoveEnds(e)
      BY <1>10
    <2>2. machine'.blocked = machine.blocked /\ seen'.blocked = seen.blocked
          /\ (UNCHANGED machine \/ ~machine'.moving)
      BY <2>1, MoveEnded
    <2>3. UNCHANGED <<wire, link>>
      BY <2>1 DEF MoveEnds
    <2> QED BY <2>2, <2>3 DEF Hears
  <1>11. CASE Recover
    <2>1. wire' = wire /\ machine'.blocked = machine.blocked /\ (UNCHANGED machineVars \/ (~machine'.moving /\ seen'.blocked = machine.blocked))
      BY <1>11, RecoverTypes
    <2>2. link' = link
      BY <1>11 DEF Recover, machineVars
    <2> QED BY <2>1, <2>2 DEF Hears, machineVars
  <1>12. CASE \E o \in Operations : Start(o)
    <2>1. machine' = [machine EXCEPT !.origin = "old"] /\ UNCHANGED <<wire, link, seen>>
      BY <1>12 DEF Start
    <2> QED BY <1>0, <2>1 DEF Hears, Machines
  <1>13. CASE \/ Check \/ Interrupted \/ Cancel \/ RestoreAgain
              \/ ClearOver \/ PrepareOver \/ WorkOver \/ RestoreOver \/ RotationOver \/ AgainOver
    <2>1. UNCHANGED machineVars
      BY <1>13 DEF Check, Interrupted, Cancel, RestoreAgain, ClearOver, PrepareOver, WorkOver,
                   RestoreOver, RotationOver, AgainOver, OverAt
    <2> QED BY <2>1 DEF machineVars, Hears
  <1> QED BY <1>1, <1>2, <1>3, <1>4, <1>5, <1>6, <1>7, <1>8, <1>9, <1>10, <1>11, <1>12, <1>13, StaysPut
          DEF Next, MoveResults

\* A cancelled work is not given back: the operation leaves.
LEMMA CancelledLeaves ==
  ASSUME NEW o \in Spawned
  PROVE  ~Restores(o, "Cancelled")
  BY DEF Restores, Spawned, Motions, Settled

LEMMA CoreOfCancelled ==
  ASSUME op \in Spawned, CoreOver("Cancelled"), cause' = "Cancelled"
  PROVE  Leaving' /\ pc' # "moving"
  BY DEF CoreOver, Finish, Enter, Leaving, Active

LEMMA OverAsked ==
  ASSUME Types, Flow, Asked,
         ClearOver \/ PrepareOver \/ WorkOver \/ RestoreOver \/ RotationOver \/ AgainOver
  PROVE  Asked'
PROOF
  <1>1. pc = "over" /\ UNCHANGED <<machineVars, op, captured, counters>>
    BY DEF ClearOver, PrepareOver, WorkOver, RestoreOver, RotationOver, AgainOver, OverAt
  <1>2. pc' # "moving"
    BY DEF ClearOver, PrepareOver, WorkOver, RestoreOver, RotationOver, AgainOver, CoreOver, Finish, Enter
  <1>3. Leaving => Leaving'
    <2> SUFFICES ASSUME Leaving PROVE Leaving'
      OBVIOUS
    <2>1. CASE verdict = "Cancelled" /\ op \in Spawned /\ part = "prepare"
      <3>1. PrepareOver
        BY <2>1 DEF ClearOver, PrepareOver, WorkOver, RestoreOver, RotationOver, AgainOver, OverAt
      <3>2. CoreOver("Cancelled") /\ cause' = "Cancelled"
        BY <2>1, <3>1 DEF PrepareOver
      <3> QED BY <2>1, <3>2, CoreOfCancelled
    <2>2. CASE verdict = "Cancelled" /\ op \in Spawned /\ part = "work"
      <3>1. WorkOver
        BY <2>2 DEF ClearOver, PrepareOver, WorkOver, RestoreOver, RotationOver, AgainOver, OverAt
      <3>2. CoreOver("Cancelled") /\ cause' = "Cancelled"
        BY <2>2, <3>1, CancelledLeaves DEF WorkOver
      <3> QED BY <2>2, <3>2, CoreOfCancelled
    <2>3. CASE verdict = "Cancelled" /\ op \in Spawned /\ part = "restore"
      <3>1. RestoreOver
        BY <2>3 DEF ClearOver, PrepareOver, WorkOver, RestoreOver, RotationOver, AgainOver, OverAt
      <3>2. CoreOver("Cancelled") /\ cause' = "Cancelled"
        BY <2>3, <3>1 DEF RestoreOver
      <3> QED BY <2>3, <3>2, CoreOfCancelled
    <2>4. CASE cause = "Cancelled" /\ part = "rotation"
      <3>1. RotationOver
        BY <2>4 DEF ClearOver, PrepareOver, WorkOver, RestoreOver, RotationOver, AgainOver, OverAt
      <3>2. op = "angle"
        BY <1>1, <2>4 DEF Flow, PartsOf, Types, AllOps
      <3>3. cause' = "Cancelled" /\ pc' = "recover"
        BY <2>4, <3>1, <3>2 DEF RotationOver, Finish, Spawned, Motions
      <3> QED BY <3>3 DEF Leaving
    <2> QED BY <1>1, <2>1, <2>2, <2>3, <2>4 DEF Leaving
  <1> QED BY <1>1, <1>2, <1>3 DEF Asked, machineVars

\* A question is on its way from an operation that waits for it, that leaves, or
\* that met an alarm.
LEMMA StepAsked ==
  ASSUME Types, Flow, Hears, Asked, [Next]_vars
  PROVE  Asked'
PROOF
  <1>1. CASE Stays
    BY <1>1 DEF Stays, machineVars, opVars, Asked, Leaving
  <1>2. CASE Status \/ MoveOver \/ Alarm \/ Cleared \/ Drop \/ Reconnect
    <2>1. UNCHANGED opVars
      BY <1>2 DEF Status, MoveOver, Alarm, Cleared, Drop, Reconnect
    <2>2. wire' = <<>> \/ (wire' = wire /\ (seen.blocked => seen'.blocked))
      <3>1. CASE Status
        <4>1. seen'.blocked = machine.blocked /\ wire' = wire
          BY <3>1 DEF Status, Types, Snapshots
        <4> QED BY <4>1 DEF Hears
      <3>2. CASE MoveOver \/ Alarm \/ Cleared \/ Drop \/ Reconnect
        BY <3>2 DEF MoveOver, Alarm, Cleared, Drop, Reconnect
      <3> QED BY <1>2, <3>1, <3>2
    <2>3. DOMAIN <<>> = {}
      OBVIOUS
    <2> QED BY <2>1, <2>2, <2>3 DEF Asked, Leaving, opVars
  <1>3. CASE Check
    <2>1. pc = "run" /\ pc' \in {"run", "over"} /\ UNCHANGED <<machineVars, op, part, cause>>
      BY <1>3 DEF Check, Advance, PartEnds
    <2> QED BY <2>1 DEF Asked, Leaving, Active, machineVars
  <1>4. CASE Submit \/ SubmitQuery
    <2>1. /\ pc \in {"run", "sent"} /\ UNCHANGED <<seen, op, part, todo, verdict, cause>>
          /\ pc' \in {"sent", "wait", "moving"} /\ (pc' = "moving" => ~seen.blocked)
      BY <1>4, Submitted
    <2>2. PICK l \in WireLines :
              /\ Len(wire') = Len(wire) + 1
              /\ DOMAIN wire = 1..Len(wire) /\ DOMAIN wire' = 1..(Len(wire) + 1) /\ Len(wire) \in Nat
              /\ \A k \in 1..Len(wire) : wire'[k] = wire[k]
              /\ wire'[Len(wire) + 1] = l
              /\ l.is \in Questions => pc' = "wait" /\ Head(todo).do # "zero"
      BY <1>4, Submitted
    <2>3. Leaving => Leaving'
      BY <2>1 DEF Leaving, Active
    <2>4. SUFFICES ASSUME NEW k \in DOMAIN wire', wire'[k].is \in Questions
                   PROVE  \/ seen'.blocked /\ pc' # "moving"
                          \/ Leaving'
                          \/ pc' = "wait" /\ Head(todo').do # "zero" /\ k = Len(wire')
      BY DEF Asked
    <2>5. CASE k = Len(wire) + 1
      BY <2>1, <2>2, <2>4, <2>5
    <2>6. CASE k \in 1..Len(wire)
      <3>1. wire[k].is \in Questions /\ k \in DOMAIN wire
        BY <2>2, <2>4, <2>6
      <3>2. seen.blocked \/ Leaving
        BY <2>1, <3>1 DEF Asked
      <3> QED BY <2>1, <2>3, <3>2
    <2> QED BY <2>2, <2>4, <2>5, <2>6
  <1>5. CASE Execute
    <2>1. /\ seen'.blocked = seen.blocked
          /\ DOMAIN wire = 1..Len(wire) /\ Len(wire) \in Nat /\ Len(wire) >= 1
          /\ DOMAIN wire' = 1..(Len(wire) - 1) /\ Len(wire') = Len(wire) - 1
          /\ \A k \in 1..(Len(wire) - 1) : wire'[k] = wire[k + 1]
      BY <1>5, Executed
    <2>2. UNCHANGED <<op, part, cause>>
      BY <1>5 DEF Execute
    <2>3. SUFFICES ASSUME NEW k \in DOMAIN wire', wire'[k].is \in Questions
                   PROVE  \/ seen'.blocked /\ pc' # "moving"
                          \/ Leaving'
                          \/ pc' = "wait" /\ Head(todo').do # "zero" /\ k = Len(wire')
      BY DEF Asked
    <2>4. k + 1 \in DOMAIN wire /\ 1 \in DOMAIN wire
      BY <2>1
    <2>5. wire[k + 1].is \in Questions
      BY <2>1, <2>3
    <2>6. \/ seen.blocked /\ pc # "moving"
          \/ Leaving
          \/ pc = "wait" /\ Head(todo).do # "zero" /\ k + 1 = Len(wire)
      BY <2>4, <2>5 DEF Asked
    <2>7. CASE UNCHANGED <<todo, pc, verdict, captured, reviewed>>
      BY <2>1, <2>2, <2>6, <2>7 DEF Leaving
    <2>8. CASE pc = "wait" /\ Awaits(Head(todo), wire[1]) /\ pc' \in {"run", "over"}
      <3>1. Leaving => Leaving'
        BY <2>2, <2>8 DEF Leaving, Active
      <3>2. k + 1 # 1 /\ k + 1 <= Len(wire) /\ k + 1 \in Nat
        BY <2>1
      <3>3. CASE Head(todo).do = "zero"
        BY <2>1, <2>6, <2>8, <3>1, <3>3
      <3>4. CASE Head(todo).do # "zero"
        <4>1. wire[1].is \in Questions
          BY <2>8, <3>4 DEF Awaits, Questions
        <4>2. \/ seen.blocked /\ pc # "moving"
              \/ Leaving
              \/ 1 = Len(wire)
          BY <2>4, <4>1 DEF Asked
        <4> QED BY <2>1, <2>8, <3>1, <3>2, <4>2
      <3> QED BY <3>3, <3>4
    <2>9. UNCHANGED <<todo, pc, verdict, captured, reviewed>>
          \/ (pc = "wait" /\ Awaits(Head(todo), wire[1]) /\ pc' \in {"run", "over"})
      BY <1>5, Taken DEF Advance, PartEnds
    <2> QED BY <2>7, <2>8, <2>9
  <1>6. CASE TimedOut
    <2>1. \A k \in DOMAIN wire' : wire'[k].is \notin Questions
      <3> SUFFICES ASSUME NEW k \in DOMAIN wire' PROVE wire'[k].is \notin Questions
        OBVIOUS
      <3>1. k \in DOMAIN wire
        BY <1>6, Unheard
      <3>2. /\ wire[k].is \in Questions => wire'[k].is = "unheard"
            /\ wire[k].is \notin Questions => wire'[k] = wire[k]
        BY <1>6, <3>1, Unheard
      <3> QED BY <3>2 DEF Questions
    <2> QED BY <2>1 DEF Asked
  <1>7. CASE Interrupted
    <2>1. /\ pc' = "over" /\ UNCHANGED <<wire, seen, op, part, cause>>
          /\ pc \in Active
          /\ ~link \/ seen.blocked
      BY <1>7 DEF Interrupted, PartEnds, machineVars, Active
    <2>2. ~link => DOMAIN wire = {}
      BY DEF Hears
    <2> QED BY <2>1, <2>2 DEF Asked
  <1>8. CASE Cancel
    <2>1. Leaving'
      BY <1>8 DEF Cancel, Leaving, PartEnds, Spawned
    <2> QED BY <2>1 DEF Asked
  <1>9. CASE \E e \in MoveResults : MoveEnds(e)
    <2>1. PICK e \in MoveResults : MoveEnds(e)
      BY <1>9
    <2>2. pc = "moving" /\ pc' \in {"run", "over"} /\ UNCHANGED <<wire, op, part, cause>>
      BY <2>1 DEF MoveEnds, Advance, PartEnds
    <2>3. Leaving => Leaving'
      BY <2>2 DEF Leaving, Active
    <2> QED BY <2>2, <2>3 DEF Asked
  <1>10. CASE ClearOver \/ PrepareOver \/ WorkOver \/ RestoreOver \/ RotationOver \/ AgainOver
    BY <1>10, OverAsked
  <1>11. CASE Recover
    <2>1. pc = "recover" /\ pc' = "recovered" /\ wire' = wire
      BY <1>11, RecoverTypes DEF Recover
    <2>2. wire = <<>> \/ ((Exempt \/ seen.blocked) /\ seen' = seen)
      BY <1>11, RecoverTypes DEF machineVars
    <2>3. Exempt => cause # "Cancelled"
      BY DEF Exempt
    <2>4. DOMAIN <<>> = {}
      OBVIOUS
    <2>5. Leaving => cause = "Cancelled"
      BY <2>1 DEF Leaving
    <2> QED BY <2>1, <2>2, <2>3, <2>4, <2>5 DEF Asked
  <1>12. CASE RestoreAgain
    <2>1. pc = "recovered" /\ pc' # "moving" /\ UNCHANGED machineVars
      BY <1>12 DEF RestoreAgain, Enter
    <2>2. ~Leaving
      BY <2>1 DEF Leaving, Active
    <2> QED BY <2>1, <2>2 DEF Asked, machineVars
  <1>13. CASE \E o \in Operations : Start(o)
    <2>1. pc = "idle" /\ pc' = "run" /\ UNCHANGED <<wire, seen>>
      BY <1>13 DEF Start
    <2>2. ~Leaving
      BY <2>1 DEF Leaving, Active
    <2> QED BY <2>1, <2>2 DEF Asked
  <1> QED BY <1>1, <1>2, <1>3, <1>4, <1>5, <1>6, <1>7, <1>8, <1>9, <1>10, <1>11, <1>12, <1>13, StaysPut
          DEF Next, MoveResults

LEMMA NoQuestionInMotion ==
  ASSUME Types, Flow, Asked
  PROVE  NoOldContactInMotion
PROOF
  <1> SUFFICES ASSUME pc = "moving", NEW k \in DOMAIN wire, wire[k].is = "$#" PROVE FALSE
    BY DEF NoOldContactInMotion
  <1>1. Leaving
    BY DEF Asked, Questions
  <1>2. part = "work"
    <2>1. Head(todo).do \in Moves
      BY DEF Flow, Fits, Active
    <2>2. PICK n \in 1..Len(Steps) : Head(todo) = Steps[n] /\ WorksWell(op, part, Steps, n)
      BY Placed DEF Active
    <2> QED BY <2>1, <2>2 DEF WorksWell
  <1> QED BY <1>1, <1>2 DEF Leaving

\* The stored probe contact is never on its way while a move waits for a
\* contact of its own, for any machine and any number of alarms, lost answers
\* and lost connections (write_coordinate_data, query_coordinates).
THEOREM OldContactsAreTaken == Spec => []NoOldContactInMotion
PROOF
  <1> DEFINE I == Types /\ Flow /\ Hears /\ Asked
  <1>1. Init => I
    <2> SUFFICES ASSUME Init PROVE I
      OBVIOUS
    <2>1. Hears
      BY DEF Init, Hears
    <2>2. Asked
      BY DEF Init, Asked
    <2> QED BY <2>1, <2>2, InitTypes
  <1>2. I /\ [Next]_vars => I'
    BY StepTypes, StepHears, StepAsked
  <1>3. I => NoOldContactInMotion
    BY NoQuestionInMotion
  <1> QED BY <1>1, <1>2, <1>3, PTL DEF Spec

(***************************************************************************)
(* The lines and the settings of the machine.                              *)

\* All other steps leave its modes, rotation and plane, and no line is added.
LEMMA Quietly ==
  ASSUME Types, Flow, [Next]_vars, ~(Submit \/ SubmitQuery \/ Execute \/ TimedOut)
  PROVE  /\ machine'.modes = machine.modes /\ machine'.rotation = machine.rotation
         /\ machine'.plane = machine.plane
         /\ machine'.origin = machine.origin \/ machine'.origin = "old"
         /\ wire' = <<>> \/ (wire' = wire /\ (machine.blocked => machine'.blocked))
PROOF
  <1>0. machine \in Machines
    BY DEF Types
  <1>1. CASE Stays
    BY <1>1 DEF Stays, machineVars
  <1>2. CASE MoveOver
    <2>1. machine' = [machine EXCEPT !.moving = FALSE] /\ wire' = wire
      BY <1>2 DEF MoveOver
    <2> QED BY <1>0, <2>1 DEF Machines
  <1>3. CASE Alarm
    <2>1. machine' = [machine EXCEPT !.blocked = TRUE, !.moving = FALSE] /\ wire' = wire
      BY <1>3 DEF Alarm
    <2> QED BY <1>0, <2>1 DEF Machines
  <1>4. CASE Cleared
    <2>1. machine' = [machine EXCEPT !.blocked = FALSE, !.touching = FALSE] /\ wire' = <<>>
      BY <1>4 DEF Cleared
    <2> QED BY <1>0, <2>1 DEF Machines
  <1>5. CASE Drop
    BY <1>5 DEF Drop
  <1>6. CASE \E e \in MoveResults : MoveEnds(e)
    <2>1. PICK e \in MoveResults : MoveEnds(e)
      BY <1>6
    <2>2. wire' = wire
      BY <2>1 DEF MoveEnds
    <2> QED BY <2>1, <2>2, MoveEnded
  <1>7. CASE Recover
    BY <1>7, RecoverTypes
  <1>8. CASE \E o \in Operations : Start(o)
    <2>1. machine' = [machine EXCEPT !.origin = "old"] /\ wire' = wire
      BY <1>8 DEF Start
    <2> QED BY <1>0, <2>1 DEF Machines
  <1>9. CASE \/ Status \/ Reconnect \/ Check \/ Interrupted \/ Cancel \/ RestoreAgain
             \/ ClearOver \/ PrepareOver \/ WorkOver \/ RestoreOver \/ RotationOver \/ AgainOver
    <2>1. machine' = machine /\ wire' = wire
      BY <1>9 DEF Status, Reconnect, Check, Interrupted, Cancel, RestoreAgain, ClearOver, PrepareOver,
                  WorkOver, RestoreOver, RotationOver, AgainOver, OverAt, machineVars
    <2> QED BY <2>1
  <1> QED BY <1>1, <1>2, <1>3, <1>4, <1>5, <1>6, <1>7, <1>8, <1>9, StaysPut DEF Next, MoveResults

\* The modes after a step.
ModesNext(S) ==
  /\ machine'.modes \in S
  /\ machine'.blocked \/ \A k \in DOMAIN wire' : StaysIn(S, wire'[k])

\* A setting that no line changes stays, but for the line that is submitted.
LEMMA KeepsModes ==
  ASSUME Types, Flow, [Next]_vars, NEW S, ModesIn(S, wire),
         Submit /\ Head(todo).do \in {"set", "change"} => Value(Head(todo).v) \in S,
         Submit /\ Head(todo).do = "jog" /\ "probing" \in S => "metric" \in S
  PROVE  ModesNext(S)
PROOF
  <1>0. DOMAIN <<>> = {}
    OBVIOUS
  <1>1. CASE ~(Submit \/ SubmitQuery \/ Execute \/ TimedOut)
    BY <1>0, <1>1, Quietly DEF ModesIn, ModesNext
  <1>2. CASE Submit \/ SubmitQuery
    <2>1. UNCHANGED machine
      BY <1>2, Submitted
    <2>2. PICK l \in WireLines :
              /\ DOMAIN wire = 1..Len(wire) /\ DOMAIN wire' = 1..(Len(wire) + 1) /\ Len(wire) \in Nat
              /\ \A k \in 1..Len(wire) : wire'[k] = wire[k]
              /\ wire'[Len(wire) + 1] = l
              /\ (pc = "run" /\ l = Lines(Head(todo))[1]) \/ (pc = "sent" /\ l.is \in Questions)
      BY <1>2, Submitted
    <2>3. StaysIn(S, l)
      <3> SUFFICES ASSUME l.is \in {"modes", "jog"} PROVE StaysIn(S, l)
        BY DEF StaysIn
      <3>1. pc = "run" /\ l = Lines(Head(todo))[1] /\ Submit
        BY <1>2, <2>2 DEF Questions, SubmitQuery
      <3>2. pc \in Active /\ Head(todo).do \notin {"preflight", "stop"}
        BY <1>2, <3>1, Submitted DEF Active
      <3>3. /\ Head(todo).do \in {"set", "change"} => l = Line("modes", Value(Head(todo).v))
            /\ Head(todo).do = "write" => l = Line("write", Resolved(Head(todo).v))
            /\ Head(todo).do = "plane" => l = Line("plane", reviewed.plane)
            /\ Head(todo).do = "zero" => l = Line("write", [zero |-> TRUE, rotation |-> None])
            /\ Head(todo).do \in {"modes", "coordinates"} => l.is \in Questions
            /\ Head(todo).do = "move" => l.is \in {"move", "arc"}
            /\ Head(todo).do = "jog" => l.is = "jog"
        BY <3>1, <3>2, LinesFit
      <3>4. PICK n \in 1..Len(Steps) : Head(todo) \in Instructions
        BY <3>2, Placed
      <3>5. Head(todo).do \in {"modes", "coordinates", "zero", "set", "change", "write", "plane", "move", "jog"}
        BY <3>2, <3>4 DEF Instructions
      <3>6. CASE Head(todo).do \in {"set", "change"}
        BY <3>1, <3>3, <3>6 DEF Line, StaysIn
      <3>7. CASE Head(todo).do = "jog"
        BY <3>1, <3>3, <3>7 DEF StaysIn
      <3>8. CASE Head(todo).do \notin {"set", "change", "jog"}
        BY <3>3, <3>5, <3>8 DEF Line, Questions
      <3> QED BY <3>6, <3>7, <3>8
    <2>4. SUFFICES ASSUME NEW k \in DOMAIN wire', ~machine.blocked
                   PROVE  StaysIn(S, wire'[k])
      BY <2>1 DEF ModesIn, ModesNext
    <2>5. CASE k = Len(wire) + 1
      BY <2>2, <2>3, <2>4, <2>5
    <2>6. CASE k \in 1..Len(wire)
      BY <2>2, <2>4, <2>6 DEF ModesIn
    <2> QED BY <2>2, <2>4, <2>5, <2>6
  <1>3. CASE Execute
    <2>1. /\ DOMAIN wire = 1..Len(wire) /\ Len(wire) \in Nat /\ Len(wire) >= 1
          /\ DOMAIN wire' = 1..(Len(wire) - 1)
          /\ \A k \in 1..(Len(wire) - 1) : wire'[k] = wire[k + 1]
          /\ machine' = Reads(machine, wire[1]) /\ wire[1] \in WireLines
      BY <1>3, Executed
    <2>2. machine'.blocked = machine.blocked
      BY <2>1, AfterFits DEF Types
    <2>3. 1 \in DOMAIN wire
      BY <2>1
    <2>4. machine'.modes \in S
      BY <2>1, <2>3, AfterStays DEF ModesIn, Types
    <2>5. \A k \in DOMAIN wire' : k + 1 \in DOMAIN wire /\ wire'[k] = wire[k + 1]
      BY <2>1
    <2> QED BY <2>2, <2>4, <2>5 DEF ModesIn, ModesNext
  <1>4. CASE TimedOut
    <2>1. machine' = machine
      BY <1>4 DEF TimedOut
    <2>2. DOMAIN wire' = DOMAIN wire
      BY <1>4, Unheard
    <2>3. \A k \in DOMAIN wire : wire'[k].is \in {"modes", "jog"} => wire'[k] = wire[k]
      <3> SUFFICES ASSUME NEW k \in DOMAIN wire, wire'[k].is \in {"modes", "jog"}
                   PROVE  wire'[k] = wire[k]
        OBVIOUS
      <3>1. /\ wire[k].is \in Questions => wire'[k].is = "unheard"
            /\ wire[k].is \notin Questions => wire'[k] = wire[k]
        BY <1>4, Unheard
      <3> QED BY <3>1
    <2> QED BY <2>1, <2>2, <2>3 DEF ModesIn, ModesNext, StaysIn
  <1> QED BY <1>1, <1>2, <1>3, <1>4

(***************************************************************************)
(* Numbers are read in metric modes.                                       *)

MetricModes == {"probing", "metric"}
\* Between a jog of the repeatability check and the modes that are set behind it.
Jogging == op = "repeat" /\ Len(todo) \in {5, 6}
Between == IF Jogging THEN MetricModes ELSE {"probing"}
Probing ==
  op \in Motions =>
  /\ part = "work" /\ pc \in Active /\ Head(todo).do # "set" => ModesIn(Between, wire)
  /\ part = "prepare" /\ pc = "over" /\ verdict = "ok" => ModesIn({"probing"}, wire)
InMetric ==
  op \in Writes \ {"rotate"} =>
  /\ part = "work" /\ pc \in {"run", "sent", "wait"} => ModesIn(MetricModes, wire)
  /\ part = "prepare" /\ pc = "over" /\ verdict = "ok" => ModesIn(MetricModes, wire)
AsFound ==
  part = "prepare" /\ pc = "run" /\ Head(todo).do = "change" => ModesIn({captured}, wire)
Before(k, S) ==
  /\ machine.modes \in S
  /\ machine.blocked \/ \A j \in 1..k-1 : StaysIn(S, wire[j])
Numbers ==
  /\ machine.origin # "wrong"
  /\ \A k \in DOMAIN wire :
       /\ wire[k].is \in MoveLines => Before(k, ReadIn(wire[k].is))
       /\ wire[k].is = "write" /\ wire[k].v.zero => Before(k, MetricModes)

Well(n) ==
  /\ SetsWell(op, part, Steps, n) /\ WorksWell(op, part, Steps, n)
  /\ AsksWell(op, part, Steps, n) /\ RestoresWell(op, part, Steps, n)
  /\ RepeatsWell(op, part, Steps, n)

\* The instruction that follows another one in its part, and the last one.
LEMMA NextHead ==
  ASSUME Types, Flow, pc \in Active, Advance
  PROVE  \E n \in 1..Len(Steps) :
           /\ Len(Steps) \in Nat /\ Steps[n] = Head(todo) /\ Head(todo) \in Instructions /\ Well(n)
           /\ Len(todo) = Len(Steps) - n + 1
           /\ \/ pc' = "over" /\ n = Len(Steps)
              \/ /\ pc' = "run" /\ n + 1 \in 1..Len(Steps) /\ Head(todo') = Steps[n + 1]
                 /\ n # Len(Steps) /\ Well(n + 1) /\ Len(todo') = Len(Steps) - n
PROOF
  <1>1. PICK n \in 1..Len(Steps) :
              /\ Head(todo) = Steps[n] /\ Head(todo) \in Instructions
              /\ Tail(todo) = SubSeq(Steps, n + 1, Len(Steps))
              /\ Tail(todo) = <<>> <=> n = Len(Steps)
              /\ Well(n) /\ Len(todo) = Len(Steps) - n + 1
    BY Placed DEF Well
  <1>2. Steps \in Seq(Instructions) /\ Len(Steps) \in Nat /\ op \in AllOps /\ part \in PartsOf(op)
    BY Placed
  <1>3. CASE n = Len(Steps)
    <2>1. pc' = "over"
      BY <1>1, <1>3 DEF Advance
    <2> QED BY <1>1, <1>2, <1>3, <2>1
  <1>4. CASE n # Len(Steps)
    <2>1. pc' = "run" /\ todo' = SubSeq(Steps, n + 1, Len(Steps))
      BY <1>1, <1>4 DEF Advance
    <2>2. n + 1 \in 1..Len(Steps)
      BY <1>2, <1>4
    <2>3. Head(todo') = Steps[n + 1]
      BY <1>2, <2>1, <2>2, FromThere
    <2>4. Well(n + 1)
      BY <1>2, <2>2, Shape DEF Well, Steps
    <2>5. Len(todo') = Len(Steps) - n
      BY <1>2, <2>1, <2>2
    <2> QED BY <1>1, <1>2, <1>4, <2>1, <2>2, <2>3, <2>4, <2>5
  <1> QED BY <1>3, <1>4

\* A part that is entered starts with its first instruction.
LEMMA FirstHead ==
  ASSUME NEW o \in AllOps, NEW p \in PartsOf(o), NEW t, t = PartOf(o, p)
  PROVE  /\ 1 \in 1..Len(PartOf(o, p)) /\ Head(t) = PartOf(o, p)[1]
         /\ SetsWell(o, p, PartOf(o, p), 1) /\ RestoresWell(o, p, PartOf(o, p), 1)
PROOF
  <1>1. PartOf(o, p) \in Seq(Instructions) /\ Len(PartOf(o, p)) >= 1
    BY Shape
  <1>2. 1 \in 1..Len(PartOf(o, p)) /\ Head(PartOf(o, p)) = PartOf(o, p)[1]
    BY <1>1, LenProperties
  <1> QED BY <1>2, Shape

\* The answer to a question is the last thing on its way.
LEMMA Answered ==
  ASSUME Types, Flow, Hears, Asked, Execute, pc = "wait", Awaits(Head(todo), wire[1]),
         Head(todo).do # "zero", ~Leaving
  PROVE  machine'.blocked \/ DOMAIN wire' = {}
PROOF
  <1>1. /\ DOMAIN wire = 1..Len(wire) /\ Len(wire) \in Nat /\ Len(wire) >= 1
        /\ DOMAIN wire' = 1..(Len(wire) - 1)
        /\ machine' = Reads(machine, wire[1]) /\ wire[1] \in WireLines
    BY Executed
  <1>2. machine'.blocked = machine.blocked
    BY <1>1, AfterFits DEF Types
  <1>3. wire[1].is \in Questions
    BY DEF Awaits, Questions
  <1>4. seen.blocked \/ 1 = Len(wire)
    BY <1>1, <1>3 DEF Asked
  <1>5. 1 = Len(wire) => DOMAIN wire' = {}
    <2> SUFFICES ASSUME 1 = Len(wire), NEW k \in DOMAIN wire' PROVE FALSE
      OBVIOUS
    <2>1. k \in 1..(Len(wire) - 1) /\ Len(wire) - 1 = 0
      BY <1>1
    <2>2. k \in 1..0
      BY <2>1
    <2> QED BY <2>2
  <1> QED BY <1>2, <1>4, <1>5 DEF Hears

\* What a step that is not about modes leaves alone.
LEMMA Elsewhere ==
  ASSUME Status \/ MoveOver \/ Alarm \/ Cleared \/ Drop \/ Reconnect \/ Stays
  PROVE  UNCHANGED <<op, part, pc, todo, verdict, captured, cause, recovery, reviewed>>
  BY DEF Status, MoveOver, Alarm, Cleared, Drop, Reconnect, opVars, Stays

\* Modes that were set are confirmed.
LEMMA SetConfirmed ==
  ASSUME Types, Flow, Hears, Asked, Execute, pc = "wait", Awaits(Head(todo), wire[1]),
         Confirms(Head(todo), machine'), Head(todo).do \in {"set", "change"}, part # "rotation"
  PROVE  ModesNext({Value(Head(todo).v)})
PROOF
  <1>1. machine'.modes = Value(Head(todo).v)
    BY DEF Confirms
  <1>2. ~Leaving
    BY DEF Leaving
  <1>3. machine'.blocked \/ DOMAIN wire' = {}
    BY <1>2, Answered
  <1> QED BY <1>1, <1>3 DEF ModesNext

\* The instructions of the repeatability check, one by one.
LEMMA RepeatedSteps ==
  ASSUME NEW o, NEW p, NEW q, NEW n \in 1..Len(q), RepeatsWell(o, p, q, n), o = "repeat", p = "work"
  PROVE  /\ Len(q) = 9 /\ n \in 1..9
         /\ n \in {1, 3, 5, 7, 9} => q[n].do = "stop"
         /\ n \in {2, 8} => q[n].do = "move"
         /\ n = 4 => q[n].do = "jog"
         /\ n = 6 => q[n].do = "set"
PROOF
  <1>1. /\ CheckStop.do = "stop" /\ Move(FALSE).do = "move" /\ Jog.do = "jog"
        /\ Set("probing").do = "set"
    BY DEF CheckStop, Move, Jog, Set, Do, Ask
  <1> QED BY <1>1 DEF RepeatsWell

\* The modes an instruction of a motion waits in, after the one before it.
LEMMA NextBetween ==
  ASSUME Types, Flow, Probing, pc \in Active, Advance, UNCHANGED <<op, part>>, op \in Motions,
         part = "work", pc' = "run", Head(todo').do # "set"
  PROVE  /\ Head(todo).do = "set" => Head(todo).v = "probing" /\ Between' = {"probing"}
         /\ Head(todo).do # "set" => ModesIn(Between', wire)
         /\ Head(todo).do = "jog" => Between' = MetricModes
PROOF
  <1>1. PICK n \in 1..Len(Steps) :
              /\ Len(Steps) \in Nat /\ Steps[n] = Head(todo) /\ Well(n) /\ Well(n + 1)
              /\ Len(todo) = Len(Steps) - n + 1 /\ Len(todo') = Len(Steps) - n
              /\ n + 1 \in 1..Len(Steps) /\ Head(todo') = Steps[n + 1]
    BY NextHead
  <1>2. Head(todo).do = "set" => Head(todo).v = "probing"
    BY <1>1 DEF Well, SetsWell
  <1>3. CASE op # "repeat"
    BY <1>1, <1>2, <1>3 DEF Between, Jogging, Probing, Well, WorksWell
  <1>4. CASE op = "repeat"
    <2>1. /\ Len(Steps) = 9 /\ (n \in {1, 3, 5, 7, 9} => Head(todo).do = "stop")
          /\ (n \in {2, 8} => Head(todo).do = "move") /\ (n = 4 => Head(todo).do = "jog")
          /\ (n = 6 => Head(todo).do = "set") /\ (n = 5 => Head(todo').do = "set")
      <3>1. RepeatsWell(op, part, Steps, n) /\ RepeatsWell(op, part, Steps, n + 1)
        BY <1>1 DEF Well
      <3>2. /\ Len(Steps) = 9 /\ (n \in {1, 3, 5, 7, 9} => Steps[n].do = "stop")
            /\ (n \in {2, 8} => Steps[n].do = "move") /\ (n = 4 => Steps[n].do = "jog")
            /\ (n = 6 => Steps[n].do = "set")
        BY <1>4, <3>1, RepeatedSteps
      <3>3. n + 1 = 6 => Steps[n + 1].do = "set"
        BY <1>1, <1>4, <3>1, RepeatedSteps
      <3>4. n = 5 => n + 1 = 6
        OBVIOUS
      <3> QED BY <1>1, <3>2, <3>3, <3>4
    <2>2. Jogging <=> n \in {4, 5}
      BY <1>1, <1>4, <2>1 DEF Jogging
    <2>3. Jogging' <=> n \in {3, 4}
      BY <1>1, <1>4, <2>1 DEF Jogging
    <2>4. n # 5
      BY <2>1
    <2>5. Head(todo).do # "set" => ModesIn(Between, wire)
      BY DEF Probing
    <2>6. ModesIn({"probing"}, wire) => ModesIn(MetricModes, wire)
      BY DEF ModesIn, StaysIn, MetricModes
    <2>7. CASE n = 3
      BY <1>2, <2>1, <2>2, <2>3, <2>5, <2>6, <2>7 DEF Between
    <2>8. CASE n = 4
      BY <1>2, <2>1, <2>2, <2>3, <2>5, <2>8 DEF Between
    <2>9. CASE n \notin {3, 4, 5}
      BY <1>1, <1>2, <2>1, <2>2, <2>3, <2>5, <2>9 DEF Between
    <2> QED BY <2>4, <2>7, <2>8, <2>9
  <1> QED BY <1>3, <1>4

LEMMA StepProbing ==
  ASSUME Types, Flow, Hears, Asked, Probing, [Next]_vars
  PROVE  Probing'
PROOF
  <1> DEFINE Working == part = "work" /\ pc \in Active /\ Head(todo).do # "set"
             Prepared == part = "prepare" /\ pc = "over" /\ verdict = "ok"
  <1> SUFFICES ASSUME op' \in Motions
               PROVE  /\ Working' => ModesNext(Between')
                      /\ Prepared' => ModesNext({"probing"})
    BY DEF Probing, ModesIn, ModesNext
  <1>1. CASE op \in Motions /\ Prepared /\ UNCHANGED <<part, pc>>
    <2>1. ModesIn({"probing"}, wire) /\ ~Submit
      BY <1>1 DEF Probing, Submit
    <2> QED BY <1>1, <2>1, KeepsModes DEF Active
  <1>2. ASSUME op \in Motions, Working, NEW S, ModesIn(S, wire), S = Between
        PROVE  ModesNext(S)
    <2>1. PICK n \in 1..Len(Steps) :
              /\ Head(todo) = Steps[n] /\ SetsWell(op, part, Steps, n) /\ WorksWell(op, part, Steps, n)
              /\ RepeatsWell(op, part, Steps, n) /\ Len(todo) = Len(Steps) - n + 1
      BY <1>2, Placed
    <2>2. Head(todo).do \notin {"set", "change"}
      BY <1>2, <2>1 DEF SetsWell
    <2>3. Head(todo).do = "jog" => "metric" \in S
      <3> SUFFICES ASSUME Head(todo).do = "jog" PROVE "metric" \in S
        OBVIOUS
      <3>1. op = "repeat" /\ part = "work"
        BY <1>2, <2>1 DEF WorksWell
      <3>2. n = 4 /\ Len(Steps) = 9
        BY <1>2, <2>1, <3>1, RepeatedSteps
      <3>3. Len(todo) = 6
        BY <2>1, <3>2
      <3> QED BY <1>2, <3>1, <3>3 DEF Between, Jogging, MetricModes
    <2> QED BY <1>2, <2>2, <2>3, KeepsModes
  <1>3. CASE op \in Motions /\ Working /\ UNCHANGED <<op, todo, part>> /\ pc' \in Active
    <2>1. Between' = Between /\ ~Prepared'
      BY <1>3 DEF Between, Jogging, Active
    <2>2. ModesIn(Between, wire)
      BY <1>3 DEF Probing
    <2> QED BY <1>2, <1>3, <2>1, <2>2
  <1>4. CASE Status \/ MoveOver \/ Alarm \/ Cleared \/ Drop \/ Reconnect \/ Stays
    <2>1. UNCHANGED <<op, part, pc, todo, verdict>>
      BY <1>4, Elsewhere
    <2>2. Working' => Working
      BY <2>1
    <2>3. Prepared' => Prepared
      BY <2>1
    <2> QED BY <1>1, <1>3, <2>1, <2>2, <2>3 DEF Active
  <1>5. CASE Check
    <2>1. SUFFICES ASSUME Working' \/ Prepared' PROVE FALSE \/ (/\ Working' => ModesNext(Between')
                                                                /\ Prepared' => ModesNext({"probing"}))
      OBVIOUS
    <2>2. /\ pc = "run" /\ UNCHANGED <<op, part>> /\ Advance
          /\ Head(todo).do \in {"change", "preflight", "stop", "jog"}
      BY <1>5, <2>1 DEF Check, NoChange, PartEnds, Active
    <2>3. PICK n \in 1..Len(Steps) :
              /\ Steps[n] = Head(todo) /\ Well(n)
              /\ (pc' = "over" /\ n = Len(Steps)) \/ pc' = "run"
      BY <2>2, NextHead DEF Active
    <2>4. ~Prepared'
      BY <2>2, <2>3 DEF Well, SetsWell, Set, Do
    <2>5. Working' /\ pc' = "run"
      BY <2>1, <2>3, <2>4 DEF Active
    <2>6. ModesIn(Between', wire)
      BY <2>2, <2>5, NextBetween DEF Active
    <2>7. UNCHANGED <<machine, wire>>
      BY <1>5 DEF Check, machineVars
    <2> QED BY <2>4, <2>6, <2>7 DEF ModesIn, ModesNext
  <1>6. CASE Submit \/ SubmitQuery
    <2>1. UNCHANGED <<op, part, todo>> /\ pc \in {"run", "sent"} /\ pc' \in {"sent", "wait", "moving"}
      BY <1>6, Submitted
    <2>2. Working' => Working
      BY <2>1 DEF Active
    <2> QED BY <1>3, <2>1, <2>2 DEF Active
  <1>7. CASE Execute
    <2>1. UNCHANGED <<op, part>>
      BY <1>7 DEF Execute
    <2>2. CASE UNCHANGED <<todo, pc, verdict, captured, reviewed>>
      <3>1. Working' => Working
        BY <2>1, <2>2
      <3>2. Prepared' => Prepared
        BY <2>1, <2>2
      <3> QED BY <1>1, <1>3, <2>1, <2>2, <3>1, <3>2 DEF Active
    <2>3. CASE pc = "wait" /\ Awaits(Head(todo), wire[1]) /\ Confirms(Head(todo), machine') /\ Advance
      <3>1. PICK n \in 1..Len(Steps) :
              /\ Steps[n] = Head(todo) /\ Well(n)
              /\ (pc' = "over" /\ n = Len(Steps)) \/ pc' = "run"
        BY <2>3, NextHead DEF Active
      <3>2. CASE Head(todo).do = "set"
        <4>1. CASE part \in {"prepare", "work"}
          <5>1. Head(todo).v = "probing" /\ part # "rotation"
            BY <2>1, <3>1, <3>2, <4>1 DEF Well, SetsWell
          <5>2. Value("probing") = "probing"
            BY DEF Value
          <5>3. ModesNext({"probing"})
            BY <1>7, <2>3, <3>2, <5>1, <5>2, SetConfirmed
          <5>4. Working' => Between' = {"probing"}
            BY <2>1, <2>3, <3>1, <3>2, NextBetween DEF Active
          <5> QED BY <5>3, <5>4
        <4>2. CASE part \notin {"prepare", "work"}
          BY <2>1, <4>2
        <4> QED BY <4>1, <4>2
      <3>3. CASE Head(todo).do # "set"
        <4>1. ~Prepared'
          BY <2>1, <3>1, <3>3 DEF Well, SetsWell, Set, Do
        <4>2. SUFFICES ASSUME Working' PROVE ModesNext(Between')
          BY <4>1
        <4>3. pc' = "run" /\ part = "work" /\ op \in Motions
          BY <2>1, <3>1, <4>2 DEF Active
        <4>4. ModesIn(Between', wire)
          BY <2>1, <2>3, <3>3, <4>2, <4>3, NextBetween DEF Active
        <4>5. ~Submit /\ ModesNext(Between')
          BY <2>3, <4>4, KeepsModes DEF Submit
        <4> QED BY <4>5
      <3> QED BY <3>2, <3>3
    <2>4. CASE PartEnds("Unconfirmed")
      BY <2>4 DEF PartEnds, Active
    <2> QED BY <1>7, <2>2, <2>3, <2>4, Taken
  <1>8. CASE TimedOut \/ Interrupted \/ Cancel
    <2>1. pc' = "over" /\ verdict' # "ok"
      BY <1>8 DEF TimedOut, Interrupted, Cancel, PartEnds
    <2> QED BY <2>1 DEF Active
  <1>9. CASE \E e \in MoveResults : MoveEnds(e)
    <2>1. PICK e \in MoveResults : MoveEnds(e)
      BY <1>9
    <2>2. pc = "moving" /\ UNCHANGED <<op, part, wire>> /\ Head(todo).do \in Moves /\ pc' \in {"run", "over"}
      BY <2>1 DEF MoveEnds, Flow, Fits, Active, Advance, PartEnds
    <2>3. PICK n \in 1..Len(Steps) : Head(todo) = Steps[n] /\ WorksWell(op, part, Steps, n)
      BY <2>2, Placed DEF Active
    <2>4. part = "work" /\ op \in Motions /\ Head(todo).do # "set"
      BY <2>2, <2>3 DEF WorksWell, Moves
    <2>5. SUFFICES ASSUME Working' PROVE ModesNext(Between')
      BY <2>2, <2>4
    <2>6. pc' = "run" /\ Advance
      BY <2>1, <2>2, <2>5 DEF MoveEnds, PartEnds, Active
    <2>7. ModesIn(Between', wire)
      BY <2>2, <2>4, <2>5, <2>6, NextBetween DEF Active
    <2>8. ~Submit
      BY <2>2 DEF Submit
    <2> QED BY <2>7, <2>8, KeepsModes
  <1>10. CASE ClearOver \/ PrepareOver \/ WorkOver \/ RestoreOver \/ RotationOver \/ AgainOver
    <2>1. SUFFICES ASSUME Working' \/ Prepared' PROVE Working' => ModesNext(Between')
      BY <1>10 DEF ClearOver, PrepareOver, WorkOver, RestoreOver, RotationOver, AgainOver, CoreOver,
                   Finish, Enter, OverAt
    <2>2. CASE Prepared'
      BY <2>2
    <2>3. CASE Working'
      <3>1. PrepareOver /\ verdict = "ok" /\ Enter("work")
        BY <1>10, <2>3 DEF ClearOver, PrepareOver, WorkOver, RestoreOver, RotationOver, AgainOver, CoreOver,
                   Finish, Enter, OverAt, Active
      <3>2. op' = op /\ op \in Motions /\ Prepared /\ UNCHANGED <<machine, wire>>
        BY <3>1 DEF PrepareOver, OverAt, machineVars
      <3>3. ModesIn({"probing"}, wire)
        BY <3>2 DEF Probing
      <3>4. ModesNext({"probing"}) /\ ModesNext(MetricModes)
        BY <3>2, <3>3 DEF ModesIn, ModesNext, StaysIn, MetricModes
      <3> QED BY <3>4 DEF Between
    <2> QED BY <2>1, <2>2, <2>3
  <1>11. CASE Recover \/ RestoreAgain
    BY <1>11 DEF Recover, RestoreAgain, Enter, Active
  <1>12. CASE \E o \in Operations : Start(o)
    <2>1. PICK o \in Operations : Start(o)
      BY <1>12
    <2>2. SUFFICES ASSUME Working' PROVE FALSE
      BY <2>1 DEF Start
    <2>3. part' = "work" /\ op' = "rotary" /\ todo' = PartOf("rotary", "work")
      BY <2>1, <2>2 DEF Start
    <2>4. Head(todo') = PartOf("rotary", "work")[1]
      BY <2>3, FirstHead DEF AllOps, Motions, PartsOf
    <2>5. Head(todo').do = "set"
      BY <2>4 DEF PartOf, Program, Parts, RunRotary, Set, Do
    <2> QED BY <2>2, <2>5
  <1> QED BY <1>1, <1>4, <1>5, <1>6, <1>7, <1>8, <1>9, <1>10, <1>11, <1>12, StaysPut DEF Next, MoveResults

\* What set_modes asks for in a write is metric, whatever was captured.
LEMMA MetricIsMetric ==
  ASSUME Types, NEW c
  PROVE  Metric(c) # "inch"
  BY DEF Metric

LEMMA StepInMetric ==
  ASSUME Types, Types', Flow, Hears, Asked, AsFound, InMetric, [Next]_vars
  PROVE  InMetric'
PROOF
  <1> DEFINE W == Writes \ {"rotate"}
             Working == part = "work" /\ pc \in {"run", "sent", "wait"}
             Prepared == part = "prepare" /\ pc = "over" /\ verdict = "ok"
  <1> SUFFICES ASSUME op' \in W, Working' \/ Prepared'
               PROVE  ModesNext(MetricModes)
    BY DEF InMetric, ModesIn, ModesNext
  <1>1. op \in W /\ (Working \/ Prepared) => ModesIn(MetricModes, wire)
    BY DEF InMetric
  <1>2. op \in W /\ Working => Head(todo).do \notin {"set", "change", "move", "jog"}
    <2> SUFFICES ASSUME op \in W, Working PROVE Head(todo).do \notin {"set", "change", "move", "jog"}
      OBVIOUS
    <2>1. PICK n \in 1..Len(Steps) : Head(todo) = Steps[n] /\ SetsWell(op, part, Steps, n)
      BY Placed DEF Active
    <2> QED BY <2>1 DEF SetsWell
  <1>3. ASSUME op \in W, Working \/ Prepared, ~(Submit /\ Prepared) PROVE ModesNext(MetricModes)
    BY <1>1, <1>2, <1>3, KeepsModes
  <1>4. CASE Status \/ MoveOver \/ Alarm \/ Cleared \/ Drop \/ Reconnect \/ Stays
    <2>1. op \in W /\ (Working \/ Prepared) /\ ~(Submit /\ Prepared)
      BY <1>4, Elsewhere DEF Submit
    <2> QED BY <2>1, <1>3
  <1>5. CASE Check
    <2>1. pc = "run" /\ UNCHANGED <<op, part>> /\ Advance
          /\ (NoChange(Head(todo)) \/ Head(todo).do \in {"preflight", "stop", "jog"})
      BY <1>5 DEF Check, PartEnds
    <2>2. PICK n \in 1..Len(Steps) :
              /\ Steps[n] = Head(todo) /\ Well(n)
              /\ (pc' = "over" /\ n = Len(Steps)) \/ pc' = "run"
      BY <2>1, NextHead DEF Active
    <2>3. CASE Prepared'
      <3>1. Head(todo).do = "change" /\ Metric(captured) = captured
        BY <2>1, <2>2, <2>3 DEF Well, SetsWell, NoChange
      <3>2. ModesIn({captured}, wire)
        BY <2>1, <2>3, <3>1 DEF AsFound
      <3>3. captured \in MetricModes
        <4>1. captured \in Modes
          BY <3>2 DEF ModesIn, Types, Machines
        <4>2. captured # "inch"
          BY <3>1, MetricIsMetric
        <4> QED BY <4>1, <4>2 DEF Modes, MetricModes
      <3>4. ModesIn(MetricModes, wire)
        BY <3>2, <3>3 DEF ModesIn, StaysIn, MetricModes
      <3>5. ~Submit
        BY <1>5, <3>1 DEF Check, Submit, Advance, PartEnds
      <3> QED BY <3>4, <3>5, KeepsModes
    <2>4. CASE ~Prepared'
      BY <2>1, <2>4, <1>3
    <2> QED BY <2>3, <2>4
  <1>6. CASE Submit \/ SubmitQuery
    <2>1. UNCHANGED <<op, part, todo>> /\ pc \in {"run", "sent"} /\ pc' \in {"sent", "wait", "moving"}
      BY <1>6, Submitted
    <2>2. op \in W /\ Working
      BY <2>1
    <2> QED BY <2>2, <1>3
  <1>7. CASE Execute
    <2>1. UNCHANGED <<op, part>>
      BY <1>7 DEF Execute
    <2>2. CASE UNCHANGED <<todo, pc, verdict, captured, reviewed>>
      <3>1. op \in W /\ (Working \/ Prepared) /\ ~(Submit /\ Prepared)
        BY <2>1, <2>2 DEF Submit
      <3> QED BY <3>1, <1>3
    <2>3. CASE pc = "wait" /\ Awaits(Head(todo), wire[1]) /\ Confirms(Head(todo), machine') /\ Advance
      <3>1. PICK n \in 1..Len(Steps) :
              /\ Steps[n] = Head(todo) /\ Well(n)
              /\ (pc' = "over" /\ n = Len(Steps)) \/ pc' = "run"
        BY <2>3, NextHead DEF Active
      <3>2. CASE Prepared'
        <4>1. Head(todo).do \in {"set", "change"} /\ Head(todo).v = "metric" /\ part # "rotation"
          BY <2>1, <3>1, <3>2 DEF Well, SetsWell
        <4>2. ModesNext({Value("metric")})
          BY <1>7, <2>3, <4>1, SetConfirmed
        <4>3. Value("metric") = Metric(captured)
          BY DEF Value
        <4>4. machine'.modes = Value("metric") /\ machine'.modes \in Modes
          BY <4>2 DEF ModesNext, Types, Machines
        <4>5. Value("metric") \in MetricModes
          BY <4>3, <4>4, MetricIsMetric DEF Modes, MetricModes
        <4> QED BY <4>2, <4>5 DEF ModesNext, StaysIn, MetricModes
      <3>3. CASE ~Prepared'
        BY <2>1, <2>3, <3>3, <1>3
      <3> QED BY <3>2, <3>3
    <2>4. CASE PartEnds("Unconfirmed")
      BY <2>4 DEF PartEnds
    <2> QED BY <1>7, <2>2, <2>3, <2>4, Taken
  <1>8. CASE TimedOut \/ Interrupted \/ Cancel
    <2>1. pc' = "over" /\ verdict' # "ok"
      BY <1>8 DEF TimedOut, Interrupted, Cancel, PartEnds
    <2> QED BY <2>1
  <1>9. CASE \E e \in MoveResults : MoveEnds(e)
    <2>1. PICK e \in MoveResults : MoveEnds(e)
      BY <1>9
    <2>2. pc = "moving" /\ UNCHANGED <<op, part>> /\ Head(todo).do \in Moves
      BY <2>1 DEF MoveEnds, Flow, Fits, Active
    <2>3. PICK n \in 1..Len(Steps) : Head(todo) = Steps[n] /\ WorksWell(op, part, Steps, n)
      BY <2>2, Placed DEF Active
    <2>4. op \in Motions
      BY <2>2, <2>3 DEF WorksWell
    <2> QED BY <2>2, <2>4 DEF Motions, Writes
  <1>10. CASE ClearOver \/ PrepareOver \/ WorkOver \/ RestoreOver \/ RotationOver \/ AgainOver
    <2>1. PrepareOver /\ verdict = "ok"
      BY <1>10 DEF ClearOver, PrepareOver, WorkOver, RestoreOver, RotationOver, AgainOver, CoreOver,
                   Finish, Enter
    <2>2. op \in W /\ Prepared
      BY <2>1 DEF PrepareOver, OverAt
    <2> QED BY <2>2, <1>3 DEF Submit
  <1>11. CASE Recover \/ RestoreAgain
    BY <1>11 DEF Recover, RestoreAgain, Enter
  <1>12. CASE \E o \in Operations : Start(o)
    BY <1>12 DEF Start, Writes
  <1> QED BY <1>4, <1>5, <1>6, <1>7, <1>8, <1>9, <1>10, <1>11, <1>12, StaysPut DEF Next, MoveResults

\* The modes that are asked for before a change are those of the machine.
LEMMA StepAsFound ==
  ASSUME Types, Flow, Hears, Asked, AsFound, [Next]_vars
  PROVE  AsFound'
PROOF
  <1> DEFINE Here == part = "prepare" /\ pc = "run" /\ Head(todo).do = "change"
  <1> SUFFICES ASSUME Here' PROVE ModesNext({captured'})
    BY DEF AsFound, ModesIn, ModesNext
  <1>1. CASE Status \/ MoveOver \/ Alarm \/ Cleared \/ Drop \/ Reconnect \/ Stays
    <2>1. UNCHANGED <<op, part, pc, todo, captured>>
      BY <1>1, Elsewhere
    <2>2. ModesIn({captured}, wire)
      BY <2>1 DEF AsFound
    <2>3. ~Submit
      BY <2>1 DEF Submit
    <2>4. ModesNext({captured})
      BY <2>2, <2>3, KeepsModes
    <2> QED BY <2>1, <2>4
  <1>2. CASE Check \/ (\E e \in MoveResults : MoveEnds(e))
    <2>1. /\ pc \in Active /\ UNCHANGED <<op, part>> /\ Advance
          /\ Head(todo).do \in {"change", "preflight", "stop", "move", "jog"}
      BY <1>2 DEF Check, MoveEnds, NoChange, Active, PartEnds, Flow, Fits, Moves
    <2>2. PICK n \in 1..Len(Steps) :
              /\ Steps[n] = Head(todo) /\ Len(Steps) \in Nat
              /\ Head(todo') = Steps[n + 1] /\ Well(n + 1)
      BY <2>1, NextHead
    <2>3. n + 1 - 1 = n
      BY <2>2
    <2> QED BY <2>1, <2>2, <2>3 DEF Well, SetsWell
  <1>3. CASE Execute
    <2>1. UNCHANGED <<op, part>>
      BY <1>3 DEF Execute
    <2>2. CASE UNCHANGED <<todo, pc, verdict, captured, reviewed>>
      <3>1. ModesIn({captured}, wire)
        BY <2>1, <2>2 DEF AsFound
      <3>2. ~Submit
        BY <2>2 DEF Submit
      <3>3. ModesNext({captured})
        BY <3>1, <3>2, KeepsModes
      <3> QED BY <2>2, <3>3
    <2>3. CASE /\ pc = "wait" /\ Awaits(Head(todo), wire[1]) /\ Advance
               /\ captured' = IF Head(todo).do = "modes" THEN machine'.modes ELSE captured
      <3>1. PICK n \in 1..Len(Steps) :
              /\ Steps[n] = Head(todo) /\ Len(Steps) \in Nat
              /\ Head(todo') = Steps[n + 1] /\ Well(n + 1)
        BY <2>3, NextHead DEF Active
      <3>2. Head(todo).do = "modes"
        <4>1. n + 1 - 1 = n
          BY <3>1
        <4> QED BY <2>1, <3>1, <4>1 DEF Well, SetsWell
      <3>3. machine'.blocked \/ DOMAIN wire' = {}
        BY <1>3, <2>1, <2>3, <3>2, Answered DEF Leaving
      <3> QED BY <2>3, <3>2, <3>3 DEF ModesNext
    <2>4. CASE PartEnds("Unconfirmed")
      BY <2>4 DEF PartEnds
    <2> QED BY <1>3, <2>2, <2>3, <2>4, Taken
  <1>4. CASE Submit \/ SubmitQuery \/ TimedOut \/ Interrupted \/ Cancel \/ Recover
    <2>1. pc' # "run"
      BY <1>4, Submitted DEF TimedOut, Interrupted, Cancel, Recover, PartEnds
    <2> QED BY <2>1
  <1>5. CASE \/ ClearOver \/ PrepareOver \/ WorkOver \/ RestoreOver \/ RotationOver \/ AgainOver
             \/ RestoreAgain
    <2>1. ClearOver /\ Enter("prepare") /\ op' = op
      BY <1>5 DEF ClearOver, PrepareOver, WorkOver, RestoreOver, RotationOver, AgainOver, CoreOver,
                  Finish, Enter, RestoreAgain, OverAt
    <2>2. pc = "over" /\ part = "clear" /\ op = "angle"
      BY <2>1 DEF ClearOver, OverAt, Flow, Types, PartsOf, AllOps
    <2>3. "prepare" \in PartsOf(op) /\ op \in AllOps /\ todo' = PartOf(op, "prepare")
      BY <2>1, <2>2 DEF PartsOf, AllOps, Motions, Enter
    <2>4. Head(todo') = PartOf(op, "prepare")[1] /\ SetsWell(op, "prepare", PartOf(op, "prepare"), 1)
      BY <2>3, FirstHead
    <2> QED BY <2>4 DEF SetsWell
  <1>6. CASE \E o \in Operations : Start(o)
    <2>1. PICK o \in Operations : Start(o)
      BY <1>6
    <2>2. o \in AllOps /\ "prepare" \in PartsOf(o)
      BY <2>1, OperationsAssumption DEF Start, AllOps, PartsOf
    <2>3. todo' = PartOf(o, "prepare")
      BY <2>1 DEF Start
    <2>4. Head(todo') = PartOf(o, "prepare")[1] /\ SetsWell(o, "prepare", PartOf(o, "prepare"), 1)
      BY <2>2, <2>3, FirstHead
    <2> QED BY <2>4 DEF SetsWell
  <1> QED BY <1>1, <1>2, <1>3, <1>4, <1>5, <1>6, StaysPut DEF Next, MoveResults

\* The first line changes the modes in a way the second one was meant for.
BeforeNext(k, S) ==
  /\ machine'.modes \in S
  /\ machine'.blocked \/ \A j \in 1..k-1 : StaysIn(S, wire'[j])

LEMMA BeforeSubmit ==
  ASSUME Types, Flow, Probing, InMetric, Submit, NEW S,
         \/ Head(todo).do \in Moves /\ S = ReadIn(Head(todo).do)
         \/ S = MetricModes /\ (Head(todo).do = "zero" \/ (Head(todo).do = "write" /\ Head(todo).v.zero))
  PROVE  ModesIn(S, wire)
PROOF
  <1>1. pc = "run"
    BY DEF Submit
  <1>2. PICK n \in 1..Len(Steps) :
              /\ Head(todo) = Steps[n] /\ WorksWell(op, part, Steps, n)
              /\ RepeatsWell(op, part, Steps, n) /\ Len(todo) = Len(Steps) - n + 1 /\ Len(Steps) \in Nat
    BY <1>1, Placed DEF Active
  <1>3. CASE Head(todo).do \in Moves /\ S = ReadIn(Head(todo).do)
    <2>1. op \in Motions /\ part = "work"
      BY <1>2, <1>3 DEF WorksWell
    <2>2. ModesIn(Between, wire)
      BY <1>1, <1>3, <2>1 DEF Probing, Moves, Active
    <2>3. Between \subseteq S /\ ("probing" \in S /\ "metric" \in Between => "metric" \in S)
      <3>1. CASE Head(todo).do = "jog"
        BY <1>3, <3>1 DEF ReadIn, Between, MetricModes
      <3>2. CASE Head(todo).do = "move"
        <4>1. ~Jogging
          <5> SUFFICES ASSUME op = "repeat", Len(todo) \in {5, 6} PROVE FALSE
            BY DEF Jogging
          <5>1. Len(Steps) = 9 /\ n \in {4, 5}
            <6>1. Len(Steps) = 9
              BY <1>2, <2>1, RepeatedSteps
            <6> QED BY <1>2, <6>1
          <5>2. Steps[n].do \in {"jog", "stop"}
            BY <1>2, <2>1, <5>1, RepeatedSteps
          <5> QED BY <1>2, <3>2, <5>2
        <4> QED BY <1>3, <3>2, <4>1 DEF Between, ReadIn
      <3> QED BY <1>3, <3>1, <3>2 DEF Moves
    <2>4. "probing" \in S => "probing" \in Between
      BY DEF Between, MetricModes
    <2> QED BY <2>2, <2>3, <2>4 DEF ModesIn, StaysIn
  <1>4. CASE S = MetricModes /\ (Head(todo).do = "zero" \/ (Head(todo).do = "write" /\ Head(todo).v.zero))
    <2>1. op \in Writes \ {"rotate"} /\ part = "work"
      BY <1>2, <1>4 DEF WorksWell
    <2> QED BY <1>1, <1>4, <2>1 DEF InMetric
  <1> QED BY <1>3, <1>4

LEMMA StepNumbers ==
  ASSUME Types, Flow, Probing, InMetric, Numbers, [Next]_vars
  PROVE  Numbers'
PROOF
  <1>0. DOMAIN <<>> = {}
    OBVIOUS
  <1> SUFFICES /\ machine'.origin # "wrong"
               /\ \A k \in DOMAIN wire' :
                    /\ wire'[k].is \in MoveLines => BeforeNext(k, ReadIn(wire'[k].is))
                    /\ wire'[k].is = "write" /\ wire'[k].v.zero => BeforeNext(k, MetricModes)
    BY DEF Numbers, Before, BeforeNext
  <1>1. CASE ~(Submit \/ SubmitQuery \/ Execute \/ TimedOut)
    <2>1. /\ machine'.modes = machine.modes /\ machine'.origin # "wrong"
          /\ wire' = <<>> \/ (wire' = wire /\ (machine.blocked => machine'.blocked))
      BY <1>1, Quietly DEF Numbers
    <2> QED BY <1>0, <2>1 DEF Numbers, Before, BeforeNext
  <1>2. CASE Submit \/ SubmitQuery
    <2>1. machine' = machine
      BY <1>2, Submitted
    <2>2. PICK l \in WireLines :
              /\ DOMAIN wire = 1..Len(wire) /\ DOMAIN wire' = 1..(Len(wire) + 1) /\ Len(wire) \in Nat
              /\ \A k \in 1..Len(wire) : wire'[k] = wire[k]
              /\ wire'[Len(wire) + 1] = l
              /\ (pc = "run" /\ l = Lines(Head(todo))[1]) \/ (pc = "sent" /\ l.is \in Questions)
      BY <1>2, Submitted
    <2>3. ASSUME NEW S, ModesIn(S, wire) PROVE BeforeNext(Len(wire) + 1, S)
      BY <2>1, <2>2, <2>3 DEF ModesIn, BeforeNext
    <2>4. /\ l.is \in MoveLines => /\ Submit /\ Head(todo).do \in Moves
                                   /\ ReadIn(l.is) = ReadIn(Head(todo).do)
          /\ l.is = "write" => Submit /\ (Head(todo).do = "zero" \/
               (Head(todo).do = "write" /\ l.v = Resolved(Head(todo).v)))
      <3> SUFFICES ASSUME l.is \in {"move", "arc", "jog", "write"}
                   PROVE  /\ Submit
                          /\ l.is \in MoveLines => /\ Head(todo).do \in Moves
                                                   /\ (l.is = "jog" <=> Head(todo).do = "jog")
                          /\ l.is = "write" => Head(todo).do = "zero" \/
                               (Head(todo).do = "write" /\ l.v = Resolved(Head(todo).v))
        BY DEF ReadIn, MoveLines
      <3>1. pc = "run" /\ l = Lines(Head(todo))[1] /\ Submit
        BY <1>2, <2>2 DEF Questions, SubmitQuery
      <3>2. pc \in Active /\ Head(todo).do \notin {"preflight", "stop"}
        BY <1>2, <3>1, Submitted DEF Active
      <3>3. PICK n \in 1..Len(Steps) : Head(todo) \in Instructions
        BY <3>2, Placed
      <3>4. Head(todo).do \in {"modes", "coordinates", "zero", "set", "change", "write", "plane", "move", "jog"}
        BY <3>2, <3>3 DEF Instructions
      <3>5. /\ Head(todo).do \in {"set", "change"} => l = Line("modes", Value(Head(todo).v))
            /\ Head(todo).do = "write" => l = Line("write", Resolved(Head(todo).v))
            /\ Head(todo).do = "plane" => l = Line("plane", reviewed.plane)
            /\ Head(todo).do = "zero" => l = Line("write", [zero |-> TRUE, rotation |-> None])
            /\ Head(todo).do \in {"modes", "coordinates"} => l.is \in Questions
            /\ Head(todo).do = "move" => l.is \in {"move", "arc"}
            /\ Head(todo).do = "jog" => l.is = "jog"
        BY <3>1, <3>2, LinesFit
      <3> QED BY <3>1, <3>4, <3>5 DEF Line, Questions, MoveLines, Moves
    <2>5. SUFFICES ASSUME NEW k \in DOMAIN wire'
                   PROVE  /\ wire'[k].is \in MoveLines => BeforeNext(k, ReadIn(wire'[k].is))
                          /\ wire'[k].is = "write" /\ wire'[k].v.zero => BeforeNext(k, MetricModes)
      BY <2>1 DEF Numbers
    <2>6. CASE k = Len(wire) + 1
      <3>1. wire'[k] = l
        BY <2>2, <2>6
      <3>2. l.is \in MoveLines => BeforeNext(k, ReadIn(l.is))
        BY <2>3, <2>4, <2>6, BeforeSubmit
      <3>3. l.is = "write" /\ l.v.zero => BeforeNext(k, MetricModes)
        <4> SUFFICES ASSUME l.is = "write", l.v.zero PROVE BeforeNext(k, MetricModes)
          OBVIOUS
        <4>1. Submit /\ (Head(todo).do = "zero" \/ (Head(todo).do = "write" /\ Head(todo).v.zero))
          <5>1. pc \in Active /\ Submit
            BY <2>4 DEF Submit, Active
          <5>2. Head(todo).do = "write" => Resolved(Head(todo).v).zero = Head(todo).v.zero
            BY <5>1, ResolvedFits
          <5> QED BY <2>4, <5>1, <5>2
        <4>2. ModesIn(MetricModes, wire)
          BY <4>1, BeforeSubmit
        <4> QED BY <2>3, <2>6, <4>2
      <3> QED BY <3>1, <3>2, <3>3
    <2>7. CASE k \in 1..Len(wire)
      <3>1. k \in DOMAIN wire /\ wire'[k] = wire[k] /\ \A j \in 1..k-1 : wire'[j] = wire[j]
        BY <2>2, <2>7
      <3> QED BY <2>1, <3>1 DEF Numbers, Before, BeforeNext
    <2> QED BY <2>2, <2>5, <2>6, <2>7
  <1>3. CASE Execute
    <2>1. /\ DOMAIN wire = 1..Len(wire) /\ Len(wire) \in Nat /\ Len(wire) >= 1
          /\ DOMAIN wire' = 1..(Len(wire) - 1)
          /\ \A k \in 1..(Len(wire) - 1) : wire'[k] = wire[k + 1]
          /\ machine' = Reads(machine, wire[1]) /\ wire[1] \in WireLines
      BY <1>3, Executed
    <2>2. machine'.blocked = machine.blocked
      BY <2>1, AfterFits DEF Types
    <2>3. 1 \in DOMAIN wire
      BY <2>1
    <2>4. machine'.origin # "wrong"
      <3>1. CASE machine.blocked \/ wire[1].is # "write"
        <4>1. After(machine, wire[1]).origin = machine.origin \/ wire[1].is = "write"
          <5>1. machine \in Machines
            BY DEF Types
          <5>2. wire[1].is \in Plain \cup {"modes", "plane", "write"}
            BY <2>1 DEF WireLines
          <5> QED BY <5>1, <5>2 DEF After, Machines, Plain
        <4> QED BY <2>1, <3>1, <4>1 DEF Reads, Numbers
      <3>2. CASE ~machine.blocked /\ wire[1].is = "write"
        <4> DEFINE z == IF ~wire[1].v.zero THEN machine.origin
                         ELSE IF machine.modes = "inch" THEN "wrong" ELSE "new"
                   r == IF wire[1].v.rotation = None THEN machine.rotation ELSE wire[1].v.rotation
        <4>1. wire[1].v.zero => machine.modes \in MetricModes
          BY <2>3, <3>2 DEF Numbers, Before
        <4>2. z # "wrong"
          BY <4>1 DEF Numbers, MetricModes
        <4>3. machine' = [machine EXCEPT !.rotation = r, !.origin = z] /\ machine \in Machines
          BY <2>1, <3>2 DEF Reads, After, Types
        <4> HIDE DEF z, r
        <4>4. machine'.origin = z
          BY <4>3 DEF Machines
        <4> QED BY <4>2, <4>4
      <3> QED BY <3>1, <3>2
    <2>5. ASSUME NEW k \in DOMAIN wire', NEW S, Before(k + 1, S) PROVE BeforeNext(k, S)
      <3>1. k \in Nat /\ k >= 1 /\ k + 1 - 1 = k /\ 1 \in 1..k
        BY <2>1
      <3>2. machine.blocked \/ \A j \in 1..k : StaysIn(S, wire[j])
        BY <2>5, <3>1 DEF Before
      <3>3. machine'.modes \in S
        BY <2>1, <2>5, <3>1, <3>2, AfterStays DEF Before, Types
      <3>4. \A j \in 1..k-1 : j + 1 \in 1..k /\ wire'[j] = wire[j + 1]
        BY <2>1
      <3> QED BY <2>2, <3>2, <3>3, <3>4 DEF BeforeNext
    <2>6. SUFFICES ASSUME NEW k \in DOMAIN wire'
                   PROVE  /\ wire'[k].is \in MoveLines => BeforeNext(k, ReadIn(wire'[k].is))
                          /\ wire'[k].is = "write" /\ wire'[k].v.zero => BeforeNext(k, MetricModes)
      BY <2>4
    <2>7. k + 1 \in DOMAIN wire /\ wire'[k] = wire[k + 1]
      BY <2>1
    <2> QED BY <2>5, <2>7 DEF Numbers
  <1>4. CASE TimedOut
    <2>1. machine' = machine /\ DOMAIN wire' = DOMAIN wire /\ DOMAIN wire = 1..Len(wire)
      BY <1>4, Unheard DEF TimedOut
    <2>2. \A k \in DOMAIN wire : wire'[k].is # "unheard" => wire'[k] = wire[k]
      <3> SUFFICES ASSUME NEW k \in DOMAIN wire, wire'[k].is # "unheard" PROVE wire'[k] = wire[k]
        OBVIOUS
      <3>1. /\ wire[k].is \in Questions => wire'[k].is = "unheard"
            /\ wire[k].is \notin Questions => wire'[k] = wire[k]
        BY <1>4, Unheard
      <3> QED BY <3>1
    <2>3. Len(wire) \in Nat
      BY LenProperties DEF Types
    <2>4. ASSUME NEW k \in DOMAIN wire, NEW S, Before(k, S) PROVE BeforeNext(k, S)
      <3>1. \A j \in 1..k-1 : j \in DOMAIN wire
        BY <2>1, <2>3
      <3>2. \A j \in 1..k-1 : wire'[j].is \in {"modes", "jog"} => wire'[j] = wire[j]
        BY <2>2, <3>1
      <3> QED BY <2>1, <2>4, <3>2 DEF Before, BeforeNext, StaysIn
    <2>5. SUFFICES ASSUME NEW k \in DOMAIN wire
                   PROVE  /\ wire'[k].is \in MoveLines => BeforeNext(k, ReadIn(wire'[k].is))
                          /\ wire'[k].is = "write" /\ wire'[k].v.zero => BeforeNext(k, MetricModes)
      BY <2>1 DEF Numbers
    <2>6. wire'[k].is \in {"move", "arc", "jog", "write"} => wire'[k] = wire[k]
      BY <2>2
    <2> QED BY <2>4, <2>6 DEF Numbers, MoveLines
  <1> QED BY <1>1, <1>2, <1>3, <1>4

(***************************************************************************)
(* What holds of every operation: the invariant the rest is proved from.   *)

Base == Types /\ Flow /\ Hears /\ Asked /\ Probing /\ InMetric /\ AsFound /\ Numbers

LEMMA InitBase == Init => Base
PROOF
  <1> SUFFICES ASSUME Init PROVE Base
    OBVIOUS
  <1>1. Types /\ Flow
    BY InitTypes
  <1>2. pc = "idle" /\ wire = <<>> /\ DOMAIN <<>> = {} /\ op = "none" /\ part = "none"
    BY DEF Init, None
  <1>3. Hears /\ Asked
    BY DEF Init, Hears, Asked
  <1>4. Probing /\ InMetric /\ AsFound
    BY <1>2 DEF Probing, InMetric, AsFound, Motions, Writes
  <1>5. Numbers
    BY <1>2 DEF Init, Numbers
  <1> QED BY <1>1, <1>3, <1>4, <1>5 DEF Base

LEMMA StepBase == ASSUME Base, [Next]_vars PROVE Base'
PROOF
  <1>1. Types' /\ Flow'
    BY StepTypes DEF Base
  <1>2. Hears' /\ Asked' /\ Probing' /\ AsFound' /\ Numbers'
    BY StepHears, StepAsked, StepProbing, StepAsFound, StepNumbers DEF Base
  <1>3. InMetric'
    BY <1>1, StepInMetric DEF Base
  <1> QED BY <1>1, <1>2, <1>3 DEF Base

LEMMA BaseIsMetric == Base => NumbersAreMetric
PROOF
  <1> SUFFICES ASSUME Base, NEW k \in DOMAIN wire, wire[k].is \in MoveLines
               PROVE  ModesIn(ReadIn(wire[k].is), SubSeq(wire, 1, k - 1))
    BY DEF NumbersAreMetric, Base, Numbers
  <1>1. Before(k, ReadIn(wire[k].is))
    BY DEF Base, Numbers
  <1>2. wire \in Seq(WireLines) /\ Len(wire) \in Nat /\ DOMAIN wire = 1..Len(wire)
    BY LenProperties DEF Base, Types
  <1>3. k \in 1..Len(wire) /\ k - 1 \in 0..Len(wire)
    BY <1>2
  <1> DEFINE q == SubSeq(wire, 1, k - 1)
  <1>4. q \in Seq(WireLines) /\ Len(q) = k - 1 /\ \A j \in 1..k-1 : q[j] = wire[j]
    BY <1>2, <1>3
  <1> HIDE DEF q
  <1>5. DOMAIN q = 1..k-1
    BY <1>4, LenProperties
  <1>6. ModesIn(ReadIn(wire[k].is), q)
    BY <1>1, <1>4, <1>5 DEF Before, ModesIn
  <1> QED BY <1>6 DEF q

\* Whatever the operations, the machine they find and the faults they meet, a
\* move is read in the modes it was planned in, relative and metric, a jog and
\* a work zero in metric modes: set_modes confirms before a number is submitted,
\* and again behind a jog.
THEOREM NumbersReadInMetric == Spec => []NumbersAreMetric
  BY InitBase, StepBase, BaseIsMetric, PTL DEF Spec

(***************************************************************************)
(* Rest.                                                                   *)

Unsettled == {"Cancelled", "Disconnected", "Failed"}
AtRest == {"ok", "Missed", "Released", "Compensation", "Stopped"}
InPart(p) == part = p /\ pc \in Active \cup {"over"}
\* A move may be in progress while the operation waits for its end, and after
\* errors that do not say that it is over, until the machine is stopped.
MayMove ==
  \/ pc = "moving"
  \/ pc = "over" /\ part = "work" /\ op \in Motions /\ verdict \in Unsettled
  \/ pc \in Active \cup {"over"} /\ part = "rotation" /\ cause \in Unsettled
  \/ pc \in Active \cup {"over"} /\ part = "restore" /\ op = "rotary" /\ cause = "Failed"
  \/ pc = "recover" /\ cause \in Unsettled
Quiet == seen.blocked \/ ~Moving \/ MayMove
\* Between its motions, and after those errors that say so, a motion rests.
Ashore == pc \in {"run", "sent", "wait"} \/ (pc = "over" /\ verdict \in AtRest)
Still == op \in Motions /\ part \in {"clear", "prepare", "work"} /\ Ashore => ~Moving
Restored == InPart("restore") /\ Moving => op = "rotary" /\ cause = "Failed"
Resting == Quiet /\ Still /\ Restored /\ (InPart("again") => ~Moving)

\* The lines of the other instructions do not move the machine.
LEMMA OthersRest ==
  ASSUME Types, Flow, pc = "run", Head(todo).do \notin Moves \cup {"preflight", "stop"}
  PROVE  Lines(Head(todo))[1].is \notin MoveLines
PROOF
  <1>1. Head(todo) \in Instructions
    BY Placed DEF Active
  <1>2. Head(todo).do \in {"modes", "coordinates", "zero", "set", "change", "write", "plane"}
    BY <1>1 DEF Instructions, Moves
  <1> DEFINE l == Lines(Head(todo))[1]
  <1>3. /\ Head(todo).do \in {"set", "change"} => l = Line("modes", Value(Head(todo).v))
        /\ Head(todo).do = "write" => l = Line("write", Resolved(Head(todo).v))
        /\ Head(todo).do = "plane" => l = Line("plane", reviewed.plane)
        /\ Head(todo).do = "zero" => l = Line("write", [zero |-> TRUE, rotation |-> None])
        /\ Head(todo).do \in {"modes", "coordinates"} => l.is \in Questions
    BY LinesFit DEF Active
  <1> HIDE DEF l
  <1>4. l.is \notin MoveLines
    BY <1>2, <1>3 DEF Line, Questions, MoveLines
  <1> QED BY <1>4 DEF l

\* Only the submission of a move makes the machine move.
LEMMA NoNewMotion ==
  ASSUME Types, Flow, [Next]_vars, ~(Submit /\ Head(todo).do \in Moves)
  PROVE  (OnWire' => OnWire) /\ (Moving' => Moving)
PROOF
  <1>1. CASE ~(Submit \/ SubmitQuery \/ Execute \/ TimedOut)
    <2>1. DOMAIN <<>> = {} /\ (wire' = <<>> \/ wire' = wire)
      BY <1>1, Quietly
    <2>2. OnWire' => OnWire
      BY <2>1 DEF OnWire
    <2>3. machine'.moving => machine.moving
      <3>1. machine \in Machines
        BY DEF Types
      <3>2. CASE \E e \in MoveResults : MoveEnds(e)
        <4>1. PICK e \in MoveResults : MoveEnds(e)
          BY <3>2
        <4> QED BY <4>1, MoveEnded
      <3>3. CASE MoveOver \/ Alarm \/ Cleared \/ (\E o \in Operations : Start(o))
        BY <3>1, <3>3 DEF MoveOver, Alarm, Cleared, Start, Machines
      <3>4. CASE Recover
        BY <3>4, RecoverTypes DEF machineVars
      <3>5. CASE \/ Status \/ Drop \/ Reconnect \/ Stays \/ Check \/ Interrupted \/ Cancel
                 \/ RestoreAgain
                 \/ ClearOver \/ PrepareOver \/ WorkOver \/ RestoreOver \/ RotationOver \/ AgainOver
        BY <3>5 DEF Status, Drop, Reconnect, Stays, machineVars, Check, Interrupted, Cancel, RestoreAgain,
                    ClearOver, PrepareOver, WorkOver, RestoreOver, RotationOver, AgainOver, OverAt
      <3> QED BY <1>1, <3>2, <3>3, <3>4, <3>5, StaysPut DEF Next, MoveResults
    <2> QED BY <2>2, <2>3 DEF Moving, OnWire
  <1>2. CASE Submit \/ SubmitQuery
    <2>1. UNCHANGED machine
      BY <1>2, Submitted
    <2>2. PICK l \in WireLines :
              /\ DOMAIN wire = 1..Len(wire) /\ DOMAIN wire' = 1..(Len(wire) + 1) /\ Len(wire) \in Nat
              /\ \A k \in 1..Len(wire) : wire'[k] = wire[k]
              /\ wire'[Len(wire) + 1] = l
              /\ (pc = "run" /\ l = Lines(Head(todo))[1]) \/ (pc = "sent" /\ l.is \in Questions)
      BY <1>2, Submitted
    <2>3. l.is \notin MoveLines
      <3>1. CASE SubmitQuery
        <4>1. pc # "run"
          BY <3>1 DEF SubmitQuery
        <4> QED BY <2>2, <4>1 DEF Questions, MoveLines
      <3>2. CASE Submit
        <4>1. pc = "run" /\ Head(todo).do \notin Moves \cup {"preflight", "stop"}
          BY <3>2 DEF Submit
        <4> QED BY <2>2, <4>1, OthersRest
      <3> QED BY <1>2, <3>1, <3>2
    <2>4. OnWire' => OnWire
      <3> SUFFICES ASSUME NEW k \in DOMAIN wire', wire'[k].is \in MoveLines PROVE OnWire
        BY DEF OnWire
      <3>1. k \in 1..Len(wire)
        BY <2>2, <2>3
      <3> QED BY <2>2, <3>1 DEF OnWire
    <2> QED BY <2>1, <2>4 DEF Moving, OnWire
  <1>3. CASE Execute
    <2>1. /\ DOMAIN wire = 1..Len(wire) /\ Len(wire) \in Nat /\ Len(wire) >= 1
          /\ DOMAIN wire' = 1..(Len(wire) - 1)
          /\ \A k \in 1..(Len(wire) - 1) : wire'[k] = wire[k + 1]
          /\ machine' = Reads(machine, wire[1]) /\ wire[1] \in WireLines
      BY <1>3, Executed
    <2>2. OnWire' => OnWire
      <3> SUFFICES ASSUME NEW k \in DOMAIN wire', wire'[k].is \in MoveLines PROVE OnWire
        BY DEF OnWire
      <3>1. k + 1 \in DOMAIN wire /\ wire'[k] = wire[k + 1]
        BY <2>1
      <3> QED BY <3>1 DEF OnWire
    <2>3. machine'.moving => machine.moving \/ wire[1].is \in MoveLines
      BY <2>1, AfterFits DEF Types
    <2>4. 1 \in DOMAIN wire
      BY <2>1
    <2> QED BY <2>2, <2>3, <2>4 DEF Moving, OnWire
  <1>4. CASE TimedOut
    <2>1. machine' = machine
      BY <1>4 DEF TimedOut
    <2>2. OnWire' => OnWire
      <3> SUFFICES ASSUME NEW k \in DOMAIN wire', wire'[k].is \in MoveLines PROVE OnWire
        BY DEF OnWire
      <3>1. k \in DOMAIN wire
        BY <1>4, Unheard
      <3>2. /\ wire[k].is \in Questions => wire'[k].is = "unheard"
            /\ wire[k].is \notin Questions => wire'[k] = wire[k]
        BY <1>4, <3>1, Unheard
      <3> QED BY <3>1, <3>2 DEF OnWire, MoveLines
    <2> QED BY <2>1, <2>2 DEF Moving, OnWire
  <1> QED BY <1>1, <1>2, <1>3, <1>4

\* An alarm is not forgotten while lines are on their way.
LEMMA StaysBlocked ==
  ASSUME Types, Flow, Hears, [Next]_vars, seen.blocked, Moving
  PROVE  seen'.blocked
PROOF
  <1>1. machine \in Machines /\ seen \in Snapshots /\ machine.blocked /\ ~machine.moving
    BY DEF Types, Hears
  <1>2. CASE Status
    BY <1>1, <1>2 DEF Status, Snapshots
  <1>3. CASE Cleared
    <2>1. DOMAIN wire = {}
      BY <1>3 DEF Cleared
    <2> QED BY <1>1, <2>1 DEF Moving
  <1>4. CASE Drop
    BY <1>1, <1>4 DEF Drop, Snapshots
  <1>5. CASE Execute
    BY <1>5, Executed
  <1>6. CASE \E e \in MoveResults : MoveEnds(e)
    BY <1>6, MoveEnded
  <1>7. CASE Recover
    BY <1>7, RecoverTypes DEF machineVars
  <1>8. CASE Submit \/ SubmitQuery
    BY <1>8, Submitted
  <1>9. CASE \/ MoveOver \/ Alarm \/ Reconnect \/ Stays \/ Check \/ TimedOut \/ Interrupted
             \/ Cancel \/ RestoreAgain \/ (\E o \in Operations : Start(o))
             \/ ClearOver \/ PrepareOver \/ WorkOver \/ RestoreOver \/ RotationOver \/ AgainOver
    BY <1>9 DEF MoveOver, Alarm, Reconnect, Stays, machineVars, Check, TimedOut, Interrupted, Cancel,
                RestoreAgain, Start, ClearOver, PrepareOver, WorkOver, RestoreOver, RotationOver,
                AgainOver, OverAt
  <1> QED BY <1>2, <1>3, <1>4, <1>5, <1>6, <1>7, <1>8, <1>9, StaysPut DEF Next, MoveResults

\* A motion belongs to the work: its instruction is at home nowhere else.
LEMMA MovesInWork ==
  ASSUME Types, Flow, pc \in Active, Head(todo).do \in Moves
  PROVE  part = "work" /\ op \in Motions
PROOF
  <1>1. PICK n \in 1..Len(Steps) : Head(todo) = Steps[n] /\ WorksWell(op, part, Steps, n)
    BY Placed
  <1> QED BY <1>1 DEF WorksWell

LEMMA StepQuiet ==
  ASSUME Types, Flow, Hears, Resting, [Next]_vars
  PROVE  Quiet'
PROOF
  <1> SUFFICES ASSUME ~seen'.blocked, Moving' PROVE MayMove'
    BY DEF Quiet
  <1>1. CASE Submit /\ Head(todo).do \in Moves
    BY <1>1, Submitted DEF MayMove, Submit
  <1>2. CASE ~(Submit /\ Head(todo).do \in Moves)
    <2>1. Moving /\ (OnWire' => OnWire)
      BY <1>2, NoNewMotion
    <2>2. MayMove
      BY <2>1, StaysBlocked DEF Resting, Quiet
    <2>3. InPart("restore") => cause = "Failed" /\ op = "rotary"
      BY <2>1 DEF Resting, Restored
    <2>4. part \in {"clear", "prepare", "work"} => ~(op \in Motions /\ Ashore)
      BY <2>1 DEF Resting, Still
    <2>5. CASE Status \/ MoveOver \/ Alarm \/ Cleared \/ Drop \/ Reconnect \/ Stays
      BY <2>2, <2>5, Elsewhere DEF MayMove
    <2>6. CASE Check
      <3>1. /\ pc = "run" /\ pc' \in {"run", "over"} /\ UNCHANGED <<op, part, cause>>
        BY <2>6 DEF Check, Advance, PartEnds
      <3> QED BY <2>2, <3>1 DEF MayMove, Active
    <2>7. CASE Submit \/ SubmitQuery
      <3>1. /\ pc \in {"run", "sent"} /\ pc' \in {"sent", "wait", "moving"}
            /\ UNCHANGED <<op, part, cause>>
        BY <2>7, Submitted
      <3> QED BY <2>2, <3>1 DEF MayMove, Active
    <2>8. CASE Execute
      <3>1. UNCHANGED <<op, part, cause>>
        BY <2>8 DEF Execute
      <3>2. UNCHANGED <<pc, verdict>> \/ (pc = "wait" /\ pc' \in {"run", "over"})
        BY <2>8, Taken DEF Advance, PartEnds
      <3> QED BY <2>2, <3>1, <3>2 DEF MayMove, Active
    <2>9. CASE TimedOut
      <3>1. pc = "wait" /\ pc' = "over" /\ UNCHANGED <<op, part, cause>>
        BY <2>9 DEF TimedOut, PartEnds
      <3> QED BY <2>2, <3>1 DEF MayMove, Active
    <2>10. CASE Interrupted
      <3>1. /\ pc \in {"wait", "moving", "sent"} /\ pc' = "over" /\ UNCHANGED <<op, part, cause, seen, wire, machine>>
            /\ ~link /\ verdict' = "Disconnected"
        BY <2>10 DEF Interrupted, PartEnds, machineVars
      <3>2. pc = "moving" => part = "work" /\ op \in Motions
        BY MovesInWork DEF Flow, Fits, Active
      <3> QED BY <2>2, <3>1, <3>2 DEF MayMove, Active, Unsettled
    <2>11. CASE Cancel
      <3>1. /\ pc \in Active /\ pc' = "over" /\ UNCHANGED <<op, part, cause>> /\ verdict' = "Cancelled"
        BY <2>11 DEF Cancel, PartEnds, Active
      <3>2. pc = "moving" => part = "work" /\ op \in Motions
        BY <3>1, MovesInWork DEF Flow, Fits
      <3> QED BY <2>2, <3>1, <3>2 DEF MayMove, Active, Unsettled
    <2>12. CASE \E e \in MoveResults : MoveEnds(e)
      <3>1. PICK e \in MoveResults : MoveEnds(e)
        BY <2>12
      <3>2. pc = "moving" /\ UNCHANGED <<op, part>>
        BY <3>1 DEF MoveEnds
      <3>3. part = "work" /\ op \in Motions
        BY <3>2, MovesInWork DEF Flow, Fits, Active
      <3>4. wire' = wire
        BY <3>1 DEF MoveEnds
      <3>5. e = "Failed"
        BY <3>1, <3>4, MoveEnded DEF Moving, OnWire
      <3>6. pc' = "over" /\ verdict' = "Failed"
        BY <3>1, <3>5 DEF MoveEnds, PartEnds
      <3> QED BY <3>2, <3>3, <3>6 DEF MayMove, Unsettled
    <2>13. CASE ClearOver \/ PrepareOver \/ AgainOver
      <3>1. pc = "over" /\ part \in {"clear", "prepare", "again"}
        BY <2>13 DEF ClearOver, PrepareOver, AgainOver, OverAt
      <3> QED BY <2>2, <3>1 DEF MayMove
    <2>14. CASE WorkOver
      <3>1. pc = "over" /\ part = "work" /\ op \in Motions /\ verdict \in Unsettled /\ op' = op /\ cause' = verdict
        BY <2>2, <2>14 DEF WorkOver, OverAt, MayMove
      <3>2. CASE Restores(op, verdict) /\ op # "rotate"
        <4>1. op = "rotary" /\ verdict = "Failed"
          BY <3>1, <3>2 DEF Restores, Settled, Unsettled, Motions
        <4>2. part' = "restore" /\ pc' = "run"
          BY <2>14, <3>2 DEF WorkOver, Enter
        <4> QED BY <3>1, <4>1, <4>2 DEF MayMove, Active
      <3>3. CASE ~(Restores(op, verdict) /\ op # "rotate")
        <4>1. CoreOver(verdict)
          BY <2>14, <3>3 DEF WorkOver
        <4>2. (part' = "rotation" /\ pc' = "run") \/ pc' = "recover"
          BY <3>1, <4>1 DEF CoreOver, Enter, Finish, Spawned, Unsettled
        <4> QED BY <3>1, <4>2 DEF MayMove, Active
      <3> QED BY <3>2, <3>3
    <2>15. CASE RestoreOver
      <3>1. pc = "over" /\ part = "restore" /\ op' = op /\ op = "rotary" /\ cause = "Failed"
        BY <2>2, <2>15 DEF RestoreOver, OverAt, MayMove
      <3>2. cause' \in {"Failed", "Cancelled"} /\ CoreOver(cause')
        BY <2>15, <3>1 DEF RestoreOver, Writes
      <3>3. pc' = "recover"
        BY <3>1, <3>2 DEF CoreOver, Finish, Spawned, Motions
      <3> QED BY <3>2, <3>3 DEF MayMove, Unsettled
    <2>16. CASE RotationOver
      <3>1. pc = "over" /\ part = "rotation" /\ op' = op /\ cause \in Unsettled
        BY <2>2, <2>16 DEF RotationOver, OverAt, MayMove
      <3>2. op = "angle"
        BY <3>1 DEF Flow, PartsOf, Types, AllOps
      <3>3. cause' = cause /\ pc' = "recover"
        BY <2>16, <3>1, <3>2 DEF RotationOver, Finish, Spawned, Motions, Unsettled
      <3> QED BY <3>1, <3>3 DEF MayMove
    <2>17. CASE Recover
      <3>1. Exempt \/ seen.blocked
        <4>1. DOMAIN <<>> = {}
          OBVIOUS
        <4> QED BY <2>1, <2>17, <4>1, RecoverTypes DEF Moving
      <3>2. pc = "recover" /\ seen' = seen
        BY <2>17, <3>1 DEF Recover, machineVars
      <3>3. cause \in Unsettled
        BY <2>2, <3>2 DEF MayMove, Active
      <3> QED BY <3>1, <3>2, <3>3 DEF Exempt, Unsettled
    <2>18. CASE RestoreAgain \/ (\E o \in Operations : Start(o))
      <3>1. pc \in {"recovered", "idle"}
        BY <2>18 DEF RestoreAgain, Start
      <3> QED BY <2>2, <3>1 DEF MayMove, Active
    <2> QED BY <2>5, <2>6, <2>7, <2>8, <2>9, <2>10, <2>11, <2>12, <2>13, <2>14, <2>15, <2>16, <2>17, <2>18, StaysPut
            DEF Next, MoveResults
  <1> QED BY <1>1, <1>2

LEMMA StepStill ==
  ASSUME Types, Flow, Resting, [Next]_vars
  PROVE  Still'
PROOF
  <1> SUFFICES ASSUME op' \in Motions, part' \in {"clear", "prepare", "work"}, Ashore' PROVE ~Moving'
    BY DEF Still
  <1>1. ASSUME op \in Motions, part \in {"clear", "prepare", "work"}, Ashore,
               ~(Submit /\ Head(todo).do \in Moves)
        PROVE  ~Moving'
    BY <1>1, NoNewMotion DEF Resting, Still
  <1>2. CASE Status \/ MoveOver \/ Alarm \/ Cleared \/ Drop \/ Reconnect \/ Stays
    <2>1. UNCHANGED <<op, part, pc, verdict>>
      BY <1>2, Elsewhere
    <2>2. ~Submit
      <3>1. CASE Stays
        BY <3>1 DEF Stays, Submit
      <3>2. CASE ~Stays
        BY <1>2, <3>2 DEF Status, MoveOver, Alarm, Cleared, Drop, Reconnect, Submit, opVars
      <3> QED BY <3>1, <3>2
    <2> QED BY <1>1, <2>1, <2>2 DEF Ashore
  <1>3. CASE Check
    <2>1. pc = "run" /\ UNCHANGED <<op, part, machine, wire>>
      BY <1>3 DEF Check, machineVars
    <2>2. ~Moving
      BY <2>1 DEF Resting, Still, Ashore
    <2> QED BY <2>1, <2>2 DEF Moving
  <1>4. CASE Submit \/ SubmitQuery
    <2>1. /\ pc \in {"run", "sent"} /\ UNCHANGED <<op, part>> /\ pc' \in {"sent", "wait", "moving"}
          /\ pc' = "moving" <=> pc = "run" /\ Head(todo).do \in Moves
      BY <1>4, Submitted
    <2>2. pc' # "moving"
      BY DEF Ashore
    <2>3. ~(Submit /\ Head(todo).do \in Moves)
      BY <2>1, <2>2 DEF Submit
    <2> QED BY <1>1, <2>1, <2>3 DEF Ashore
  <1>5. CASE Execute
    <2>1. UNCHANGED <<op, part>> /\ (UNCHANGED <<pc, verdict>> \/ pc = "wait")
      BY <1>5, Taken DEF Execute
    <2>2. ~Submit
      <3>1. UNCHANGED <<pc, verdict>> \/ pc = "wait"
        BY <2>1
      <3> QED BY <1>5, <2>1 DEF Submit, Ashore, Execute, AtRest
    <2> QED BY <1>1, <2>1, <2>2 DEF Ashore
  <1>6. CASE TimedOut \/ Interrupted \/ Cancel
    <2>1. pc' = "over" /\ verdict' \in {"Preflight", "Timeout", "Disconnected", "Blocked", "Cancelled"}
      BY <1>6 DEF TimedOut, Interrupted, Cancel, PartEnds
    <2> QED BY <2>1 DEF Ashore, AtRest
  <1>7. CASE \E e \in MoveResults : MoveEnds(e)
    <2>1. PICK e \in MoveResults : MoveEnds(e)
      BY <1>7
    <2>2. e = "Failed" => pc' = "over" /\ verdict' = "Failed"
      BY <2>1 DEF MoveEnds, PartEnds
    <2>3. e # "Failed"
      BY <2>2 DEF Ashore, AtRest
    <2>4. ~machine'.moving /\ ~OnWire /\ wire' = wire
      BY <2>1, <2>3, MoveEnded DEF MoveEnds
    <2> QED BY <2>4 DEF Moving, OnWire
  <1>8. CASE ClearOver \/ PrepareOver
    <2>1. /\ pc = "over" /\ verdict = "ok" /\ part \in {"clear", "prepare"}
          /\ UNCHANGED <<op, machine, wire>>
      BY <1>8 DEF ClearOver, PrepareOver, OverAt, machineVars, CoreOver, Enter, Finish, Ashore
    <2>2. ~Moving
      BY <2>1 DEF Resting, Still, Ashore, AtRest
    <2> QED BY <2>1, <2>2 DEF Moving
  <1>9. CASE WorkOver \/ RestoreOver \/ RotationOver \/ AgainOver \/ Recover \/ RestoreAgain
    BY <1>9 DEF WorkOver, RestoreOver, RotationOver, AgainOver, OverAt, Recover, RestoreAgain, CoreOver,
                Enter, Finish, Ashore
  <1>10. CASE \E o \in Operations : Start(o)
    <2>1. PICK o \in Operations : Start(o)
      BY <1>10
    <2>2. pc = "idle" /\ ~seen.blocked
      BY <2>1 DEF Start, Able, Spawned
    <2>3. ~Moving
      BY <2>2 DEF Resting, Quiet, MayMove, Active
    <2>4. ~Submit
      BY <2>2 DEF Submit
    <2> QED BY <2>3, <2>4, NoNewMotion
  <1> QED BY <1>2, <1>3, <1>4, <1>5, <1>6, <1>7, <1>8, <1>9, <1>10, StaysPut DEF Next, MoveResults

LEMMA StepRestored ==
  ASSUME Types, Flow, Resting, [Next]_vars
  PROVE  Restored'
PROOF
  <1> SUFFICES ASSUME InPart("restore")', Moving' PROVE op' = "rotary" /\ cause' = "Failed"
    BY DEF Restored
  <1>1. CASE InPart("restore") /\ UNCHANGED <<op, part, cause>>
    <2>1. ~(Submit /\ Head(todo).do \in Moves)
      BY <1>1, MovesInWork DEF InPart, Submit, Active
    <2> QED BY <1>1, <2>1, NoNewMotion DEF Resting, Restored
  <1>2. CASE WorkOver
    <2>1. Restores(op, verdict) /\ op # "rotate" /\ Enter("restore")
      BY <1>2 DEF WorkOver, CoreOver, Finish, Enter, OverAt, InPart, Active
    <2>2. /\ pc = "over" /\ part = "work" /\ op' = op /\ cause' = verdict
          /\ UNCHANGED <<machine, wire, seen>>
      BY <1>2, <2>1 DEF WorkOver, OverAt, machineVars
    <2>3. Moving
      BY <2>2 DEF Moving
    <2>4. op \in Motions => verdict \notin AtRest
      BY <2>2, <2>3 DEF Resting, Still, Ashore
    <2>5. op = "rotary" \/ op \notin Motions
      BY <2>1, <2>4 DEF Restores, Settled, AtRest, Motions
    <2>6. ~seen.blocked
      BY <2>1, <2>5 DEF Restores, Motions
    <2>7. op \in Motions /\ verdict \in Unsettled
      BY <2>2, <2>3, <2>6 DEF Resting, Quiet, MayMove
    <2> QED BY <2>1, <2>2, <2>5, <2>7 DEF Restores, Unsettled
  <1>3. CASE ClearOver \/ PrepareOver \/ RestoreOver \/ RotationOver \/ AgainOver
    <2>1. part' # "restore" \/ pc' \in {"idle", "recover"}
      BY <1>3 DEF ClearOver, PrepareOver, RestoreOver, RotationOver, AgainOver, CoreOver, Finish, Enter
    <2> QED BY <2>1 DEF InPart, Active
  <1>4. CASE Recover \/ RestoreAgain \/ (\E o \in Operations : Start(o))
    <2>1. part' # "restore" \/ pc' \in {"idle", "recovered"}
      BY <1>4 DEF Recover, RestoreAgain, Enter, Start
    <2> QED BY <2>1 DEF InPart, Active
  <1>5. CASE Status \/ MoveOver \/ Alarm \/ Cleared \/ Drop \/ Reconnect \/ Stays
    BY <1>1, <1>5, Elsewhere DEF InPart
  <1>6. CASE \/ Check \/ Submit \/ SubmitQuery \/ Execute \/ TimedOut \/ Interrupted \/ Cancel
             \/ (\E e \in MoveResults : MoveEnds(e))
    <2>1. UNCHANGED <<op, part, cause>>
      BY <1>6 DEF Check, Submit, SubmitQuery, Execute, TimedOut, Interrupted, Cancel, MoveEnds
    <2>2. pc \in Active \cup {"over"}
      <3>1. CASE Execute
        BY <2>1, <3>1, Taken DEF InPart, Active
      <3>2. CASE ~Execute
        BY <1>6, <3>2 DEF Check, Submit, SubmitQuery, TimedOut, Interrupted, Cancel, MoveEnds, Active
      <3> QED BY <3>1, <3>2
    <2> QED BY <1>1, <2>1, <2>2 DEF InPart
  <1> QED BY <1>2, <1>3, <1>4, <1>5, <1>6, StaysPut DEF Next, MoveResults

LEMMA StepResting ==
  ASSUME Types, Flow, Hears, Resting, [Next]_vars
  PROVE  Resting'
PROOF
  <1>1. Quiet' /\ Still' /\ Restored'
    BY StepQuiet, StepStill, StepRestored DEF Resting
  <1>2. ASSUME InPart("again")' PROVE ~Moving'
    <2>1. CASE InPart("again")
      <3>1. ~(Submit /\ Head(todo).do \in Moves)
        BY <2>1, MovesInWork DEF InPart, Submit, Active
      <3> QED BY <2>1, <3>1, NoNewMotion DEF Resting
    <2>2. CASE RestoreAgain
      <3>1. pc = "recovered" /\ ~seen.blocked /\ UNCHANGED <<machine, wire>>
        BY <1>2, <2>2 DEF RestoreAgain, RestoresAgain, Able, InPart, Active, machineVars
      <3>2. ~Moving
        BY <3>1 DEF Resting, Quiet, MayMove, Active
      <3> QED BY <3>1, <3>2 DEF Moving
    <2>3. CASE ClearOver \/ PrepareOver \/ WorkOver \/ RestoreOver \/ RotationOver \/ AgainOver
      <3>1. part' # "again" \/ pc' \in {"idle", "recover"}
        BY <2>3 DEF ClearOver, PrepareOver, WorkOver, RestoreOver, RotationOver, AgainOver, CoreOver,
                    Finish, Enter
      <3> QED BY <1>2, <3>1 DEF InPart, Active
    <2>4. CASE Recover \/ (\E o \in Operations : Start(o))
      <3>1. part' # "again" \/ pc' = "recovered"
        BY <2>4 DEF Recover, Start
      <3> QED BY <1>2, <3>1 DEF InPart, Active
    <2>5. CASE Status \/ MoveOver \/ Alarm \/ Cleared \/ Drop \/ Reconnect \/ Stays
      BY <1>2, <2>1, <2>5, Elsewhere DEF InPart
    <2>6. CASE Execute
      BY <1>2, <2>1, <2>6, Taken DEF InPart, Active, Execute
    <2>7. CASE \/ Check \/ Submit \/ SubmitQuery \/ TimedOut \/ Interrupted \/ Cancel
               \/ (\E e \in MoveResults : MoveEnds(e))
      BY <1>2, <2>1, <2>7 DEF InPart, Check, Submit, SubmitQuery, TimedOut, Interrupted, Cancel, MoveEnds, Active
    <2> QED BY <2>2, <2>3, <2>4, <2>5, <2>6, <2>7, StaysPut DEF Next, MoveResults
  <1> QED BY <1>1, <1>2 DEF Resting

\* More lines are on their way only when one is submitted.
LEMMA OnlySubmitted ==
  ASSUME Types, Flow, [Next]_vars, Len(wire') > Len(wire)
  PROVE  Submit \/ SubmitQuery
PROOF
  <1>1. Len(wire) \in Nat /\ Len(<<>>) = 0
    BY LenProperties DEF Types
  <1>2. CASE Execute
    BY <1>1, <1>2, Executed
  <1>3. CASE TimedOut
    BY <1>1, <1>3, Unheard
  <1>4. CASE ~(Submit \/ SubmitQuery \/ Execute \/ TimedOut)
    BY <1>1, <1>4, Quietly
  <1> QED BY <1>2, <1>3, <1>4

\* Nothing of what an operation gives back is submitted while a move is in
\* progress or on its way, but for the restoration of a rotary run whose move
\* failed: that one starts with a preflight which reads the stored status. The
\* others follow errors at rest, or the stop of ProbeApp::recover.
THEOREM RestoresWhenAtRest == Spec => RestoresAtRest
PROOF
  <1> DEFINE I == Types /\ Flow /\ Hears /\ Resting
  <1>1. Init => I
    <2> SUFFICES ASSUME Init PROVE I
      OBVIOUS
    <2>1. pc = "idle" /\ wire = <<>> /\ DOMAIN <<>> = {} /\ ~machine.moving
      BY DEF Init
    <2>2. Resting
      BY <2>1 DEF Resting, Quiet, Moving, Still, Restored, InPart, Active
    <2>3. Hears
      BY DEF Init, Hears
    <2> QED BY <2>2, <2>3, InitTypes
  <1>2. I /\ [Next]_vars => I'
    BY StepTypes, StepHears, StepResting
  <1>3. I /\ [Next]_vars => (Restoring => ~Moving \/ Overlooked)
    <2> SUFFICES ASSUME I, [Next]_vars, part \in {"restore", "again"}, Len(wire') > Len(wire)
                 PROVE  ~Moving \/ Overlooked
      BY DEF Restoring
    <2>2. Submit \/ SubmitQuery
      BY OnlySubmitted
    <2>3. pc \in {"run", "sent"}
      BY <2>2, Submitted
    <2> QED BY <2>3 DEF Resting, Restored, InPart, Overlooked, Active
  <1>4. I /\ [Next]_vars => [Restoring => ~Moving \/ Overlooked]_vars
    BY <1>3
  <1> QED BY <1>1, <1>2, <1>4, PTL DEF Spec, RestoresAtRest

(***************************************************************************)
(* The rotation and the plane of the machine.                              *)

RotationNext(r) ==
  /\ machine'.rotation = r
  /\ machine'.blocked
     \/ \A k \in DOMAIN wire' : wire'[k].is = "write" => wire'[k].v.rotation \in {None, r}
PlaneNext(p) ==
  /\ machine'.plane = p
  /\ machine'.blocked
     \/ \A k \in DOMAIN wire' :
          (wire'[k].is = "plane" => wire'[k].v = p) /\ (wire'[k].is = "arc" => p = 19)

\* The line that is submitted, and the instruction it is a line of.
LEMMA SubmittedLine ==
  ASSUME Types, Flow, Submit \/ SubmitQuery
  PROVE  /\ UNCHANGED machine
         /\ \E l \in WireLines :
              /\ DOMAIN wire = 1..Len(wire) /\ DOMAIN wire' = 1..(Len(wire) + 1) /\ Len(wire) \in Nat
              /\ \A k \in 1..Len(wire) : wire'[k] = wire[k]
              /\ wire'[Len(wire) + 1] = l
              /\ l.is \in {"move", "arc"} => Submit /\ Head(todo).do = "move"
              /\ l.is = "write" => Submit /\ \/ Head(todo).do = "zero" /\ l.v.rotation = None
                                             \/ Head(todo).do = "write" /\ l.v = Resolved(Head(todo).v)
              /\ l.is = "plane" => Submit /\ Head(todo).do = "plane" /\ l.v = reviewed.plane
PROOF
  <1>1. UNCHANGED machine
    BY Submitted
  <1>2. PICK l \in WireLines :
            /\ DOMAIN wire = 1..Len(wire) /\ DOMAIN wire' = 1..(Len(wire) + 1) /\ Len(wire) \in Nat
            /\ \A k \in 1..Len(wire) : wire'[k] = wire[k]
            /\ wire'[Len(wire) + 1] = l
            /\ (pc = "run" /\ l = Lines(Head(todo))[1]) \/ (pc = "sent" /\ l.is \in Questions)
    BY Submitted
  <1>3. SUFFICES ASSUME l.is \in {"move", "arc", "write", "plane"}
                 PROVE  /\ Submit
                        /\ l.is \in {"move", "arc"} => Head(todo).do = "move"
                        /\ l.is = "write" => \/ Head(todo).do = "zero" /\ l.v.rotation = None
                                             \/ Head(todo).do = "write" /\ l.v = Resolved(Head(todo).v)
                        /\ l.is = "plane" => Head(todo).do = "plane" /\ l.v = reviewed.plane
    BY <1>1, <1>2
  <1>4. pc = "run" /\ l = Lines(Head(todo))[1] /\ Submit
    BY <1>2, <1>3 DEF Questions, SubmitQuery
  <1>5. pc \in Active /\ Head(todo).do \notin {"preflight", "stop"}
    BY <1>4 DEF Submit, Active
  <1>6. PICK n \in 1..Len(Steps) : Head(todo) \in Instructions
    BY <1>5, Placed
  <1>7. Head(todo).do \in {"modes", "coordinates", "zero", "set", "change", "write", "plane", "move", "jog"}
    BY <1>5, <1>6 DEF Instructions
  <1>8. /\ Head(todo).do \in {"set", "change"} => l = Line("modes", Value(Head(todo).v))
        /\ Head(todo).do = "write" => l = Line("write", Resolved(Head(todo).v))
        /\ Head(todo).do = "plane" => l = Line("plane", reviewed.plane)
        /\ Head(todo).do = "zero" => l = Line("write", [zero |-> TRUE, rotation |-> None])
        /\ Head(todo).do \in {"modes", "coordinates"} => l.is \in Questions
        /\ Head(todo).do = "move" => l.is \in {"move", "arc"}
        /\ Head(todo).do = "jog" => l.is = "jog"
    BY <1>4, <1>5, LinesFit
  <1> QED BY <1>3, <1>4, <1>7, <1>8 DEF Line, Questions

LEMMA KeepsRotation ==
  ASSUME Types, Flow, [Next]_vars, NEW r, RotationIs(r),
         Submit /\ Head(todo).do = "write" => Resolved(Head(todo).v).rotation \in {None, r}
  PROVE  RotationNext(r)
PROOF
  <1>0. DOMAIN <<>> = {}
    OBVIOUS
  <1>1. CASE ~(Submit \/ SubmitQuery \/ Execute \/ TimedOut)
    BY <1>0, <1>1, Quietly DEF RotationIs, RotationNext
  <1>2. CASE Submit \/ SubmitQuery
    <2>1. UNCHANGED machine
      BY <1>2, Submitted
    <2>2. PICK l \in WireLines :
              /\ DOMAIN wire = 1..Len(wire) /\ DOMAIN wire' = 1..(Len(wire) + 1) /\ Len(wire) \in Nat
              /\ \A k \in 1..Len(wire) : wire'[k] = wire[k]
              /\ wire'[Len(wire) + 1] = l
              /\ l.is = "write" => Submit /\ \/ Head(todo).do = "zero" /\ l.v.rotation = None
                                             \/ Head(todo).do = "write" /\ l.v = Resolved(Head(todo).v)
      BY <1>2, SubmittedLine
    <2>3. l.is = "write" => l.v.rotation \in {None, r}
      BY <2>2
    <2>4. SUFFICES ASSUME NEW k \in DOMAIN wire', wire'[k].is = "write", ~machine.blocked
                   PROVE  wire'[k].v.rotation \in {None, r}
      BY <2>1 DEF RotationIs, RotationNext
    <2>5. CASE k = Len(wire) + 1
      BY <2>2, <2>3, <2>4, <2>5
    <2>6. CASE k \in 1..Len(wire)
      BY <2>2, <2>4, <2>6 DEF RotationIs
    <2> QED BY <2>2, <2>4, <2>5, <2>6
  <1>3. CASE Execute
    <2>1. /\ DOMAIN wire = 1..Len(wire) /\ Len(wire) \in Nat /\ Len(wire) >= 1
          /\ DOMAIN wire' = 1..(Len(wire) - 1)
          /\ \A k \in 1..(Len(wire) - 1) : wire'[k] = wire[k + 1]
          /\ machine' = Reads(machine, wire[1]) /\ wire[1] \in WireLines
      BY <1>3, Executed
    <2>2. /\ machine'.blocked = machine.blocked
          /\ machine'.rotation = IF ~machine.blocked /\ wire[1].is = "write" /\ wire[1].v.rotation # None
                                 THEN wire[1].v.rotation ELSE machine.rotation
      BY <2>1, AfterFits DEF Types
    <2>3. 1 \in DOMAIN wire
      BY <2>1
    <2>4. machine'.rotation = r
      BY <2>2, <2>3 DEF RotationIs
    <2>5. \A k \in DOMAIN wire' : k + 1 \in DOMAIN wire /\ wire'[k] = wire[k + 1]
      BY <2>1
    <2> QED BY <2>2, <2>4, <2>5 DEF RotationIs, RotationNext
  <1>4. CASE TimedOut
    <2>1. machine' = machine
      BY <1>4 DEF TimedOut
    <2>2. DOMAIN wire' = DOMAIN wire
      BY <1>4, Unheard
    <2>3. \A k \in DOMAIN wire : wire'[k].is = "write" => wire'[k] = wire[k]
      <3> SUFFICES ASSUME NEW k \in DOMAIN wire, wire'[k].is = "write" PROVE wire'[k] = wire[k]
        OBVIOUS
      <3>1. /\ wire[k].is \in Questions => wire'[k].is = "unheard"
            /\ wire[k].is \notin Questions => wire'[k] = wire[k]
        BY <1>4, Unheard
      <3> QED BY <3>1
    <2> QED BY <2>1, <2>2, <2>3 DEF RotationIs, RotationNext
  <1> QED BY <1>1, <1>2, <1>3, <1>4

LEMMA KeepsPlane ==
  ASSUME Types, Flow, [Next]_vars, NEW p, PlaneIs(p),
         Submit => Head(todo).do # "move",
         Submit /\ Head(todo).do = "plane" => reviewed.plane = p
  PROVE  PlaneNext(p)
PROOF
  <1>0. DOMAIN <<>> = {}
    OBVIOUS
  <1>1. CASE ~(Submit \/ SubmitQuery \/ Execute \/ TimedOut)
    BY <1>0, <1>1, Quietly DEF PlaneIs, PlaneNext
  <1>2. CASE Submit \/ SubmitQuery
    <2>1. UNCHANGED machine
      BY <1>2, Submitted
    <2>2. PICK l \in WireLines :
              /\ DOMAIN wire = 1..Len(wire) /\ DOMAIN wire' = 1..(Len(wire) + 1) /\ Len(wire) \in Nat
              /\ \A k \in 1..Len(wire) : wire'[k] = wire[k]
              /\ wire'[Len(wire) + 1] = l
              /\ l.is \in {"move", "arc"} => Submit /\ Head(todo).do = "move"
              /\ l.is = "plane" => Submit /\ Head(todo).do = "plane" /\ l.v = reviewed.plane
      BY <1>2, SubmittedLine
    <2>3. l.is # "arc" /\ (l.is = "plane" => l.v = p)
      BY <2>2
    <2>4. SUFFICES ASSUME NEW k \in DOMAIN wire', ~machine.blocked
                   PROVE  /\ wire'[k].is = "plane" => wire'[k].v = p
                          /\ wire'[k].is = "arc" => p = 19
      BY <2>1 DEF PlaneIs, PlaneNext
    <2>5. CASE k = Len(wire) + 1
      BY <2>2, <2>3, <2>4, <2>5
    <2>6. CASE k \in 1..Len(wire)
      BY <2>2, <2>4, <2>6 DEF PlaneIs
    <2> QED BY <2>2, <2>4, <2>5, <2>6
  <1>3. CASE Execute
    <2>1. /\ DOMAIN wire = 1..Len(wire) /\ Len(wire) \in Nat /\ Len(wire) >= 1
          /\ DOMAIN wire' = 1..(Len(wire) - 1)
          /\ \A k \in 1..(Len(wire) - 1) : wire'[k] = wire[k + 1]
          /\ machine' = Reads(machine, wire[1]) /\ wire[1] \in WireLines
      BY <1>3, Executed
    <2>2. /\ machine'.blocked = machine.blocked
          /\ machine'.plane = IF ~machine.blocked /\ wire[1].is = "plane" THEN wire[1].v
                              ELSE IF ~machine.blocked /\ wire[1].is = "arc" THEN 19 ELSE machine.plane
      BY <2>1, AfterFits DEF Types
    <2>3. 1 \in DOMAIN wire
      BY <2>1
    <2>4. machine'.plane = p
      BY <2>2, <2>3 DEF PlaneIs
    <2>5. \A k \in DOMAIN wire' : k + 1 \in DOMAIN wire /\ wire'[k] = wire[k + 1]
      BY <2>1
    <2> QED BY <2>2, <2>4, <2>5 DEF PlaneIs, PlaneNext
  <1>4. CASE TimedOut
    <2>1. machine' = machine
      BY <1>4 DEF TimedOut
    <2>2. DOMAIN wire' = DOMAIN wire
      BY <1>4, Unheard
    <2>3. \A k \in DOMAIN wire : wire'[k].is \in {"plane", "arc"} => wire'[k] = wire[k]
      <3> SUFFICES ASSUME NEW k \in DOMAIN wire, wire'[k].is \in {"plane", "arc"} PROVE wire'[k] = wire[k]
        OBVIOUS
      <3>1. /\ wire[k].is \in Questions => wire'[k].is = "unheard"
            /\ wire[k].is \notin Questions => wire'[k] = wire[k]
        BY <1>4, Unheard
      <3> QED BY <3>1
    <2> QED BY <2>1, <2>2, <2>3 DEF PlaneIs, PlaneNext
  <1> QED BY <1>1, <1>2, <1>3, <1>4

\* A rotation and a plane that were written are confirmed.
LEMMA RotationConfirmed ==
  ASSUME Types, Flow, Hears, Asked, Execute, pc = "wait", Awaits(Head(todo), wire[1]), ~Leaving,
         Confirms(Head(todo), machine'), Head(todo) = Rotate("reviewed"), reviewed # <<>>
  PROVE  RotationNext(reviewed.rotation)
PROOF
  <1>1. Resolved(Head(todo).v).rotation = reviewed.rotation
    BY ResolvedFits DEF Active, Rotate, Write, Do
  <1>2. reviewed.rotation # None
    <2>1. reviewed.rotation \in Rotations
      BY DEF Types, Reviews
    <2> QED BY <2>1, RotationsAssumption DEF Rotations, None, Unrotated
  <1>3. machine'.rotation = reviewed.rotation
    BY <1>1, <1>2 DEF Confirms, Rotate, Write, Do
  <1>4. machine'.blocked \/ DOMAIN wire' = {}
    BY Answered DEF Rotate, Write, Do
  <1> QED BY <1>3, <1>4 DEF RotationNext

LEMMA PlaneConfirmed ==
  ASSUME Types, Flow, Hears, Asked, Execute, pc = "wait", Awaits(Head(todo), wire[1]), ~Leaving,
         Confirms(Head(todo), machine'), Head(todo).do = "plane"
  PROVE  PlaneNext(reviewed.plane)
PROOF
  <1>1. machine'.plane = reviewed.plane
    BY DEF Confirms
  <1>2. machine'.blocked \/ DOMAIN wire' = {}
    BY Answered
  <1> QED BY <1>1, <1>2 DEF PlaneNext

(***************************************************************************)
(* Where a step leaves an operation.                                       *)

\* The steps from part to part, and from operation to operation.
Turns ==
  \/ ClearOver \/ PrepareOver \/ WorkOver \/ RestoreOver \/ RotationOver \/ AgainOver
  \/ Recover \/ RestoreAgain \/ (\E o \in Operations : Start(o))
Refusals == {"Cancelled", "Disconnected", "Blocked", "Preflight", "Timeout", "Unconfirmed"}

\* The others stay in its part; what it captured changes while it prepares.
LEMMA Within ==
  ASSUME Types, Flow, [Next]_vars, ~Turns
  PROVE  /\ UNCHANGED <<op, part, cause, recovery>>
         /\ op # "review" => reviewed' = reviewed
         /\ (pc \in Active /\ part = "prepare") \/ captured' = captured
         /\ pc \in Active \/ UNCHANGED <<pc, todo, verdict, captured, reviewed>>
         /\ pc \in Active => pc' \in Active \cup {"over"}
PROOF
  <1>1. CASE Status \/ MoveOver \/ Alarm \/ Cleared \/ Drop \/ Reconnect \/ Stays
    BY <1>1, Elsewhere
  <1>2. CASE Check
    BY <1>2 DEF Check, Advance, PartEnds, Active
  <1>3. CASE Submit \/ SubmitQuery
    BY <1>3, Submitted DEF Active
  <1>4. CASE Execute
    <2>1. UNCHANGED <<op, part, cause, recovery>>
      BY <1>4 DEF Execute
    <2>2. CASE UNCHANGED <<todo, pc, verdict, captured, reviewed>>
      BY <2>1, <2>2
    <2>3. CASE /\ pc = "wait" /\ pc' \in {"run", "over"}
               /\ captured' = IF Head(todo).do = "modes" THEN machine'.modes ELSE captured
               /\ reviewed' = reviewed \/ op = "review"
      <3>1. PICK n \in 1..Len(Steps) : Head(todo) = Steps[n] /\ AsksWell(op, part, Steps, n)
        BY <2>3, Placed DEF Active
      <3>2. Head(todo).do = "modes" => part = "prepare"
        BY <3>1 DEF AsksWell
      <3> QED BY <2>1, <2>3, <3>2 DEF Active
    <2> QED BY <1>4, <2>2, <2>3, Taken DEF Advance, PartEnds
  <1>5. CASE TimedOut \/ Interrupted \/ Cancel
    BY <1>5 DEF TimedOut, Interrupted, Cancel, PartEnds, Active
  <1>6. CASE \E e \in MoveResults : MoveEnds(e)
    BY <1>6 DEF MoveEnds, Advance, PartEnds, Active
  <1> QED BY <1>1, <1>2, <1>3, <1>4, <1>5, <1>6, StaysPut DEF Next, MoveResults, Turns

Repeating == op = "repeat" /\ part = "work"
LEMMA StopsRepeat ==
  ASSUME Types, Flow, pc \in Active, Head(todo).do \in {"stop", "jog"}
  PROVE  Repeating
PROOF
  <1>1. PICK n \in 1..Len(Steps) : Head(todo) = Steps[n] /\ WorksWell(op, part, Steps, n)
    BY Placed
  <1> QED BY <1>1 DEF WorksWell, Repeating

\* How a part comes to its end.
LEMMA Ends ==
  ASSUME Types, Flow, [Next]_vars, pc' = "over"
  PROVE  /\ ~Turns
         /\ \/ pc = "over" /\ UNCHANGED <<pc, todo, verdict, captured, reviewed>>
            \/ verdict' \in Refusals /\ (verdict' = "Blocked" => seen.blocked)
            \/ /\ pc = "moving" /\ part = "work" /\ op \in Motions
               /\ verdict' \in MoveResults /\ MoveEnds(verdict')
            \/ verdict' = "Stopped" /\ pc = "run" /\ Repeating
            \/ /\ pc = "run" /\ verdict' = "ok" /\ Check /\ Advance
               /\ Head(todo).do \in {"preflight", "change"} \/ Repeating
               /\ Head(todo).do = "change" => NoChange(Head(todo))
            \/ /\ pc = "wait" /\ verdict' = "ok" /\ Execute /\ Awaits(Head(todo), wire[1])
               /\ Confirms(Head(todo), machine') /\ Advance
PROOF
  <1>1. ~Turns
    BY DEF Turns, ClearOver, PrepareOver, WorkOver, RestoreOver, RotationOver, AgainOver, CoreOver,
           Finish, Enter, Recover, RestoreAgain, Start
  <1>2. CASE Status \/ MoveOver \/ Alarm \/ Cleared \/ Drop \/ Reconnect \/ Stays
    BY <1>1, <1>2, Elsewhere
  <1>3. CASE Check
    <2>0. pc = "run" /\ (Head(todo).do \in {"stop", "jog"} => Repeating)
      BY <1>3, StopsRepeat DEF Check, Active
    <2>1. CASE PartEnds(Refusal(Head(todo))) /\ Refusal(Head(todo)) # "ok"
      BY <1>1, <2>0, <2>1 DEF PartEnds, Refusal, Refusals
    <2>2. CASE Advance /\ (NoChange(Head(todo)) \/ Head(todo).do \in {"preflight", "stop", "jog"})
      BY <1>1, <1>3, <2>0, <2>2 DEF Check, Advance, NoChange
    <2> QED BY <1>3, <2>1, <2>2 DEF Check
  <1>4. CASE Submit \/ SubmitQuery
    BY <1>4, Submitted
  <1>5. CASE Execute
    <2>1. CASE UNCHANGED <<todo, pc, verdict, captured, reviewed>>
      BY <1>1, <2>1
    <2>2. CASE pc = "wait" /\ Awaits(Head(todo), wire[1]) /\ Confirms(Head(todo), machine') /\ Advance
      BY <1>1, <1>5, <2>2 DEF Advance
    <2>3. CASE PartEnds("Unconfirmed")
      BY <1>1, <2>3 DEF PartEnds, Refusals
    <2> QED BY <1>5, <2>1, <2>2, <2>3, Taken
  <1>6. CASE TimedOut \/ Cancel
    BY <1>1, <1>6 DEF TimedOut, Cancel, PartEnds, Refusals
  <1>7. CASE Interrupted
    BY <1>1, <1>7 DEF Interrupted, PartEnds, Refusals
  <1>8. CASE \E e \in MoveResults : MoveEnds(e)
    <2>1. PICK e \in MoveResults : MoveEnds(e)
      BY <1>8
    <2>2. verdict' = e /\ pc = "moving"
      BY <2>1 DEF MoveEnds, Advance, PartEnds
    <2>3. part = "work" /\ op \in Motions
      BY <2>2, MovesInWork DEF Flow, Fits, Active
    <2> QED BY <1>1, <2>1, <2>2, <2>3
  <1> QED BY <1>1, <1>2, <1>3, <1>4, <1>5, <1>6, <1>7, <1>8, StaysPut DEF Next, MoveResults, Turns

\* A part of one instruction is over when that is done.
LEMMA OneInstruction ==
  ASSUME Types, Flow, [Next]_vars, ~Turns, pc \in Active, Len(Steps) = 1, pc' = "run"
  PROVE  pc = "run"
PROOF
  <1>1. ~Advance
    <2> SUFFICES ASSUME Advance PROVE FALSE
      OBVIOUS
    <2>1. PICK n \in 1..Len(Steps) : n + 1 \in 1..Len(Steps)
      BY NextHead
    <2> QED BY <2>1
  <1>2. CASE Execute
    BY <1>1, <1>2, Taken DEF PartEnds
  <1>3. CASE ~Execute
    BY <1>1, <1>3, Elsewhere, StaysPut DEF Next, Turns, Check, Submit, SubmitQuery, TimedOut, Interrupted, Cancel,
                                 MoveEnds, PartEnds
  <1> QED BY <1>2, <1>3

(***************************************************************************)
(* The modes that a write does not change.                                 *)

Untouched ==
  /\ op \in Writes \ {"rotate"} /\ Metric(captured) = captured
  /\ \/ part = "prepare" /\ pc = "over" /\ verdict = "ok"
     \/ InPart("work")
     \/ part = "restore" /\ pc = "run"
  => ModesIn({captured}, wire)

LEMMA StepUntouched ==
  ASSUME Types, Flow, Hears, Asked, AsFound, Untouched, [Next]_vars
  PROVE  Untouched'
PROOF
  <1> DEFINE W == Writes \ {"rotate"}
             Now == \/ part = "prepare" /\ pc = "over" /\ verdict = "ok"
                    \/ InPart("work")
                    \/ part = "restore" /\ pc = "run"
  <1> SUFFICES ASSUME op' \in W, Metric(captured') = captured', Now'
               PROVE  ModesNext({captured'})
    BY DEF Untouched, ModesIn, ModesNext
  <1>1. CASE Turns
    <2>1. PrepareOver \/ WorkOver
      BY <1>1 DEF Turns, ClearOver, PrepareOver, WorkOver, RestoreOver, RotationOver, AgainOver, CoreOver,
                  Finish, Enter, Recover, RestoreAgain, Start, OverAt, InPart, Active, Writes
    <2>2. /\ UNCHANGED <<machine, wire, op, captured>> /\ pc = "over"
          /\ (part = "prepare" /\ verdict = "ok") \/ part = "work"
      BY <2>1 DEF PrepareOver, WorkOver, OverAt, machineVars, CoreOver, Enter, Finish, InPart, Active
    <2>3. ModesIn({captured}, wire)
      BY <2>2 DEF Untouched, InPart
    <2> QED BY <2>2, <2>3 DEF ModesIn, ModesNext
  <1>2. CASE ~Turns /\ Now
    <2>1. op' = op /\ captured' = captured
      BY <1>2, Within DEF InPart, Active
    <2>2. ModesIn({captured}, wire)
      BY <1>2, <2>1 DEF Untouched
    <2>3. Submit /\ Head(todo).do \in {"set", "change"} => Value(Head(todo).v) \in {captured}
      <3> SUFFICES ASSUME Submit, Head(todo).do \in {"set", "change"} PROVE Value(Head(todo).v) = captured
        OBVIOUS
      <3>1. pc = "run" /\ ~NoChange(Head(todo))
        BY DEF Submit
      <3>2. PICK n \in 1..Len(Steps) :
                Head(todo) = Steps[n] /\ SetsWell(op, part, Steps, n) /\ RestoresWell(op, part, Steps, n)
        BY <3>1, Placed DEF Active
      <3>3. part # "work"
        BY <2>1, <3>2 DEF SetsWell
      <3>4. part = "restore"
        BY <1>2, <3>1, <3>3 DEF InPart
      <3>5. Head(todo).v = "captured"
        BY <2>1, <3>2, <3>4 DEF RestoresWell, Writes, Reviewed
      <3> QED BY <3>5 DEF Value
    <2>4. ~(Submit /\ Head(todo).do \in Moves)
      BY <2>1, MovesInWork DEF Submit, Active, Writes, Motions
    <2> QED BY <2>1, <2>2, <2>3, <2>4, KeepsModes DEF Moves
  <1>3. CASE ~Turns /\ ~Now
    <2>1. /\ UNCHANGED <<op, part>> /\ pc \in Active
      BY <1>3, Within DEF InPart
    <2>2. part # "work"
      BY <1>3, <2>1 DEF InPart
    <2>3. CASE part = "restore"
      <3>1. pc' = "run" /\ pc # "run"
        BY <1>3, <2>1, <2>2, <2>3 DEF InPart
      <3>2. PICK n \in 1..Len(Steps) : RestoresWell(op, part, Steps, n)
        BY <2>1, Placed
      <3>3. Len(Steps) = 1
        BY <2>1, <2>3, <3>2 DEF RestoresWell, Writes
      <3> QED BY <1>3, <2>1, <3>1, <3>3, OneInstruction
    <2>4. CASE part = "prepare" /\ pc' = "over" /\ verdict' = "ok"
      <3>1. pc # "over" /\ verdict' \notin Refusals /\ part # "work"
        BY <2>1, <2>4 DEF Active, Refusals
      <3>2. Advance
        BY <2>4, <3>1, Ends
      <3>3. PICK n \in 1..Len(Steps) : Steps[n] = Head(todo) /\ Well(n) /\ n = Len(Steps)
        BY <2>1, <2>4, <3>2, NextHead
      <3>4. Head(todo).do \in {"set", "change"} /\ Head(todo).v = "metric"
        BY <2>1, <2>4, <3>3 DEF Well, SetsWell
      <3>5. CASE pc = "run" /\ Check /\ Head(todo).do = "change"
        <4>1. ModesIn({captured}, wire) /\ captured' = captured
          BY <2>4, <3>5 DEF AsFound, Check
        <4>2. ~Submit
          BY <2>4 DEF Submit, Lines
        <4> QED BY <4>1, <4>2, KeepsModes
      <3>6. CASE pc = "wait" /\ Execute /\ Awaits(Head(todo), wire[1]) /\ Confirms(Head(todo), machine')
        <4>1. ModesNext({Value("metric")})
          BY <2>4, <3>4, <3>6, SetConfirmed
        <4>2. captured' = captured
          BY <3>4, <3>6, <3>1, Taken
        <4> QED BY <4>1, <4>2 DEF Value
      <3>7. ~Repeating
        BY <2>1 DEF Repeating, Writes
      <3> QED BY <2>4, <3>1, <3>4, <3>5, <3>6, <3>7, Ends
    <2> QED BY <2>1, <2>2, <2>3, <2>4 DEF InPart
  <1> QED BY <1>1, <1>2, <1>3

(***************************************************************************)
(* Faults, errors and what the reports call ready.                         *)

Faults ==
  /\ {alarms, drops, lost} \subseteq Nat
  /\ drops = 0 => link
  /\ alarms = 0 => ~machine.blocked /\ cause # "Blocked" /\ (pc = "over" => verdict # "Blocked")
Fitting(e) ==
  /\ e = "Stopped" => op = "repeat"
  /\ e = "Missed" => op \in {"routine", "angle", "rotary", "repeat"}
\* Contacts and stops are met in the work; what is recovered from is an error.
Causes ==
  /\ pc = "over" /\ verdict \in {"Missed", "Released", "Compensation", "Stopped"} =>
       part = "work" /\ op \in Motions
  /\ pc = "over" => Fitting(verdict)
  /\ Fitting(cause)
  /\ pc \in {"recover", "recovered"} \/ InPart("again") => cause # "ok"
StillReady ==
  alarms = 0 /\ drops = 0 /\ op \in Motions =>
  /\ part \in {"clear", "prepare", "work"} /\ Ashore => seen.ready
  /\ InPart("restore") /\ cause \in AtRest => seen.ready

\* Faults are counted, and never forgotten.
LEMMA Counted ==
  ASSUME Types, Flow, Faults, [Next]_vars
  PROVE  /\ {alarms', drops', lost'} \subseteq Nat
         /\ alarms' = 0 => alarms = 0 /\ ~Alarm
         /\ drops' = 0 => drops = 0 /\ ~Drop
         /\ lost' = 0 => lost = 0
PROOF
  <1>1. CASE Alarm
    BY <1>1 DEF Alarm, Faults, Drop
  <1>2. CASE Drop
    <2>1. alarms' = alarms /\ lost' = lost /\ drops' = drops + 1
      BY <1>2 DEF Drop
    <2>2. Alarm => alarms' = alarms + 1
      BY DEF Alarm
    <2> QED BY <2>1, <2>2 DEF Faults
  <1>3. CASE TimedOut
    BY <1>3 DEF TimedOut, Faults, Alarm, Drop
  <1>4. CASE ~(Alarm \/ Drop \/ TimedOut)
    <2>1. UNCHANGED <<alarms, drops, lost>>
      <3>1. CASE Status \/ MoveOver \/ Cleared \/ Reconnect \/ Stays
        BY <3>1 DEF Status, MoveOver, Cleared, Reconnect, Stays, counters
      <3>2. CASE Check \/ Submit \/ SubmitQuery \/ Execute \/ Interrupted \/ Cancel
                 \/ (\E e \in MoveResults : MoveEnds(e))
        BY <3>2 DEF Check, Submit, SubmitQuery, Execute, Interrupted, Cancel, MoveEnds, counters
      <3>3. CASE Turns
        BY <3>3 DEF Turns, ClearOver, PrepareOver, WorkOver, RestoreOver, RotationOver, AgainOver, OverAt,
                    Recover, RestoreAgain, Start, counters
      <3> QED BY <1>4, <3>1, <3>2, <3>3, StaysPut DEF Next, MoveResults, Turns
    <2> QED BY <1>4, <2>1 DEF Faults
  <1> QED BY <1>1, <1>2, <1>3, <1>4

\* An error is what ended a part, until the next operation.
LEMMA CauseFrom ==
  ASSUME Types, Flow, [Next]_vars
  PROVE  \/ cause' = "ok" /\ pc' = "run" /\ part' # "again"
         \/ op' = op /\ cause' = cause
         \/ op' = op /\ pc = "over" /\ cause' = verdict
PROOF
  <1>1. CASE ~Turns
    BY <1>1, Within
  <1>2. CASE \E o \in Operations : Start(o)
    BY <1>2 DEF Start
  <1>3. CASE Recover \/ RestoreAgain
    BY <1>3 DEF Recover, RestoreAgain
  <1>4. CASE ClearOver \/ PrepareOver \/ WorkOver \/ RestoreOver \/ RotationOver \/ AgainOver
    BY <1>4 DEF ClearOver, PrepareOver, WorkOver, RestoreOver, RotationOver, AgainOver, OverAt
  <1> QED BY <1>1, <1>2, <1>3, <1>4 DEF Turns

LEMMA StepFaults ==
  ASSUME Types, Flow, Hears, Faults, [Next]_vars
  PROVE  Faults'
PROOF
  <1>1. {alarms', drops', lost'} \subseteq Nat
    BY Counted
  <1>2. ASSUME drops' = 0 PROVE link'
    <2>1. drops = 0 /\ ~Drop /\ link
      BY <1>2, Counted DEF Faults
    <2>2. CASE Submit \/ SubmitQuery
      BY <2>1, <2>2, Submitted
    <2>3. CASE Turns
      BY <2>1, <2>3 DEF Turns, ClearOver, PrepareOver, WorkOver, RestoreOver, RotationOver, AgainOver,
                        OverAt, Recover, RestoreAgain, Start, machineVars
    <2>4. CASE ~(Submit \/ SubmitQuery \/ Turns)
      BY <2>1, <2>4, StaysPut DEF Next, Turns, Status, MoveOver, Alarm, Cleared, Reconnect, Stays, machineVars,
                        Check, Execute, TimedOut, Interrupted, Cancel, MoveEnds
    <2> QED BY <2>2, <2>3, <2>4
  <1>3. ASSUME alarms' = 0 PROVE ~machine'.blocked
    <2>1. alarms = 0 /\ ~Alarm /\ ~machine.blocked /\ machine \in Machines
      BY <1>3, Counted DEF Faults, Types
    <2>2. CASE Submit \/ SubmitQuery
      BY <2>1, <2>2, Submitted
    <2>3. CASE Execute
      <3>1. machine' = Reads(machine, wire[1]) /\ wire[1] \in WireLines
        BY <2>3, Executed
      <3> QED BY <2>1, <3>1, AfterFits
    <2>4. CASE \E e \in MoveResults : MoveEnds(e)
      BY <2>1, <2>4, MoveEnded
    <2>5. CASE Recover
      BY <2>1, <2>5, RecoverTypes
    <2>6. CASE MoveOver \/ Cleared \/ (\E o \in Operations : Start(o))
      BY <2>1, <2>6 DEF MoveOver, Cleared, Start, Machines
    <2>7. CASE \/ Status \/ Drop \/ Reconnect \/ Stays \/ Check \/ TimedOut \/ Interrupted \/ Cancel
               \/ RestoreAgain
               \/ ClearOver \/ PrepareOver \/ WorkOver \/ RestoreOver \/ RotationOver \/ AgainOver
      BY <2>1, <2>7 DEF Status, Drop, Reconnect, Stays, machineVars, Check, TimedOut, Interrupted, Cancel,
                        RestoreAgain, ClearOver, PrepareOver, WorkOver, RestoreOver, RotationOver,
                        AgainOver, OverAt
    <2> QED BY <2>1, <2>2, <2>3, <2>4, <2>5, <2>6, <2>7, StaysPut DEF Next, MoveResults
  <1>4. ASSUME alarms' = 0 PROVE cause' # "Blocked"
    <2>1. alarms = 0
      BY <1>4, Counted
    <2> QED BY <2>1, CauseFrom DEF Faults
  <1>5. ASSUME alarms' = 0, pc' = "over" PROVE verdict' # "Blocked"
    <2>1. alarms = 0 /\ ~seen.blocked
      BY <1>5, Counted DEF Faults, Hears
    <2> QED BY <1>5, <2>1, Ends DEF Faults, MoveResults
  <1> QED BY <1>1, <1>2, <1>3, <1>4, <1>5 DEF Faults

LEMMA StepCauses ==
  ASSUME Types, Flow, Causes, [Next]_vars
  PROVE  Causes'
PROOF
  <1>1. ASSUME pc' = "over", verdict' \in {"Missed", "Released", "Compensation", "Stopped"}
        PROVE  part' = "work" /\ op' \in Motions /\ Fitting(verdict)'
    <2>1. UNCHANGED <<op, part>>
      BY <1>1, Ends, Within
    <2>2. CASE pc = "over" /\ verdict' = verdict
      BY <1>1, <2>1, <2>2 DEF Causes, Fitting
    <2>3. CASE part = "work" /\ op \in Motions /\ MoveEnds(verdict') /\ verdict' \in MoveResults
      BY <2>1, <2>3 DEF MoveEnds, MoveResults, Fitting
    <2>4. CASE verdict' = "Stopped" /\ Repeating
      BY <2>1, <2>4 DEF Repeating, Motions, Fitting
    <2> QED BY <1>1, <2>2, <2>3, <2>4, Ends DEF Refusals
  <1>2. Fitting(cause)'
    BY CauseFrom DEF Causes, Fitting
  <1>4. pc' = "over" => Fitting(verdict)'
    BY <1>1 DEF Fitting
  <1>3. ASSUME pc' \in {"recover", "recovered"} \/ InPart("again")' PROVE cause' # "ok"
    <2>1. CASE ~Turns
      <3>1. cause' = cause /\ part' = part /\ (pc \in Active \/ pc' = pc) /\ (pc \in Active => pc' \in Active \cup {"over"})
        BY <2>1, Within
      <3> QED BY <1>3, <3>1 DEF Causes, InPart, Active
    <2>2. CASE Recover \/ RestoreAgain
      BY <2>2 DEF Recover, RestoreAgain, Causes
    <2>3. CASE \E o \in Operations : Start(o)
      BY <1>3, <2>3 DEF Start, InPart
    <2>4. CASE ClearOver \/ PrepareOver \/ WorkOver \/ RestoreOver \/ RotationOver
      <3>1. ASSUME NEW e, CoreOver(e) \/ Finish(e)
            PROVE  /\ pc' \in {"recover", "idle"} \/ (pc' = "run" /\ part' = "rotation")
                   /\ pc' = "recover" => e # "ok"
        BY <3>1 DEF CoreOver, Finish, Enter
      <3>2. \/ CoreOver(cause') \/ Finish(cause')
            \/ pc' = "run" /\ part' \in {"prepare", "work", "restore"}
        BY <2>4 DEF ClearOver, PrepareOver, WorkOver, RestoreOver, RotationOver, Enter
      <3> QED BY <1>3, <3>1, <3>2 DEF InPart, Active
    <2>5. CASE AgainOver
      BY <1>3, <2>5 DEF AgainOver, InPart, Active
    <2> QED BY <2>1, <2>2, <2>3, <2>4, <2>5 DEF Turns
  <1> QED BY <1>1, <1>2, <1>3, <1>4 DEF Causes

\* Without a fault, a machine at rest that is called ready stays so.
LEMMA KeepsReady ==
  ASSUME Types, Flow, Faults, [Next]_vars, seen.ready, ~machine.moving, pc # "idle",
         alarms' = 0, drops' = 0
  PROVE  seen'.ready
PROOF
  <1>1. ~machine.blocked /\ ~Drop /\ seen \in Snapshots
    BY Counted DEF Faults, Types
  <1>2. CASE Status
    BY <1>1, <1>2 DEF Status, Snapshots
  <1>3. CASE Execute
    BY <1>3, Executed
  <1>4. CASE \E e \in MoveResults : MoveEnds(e)
    BY <1>4, MoveEnded
  <1>5. CASE Recover
    BY <1>1, <1>5, RecoverTypes DEF machineVars
  <1>6. CASE Submit \/ SubmitQuery
    BY <1>6, Submitted
  <1>7. CASE \/ MoveOver \/ Alarm \/ Cleared \/ Reconnect \/ Stays \/ Check \/ TimedOut
             \/ Interrupted \/ Cancel \/ RestoreAgain \/ (\E o \in Operations : Start(o))
             \/ ClearOver \/ PrepareOver \/ WorkOver \/ RestoreOver \/ RotationOver \/ AgainOver
    BY <1>7 DEF MoveOver, Alarm, Cleared, Reconnect, Stays, machineVars, Check, TimedOut, Interrupted,
                Cancel, RestoreAgain, Start, ClearOver, PrepareOver, WorkOver, RestoreOver,
                RotationOver, AgainOver, OverAt
  <1> QED BY <1>1, <1>2, <1>3, <1>4, <1>5, <1>6, <1>7, StaysPut DEF Next, MoveResults

LEMMA StepStillReady ==
  ASSUME Types, Flow, Hears, Resting, Faults, StillReady, [Next]_vars
  PROVE  StillReady'
PROOF
  <1> SUFFICES ASSUME alarms' = 0, drops' = 0, op' \in Motions
               PROVE  /\ part' \in {"clear", "prepare", "work"} /\ Ashore' => seen'.ready
                      /\ InPart("restore")' /\ cause' \in AtRest => seen'.ready
    BY DEF StillReady
  <1>1. alarms = 0 /\ drops = 0
    BY Counted
  <1>2. ASSUME part' \in {"clear", "prepare", "work"}, Ashore' PROVE seen'.ready
    <2>1. CASE Turns
      <3>1. CASE ClearOver \/ PrepareOver
        <4>1. pc = "over" /\ verdict = "ok" /\ part \in {"clear", "prepare"} /\ UNCHANGED <<op, seen>>
          BY <1>2, <3>1 DEF ClearOver, PrepareOver, OverAt, machineVars, CoreOver, Enter, Finish, Ashore
        <4> QED BY <1>1, <4>1 DEF StillReady, Ashore, AtRest
      <3>2. CASE \E o \in Operations : Start(o)
        BY <3>2 DEF Start, Able, Spawned
      <3>3. CASE WorkOver \/ RestoreOver \/ RotationOver \/ AgainOver \/ Recover \/ RestoreAgain
        BY <1>2, <3>3 DEF WorkOver, RestoreOver, RotationOver, AgainOver, OverAt, Recover, RestoreAgain,
                          CoreOver, Enter, Finish, Ashore
      <3> QED BY <2>1, <3>1, <3>2, <3>3 DEF Turns
    <2>2. CASE ~Turns /\ Ashore
      <3>1. UNCHANGED <<op, part>>
        BY <2>2, Within
      <3>2. seen.ready /\ ~Moving
        BY <1>1, <1>2, <2>2, <3>1 DEF StillReady, Resting, Still
      <3>3. pc # "idle" /\ ~machine.moving
        BY <2>2, <3>2 DEF Ashore, Moving
      <3> QED BY <3>2, <3>3, KeepsReady
    <2>3. CASE ~Turns /\ ~Ashore
      <3>1. pc = "moving" /\ pc' # "moving"
        BY <1>2, <2>3, Within DEF Ashore, Active
      <3>2. ~(Submit \/ SubmitQuery \/ Check \/ TimedOut \/ Stays)
        BY <3>1 DEF Submit, SubmitQuery, Check, TimedOut, Stays
      <3>3. ~(Status \/ MoveOver \/ Alarm \/ Cleared \/ Drop \/ Reconnect)
        BY <3>1, Elsewhere
      <3>4. ~Execute
        BY <3>1, Taken
      <3>5. CASE Interrupted \/ Cancel
        <4>1. pc' = "over" /\ verdict' \in {"Disconnected", "Blocked", "Cancelled"}
          BY <3>5 DEF Interrupted, Cancel, PartEnds
        <4> QED BY <1>2, <4>1 DEF Ashore, AtRest
      <3>6. CASE \E e \in MoveResults : MoveEnds(e)
        <4>1. PICK e \in MoveResults : MoveEnds(e)
          BY <3>6
        <4>2. e = "Failed" => pc' = "over" /\ verdict' = "Failed"
          BY <4>1 DEF MoveEnds, PartEnds
        <4>3. e # "Failed"
          BY <1>2, <4>2 DEF Ashore, AtRest
        <4> QED BY <4>1, <4>3, MoveEnded
      <3> QED BY <2>3, <3>2, <3>3, <3>4, <3>5, <3>6, StaysPut DEF Next, MoveResults, Turns
    <2> QED BY <2>1, <2>2, <2>3
  <1>3. ASSUME InPart("restore")', cause' \in AtRest PROVE seen'.ready
    <2>1. CASE ~Turns
      <3>1. InPart("restore") /\ cause \in AtRest /\ op \in Motions
        BY <1>3, <2>1, Within DEF InPart, Active
      <3>2. seen.ready /\ ~machine.moving /\ pc # "idle"
        BY <1>1, <3>1 DEF StillReady, Resting, Restored, Moving, InPart, Active, AtRest
      <3> QED BY <3>2, KeepsReady
    <2>2. CASE Turns
      <3>1. WorkOver
        BY <1>3, <2>2 DEF Turns, ClearOver, PrepareOver, RestoreOver, RotationOver, AgainOver, CoreOver,
                          Finish, Enter, Recover, RestoreAgain, Start, InPart, Active, OverAt
      <3>2. pc = "over" /\ part = "work" /\ op' = op /\ cause' = verdict /\ seen' = seen
        BY <3>1 DEF WorkOver, OverAt, machineVars
      <3> QED BY <1>1, <1>3, <3>2 DEF StillReady, Ashore
    <2> QED BY <2>1, <2>2
  <1> QED BY <1>2, <1>3

(***************************************************************************)
(* What is given back.                                                     *)

ModesBack ==
  IF op \in Reviewed THEN ModesIn({reviewed.modes}, wire) ELSE ModesIn({captured}, wire)
RotaryBack == op = "rotary" => RotationIs(reviewed.rotation) /\ PlaneIs(reviewed.plane)
AngleBack == op = "angle" /\ reviewed.rotation # Unrotated => RotationIs(reviewed.rotation)
\* The steps that leave the review as it is but for its stage.
SameReview ==
  /\ reviewed'.modes = reviewed.modes /\ reviewed'.rotation = reviewed.rotation
  /\ reviewed'.plane = reviewed.plane

LEMMA AllBack ==
  ASSUME Types, op # None, ModesBack, RotaryBack, AngleBack
  PROVE  GivenBack
  BY DEF GivenBack, ModesBack, RotaryBack, AngleBack

\* What was given back stays so until the next submission.
LEMMA KeepsBack ==
  ASSUME Types, Flow, [Next]_vars, ~Submit, UNCHANGED <<op, captured>>, SameReview
  PROVE  /\ ModesBack => ModesBack'
         /\ RotaryBack => RotaryBack'
         /\ AngleBack => AngleBack'
         /\ GivenBack => GivenBack'
PROOF
  <1>1. ASSUME NEW S, ModesIn(S, wire) PROVE ModesNext(S)
    BY <1>1, KeepsModes
  <1>2. ASSUME NEW r, RotationIs(r) PROVE RotationNext(r)
    BY <1>2, KeepsRotation
  <1>3. ASSUME NEW p, PlaneIs(p) PROVE PlaneNext(p)
    BY <1>3, KeepsPlane
  <1>4. ModesIn({captured}, wire) => ModesIn({captured}, wire)'
    BY <1>1 DEF ModesIn, ModesNext
  <1>5. ModesIn({reviewed.modes}, wire) => ModesIn({reviewed.modes}, wire)'
    BY <1>1 DEF ModesIn, ModesNext, SameReview
  <1>6. RotationIs(reviewed.rotation) => RotationIs(reviewed.rotation)'
    BY <1>2 DEF RotationIs, RotationNext, SameReview
  <1>7. PlaneIs(reviewed.plane) => PlaneIs(reviewed.plane)'
    BY <1>3 DEF PlaneIs, PlaneNext, SameReview
  <1>8. UNCHANGED <<op, captured>> /\ reviewed'.rotation = reviewed.rotation
    BY DEF SameReview
  <1>9. ModesBack => ModesBack'
    BY <1>4, <1>5, <1>8 DEF ModesBack
  <1>10. RotaryBack => RotaryBack'
    BY <1>6, <1>7, <1>8 DEF RotaryBack
  <1>11. AngleBack => AngleBack'
    BY <1>6, <1>8 DEF AngleBack
  <1>12. GivenBack => GivenBack'
    BY <1>4, <1>5, <1>6, <1>7, <1>8 DEF GivenBack
  <1> QED BY <1>9, <1>10, <1>11, <1>12

LEMMA SameAtTheEnd ==
  ASSUME Types, Flow, op # None, NEW e, Finish(e) \/ CoreOver(e)
  PROVE  SameReview
PROOF
  <1>1. CASE reviewed' = reviewed
    BY <1>1 DEF SameReview
  <1>2. CASE reviewed' # reviewed
    <2>1. op \in {"routine"} \cup ResultActions /\ reviewed' = [reviewed EXCEPT !.stage = "completed"]
      BY <1>2 DEF Finish, CoreOver
    <2>2. reviewed \in Reviews
      BY <2>1 DEF Flow, Types, NeedsReview, Reviewed
    <2> QED BY <2>1, <2>2 DEF SameReview, Reviews
  <1> QED BY <1>1, <1>2

\* How an operation goes on in a part.
LEMMA Advancing ==
  ASSUME Types, Flow, [Next]_vars, ~Turns, pc \in Active, pc' \in Active
  PROVE  \/ todo' = todo
         \/ /\ Advance /\ pc = "run" /\ Check
            /\ Head(todo).do \in {"preflight", "change"} \/ Repeating
         \/ /\ Advance /\ pc = "wait" /\ Execute /\ Awaits(Head(todo), wire[1])
            /\ Confirms(Head(todo), machine')
         \/ pc = "moving" /\ part = "work"
PROOF
  <1>1. CASE Status \/ MoveOver \/ Alarm \/ Cleared \/ Drop \/ Reconnect \/ Stays
    BY <1>1, Elsewhere
  <1>2. CASE Check
    <2>1. ~PartEnds(Refusal(Head(todo)))
      BY DEF PartEnds, Active
    <2>2. pc = "run" /\ (Head(todo).do \in {"stop", "jog"} => Repeating)
      BY <1>2, StopsRepeat DEF Check, Active
    <2> QED BY <1>2, <2>1, <2>2 DEF Check, NoChange
  <1>3. CASE Submit \/ SubmitQuery
    BY <1>3, Submitted
  <1>4. CASE Execute
    <2>1. ~PartEnds("Unconfirmed")
      BY DEF PartEnds, Active
    <2> QED BY <1>4, <2>1, Taken
  <1>5. CASE TimedOut \/ Interrupted \/ Cancel
    BY <1>5 DEF TimedOut, Interrupted, Cancel, PartEnds, Active
  <1>6. CASE \E e \in MoveResults : MoveEnds(e)
    <2>1. pc = "moving"
      BY <1>6 DEF MoveEnds
    <2> QED BY <2>1, MovesInWork DEF Flow, Fits
  <1> QED BY <1>1, <1>2, <1>3, <1>4, <1>5, <1>6, StaysPut DEF Next, MoveResults, Turns

\* A rotary run gives back the rotation, then the plane, then the modes.
Chain ==
  op = "rotary" /\ part \in {"restore", "again"} /\ pc \in Active =>
  /\ Head(todo).do \in {"plane", "set"} => RotationIs(reviewed.rotation)
  /\ Head(todo).do = "set" => PlaneIs(reviewed.plane)

LEMMA InChain ==
  ASSUME Types, Flow, op = "rotary", part \in {"restore", "again"}, pc \in Active, Advance
  PROVE  \/ Head(todo) = Ask("preflight") /\ Head(todo') = Rotate("reviewed") /\ pc' = "run"
         \/ Head(todo) = Rotate("reviewed") /\ Head(todo') = Do("plane", "reviewed") /\ pc' = "run"
         \/ Head(todo) = Do("plane", "reviewed") /\ Head(todo') = Set("reviewed") /\ pc' = "run"
         \/ Head(todo) = Set("reviewed") /\ pc' = "over"
PROOF
  <1>1. PICK n \in 1..Len(Steps) :
            /\ Steps[n] = Head(todo) /\ Well(n) /\ Len(Steps) \in Nat
            /\ \/ pc' = "over" /\ n = Len(Steps)
               \/ /\ pc' = "run" /\ n + 1 \in 1..Len(Steps) /\ Head(todo') = Steps[n + 1] /\ Well(n + 1)
    BY NextHead
  <1>2. Len(Steps) = 4
    BY <1>1 DEF Well, RestoresWell
  <1>3. n \in {1, 2, 3, 4}
    BY <1>1, <1>2
  <1>4. /\ n = 1 => Head(todo) = Ask("preflight")
        /\ n = 2 => Head(todo) = Rotate("reviewed")
        /\ n = 3 => Head(todo) = Do("plane", "reviewed")
        /\ n = 4 => Head(todo) = Set("reviewed")
    BY <1>1 DEF Well, RestoresWell
  <1>5. CASE pc' = "over" /\ n = Len(Steps)
    BY <1>2, <1>4, <1>5
  <1>6. CASE pc' = "run" /\ n + 1 \in 1..Len(Steps) /\ Head(todo') = Steps[n + 1] /\ Well(n + 1)
    <2>1. n + 1 \in {2, 3, 4}
      BY <1>2, <1>3, <1>6
    <2>2. /\ n + 1 = 2 => Head(todo') = Rotate("reviewed")
          /\ n + 1 = 3 => Head(todo') = Do("plane", "reviewed")
          /\ n + 1 = 4 => Head(todo') = Set("reviewed")
      BY <1>6 DEF Well, RestoresWell
    <2> QED BY <1>3, <1>4, <1>6, <2>1, <2>2
  <1> QED BY <1>1, <1>5, <1>6

LEMMA StepChain ==
  ASSUME Types, Flow, Hears, Asked, Chain, [Next]_vars
  PROVE  Chain'
PROOF
  <1> SUFFICES ASSUME op' = "rotary", part' \in {"restore", "again"}, pc' \in Active
               PROVE  /\ Head(todo').do \in {"plane", "set"} => RotationNext(reviewed'.rotation)
                      /\ Head(todo').do = "set" => PlaneNext(reviewed'.plane)
    BY DEF Chain, RotationIs, RotationNext, PlaneIs, PlaneNext
  <1> USE DEF Ask, Rotate, Write, Set, Do
  <1>1. CASE Turns
    <2>1. todo' = PartOf("rotary", part')
      BY <1>1 DEF Turns, ClearOver, PrepareOver, WorkOver, RestoreOver, RotationOver, AgainOver, CoreOver,
                  Finish, Enter, Recover, RestoreAgain, Start, Active, OverAt
    <2>2. "rotary" \in AllOps /\ part' \in PartsOf("rotary")
      BY DEF AllOps, Motions, PartsOf
    <2>3. Head(todo') = Ask("preflight")
      BY <2>1, <2>2, FirstHead DEF RestoresWell
    <2> QED BY <2>3
  <1>2. CASE ~Turns
    <2>1. UNCHANGED <<op, part, reviewed>> /\ pc \in Active
      BY <1>2, Within
    <2>2. part # "work" /\ ~(Submit /\ Head(todo).do = "move")
      BY <2>1, MovesInWork DEF Moves
    <2>3. CASE todo' = todo
      <3>1. Head(todo).do \in {"plane", "set"} => RotationNext(reviewed.rotation)
        BY <2>1, KeepsRotation DEF Chain
      <3>2. Head(todo).do = "set" => PlaneNext(reviewed.plane)
        BY <2>1, <2>2, KeepsPlane DEF Chain
      <3> QED BY <2>1, <2>3, <3>1, <3>2
    <2>4. CASE Advance /\ pc = "run" /\ Head(todo).do \in {"preflight", "change"}
      <3>1. Head(todo') = Rotate("reviewed")
        BY <2>1, <2>4, InChain
      <3> QED BY <3>1
    <2>5. CASE /\ Advance /\ pc = "wait" /\ Execute /\ Awaits(Head(todo), wire[1])
               /\ Confirms(Head(todo), machine')
      <3>0. ~Leaving /\ ~Submit
        BY <2>1, <2>5 DEF Leaving, Submit
      <3>1. CASE Head(todo) = Rotate("reviewed")
        <4>1. Head(todo') = Do("plane", "reviewed")
          BY <2>1, <2>5, <3>1, InChain
        <4>2. reviewed # <<>>
          BY <2>1 DEF Flow, NeedsReview, Reviewed
        <4>3. RotationNext(reviewed.rotation)
          BY <2>5, <3>0, <3>1, <4>2, RotationConfirmed
        <4> QED BY <2>1, <4>1, <4>3
      <3>2. CASE Head(todo) = Do("plane", "reviewed")
        <4>1. RotationNext(reviewed.rotation)
          BY <2>1, <3>0, <3>2, KeepsRotation DEF Chain
        <4>2. PlaneNext(reviewed.plane)
          BY <2>5, <3>0, <3>2, PlaneConfirmed
        <4> QED BY <2>1, <4>1, <4>2
      <3>3. CASE Head(todo) = Set("reviewed")
        <4>1. pc' = "over"
          BY <2>1, <2>5, <3>3, InChain
        <4> QED BY <4>1 DEF Active
      <3>4. CASE Head(todo) = Ask("preflight")
        BY <2>5, <3>4 DEF Flow, Fits, Active
      <3> QED BY <2>1, <2>5, <3>1, <3>2, <3>3, <3>4, InChain
    <2> QED BY <1>2, <2>1, <2>2, <2>3, <2>4, <2>5, Advancing DEF Repeating
  <1> QED BY <1>1, <1>2

\* A restoration that ends well has given everything back that is its own.
Returned ==
  /\ part = "restore" /\ pc = "over" /\ verdict = "ok" => ModesBack /\ RotaryBack
  /\ part = "again" /\ pc = "over" /\ verdict = "ok" => GivenBack

LEMMA StepReturned ==
  ASSUME Types, Flow, Hears, Asked, Untouched, Chain, Returned, [Next]_vars
  PROVE  Returned'
PROOF
  <1> SUFFICES ASSUME part' \in {"restore", "again"}, pc' = "over", verdict' = "ok"
               PROVE  /\ part' = "restore" => ModesBack' /\ RotaryBack'
                      /\ part' = "again" => GivenBack'
    BY DEF Returned
  <1>1. ~Turns /\ UNCHANGED <<op, part>> /\ op # None
    BY Ends, Within DEF Flow, Active
  <1>2. /\ captured' = captured /\ op # "review" /\ reviewed' = reviewed /\ op \in AllOps
        /\ part \in PartsOf(op)
    <2>1. part \in PartsOf(op)
      <3>1. pc \in Active \cup {"over"}
        BY <1>1, Within
      <3> QED BY <3>1 DEF Flow
    <2>2. op \in AllOps
      BY <1>1 DEF Types
    <2>3. op # "review"
      BY <1>1, <2>1 DEF PartsOf
    <2> QED BY <1>1, <2>1, <2>2, <2>3, Within
  <1>3. CASE pc = "over" /\ verdict' = verdict
    <2>1. ~Submit /\ SameReview
      BY <1>2, <1>3 DEF Submit, SameReview
    <2> QED BY <1>1, <1>2, <1>3, <2>1, KeepsBack DEF Returned
  <1>4. ASSUME pc \in Active, Advance
        PROVE  \E n \in 1..Len(Steps) : Steps[n] = Head(todo) /\ Well(n) /\ n = Len(Steps)
    BY <1>4, NextHead
  <1>5. CASE /\ pc = "run" /\ Check /\ Advance /\ Head(todo).do \in {"preflight", "change"}
             /\ Head(todo).do = "change" => NoChange(Head(todo))
    <2>1. PICK n \in 1..Len(Steps) : Steps[n] = Head(todo) /\ Well(n) /\ n = Len(Steps)
      BY <1>4, <1>5 DEF Active
    <2>2. part = "restore" /\ op \notin Motions
      <3>1. op = "rotary" => Head(todo) = Set("reviewed")
        BY <1>1, <2>1 DEF Well, RestoresWell
      <3> QED BY <1>1, <1>5, <2>1, <3>1 DEF Well, RestoresWell, Set, Do
    <2>3. op \in Writes \ {"rotate"}
      BY <1>1, <1>2, <2>2 DEF AllOps, PartsOf
    <2>4. Head(todo).do = "change"
      <3>1. op # "rotary"
        BY <2>2 DEF Motions
      <3> QED BY <1>5, <2>1, <2>2, <3>1 DEF Well, RestoresWell
    <2>5. ModesIn({captured}, wire)
      BY <1>5, <2>2, <2>3, <2>4 DEF NoChange, Untouched
    <2>6. ~Submit
      BY <1>5 DEF Check, Advance, Submit, Active
    <2>7. ModesBack /\ SameReview /\ op # "rotary" /\ op \notin Reviewed
      BY <1>2, <2>2, <2>5 DEF ModesBack, SameReview, Reviewed, Motions
    <2>8. ModesBack'
      BY <1>1, <1>2, <2>6, <2>7, KeepsBack
    <2> QED BY <1>1, <2>2, <2>7, <2>8 DEF RotaryBack
  <1>6. CASE /\ pc = "wait" /\ Execute /\ Awaits(Head(todo), wire[1])
             /\ Confirms(Head(todo), machine') /\ Advance
    <2>1. PICK n \in 1..Len(Steps) : Steps[n] = Head(todo) /\ Well(n) /\ n = Len(Steps)
      BY <1>4, <1>6 DEF Active
    <2>2. ~Submit
      BY <1>6 DEF Submit
    <2>3. CASE op = "rotary"
      <3>1. Head(todo) = Set("reviewed")
        BY <1>1, <2>1, <2>3 DEF Well, RestoresWell
      <3>2. Head(todo).do = "set" /\ Value(Head(todo).v) = reviewed.modes
        BY <3>1 DEF Set, Do, Value
      <3>3. ModesNext({reviewed.modes})
        BY <1>1, <1>6, <3>2, SetConfirmed
      <3>4. RotationNext(reviewed.rotation)
        BY <1>1, <1>6, <2>2, <2>3, <3>2, KeepsRotation DEF Chain, Active
      <3>5. PlaneNext(reviewed.plane)
        BY <1>1, <1>6, <2>2, <2>3, <3>2, KeepsPlane DEF Chain, Active
      <3>6. ModesIn({reviewed.modes}, wire)'
        BY <1>2, <3>3 DEF ModesIn, ModesNext
      <3>7. RotationIs(reviewed.rotation)'
        BY <1>2, <3>4 DEF RotationIs, RotationNext
      <3>8. PlaneIs(reviewed.plane)'
        BY <1>2, <3>5 DEF PlaneIs, PlaneNext
      <3>9. op' = "rotary"
        BY <1>1, <2>3
      <3> QED BY <3>6, <3>7, <3>8, <3>9 DEF ModesBack, RotaryBack, GivenBack, Reviewed
    <2>4. CASE op # "rotary" /\ part = "restore"
      <3>1. /\ Head(todo).do \in {"set", "change"}
            /\ Value(Head(todo).v) = IF op \in Reviewed THEN reviewed.modes ELSE captured
        BY <2>1, <2>4 DEF Well, RestoresWell, Value
      <3>2. op' = op /\ op' # "rotary" /\ part' # "again"
        BY <1>1, <2>4
      <3>3. ModesNext({Value(Head(todo).v)})
        BY <1>6, <2>4, <3>1, SetConfirmed
      <3>4. ModesBack'
        <4>1. CASE op \in Reviewed
          <5>1. ModesIn({reviewed.modes}, wire)'
            BY <1>2, <3>1, <3>3, <4>1 DEF ModesIn, ModesNext
          <5> QED BY <3>2, <4>1, <5>1 DEF ModesBack
        <4>2. CASE op \notin Reviewed
          <5>1. ModesIn({captured}, wire)'
            BY <1>2, <3>1, <3>3, <4>2 DEF ModesIn, ModesNext
          <5> QED BY <3>2, <4>2, <5>1 DEF ModesBack
        <4> QED BY <4>1, <4>2
      <3> QED BY <3>2, <3>4 DEF RotaryBack
    <2>5. CASE op # "rotary" /\ part = "again"
      <3>1. Head(todo) = Set("reviewed") /\ op = "measured"
        BY <2>1, <2>5 DEF Well, RestoresWell
      <3>2. Head(todo).do = "set" /\ Value(Head(todo).v) = reviewed.modes
        BY <3>1 DEF Set, Do, Value
      <3>3. ModesNext({reviewed.modes})
        BY <1>6, <2>5, <3>2, SetConfirmed
      <3>4. ModesIn({reviewed.modes}, wire)'
        BY <1>2, <3>3 DEF ModesIn, ModesNext
      <3>5. op' = "measured" /\ part' = "again"
        BY <1>1, <2>5, <3>1
      <3> QED BY <3>4, <3>5 DEF GivenBack
    <2> QED BY <1>1, <2>3, <2>4, <2>5
  <1> QED BY <1>1, <1>3, <1>5, <1>6, Ends DEF Refusals, Repeating

\* After an angle the modes are back before the rotation comes back.
Rotating ==
  InPart("rotation") /\ (cause = "ok" \/ (cause \in {"Missed", "Released", "Compensation"} /\ ~recovery)) =>
  /\ ModesBack
  /\ pc = "over" /\ verdict = "ok" => AngleBack

LEMMA StepRotating ==
  ASSUME Types, Flow, Hears, Asked, Causes, Returned, Rotating, [Next]_vars
  PROVE  Rotating'
PROOF
  <1> SUFFICES ASSUME InPart("rotation")',
                      cause' = "ok" \/ (cause' \in {"Missed", "Released", "Compensation"} /\ ~recovery')
               PROVE  /\ ModesBack'
                      /\ pc' = "over" /\ verdict' = "ok" => AngleBack'
    BY DEF Rotating
  <1>1. CASE ~Turns
    <2>1. UNCHANGED <<op, part, cause, recovery>> /\ InPart("rotation")
      BY <1>1, Within DEF InPart, Active
    <2>2. op = "angle"
      BY <2>1 DEF Flow, InPart, PartsOf, Types, AllOps
    <2>3. UNCHANGED <<captured, reviewed>>
      BY <1>1, <2>1, <2>2, Within DEF InPart
    <2>4. ModesBack /\ (pc = "over" /\ verdict = "ok" => AngleBack)
      BY <2>1 DEF Rotating
    <2>5. pc \in Active => Head(todo) = Rotate("reviewed")
      <3> SUFFICES ASSUME pc \in Active PROVE Head(todo) = Rotate("reviewed")
        OBVIOUS
      <3>1. PICK n \in 1..Len(Steps) : Head(todo) = Steps[n] /\ RestoresWell(op, part, Steps, n)
        BY Placed
      <3> QED BY <2>1, <3>1 DEF RestoresWell, InPart
    <2>6. ModesIn({reviewed.modes}, wire)
      BY <2>2, <2>4 DEF ModesBack, Reviewed
    <2>7. ModesNext({reviewed.modes})
      <3>1. Submit => Head(todo).do = "write"
        BY <2>5 DEF Submit, Active, Rotate, Write, Do
      <3> QED BY <2>6, <3>1, KeepsModes
    <2>8. ModesIn({reviewed.modes}, wire)'
      BY <2>3, <2>7 DEF ModesIn, ModesNext
    <2>9. ModesBack'
      BY <2>1, <2>2, <2>8 DEF ModesBack, Reviewed
    <2>10. ASSUME pc' = "over", verdict' = "ok" PROVE AngleBack'
      <3>1. CASE pc = "over" /\ verdict' = verdict
        <4>1. ~Submit /\ SameReview /\ AngleBack
          BY <2>3, <2>4, <2>10, <3>1 DEF Submit, SameReview
        <4> QED BY <2>1, <2>3, <4>1, KeepsBack
      <3>2. CASE pc = "wait" /\ Execute /\ Awaits(Head(todo), wire[1]) /\ Confirms(Head(todo), machine')
        <4>1. ~Leaving /\ reviewed # <<>>
          BY <2>1, <2>2, <3>2 DEF Leaving, Flow, NeedsReview, Reviewed
        <4>2. RotationNext(reviewed.rotation)
          BY <2>5, <3>2, <4>1, RotationConfirmed DEF Active
        <4>3. RotationIs(reviewed.rotation)'
          BY <2>3, <4>2 DEF RotationIs, RotationNext
        <4> QED BY <4>3 DEF AngleBack
      <3>3. CASE pc = "run" /\ Head(todo).do \in {"preflight", "change"}
        BY <2>5, <3>3 DEF Active, Rotate, Write, Do
      <3> QED BY <2>1, <2>10, <3>1, <3>2, <3>3, Ends DEF Refusals, InPart, Repeating
    <2> QED BY <2>9, <2>10
  <1>2. CASE Turns
    <2>1. pc' = "run" /\ part' = "rotation" /\ (PrepareOver \/ WorkOver \/ RestoreOver) /\ CoreOver(cause')
      <3>1. PrepareOver \/ WorkOver \/ RestoreOver
        BY <1>2 DEF Turns, ClearOver, RotationOver, AgainOver, Finish, Enter, Recover, RestoreAgain,
                    Start, InPart, Active, OverAt
      <3>2. CoreOver(cause')
        BY <3>1 DEF PrepareOver, WorkOver, RestoreOver, Enter, InPart
      <3>3. pc' = "run" /\ part' = "rotation"
        BY <3>2 DEF CoreOver, Finish, Enter, InPart, Active
      <3> QED BY <3>1, <3>2, <3>3
    <2>2. /\ op = "angle" /\ Able /\ reviewed' = reviewed /\ pc = "over"
          /\ UNCHANGED <<op, captured, machine, wire>> /\ op' = "angle"
      <3>1. pc = "over" /\ UNCHANGED <<op, captured, machine, wire>>
        BY <2>1 DEF PrepareOver, WorkOver, RestoreOver, OverAt, machineVars
      <3>2. op = "angle" /\ Able /\ reviewed' = reviewed
        BY <2>1 DEF CoreOver, Finish
      <3> QED BY <3>1, <3>2
    <2>3. RestoreOver /\ verdict = "ok"
      <3>1. CASE PrepareOver
        <4>1. part = "prepare" /\ cause' = verdict /\ verdict # "ok"
          BY <2>1, <2>2, <3>1 DEF PrepareOver, OverAt, Enter
        <4> QED BY <2>2, <4>1 DEF Causes
      <3>2. CASE WorkOver
        <4>1. cause' = verdict /\ ~Restores(op, verdict)
          BY <2>1, <2>2, <3>2 DEF WorkOver, Enter
        <4>2. ~seen.blocked
          BY <2>2 DEF Able
        <4> QED BY <2>2, <4>1, <4>2 DEF Restores, Settled, Motions
      <3>3. CASE RestoreOver
        <4>1. part = "restore"
          BY <3>3 DEF RestoreOver, OverAt
        <4>2. verdict \notin {"Missed", "Released", "Compensation"}
          BY <2>2, <4>1 DEF Causes
        <4>3. verdict = "ok" \/ cause' = verdict \/ (recovery' /\ cause # "ok" /\ cause' = cause)
          BY <3>3 DEF RestoreOver
        <4> QED BY <3>3, <4>2, <4>3
      <3> QED BY <2>1, <3>1, <3>2, <3>3
    <2>4. part = "restore"
      BY <2>3 DEF RestoreOver, OverAt
    <2>5. ModesBack
      BY <2>2, <2>3, <2>4 DEF Returned
    <2>6. ModesIn({reviewed.modes}, wire)'
      BY <2>2, <2>5 DEF ModesBack, ModesIn, Reviewed
    <2>7. ModesBack'
      BY <2>2, <2>6 DEF ModesBack, Reviewed
    <2> QED BY <2>1, <2>7
  <1> QED BY <1>1, <1>2

(***************************************************************************)
(* The ends of the operations.                                             *)

Succeeded ==
  /\ pc = "idle" /\ op \notin {None, "review", "rotate"} /\ cause = "ok"
  /\ alarms = 0 \/ op \in {"routine", "measured", "return", "repeat"}
  => ModesBack /\ RotaryBack /\ (drops = 0 => AngleBack)
SettledCause ==
  cause \in {"Missed", "Released", "Stopped"} \/ (cause = "Compensation" /\ op \in {"routine", "angle"})
Recovering ==
  FaultFree /\ op \in Motions /\ ~recovery =>
  /\ pc \in {"recover", "recovered", "idle"} /\ SettledCause => GivenBack
  /\ pc = "recovered" /\ op = "rotary" /\ cause # "Preflight" => seen.ready \/ GivenBack
  /\ pc = "idle" /\ op = "rotary" /\ cause # "Preflight" => GivenBack

\* A restored angle whose rotation is not given back has none, or met a fault.
LEMMA AngleNeedsNothing ==
  ASSUME Types, Flow, Hears, Faults, StillReady, RestoreOver, NEW e, CoreOver(e),
         pc' \in {"idle", "recover"}, alarms = 0, drops = 0, cause \in AtRest
  PROVE  AngleBack
PROOF
  <1> SUFFICES ASSUME op = "angle", reviewed.rotation # Unrotated PROVE FALSE
    BY DEF AngleBack
  <1>1. InPart("restore") /\ op \in Motions
    BY DEF RestoreOver, OverAt, InPart, Motions
  <1>2. seen.ready /\ link /\ ~seen.blocked
    BY <1>1 DEF StillReady, Faults, Hears
  <1> QED BY <1>2 DEF CoreOver, Enter, Able

LEMMA StepSucceeded ==
  ASSUME Types, Flow, Hears, Causes, Faults, StillReady, Returned, Rotating, Succeeded, [Next]_vars
  PROVE  Succeeded'
PROOF
  <1> DEFINE Few == {"routine", "measured", "return", "repeat"}
  <1> SUFFICES ASSUME pc' = "idle", op' \notin {None, "review", "rotate"}, cause' = "ok",
                      alarms' = 0 \/ op' \in Few
               PROVE  ModesBack' /\ RotaryBack' /\ (drops' = 0 => AngleBack')
    BY DEF Succeeded
  <1>1. (alarms' = 0 => alarms = 0) /\ (drops' = 0 => drops = 0)
    BY Counted
  <1>2. CASE ~Turns
    <2>1. pc = "idle" /\ UNCHANGED <<op, cause, captured, reviewed>>
      BY <1>2, Within DEF Active
    <2>2. ModesBack /\ RotaryBack /\ (drops = 0 => AngleBack)
      BY <1>1, <2>1 DEF Succeeded
    <2>3. ~Submit /\ SameReview
      BY <2>1 DEF Submit, SameReview
    <2> QED BY <1>1, <2>1, <2>2, <2>3, KeepsBack
  <1>3. CASE Turns
    <2>1. ~(Recover \/ RestoreAgain \/ AgainOver \/ \E o \in Operations : Start(o))
      <3>1. ~(Recover \/ \E o \in Operations : Start(o))
        BY DEF Recover, Start
      <3>2. ~(RestoreAgain \/ AgainOver)
        <4> SUFFICES ASSUME RestoreAgain \/ AgainOver PROVE FALSE
          OBVIOUS
        <4>1. cause = "ok" /\ (pc = "recovered" \/ InPart("again"))
          BY DEF RestoreAgain, AgainOver, OverAt, InPart
        <4> QED BY <4>1 DEF Causes
      <3> QED BY <3>1, <3>2
    <2>2. /\ pc = "over" /\ UNCHANGED <<op, captured, alarms, drops, machineVars>>
      BY <1>3, <2>1 DEF Turns, ClearOver, PrepareOver, WorkOver, RestoreOver, RotationOver, OverAt, counters
    <2>3. op # None /\ op \in AllOps
      BY <2>2 DEF Types
    <2>4. ~ClearOver
      BY <1>3 DEF ClearOver, Enter
    <2>5. ~PrepareOver
      BY <1>3, <2>2 DEF PrepareOver, Enter
    <2>6. ~WorkOver
      <3> SUFFICES ASSUME WorkOver PROVE FALSE
        OBVIOUS
      <3>1. verdict = "ok" /\ ~Restores(op, "ok")
        BY <2>2 DEF WorkOver, Enter
      <3>2. alarms = 0 => ~seen.blocked
        BY DEF Faults, Hears
      <3>3. op \in Motions \ {"rotary"} => Restores(op, "ok")
        BY DEF Restores
      <3>4. ~seen.blocked => Restores(op, "ok")
        BY DEF Restores
      <3> QED BY <1>1, <2>2, <3>1, <3>2, <3>3, <3>4 DEF Motions
    <2>7. SameReview
      BY <1>3, <2>1, <2>3, <2>4, <2>5, <2>6, SameAtTheEnd DEF Turns, RestoreOver, RotationOver
    <2>8. ~Submit
      BY <2>2 DEF Submit
    <2>9. CASE RestoreOver
      <3>1. part = "restore" /\ verdict = "ok" /\ cause = "ok" /\ CoreOver(cause')
        BY <2>9 DEF RestoreOver, OverAt
      <3>2. ModesBack /\ RotaryBack
        BY <2>2, <3>1 DEF Returned
      <3>3. drops' = 0 => AngleBack
        <4> SUFFICES ASSUME drops' = 0, op = "angle" PROVE AngleBack
          BY DEF AngleBack
        <4>1. alarms = 0 /\ drops = 0
          BY <1>1, <2>2
        <4> QED BY <2>9, <3>1, <4>1, AngleNeedsNothing DEF AtRest
      <3> QED BY <2>2, <2>7, <2>8, <3>2, <3>3, KeepsBack
    <2>10. CASE RotationOver
      <3>1. part = "rotation" /\ cause = "ok" /\ verdict = "ok"
        BY <2>10 DEF RotationOver, OverAt
      <3>2. op = "angle"
        BY <2>2, <2>3, <3>1 DEF Flow, PartsOf, AllOps
      <3>3. ModesBack /\ AngleBack /\ RotaryBack
        BY <2>2, <3>1, <3>2 DEF Rotating, InPart, RotaryBack
      <3> QED BY <2>2, <2>7, <2>8, <3>3, KeepsBack
    <2> QED BY <1>3, <2>1, <2>4, <2>5, <2>6, <2>9, <2>10 DEF Turns
  <1> QED BY <1>2, <1>3

LEMMA StepRecovering ==
  ASSUME Types, Flow, Hears, Resting, Causes, Faults, StillReady, Returned, Rotating, Succeeded',
         Recovering, [Next]_vars
  PROVE  Recovering'
PROOF
  <1> DEFINE Over == pc \in {"recover", "recovered", "idle"} /\ SettledCause
             Left == op = "rotary" /\ cause # "Preflight"
  <1> SUFFICES ASSUME FaultFree', op' \in Motions, ~recovery'
               PROVE  /\ Over' => GivenBack'
                      /\ pc' = "recovered" /\ Left' => seen'.ready \/ GivenBack'
                      /\ pc' = "idle" /\ Left' => GivenBack'
    BY DEF Recovering
  <1>1. alarms' = 0 /\ drops' = 0 /\ FaultFree /\ alarms = 0 /\ drops = 0
    BY Counted DEF FaultFree
  <1>2. ~machine.blocked /\ ~seen.blocked /\ link
    BY <1>1 DEF Faults, Hears
  <1>3. CASE ~Turns
    <2>1. UNCHANGED <<op, cause, recovery>>
      BY <1>3, Within
    <2>2. SUFFICES ASSUME pc' \in {"recover", "recovered", "idle"}
                   PROVE  /\ Over' => GivenBack'
                          /\ pc' = "recovered" /\ Left' => seen'.ready \/ GivenBack'
                          /\ pc' = "idle" /\ Left' => GivenBack'
      OBVIOUS
    <2>3. pc' = pc /\ UNCHANGED <<captured, reviewed>>
      BY <1>3, <2>2, Within DEF Active
    <2>4. ~Submit /\ SameReview
      BY <2>2, <2>3 DEF Submit, SameReview
    <2>5. GivenBack => GivenBack'
      BY <2>1, <2>3, <2>4, KeepsBack
    <2>6. pc = "recovered" /\ seen.ready => seen'.ready
      <3> SUFFICES ASSUME pc = "recovered", seen.ready PROVE seen'.ready
        OBVIOUS
      <3>1. ~machine.moving
        BY <1>2 DEF Resting, Quiet, MayMove, Moving, Active
      <3> QED BY <1>1, <3>1, KeepsReady
    <2> QED BY <1>1, <2>1, <2>3, <2>5, <2>6 DEF Recovering, SettledCause
  <1>4. CASE ClearOver \/ PrepareOver \/ WorkOver \/ RestoreOver \/ RotationOver
    <2>1. pc = "over" /\ UNCHANGED <<op, captured>> /\ op # None /\ op \in Motions /\ op \in Spawned
      BY <1>4 DEF ClearOver, PrepareOver, WorkOver, RestoreOver, RotationOver, OverAt, Motions, None, Spawned
    <2>2. SUFFICES ASSUME pc' \in {"recover", "idle"}
                   PROVE  (Over' => GivenBack') /\ (pc' = "idle" => GivenBack')
      BY <1>4 DEF ClearOver, PrepareOver, WorkOver, RestoreOver, RotationOver, CoreOver, Finish, Enter
    <2>3. CoreOver(cause') \/ Finish(cause')
      BY <1>4, <2>2 DEF ClearOver, PrepareOver, WorkOver, RestoreOver, RotationOver, Enter
    <2>4. pc' = "recover" <=> cause' # "ok"
      BY <2>1, <2>2, <2>3 DEF CoreOver, Finish, Enter
    <2>5. SameReview /\ ~Submit
      BY <2>1, <2>3, SameAtTheEnd DEF Submit
    <2>6. ModesBack /\ RotaryBack /\ AngleBack => GivenBack'
      BY <2>1, <2>5, KeepsBack, AllBack
    <2>7. CASE pc' = "idle"
      <3>1. cause' = "ok"
        BY <2>2, <2>4, <2>7
      <3>2. ModesBack' /\ RotaryBack' /\ AngleBack' /\ op' # None
        BY <1>1, <2>1, <2>7, <3>1 DEF Succeeded, Motions, None
      <3>3. GivenBack'
        BY <3>2 DEF GivenBack, ModesBack, RotaryBack, AngleBack
      <3> QED BY <3>3
    <2>8. CASE pc' = "recover" /\ SettledCause'
      <3>1. cause' \in {"Missed", "Released", "Stopped", "Compensation"}
        BY <2>8 DEF SettledCause
      <3>2. part # "work" => verdict \notin {"Missed", "Released", "Stopped", "Compensation"}
        BY <2>1 DEF Causes
      <3>3. ~ClearOver /\ ~PrepareOver
        BY <3>1, <3>2 DEF ClearOver, PrepareOver, OverAt
      <3>4. ~WorkOver
        <4> SUFFICES ASSUME WorkOver PROVE FALSE
          OBVIOUS
        <4>1. cause' = verdict /\ ~(Restores(op, verdict) /\ op # "rotate")
          BY <2>2 DEF WorkOver, Enter
        <4>2. op # "rotate"
          BY <2>1 DEF Motions
        <4>3. Fitting(verdict)
          BY <2>1 DEF Causes
        <4>4. verdict = "Compensation" => op \in {"routine", "angle"}
          BY <2>1, <2>8, <4>1 DEF SettledCause
        <4>5. Restores(op, verdict)
          BY <1>2, <2>1, <3>1, <4>1, <4>3, <4>4 DEF Restores, Settled, Motions, Fitting
        <4> QED BY <4>1, <4>2, <4>5
      <3>5. CASE RestoreOver
        <4>1. part = "restore" /\ CoreOver(cause')
          BY <3>5 DEF RestoreOver, OverAt
        <4>2. verdict = "ok" /\ cause \in AtRest
          BY <3>1, <3>2, <3>5, <4>1 DEF RestoreOver, AtRest
        <4>3. ModesBack /\ RotaryBack
          BY <2>1, <4>1, <4>2 DEF Returned
        <4>4. AngleBack
          BY <1>1, <2>8, <3>5, <4>1, <4>2, AngleNeedsNothing
        <4> QED BY <2>6, <2>8, <4>3, <4>4
      <3>6. CASE RotationOver
        <4>1. part = "rotation"
          BY <3>6 DEF RotationOver, OverAt
        <4>2. op = "angle"
          BY <2>1, <4>1 DEF Flow, PartsOf, Motions, AllOps, Types
        <4>3. cause # "ok" /\ cause' = cause /\ verdict = "ok" /\ ~recovery
          BY <3>1, <3>2, <3>6, <4>1 DEF RotationOver
        <4>4. cause \in {"Missed", "Released", "Compensation"}
          BY <3>1, <4>2, <4>3 DEF Causes, Fitting
        <4>5. ModesBack /\ AngleBack /\ RotaryBack
          BY <2>1, <4>1, <4>2, <4>3, <4>4 DEF Rotating, InPart, RotaryBack
        <4> QED BY <2>6, <2>8, <4>5
      <3> QED BY <1>4, <3>3, <3>4, <3>5, <3>6
    <2> QED BY <2>2, <2>7, <2>8
  <1>5. CASE Recover
    <2>1. /\ pc = "recover" /\ pc' = "recovered"
          /\ UNCHANGED <<op, captured, cause, recovery, reviewed>>
      BY <1>5 DEF Recover
    <2>2. ~Submit /\ SameReview
      BY <2>1 DEF Submit, SameReview
    <2>3. SettledCause => GivenBack'
      <3>1. SettledCause => GivenBack
        BY <1>1, <2>1 DEF Recovering
      <3> QED BY <2>1, <2>2, <3>1, KeepsBack
    <2>4. Left' => seen'.ready \/ GivenBack'
      <3> SUFFICES ASSUME op = "rotary", cause # "Preflight", ~seen'.ready PROVE GivenBack'
        BY <2>1
      <3>1. Exempt
        BY <1>2, <1>5, RecoverTypes
      <3>2. cause \in {"Missed", "Released"}
        BY <1>1, <2>1, <3>1 DEF Exempt, Causes, Fitting, Faults
      <3> QED BY <2>3, <3>2 DEF SettledCause
    <2> QED BY <2>1, <2>3, <2>4 DEF SettledCause
  <1>6. CASE RestoreAgain
    <2>1. SUFFICES ASSUME pc' = "idle"
                   PROVE  (Over' => GivenBack') /\ (Left' => GivenBack')
      BY <1>6 DEF RestoreAgain, Enter
    <2>2. /\ pc = "recovered" /\ ~RestoresAgain
          /\ UNCHANGED <<op, captured, cause, recovery, reviewed>>
      BY <1>6, <2>1 DEF RestoreAgain, Enter
    <2>3. ~Submit /\ SameReview
      BY <2>2 DEF Submit, SameReview
    <2>4. GivenBack => GivenBack'
      BY <2>2, <2>3, KeepsBack
    <2>5. SettledCause => GivenBack
      BY <1>1, <2>2 DEF Recovering
    <2>6. op = "rotary" /\ cause # "Preflight" => GivenBack
      <3> SUFFICES ASSUME op = "rotary", cause # "Preflight" PROVE GivenBack
        OBVIOUS
      <3>1. ~seen.ready
        BY <1>2, <2>2 DEF RestoresAgain, Able
      <3> QED BY <1>1, <2>2, <3>1 DEF Recovering
    <2> QED BY <2>2, <2>4, <2>5, <2>6 DEF SettledCause
  <1>7. CASE AgainOver
    <2>1. /\ pc = "over" /\ part = "again" /\ verdict = "ok" /\ UNCHANGED <<op, captured, reviewed>>
      BY <1>7 DEF AgainOver, OverAt
    <2>2. ~Submit /\ SameReview /\ GivenBack
      BY <2>1 DEF Submit, SameReview, Returned
    <2>3. GivenBack'
      BY <2>1, <2>2, KeepsBack
    <2> QED BY <2>3
  <1>8. CASE \E o \in Operations : Start(o)
    BY <1>8 DEF Start
  <1> QED BY <1>3, <1>4, <1>5, <1>6, <1>7, <1>8 DEF Turns

\* The invariant of the borrowed settings.
Lending == Resting /\ Untouched /\ Faults /\ Causes /\ StillReady
GivingBack == Chain /\ Returned /\ Rotating /\ Succeeded /\ Recovering
Borrowing == Base /\ Lending /\ GivingBack

LEMMA InitBorrowing == Init => Borrowing
PROOF
  <1> SUFFICES ASSUME Init PROVE Borrowing
    OBVIOUS
  <1>1. Base
    BY InitBase
  <1>2. /\ pc = "idle" /\ wire = <<>> /\ DOMAIN <<>> = {} /\ ~machine.moving /\ ~machine.blocked /\ link
        /\ op = None /\ cause = "ok" /\ alarms = 0 /\ drops = 0 /\ lost = 0
    BY DEF Init
  <1>3. Resting
    BY <1>2 DEF Resting, Quiet, Moving, Still, Restored, InPart, Active
  <1>4. Untouched /\ Causes /\ StillReady
    BY <1>2 DEF Untouched, Causes, Fitting, StillReady, InPart, Active, Writes, Motions, None
  <1>5. Faults
    BY <1>2 DEF Faults
  <1>6. GivingBack
    BY <1>2 DEF GivingBack, Chain, Returned, Rotating, Succeeded, Recovering, InPart, Active, Motions, None
  <1> QED BY <1>1, <1>3, <1>4, <1>5, <1>6 DEF Borrowing, Lending

LEMMA StepBorrowing == ASSUME Borrowing, [Next]_vars PROVE Borrowing'
PROOF
  <1> USE DEF Borrowing, Base, Lending, GivingBack
  <1>1. Base'
    BY StepBase
  <1>2. Resting' /\ Faults' /\ Causes'
    BY StepResting, StepFaults, StepCauses
  <1>3. Untouched'
    BY StepUntouched
  <1>4. StillReady'
    BY StepStillReady
  <1>5. Chain' /\ Returned'
    BY StepChain, StepReturned
  <1>6. Rotating'
    BY StepRotating
  <1>7. Succeeded'
    BY StepSucceeded
  <1>8. Recovering'
    BY <1>7, StepRecovering
  <1> QED BY <1>1, <1>2, <1>3, <1>4, <1>5, <1>6, <1>7, <1>8

LEMMA BorrowingGivesBack == Borrowing => SuccessGivesBack /\ ErrorGivesBackOrSays
PROOF
  <1> SUFFICES ASSUME Borrowing PROVE SuccessGivesBack /\ ErrorGivesBackOrSays
    OBVIOUS
  <1> USE DEF Borrowing, Base, GivingBack
  <1>1. ASSUME pc = "idle", op \notin {None, "review", "rotate"}, cause = "ok",
               alarms = 0 \/ op \in {"routine", "measured", "return", "repeat"},
               drops = 0 \/ op # "angle"
        PROVE  GivenBack
    <2>1. ModesBack /\ RotaryBack /\ AngleBack
      BY <1>1 DEF Succeeded, AngleBack
    <2> QED BY <1>1, <2>1, AllBack
  <1>2. SuccessGivesBack
    BY <1>1 DEF SuccessGivesBack
  <1>3. ASSUME pc = "idle", op \in Motions, ~recovery, FaultFree,
               \/ op = "rotary" /\ cause # "Preflight"
               \/ cause \in {"ok", "Missed", "Released", "Stopped"}
               \/ cause = "Compensation" /\ op \in {"routine", "angle"}
        PROVE  GivenBack
    <2>1. CASE cause = "ok"
      <3>1. op \notin {None, "review", "rotate"} /\ alarms = 0 /\ drops = 0
        BY <1>3 DEF Motions, None, FaultFree
      <3> QED BY <1>1, <1>3, <2>1, <3>1
    <2>2. CASE cause # "ok"
      BY <1>3, <2>2 DEF Recovering, SettledCause
    <2> QED BY <2>1, <2>2
  <1>4. ErrorGivesBackOrSays
    BY <1>3 DEF ErrorGivesBackOrSays
  <1> QED BY <1>2, <1>4

\* An operation that reports success leaves modes, rotation and plane as they
\* were captured, for any machine, any operations before it and any number of
\* lost answers, lost connections and alarms the property allows.
THEOREM SuccessIsGivenBack == Spec => []SuccessGivesBack
  BY InitBorrowing, StepBorrowing, BorrowingGivesBack, PTL DEF Spec

\* Without a fault of the machine or the connection, an operation that ends in
\* an error at rest, or that stops and restores in its end, has given everything
\* back or says that its recovery failed.
THEOREM ErrorIsGivenBackOrSaid == Spec => []ErrorGivesBackOrSays
  BY InitBorrowing, StepBorrowing, BorrowingGivesBack, PTL DEF Spec

(***************************************************************************)
(* The stop button of the repeatability check.                             *)

\* It belongs to that check, and no motion is the next instruction of a work
\* that has begun one since it was pressed.
Halting ==
  /\ stop # "no" => op = "repeat"
  /\ stop = "late" /\ part = "work" /\ pc = "run" => Head(todo).do \notin Moves

\* Between two operations it is pressed, and one motion begins after that.
LEMMA Pressed ==
  ASSUME Types, Flow, [Next]_vars, ~(\E o \in Operations : Start(o))
  PROVE  /\ op' = op
         /\ stop' # "no" => stop # "no" \/ op = "repeat"
         /\ stop' = "late" => stop = "late" \/ pc' # "run"
PROOF
  <1>1. op' = op
    <2>1. CASE ~Turns
      BY <2>1, Within
    <2>2. CASE Turns
      BY <2>2 DEF Turns, ClearOver, PrepareOver, WorkOver, RestoreOver, RotationOver, AgainOver, OverAt,
                  Recover, RestoreAgain
    <2> QED BY <2>1, <2>2
  <1>2. CASE Submit
    <2>1. pc' # "run"
      BY <1>2, Submitted
    <2>2. stop' = stop \/ stop = "asked"
      BY <1>2 DEF Submit
    <2> QED BY <1>1, <2>1, <2>2
  <1>3. CASE StopPressed
    BY <1>1, <1>3 DEF StopPressed
  <1>4. CASE \/ Status \/ MoveOver \/ Alarm \/ Cleared \/ Drop \/ Reconnect \/ UNCHANGED vars
             \/ Check \/ SubmitQuery \/ Execute \/ TimedOut \/ Interrupted \/ Cancel
             \/ (\E e \in MoveResults : MoveEnds(e))
    BY <1>1, <1>4 DEF Status, MoveOver, Alarm, Cleared, Drop, Reconnect, vars, opVars, Check, SubmitQuery,
                      Execute, TimedOut, Interrupted, Cancel, MoveEnds
  <1>5. CASE \/ ClearOver \/ PrepareOver \/ WorkOver \/ RestoreOver \/ RotationOver \/ AgainOver
             \/ Recover \/ RestoreAgain
    BY <1>1, <1>5 DEF ClearOver, PrepareOver, WorkOver, RestoreOver, RotationOver, AgainOver, OverAt,
                      Recover, RestoreAgain
  <1> QED BY <1>2, <1>3, <1>4, <1>5 DEF Next, MoveResults

\* An instruction of the check that is done at once, and behind which a motion
\* comes, was a look at the button.
LEMMA LooksBefore ==
  ASSUME Types, Flow, pc \in Active, op = "repeat", part = "work", Advance, pc' = "run",
         Head(todo').do \in Moves
  PROVE  Head(todo).do = "stop"
PROOF
  <1>1. PICK n \in 1..Len(Steps) :
              /\ Steps[n] = Head(todo) /\ Well(n) /\ n + 1 \in 1..Len(Steps)
              /\ Head(todo') = Steps[n + 1] /\ Well(n + 1)
    BY NextHead
  <1>2. /\ Len(Steps) = 9 /\ n \in 1..9
        /\ n \in {1, 3, 5, 7, 9} => Steps[n].do = "stop"
    BY <1>1, RepeatedSteps DEF Well
  <1>3. /\ n + 1 \in {1, 3, 5, 7, 9} => Steps[n + 1].do = "stop"
        /\ n + 1 = 6 => Steps[n + 1].do = "set"
    BY <1>1, RepeatedSteps DEF Well
  <1>4. n + 1 \in {2, 4, 8}
    BY <1>1, <1>2, <1>3 DEF Moves
  <1>5. n \in {1, 3, 7}
    BY <1>2, <1>4
  <1> QED BY <1>1, <1>2, <1>5

LEMMA StepHalting ==
  ASSUME Types, Flow, Halting, [Next]_vars
  PROVE  Halting'
PROOF
  <1>1. CASE \E o \in Operations : Start(o)
    BY <1>1 DEF Start, Halting
  <1>2. CASE ~(\E o \in Operations : Start(o))
    <2>1. stop' # "no" => op' = "repeat"
      BY <1>2, Pressed DEF Halting
    <2>2. SUFFICES ASSUME stop' = "late", part' = "work", pc' = "run", Head(todo').do \in Moves
                   PROVE  FALSE
      BY <2>1 DEF Halting
    <2>3. stop = "late" /\ op = "repeat" /\ op' = op
      BY <1>2, <2>2, Pressed DEF Halting
    <2>4. CASE ~Turns
      <3>1. part = "work" /\ pc \in Active
        BY <2>2, <2>4, Within DEF Active
      <3>2. ASSUME Advance PROVE FALSE
        <4>1. Head(todo).do = "stop"
          BY <2>2, <2>3, <3>1, <3>2, LooksBefore
        <4>2. pc \notin {"wait", "moving"}
          BY <3>1, <4>1 DEF Flow, Fits, Moves
        <4>3. ~Execute /\ ~(\E e \in MoveResults : MoveEnds(e))
          <5>1. ~Execute
            <6> SUFFICES ASSUME Execute PROVE FALSE
              OBVIOUS
            <6>1. UNCHANGED pc /\ UNCHANGED todo
              BY <4>2, Taken
            <6> QED BY <2>2, <4>1, <6>1 DEF Moves
          <5>2. ~(\E e \in MoveResults : MoveEnds(e))
            BY <4>2 DEF MoveEnds
          <5> QED BY <5>1, <5>2
        <4>4. todo' # todo
          BY <2>2, <4>1 DEF Moves
        <4>5. Check
          BY <2>2, <2>4, <4>3, <4>4, Elsewhere, StaysPut
             DEF Next, MoveResults, Turns, Submit, SubmitQuery, TimedOut, Interrupted, Cancel, PartEnds
        <4>6. Refusal(Head(todo)) = "Stopped"
          BY <2>3, <4>1 DEF Refusal
        <4> QED BY <2>2, <4>1, <4>5, <4>6 DEF Check, NoChange, PartEnds
      <3>3. CASE UNCHANGED todo
        <4>1. pc # "run"
          BY <2>2, <2>3, <3>1, <3>3 DEF Halting
        <4>2. pc \notin {"sent", "wait"}
          BY <2>2, <3>1, <3>3 DEF Flow, Fits, Moves
        <4>3. pc = "moving"
          BY <3>1, <4>1, <4>2 DEF Active
        <4> QED BY <2>2, <2>4, <3>2, <4>3, Elsewhere, StaysPut, Taken
               DEF Next, MoveResults, Turns, Check, Submit, SubmitQuery, TimedOut, Interrupted, Cancel, MoveEnds,
                   PartEnds
      <3>4. CASE ~UNCHANGED todo
        <4>1. CASE Execute
          BY <2>2, <3>2, <3>4, <4>1, Taken DEF PartEnds
        <4> QED BY <2>2, <2>4, <3>2, <3>4, <4>1, Elsewhere, StaysPut
               DEF Next, MoveResults, Turns, Check, Submit, SubmitQuery, TimedOut, Interrupted, Cancel, MoveEnds,
                   PartEnds
      <3> QED BY <3>3, <3>4
    <2>5. CASE Turns
      <3>1. PrepareOver /\ todo' = PartOf("repeat", "work")
        <4>1. ~Recover /\ ~RestoreAgain
          BY <2>2 DEF Recover, RestoreAgain, Enter
        <4>2. ~ClearOver /\ ~WorkOver /\ ~RestoreOver /\ ~RotationOver /\ ~AgainOver
          BY <2>2 DEF ClearOver, WorkOver, RestoreOver, RotationOver, AgainOver, CoreOver, Enter, Finish
        <4>3. PrepareOver
          BY <1>2, <2>5, <4>1, <4>2 DEF Turns
        <4> QED BY <2>2, <2>3, <4>3 DEF PrepareOver, CoreOver, Enter, Finish
      <3>2. Head(PartOf("repeat", "work")).do = "stop"
        BY DEF PartOf, Program, Repetitions, OneMove, Parts, CheckStop, Ask, Do, Jog, Move, Set
      <3> QED BY <2>2, <3>1, <3>2 DEF Moves
    <2> QED BY <2>4, <2>5
  <1> QED BY <1>1, <1>2

\* Once a stop is asked for, a repeatability check begins at most the one motion
\* that its last look at the button had let through, whenever the button is
\* pressed and whatever the faults: a look comes between any two motions.
THEOREM StopIsSeen == Spec => StopIsHeeded
PROOF
  <1> DEFINE I == Types /\ Flow /\ Halting
             A == stop = "late" /\ Len(wire') > Len(wire) => wire'[Len(wire')].is \notin MoveLines
  <1>1. Init => I
    <2> SUFFICES ASSUME Init PROVE I
      OBVIOUS
    <2>1. stop = "no"
      BY DEF Init
    <2> QED BY <2>1, InitTypes DEF Halting
  <1>2. I /\ [Next]_vars => I'
    BY StepTypes, StepHalting
  <1>3. I /\ [Next]_vars => A
    <2> SUFFICES ASSUME I, [Next]_vars, stop = "late", Len(wire') > Len(wire)
                 PROVE  wire'[Len(wire')].is \notin MoveLines
      OBVIOUS
    <2>1. Submit \/ SubmitQuery
      BY OnlySubmitted
    <2>2. PICK l \in WireLines :
              /\ wire'[Len(wire')] = l
              /\ \/ pc = "run" /\ l = Lines(Head(todo))[1]
                 \/ pc = "sent" /\ l.is \in Questions
      BY <2>1, Submitted
    <2>3. CASE pc = "sent"
      BY <2>2, <2>3 DEF Questions, MoveLines
    <2>4. CASE pc = "run"
      <3>1. Head(todo).do \notin Moves
        BY <2>4, MovesInWork DEF Halting, Active
      <3>2. Head(todo).do \notin {"preflight", "stop"}
        BY <2>1, Submitted
      <3> QED BY <2>2, <2>4, <3>1, <3>2, OthersRest
    <2> QED BY <2>1, <2>3, <2>4, Submitted
  <1>4. I /\ [Next]_vars => [A]_vars
    BY <1>3
  <1> QED BY <1>1, <1>2, <1>4, PTL DEF Spec, StopIsHeeded

====
