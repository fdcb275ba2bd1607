---------------------------- MODULE Routine_proofs ----------------------------
(***************************************************************************)
(* What is proved about a reviewed routine (Routine), for any options that *)
(* review accepts, any limits, calibration and start.                      *)
(*                                                                         *)
(* A routine is followed through its steps three times.  Its trail says    *)
(* which values have been measured before a step, and which axes are then  *)
(* at a named place; its envelopes say between which positions it is; and  *)
(* its script says which lines announce the step.                          *)
(***************************************************************************)
EXTENDS Routine, SequenceTheorems, WellFoundedInduction, TLAPS

-----------------------------------------------------------------------------
(* Induction over the natural numbers, by sets: theorems that take an       *)
(* operator are not used here.                                              *)

\* A set of natural numbers has a least one.
LEMMA Least ==
  ASSUME NEW T \in SUBSET Nat, T # {}
  PROVE  \E n \in T : \A m \in T : n <= m
<1> DEFINE R == OpToRel(<, Nat)
<1>1. IsWellFoundedOn(R, Nat)
  BY NatLessThanWellFounded
<1>2. \A x, y \in Nat : x < y => <<x, y>> \in R
  BY DEF OpToRel
<1> HIDE DEF R
<1>3. PICK x \in T : \A y \in T : ~(<<y, x>> \in R)
  BY <1>1, WFMin
<1>4. \A y \in T : x <= y
  <2> TAKE y \in T
  <2>1. x \in Nat /\ y \in Nat /\ ~(y < x)
    BY <1>2, <1>3
  <2> QED BY <2>1
<1> QED BY <1>4

\* A set that has 0, and with every number the next one, has them all.
LEMMA SetInduction ==
  ASSUME NEW S, 0 \in S, \A n \in Nat : n \in S => n + 1 \in S
  PROVE  Nat \subseteq S
<1> SUFFICES ASSUME NEW k \in Nat, k \notin S PROVE FALSE
  OBVIOUS
<1> DEFINE T == {n \in Nat : n \notin S}
<1>1. PICK n \in T : \A m \in T : n <= m
  BY Least
<1>2. n # 0
  OBVIOUS
<1>3. n - 1 \in Nat /\ n - 1 \notin T /\ (n - 1) + 1 = n
  BY <1>1, <1>2
<1> QED BY <1>3

EnvelopesUpTo(e, c, start, steps, n) ==
  e = [i \in 1..n + 1 |-> IF i = 1 THEN EnvelopeOfStart(start) ELSE EnvelopeAfter(c, e[i - 1], steps[i - 1])]

\* The envelopes of a plan exist: the recursion that defines them has a solution.
LEMMA EnvelopesExist ==
  ASSUME NEW c, NEW start, NEW steps, NEW n \in Nat
  PROVE  \E e : EnvelopesUpTo(e, c, start, steps, n)
<1> DEFINE S == {m \in Nat : \E e : EnvelopesUpTo(e, c, start, steps, m)}
<1>1. 0 \in S
  <2> DEFINE e == [i \in 1..1 |-> EnvelopeOfStart(start)]
  <2>1. EnvelopesUpTo(e, c, start, steps, 0)
    BY DEF EnvelopesUpTo
  <2> QED BY <2>1
<1>2. ASSUME NEW m \in Nat, m \in S PROVE m + 1 \in S
  <2>1. PICK e : EnvelopesUpTo(e, c, start, steps, m)
    BY <1>2
  <2> DEFINE f == [i \in 1..(m + 1) + 1 |->
                     IF i <= m + 1 THEN e[i] ELSE EnvelopeAfter(c, e[m + 1], steps[m + 1])]
             Def(i) == IF i = 1 THEN EnvelopeOfStart(start) ELSE EnvelopeAfter(c, f[i - 1], steps[i - 1])
  <2>2. ASSUME NEW i \in 1..(m + 1) + 1 PROVE f[i] = Def(i)
    <3>1. CASE i <= m + 1
      <4>1. /\ e[i] = IF i = 1 THEN EnvelopeOfStart(start) ELSE EnvelopeAfter(c, e[i - 1], steps[i - 1])
            /\ f[i] = e[i] /\ (i # 1 => f[i - 1] = e[i - 1])
        BY <2>1, <3>1 DEF EnvelopesUpTo
      <4> HIDE DEF f
      <4> QED BY <4>1
    <3>2. CASE i = (m + 1) + 1
      <4>1. /\ f[i] = EnvelopeAfter(c, e[m + 1], steps[m + 1])
            /\ f[m + 1] = e[m + 1] /\ i - 1 = m + 1 /\ i # 1
        BY <3>2
      <4> HIDE DEF f
      <4> QED BY <4>1
    <3> QED BY <3>1, <3>2
  <2>3. f = [i \in 1..(m + 1) + 1 |-> Def(i)]
    BY <2>2
  <2>4. EnvelopesUpTo(f, c, start, steps, m + 1)
    BY <2>3 DEF EnvelopesUpTo
  <2> HIDE DEF f
  <2> QED BY <2>4
<1> HIDE DEF S
<1>3. n \in S
  BY <1>1, <1>2, SetInduction
<1> QED BY <1>3 DEF S

\* So they are what the recursion says of them.
LEMMA EnvelopesAre ==
  ASSUME NEW c, NEW start, NEW X, NEW steps \in Seq(X)
  PROVE  /\ Envelopes(c, start, steps)[1] = EnvelopeOfStart(start)
         /\ \A i \in 1..Len(steps) :
              Envelopes(c, start, steps)[i + 1] = EnvelopeAfter(c, Envelopes(c, start, steps)[i], steps[i])
<1> DEFINE e == Envelopes(c, start, steps)
           n == Len(steps)
<1>0. n \in Nat
  OBVIOUS
<1>1. e = CHOOSE f : EnvelopesUpTo(f, c, start, steps, n)
  BY DEF Envelopes, EnvelopesUpTo
<1> HIDE DEF e, n
<1>2. \E f : EnvelopesUpTo(f, c, start, steps, n)
  BY <1>0, EnvelopesExist
<1>3. EnvelopesUpTo(e, c, start, steps, n)
  BY <1>1, <1>2
<1>4. e[1] = EnvelopeOfStart(start)
  BY <1>0, <1>3 DEF EnvelopesUpTo
<1>5. ASSUME NEW i \in 1..n PROVE e[i + 1] = EnvelopeAfter(c, e[i], steps[i])
  <2>1. i + 1 \in 1..n + 1 /\ i + 1 # 1 /\ (i + 1) - 1 = i
    BY <1>0
  <2> QED BY <1>3, <2>1 DEF EnvelopesUpTo
<1> QED BY <1>4, <1>5 DEF e, n

WritingUpTo(e, c, steps, n) ==
  e = [i \in 1..n + 1 |-> IF i = 1 THEN ScriptOfStart ELSE ScriptAfter(c, i - 1, e[i - 1], steps[i - 1])]

\* The same for the script.
LEMMA WritingExists ==
  ASSUME NEW c, NEW steps, NEW n \in Nat
  PROVE  \E e : WritingUpTo(e, c, steps, n)
<1> DEFINE S == {m \in Nat : \E e : WritingUpTo(e, c, steps, m)}
<1>1. 0 \in S
  <2> DEFINE e == [i \in 1..1 |-> ScriptOfStart]
  <2>1. WritingUpTo(e, c, steps, 0)
    BY DEF WritingUpTo
  <2> QED BY <2>1
<1>2. ASSUME NEW m \in Nat, m \in S PROVE m + 1 \in S
  <2>1. PICK e : WritingUpTo(e, c, steps, m)
    BY <1>2
  <2> DEFINE f == [i \in 1..(m + 1) + 1 |->
                     IF i <= m + 1 THEN e[i] ELSE ScriptAfter(c, m + 1, e[m + 1], steps[m + 1])]
             Def(i) == IF i = 1 THEN ScriptOfStart ELSE ScriptAfter(c, i - 1, f[i - 1], steps[i - 1])
  <2>2. ASSUME NEW i \in 1..(m + 1) + 1 PROVE f[i] = Def(i)
    <3>1. CASE i <= m + 1
      <4>1. /\ e[i] = IF i = 1 THEN ScriptOfStart ELSE ScriptAfter(c, i - 1, e[i - 1], steps[i - 1])
            /\ f[i] = e[i] /\ (i # 1 => f[i - 1] = e[i - 1])
        BY <2>1, <3>1 DEF WritingUpTo
      <4> HIDE DEF f
      <4> QED BY <4>1
    <3>2. CASE i = (m + 1) + 1
      <4>1. /\ f[i] = ScriptAfter(c, m + 1, e[m + 1], steps[m + 1])
            /\ f[m + 1] = e[m + 1] /\ i - 1 = m + 1 /\ i # 1
        BY <3>2
      <4> HIDE DEF f
      <4> QED BY <4>1
    <3> QED BY <3>1, <3>2
  <2>3. f = [i \in 1..(m + 1) + 1 |-> Def(i)]
    BY <2>2
  <2>4. WritingUpTo(f, c, steps, m + 1)
    BY <2>3 DEF WritingUpTo
  <2> HIDE DEF f
  <2> QED BY <2>4
<1> HIDE DEF S
<1>3. n \in S
  BY <1>1, <1>2, SetInduction
<1> QED BY <1>3 DEF S

\* It is written step by step.
LEMMA WritingIs ==
  ASSUME NEW c, NEW X, NEW steps \in Seq(X)
  PROVE  /\ Writing(c, steps)[1] = ScriptOfStart
         /\ \A i \in 1..Len(steps) :
              Writing(c, steps)[i + 1] = ScriptAfter(c, i, Writing(c, steps)[i], steps[i])
<1> DEFINE e == Writing(c, steps)
           n == Len(steps)
<1>0. n \in Nat
  OBVIOUS
<1>1. e = CHOOSE f : WritingUpTo(f, c, steps, n)
  BY DEF Writing, WritingUpTo
<1> HIDE DEF e, n
<1>2. \E f : WritingUpTo(f, c, steps, n)
  BY <1>0, WritingExists
<1>3. WritingUpTo(e, c, steps, n)
  BY <1>1, <1>2
<1>4. e[1] = ScriptOfStart
  BY <1>0, <1>3 DEF WritingUpTo
<1>5. ASSUME NEW i \in 1..n PROVE e[i + 1] = ScriptAfter(c, i, e[i], steps[i])
  <2>1. i + 1 \in 1..n + 1 /\ i + 1 # 1 /\ (i + 1) - 1 = i
    BY <1>0
  <2> QED BY <1>3, <2>1 DEF WritingUpTo
<1> QED BY <1>4, <1>5 DEF e, n

-----------------------------------------------------------------------------
(* The trail of a plan.  A fact <<a, n, o>> says that axis a is at offset  *)
(* o from the value named n.                                               *)

Starts == {Start(a) : a \in Axes}
(* The values moves go by: of Z only the start.                            *)
Sideways == {"X", "Y"}
MoveNames == Starts \cup {Surface(a, t) : a \in Sideways, t \in Tags}
StepRecords ==
  [kind : {"contact"}, axis : Axes, dir : {-1, 1}, limit : Int, tag : Tags]
  \cup [kind : {"center"}, axis : Sideways]
  \cup [kind : {"move"}, targets : Seq([axis : Axes, name : MoveNames, offset : Int])]

Facts(known, places) == [known |-> known, places |-> places]
Covers(p, q) == q.known \subseteq p.known /\ q.places \subseteq p.places

(* What is known before a step, and what is known of it after.             *)
GoesContact(p, s, q) ==
  /\ q.known \subseteq p.known \cup {Surface(s.axis, s.tag)}
  /\ q.places \subseteq {f \in p.places : f[1] # s.axis /\ f[2] # Surface(s.axis, s.tag)}
GoesCenter(p, s, q) ==
  /\ {Surface(s.axis, "low"), Surface(s.axis, "high")} \subseteq p.known
  /\ q.known \subseteq p.known \cup {Surface(s.axis, "whole")}
  /\ q.places \subseteq {f \in p.places : f[2] # Surface(s.axis, "whole")}
GoesMove(p, s, q) ==
  /\ \A k \in DOMAIN s.targets : s.targets[k].name \in p.known \cup Starts
  /\ q.known \subseteq p.known
  /\ \A f \in q.places :
       IF f[1] \in AxesOf(s) THEN f[2] = TargetOf(s, f[1]).name /\ f[3] = TargetOf(s, f[1]).offset
       ELSE f \in p.places
Goes(p, s, q) ==
  /\ s.kind = "contact" => GoesContact(p, s, q)
  /\ s.kind = "center" => GoesCenter(p, s, q)
  /\ s.kind = "move" => GoesMove(p, s, q)

Trail(w, s) == \A i \in 1..Len(s) : Goes(w[i], s[i], w[i + 1])
Path(p, s, q) ==
  /\ s \in Seq(StepRecords)
  /\ \E w : Covers(p, w[1]) /\ Covers(w[Len(s) + 1], q) /\ Trail(w, s)

LEMMA GoesLess ==
  ASSUME NEW p, NEW s, NEW q, NEW r, Goes(p, s, q), Covers(q, r)
  PROVE  Goes(p, s, r)
  BY DEF Goes, GoesContact, GoesCenter, GoesMove, Covers

(* A path that knows more before it, or promises less after it.            *)
LEMMA PathCovers ==
  ASSUME NEW p, NEW s, NEW q, NEW p2, NEW q2, Path(p, s, q), Covers(p2, p), Covers(q, q2)
  PROVE  Path(p2, s, q2)
  BY DEF Path, Covers

LEMMA PathEmpty == ASSUME NEW p, NEW q, Covers(p, q) PROVE Path(p, <<>>, q)
<1> DEFINE w == [i \in {1} |-> p]
<1>1. <<>> \in Seq(StepRecords) /\ Len(<<>>) = 0
  OBVIOUS
<1>2. Covers(p, w[1]) /\ Covers(w[Len(<<>>) + 1], q) /\ Trail(w, <<>>)
  BY DEF Covers, Trail
<1> QED BY <1>1, <1>2 DEF Path

LEMMA PathStep ==
  ASSUME NEW p, NEW s \in StepRecords, NEW q, Goes(p, s, q)
  PROVE  Path(p, <<s>>, q)
<1> DEFINE w == [i \in 1..2 |-> IF i = 1 THEN p ELSE q]
<1>1. <<s>> \in Seq(StepRecords) /\ Len(<<s>>) = 1 /\ <<s>>[1] = s
  OBVIOUS
<1>2. w[1] = p /\ w[2] = q
  OBVIOUS
<1>3. Covers(p, w[1]) /\ Covers(w[Len(<<s>>) + 1], q) /\ Trail(w, <<s>>)
  BY <1>1, <1>2 DEF Covers, Trail
<1> QED BY <1>1, <1>3 DEF Path

(* Steps after steps: the facts after the first are those before the second. *)
LEMMA PathJoin ==
  ASSUME NEW p, NEW s, NEW q, NEW t, NEW r, Path(p, s, q), Path(q, t, r)
  PROVE  Path(p, s \o t, r)
<1>1. PICK v : Covers(p, v[1]) /\ Covers(v[Len(s) + 1], q) /\ Trail(v, s)
  BY DEF Path
<1>2. PICK u : Covers(q, u[1]) /\ Covers(u[Len(t) + 1], r) /\ Trail(u, t)
  BY DEF Path
<1>3. s \in Seq(StepRecords) /\ t \in Seq(StepRecords)
  BY DEF Path
<1> DEFINE m == Len(s)
           n == Len(t)
           w == [i \in 1..m + n + 1 |-> IF i <= m THEN v[i] ELSE u[i - m]]
<1>4. m \in Nat /\ n \in Nat /\ Len(s \o t) = m + n /\ s \o t \in Seq(StepRecords)
  BY <1>3
<1>5. \A i \in 1..m + n : (s \o t)[i] = IF i <= m THEN s[i] ELSE t[i - m]
  BY <1>3
<1>6. Covers(v[m + 1], u[1])
  BY <1>1, <1>2 DEF Covers
<1>7. Covers(p, w[1])
  <2>1. CASE m = 0
    <3>1. w[1] = u[1]
      BY <1>4, <2>1
    <3> QED BY <1>1, <1>6, <2>1, <3>1 DEF Covers
  <2>2. CASE m # 0
    <3>1. w[1] = v[1]
      BY <1>4, <2>2
    <3> QED BY <1>1, <3>1
  <2> QED BY <2>1, <2>2
<1>8. Covers(w[m + n + 1], r)
  <2>1. w[m + n + 1] = u[n + 1]
    BY <1>4
  <2> QED BY <1>2, <2>1
<1>9. ASSUME NEW i \in 1..m + n PROVE Goes(w[i], (s \o t)[i], w[i + 1])
  <2>1. CASE i < m
    <3>1. w[i] = v[i] /\ w[i + 1] = v[i + 1] /\ (s \o t)[i] = s[i] /\ i \in 1..m
      BY <1>4, <1>5, <2>1
    <3> QED BY <1>1, <3>1 DEF Trail
  <2>2. CASE i = m
    <3>1. w[i] = v[m] /\ w[i + 1] = u[1] /\ (s \o t)[i] = s[m] /\ m \in 1..m
      BY <1>4, <1>5, <2>2
    <3>2. Goes(v[m], s[m], v[m + 1])
      BY <1>1, <3>1 DEF Trail
    <3> HIDE DEF w, m, n
    <3> QED BY <1>6, <3>1, <3>2, GoesLess
  <2>3. CASE i > m
    <3>1. w[i] = u[i - m] /\ w[i + 1] = u[(i - m) + 1] /\ (s \o t)[i] = t[i - m] /\ i - m \in 1..n
      BY <1>4, <1>5, <2>3
    <3> HIDE DEF w
    <3> QED BY <1>2, <3>1 DEF Trail
  <2> QED BY <1>4, <2>1, <2>2, <2>3
<1> HIDE DEF w
<1>10. Trail(w, s \o t)
  BY <1>4, <1>9 DEF Trail
<1> QED BY <1>4, <1>7, <1>8, <1>10 DEF Path, m, n

LEMMA PathWhen ==
  ASSUME NEW p, NEW s, NEW q, NEW cond \in BOOLEAN, cond => Path(p, s, q), ~cond => Covers(p, q)
  PROVE  Path(p, When(cond, s), q)
  BY PathEmpty DEF When

-----------------------------------------------------------------------------
(* The steps that plans are made of.                                       *)

LEMMA NamesAreApart ==
  /\ \A a \in Axes, t \in Tags : Surface(a, t) \in Surfaces /\ Surface(a, t) \in Names
  /\ \A a \in Sideways, t \in Tags : Surface(a, t) \in MoveNames
  /\ \A a \in Axes : Start(a) \in Names /\ Start(a) \notin Surfaces
  /\ \A a, b \in Axes, t, u \in Tags : Surface(a, t) = Surface(b, u) => a = b /\ t = u
  /\ \A a, b \in Axes, t \in Tags : Surface(a, t) # Start(b)
  BY DEF Surface, Surfaces, Names, MoveNames, Start

LEMMA PlainNames ==
  /\ \A a \in Axes : Start(a) \in Starts /\ Start(a) \in Names /\ Start(a) \in MoveNames
  /\ Sideways \subseteq Axes /\ "X" \in Sideways /\ "Y" \in Sideways
  /\ "whole" \in Tags /\ "low" \in Tags /\ "high" \in Tags /\ "0" \in Tags /\ "1" \in Tags
  /\ "X" \in Axes /\ "Y" \in Axes /\ "Z" \in Axes
  BY DEF Names, MoveNames, Starts, Tags, Axes, Sideways

LEMMA MoveNamesAre ==
  /\ MoveNames \subseteq Names /\ MoveNames \subseteq Surfaces \cup Starts
  /\ \A a \in Axes, t \in Tags : Surface(a, t) \in MoveNames => a \in Sideways
  BY NamesAreApart, PlainNames DEF MoveNames, Starts

Away(p, a) == {f \in p.places : f[1] # a}
(* Facts that name the start only outlive a contact of another axis.       *)
Still(p) == \A f \in p.places : f[2] \in Starts

LEMMA ContactPath ==
  ASSUME NEW p, Still(p), NEW start \in [Axes -> Int], NEW a \in Axes, NEW d \in {-1, 1},
         NEW e \in Int, NEW t \in Tags
  PROVE  Path(p, contact(start, a, d, e, t), Facts(p.known \cup {Surface(a, t)}, Away(p, a)))
<1> DEFINE s == [kind |-> "contact", axis |-> a, dir |-> d, limit |-> start[a] + e, tag |-> t]
           q == Facts(p.known \cup {Surface(a, t)}, Away(p, a))
<1>1. start[a] + e \in Int
  OBVIOUS
<1>2. s \in StepRecords
  BY <1>1 DEF StepRecords
<1>3. \A f \in p.places : f[2] # Surface(a, t)
  BY NamesAreApart DEF Still, Starts
<1>4. GoesContact(p, s, q)
  BY <1>3 DEF GoesContact, Facts, Away
<1>5. Goes(p, s, q)
  BY <1>4 DEF Goes
<1> HIDE DEF q
<1>6. Path(p, <<s>>, q)
  BY <1>2, <1>5, PathStep
<1> QED BY <1>6 DEF contact, q

LEMMA MovPath ==
  ASSUME NEW p, NEW a \in Axes, NEW n \in MoveNames, n \in p.known \cup Starts, NEW o \in Int
  PROVE  Path(p, mov(a, n, o), Facts(p.known, Away(p, a) \cup {<<a, n, o>>}))
<1> DEFINE t == Target(a, n, o)
           s == [kind |-> "move", targets |-> <<t>>]
           q == Facts(p.known, Away(p, a) \cup {<<a, n, o>>})
<1>1. t \in [axis : Axes, name : MoveNames, offset : Int] /\ t.axis = a /\ t.name = n /\ t.offset = o
  BY DEF Target
<1> HIDE DEF t
<1>2. <<t>> \in Seq([axis : Axes, name : MoveNames, offset : Int]) /\ DOMAIN <<t>> = {1} /\ <<t>>[1] = t
  BY <1>1
<1>3. s \in StepRecords
  BY <1>2 DEF StepRecords
<1>4. AxesOf(s) = {a} /\ TargetOf(s, a) = t
  BY <1>1, <1>2 DEF AxesOf, TargetOf
<1>5. GoesMove(p, s, q)
  BY <1>1, <1>2, <1>4 DEF GoesMove, Facts, Away
<1>6. Goes(p, s, q)
  BY <1>5 DEF Goes
<1> HIDE DEF q
<1>7. Path(p, <<s>>, q)
  BY <1>3, <1>6, PathStep
<1> QED BY <1>7 DEF mov, Move, t, q

LEMMA CenterPath ==
  ASSUME NEW p, Still(p), NEW a \in Sideways,
         Surface(a, "low") \in p.known, Surface(a, "high") \in p.known
  PROVE  Path(p, Center(a), Facts(p.known \cup {Surface(a, "whole")}, p.places))
<1> DEFINE s == [kind |-> "center", axis |-> a]
           q == Facts(p.known \cup {Surface(a, "whole")}, p.places)
<1>1. s \in StepRecords
  BY DEF StepRecords
<1>0. a \in Axes /\ \A b \in Axes : Surface(a, "whole") # Start(b)
  BY NamesAreApart, PlainNames
<1>2. \A f \in p.places : f[2] # Surface(a, "whole")
  BY <1>0 DEF Still, Starts
<1>3. GoesCenter(p, s, q)
  BY <1>2 DEF GoesCenter, Facts
<1>4. Goes(p, s, q)
  BY <1>3 DEF Goes
<1> HIDE DEF q
<1>5. Path(p, <<s>>, q)
  BY <1>1, <1>4, PathStep
<1> QED BY <1>5 DEF Center, q

(* A contact or a move seen from what is needed of it.                     *)
LEMMA ContactTo ==
  ASSUME NEW p, Still(p), NEW start \in [Axes -> Int], NEW a \in Axes, NEW d \in {-1, 1},
         NEW e \in Int, NEW t \in Tags, NEW q,
         q.known \subseteq p.known \cup {Surface(a, t)}, q.places \subseteq Away(p, a)
  PROVE  Path(p, contact(start, a, d, e, t), q)
<1> DEFINE r == Facts(p.known \cup {Surface(a, t)}, Away(p, a))
<1>1. Path(p, contact(start, a, d, e, t), r)
  BY ContactPath
<1>2. Covers(r, q) /\ Covers(p, p)
  BY DEF Covers, Facts
<1> HIDE DEF r
<1> QED BY <1>1, <1>2, PathCovers

LEMMA MovTo ==
  ASSUME NEW p, NEW a \in Axes, NEW n \in MoveNames, n \in p.known \cup Starts, NEW o \in Int, NEW q,
         q.known \subseteq p.known, q.places \subseteq Away(p, a) \cup {<<a, n, o>>}
  PROVE  Path(p, mov(a, n, o), q)
<1> DEFINE r == Facts(p.known, Away(p, a) \cup {<<a, n, o>>})
<1>1. Path(p, mov(a, n, o), r)
  BY MovPath
<1>2. Covers(r, q) /\ Covers(p, p)
  BY DEF Covers, Facts
<1> HIDE DEF r
<1> QED BY <1>1, <1>2, PathCovers

-----------------------------------------------------------------------------
(* The plans of the families, from the start to where they end.            *)

Home == {<<a, Start(a), 0>> : a \in Axes}
Rests(S) == {f \in Home : f[1] \in S}
Begun == Facts({}, Home)
MeasuredOf(S) == {Surface(a, "whole") : a \in S}
EndPlace(c, a) ==
  IF a \in MeasuredAxes(c) /\ c.family # "inside" /\ a # "Z"
    THEN <<a, Surface(a, "whole"), -ProbeOffset[a]>> ELSE <<a, Start(a), 0>>
Ended(c) == Facts(MeasuredOf(MeasuredAxes(c)), {EndPlace(c, a) : a \in Axes})

(* Options that review accepts.                                            *)
Valid(c) == c \in Configs /\ ValidConfig(c)

LEMMA RestsFacts ==
  /\ Home = Rests(Axes)
  /\ \A S, k : Still(Facts(k, Rests(S)))
  /\ \A S, a, k : Away(Facts(k, Rests(S)), a) = Rests(S \ {a})
  /\ \A a \in Axes : Rests({a}) = {<<a, Start(a), 0>>}
  /\ \A S, T : S \subseteq T => Rests(S) \subseteq Rests(T)
  /\ \A S, T : Rests(S \cup T) = Rests(S) \cup Rests(T)
  BY DEF Home, Rests, Facts, Still, Away, Starts

LEMMA ValidRanges ==
  ASSUME NEW c, Valid(c)
  PROVE  /\ c.family \in {"inside", "outside", "center", "angle"}
         /\ c.x \in -1..1 /\ c.y \in -1..1 /\ c.z \in BOOLEAN /\ c.zero \in BOOLEAN
         /\ c.z <=> (c.x = 0 /\ c.y = 0)
         /\ c.depth \in Int /\ c.searchX \in Int /\ c.searchY \in Int
         /\ c.retract \in Int /\ c.radius \in Int
         /\ \A a \in Axes : Search(c, a) \in Int
         /\ c.retract > 0 /\ c.radius > 0
  BY DEF Valid, ValidConfig, Configs, Search

LEMMA AnglePlan ==
  ASSUME NEW c, Valid(c), c.family = "angle", NEW start \in [Axes -> Int]
  PROVE  Path(Begun, AngleSteps(c, start), Ended(c))
<1> DEFINE m == AngleAxes(c.feature)[1]
           n == AngleAxes(c.feature)[2]
           d == AngleAxes(c.feature)[3]
           touch(t) == contact(start, m, d, d * Search(c, m), t) \o mov(m, Start(m), 0)
           A == Facts({}, Home)
           B == Facts({}, Rests(Axes \ {m}))
           C == Facts({}, Rests(Axes \ {n}))
           D == Facts({}, Rests(Axes \ {m, n}))
<1>1. m \in Axes /\ n \in Axes /\ m # n /\ d \in {-1, 1} /\ d * Search(c, m) \in Int
      /\ Search(c, n) \in Int
  <2>1. m \in Axes /\ n \in Axes /\ m # n /\ d \in {-1, 1}
    BY DEF AngleAxes, Axes
  <2> HIDE DEF m, n, d
  <2>2. Search(c, m) \in Int /\ Search(c, n) \in Int
    BY <2>1, ValidRanges
  <2>3. \A v \in Int : -1 * v \in Int /\ 1 * v \in Int
    OBVIOUS
  <2> QED BY <2>1, <2>2, <2>3
<1> HIDE DEF m, n, d
<1>2. "0" \in Tags /\ "1" \in Tags /\ Start(m) \in MoveNames /\ Start(n) \in MoveNames
      /\ Start(m) \in Starts /\ Start(n) \in Starts /\ 0 \in Int
  <2>1. "0" \in Tags /\ "1" \in Tags /\ 0 \in Int
    BY DEF Tags
  <2>2. Start(m) \in MoveNames /\ Start(n) \in MoveNames /\ Start(m) \in Starts /\ Start(n) \in Starts
    BY <1>1, PlainNames
  <2> QED BY <2>1, <2>2
<1>3. /\ Still(A) /\ Still(C)
      /\ B.places = Away(A, m) /\ D.places = Away(C, m)
      /\ A.places = Rests(Axes)
      /\ A.places \subseteq Away(B, m) \cup {<<m, Start(m), 0>>}
      /\ C.places \subseteq Away(A, n) \cup {<<n, Start(n), Search(c, n)>>}
      /\ C.places \subseteq Away(D, m) \cup {<<m, Start(m), 0>>}
      /\ A.places \subseteq Away(C, n) \cup {<<n, Start(n), 0>>}
  BY <1>1 DEF Home, Rests, Facts, Still, Away, Starts
<1>4. A.known = {} /\ B.known = {} /\ C.known = {} /\ D.known = {}
  BY DEF Facts
<1> HIDE DEF A, B, C, D
<1>5. Path(A, contact(start, m, d, d * Search(c, m), "0"), B)
  BY <1>1, <1>2, <1>3, <1>4, ContactTo
<1>6. Path(B, mov(m, Start(m), 0), A)
  BY <1>1, <1>2, <1>3, <1>4, MovTo
<1>7. Path(A, mov(n, Start(n), Search(c, n)), C)
  BY <1>1, <1>2, <1>3, <1>4, MovTo
<1>8. Path(C, contact(start, m, d, d * Search(c, m), "1"), D)
  BY <1>1, <1>2, <1>3, <1>4, ContactTo
<1>9. Path(D, mov(m, Start(m), 0), C)
  BY <1>1, <1>2, <1>3, <1>4, MovTo
<1>10. Path(C, mov(n, Start(n), 0), A)
  BY <1>1, <1>2, <1>3, <1>4, MovTo
<1>11. Path(A, touch("0"), A) /\ Path(C, touch("1"), C)
  BY <1>5, <1>6, <1>8, <1>9, PathJoin
<1> HIDE DEF touch
<1>12. Path(A, touch("0") \o mov(n, Start(n), Search(c, n)), C)
  BY <1>7, <1>11, PathJoin
<1>13. Path(A, touch("0") \o mov(n, Start(n), Search(c, n)) \o touch("1"), C)
  BY <1>11, <1>12, PathJoin
<1>14. Path(A, touch("0") \o mov(n, Start(n), Search(c, n)) \o touch("1") \o mov(n, Start(n), 0), A)
  BY <1>10, <1>13, PathJoin
<1>15. A = Begun /\ Covers(A, Ended(c)) /\ Covers(A, A)
  BY DEF A, Begun, Ended, Covers, Facts, MeasuredAxes, MeasuredOf, EndPlace, Home
<1>16. AngleSteps(c, start) =
         touch("0") \o mov(n, Start(n), Search(c, n)) \o touch("1") \o mov(n, Start(n), 0)
  BY DEF AngleSteps, touch, m, n, d
<1> QED BY <1>14, <1>15, <1>16, PathCovers

LEMMA HeightPlan ==
  ASSUME NEW c, Valid(c), c.family # "angle", c.z, NEW start \in [Axes -> Int]
  PROVE  Path(Begun, contact(start, "Z", -1, -c.depth, "whole") \o mov("Z", Start("Z"), 0), Ended(c))
<1> DEFINE A == Facts({Surface("Z", "whole")}, Rests({"X", "Y"}))
<1>1. "Z" \in Axes /\ -1 \in {-1, 1} /\ -c.depth \in Int /\ "whole" \in Tags /\ Start("Z") \in MoveNames
      /\ Start("Z") \in Starts /\ 0 \in Int
  <2>1. "Z" \in Axes /\ "whole" \in Tags /\ Start("Z") \in MoveNames /\ Start("Z") \in Starts
    BY PlainNames
  <2>2. -1 \in {-1, 1} /\ -c.depth \in Int /\ 0 \in Int
    BY ValidRanges
  <2> QED BY <2>1, <2>2
<1>2. Still(Begun) /\ A.known \subseteq Begun.known \cup {Surface("Z", "whole")}
      /\ A.places \subseteq Away(Begun, "Z")
  BY DEF Begun, A, Still, Starts, Home, Rests, Away, Facts, Axes
<1>3. MeasuredAxes(c) = {"Z"}
  BY ValidRanges DEF MeasuredAxes, Enabled, Axes
<1>4. /\ Ended(c).known \subseteq A.known
      /\ Ended(c).places \subseteq Away(A, "Z") \cup {<<"Z", Start("Z"), 0>>}
  <2>1. \A a \in Axes : EndPlace(c, a) = <<a, Start(a), 0>>
    BY <1>3 DEF EndPlace
  <2>2. Ended(c).places = Home
    BY <2>1 DEF Ended, Facts, Home
  <2>3. Home \subseteq Away(A, "Z") \cup {<<"Z", Start("Z"), 0>>}
    BY DEF A, Facts, Rests, Home, Away, Axes
  <2> QED BY <1>3, <2>2, <2>3 DEF Ended, A, Facts, MeasuredOf
<1> HIDE DEF A
<1>5. Path(Begun, contact(start, "Z", -1, -c.depth, "whole"), A)
  BY <1>1, <1>2, ContactTo
<1>6. Path(A, mov("Z", Start("Z"), 0), Ended(c))
  BY <1>1, <1>4, MovTo
<1> QED BY <1>5, <1>6, PathJoin

LEMMA TargetFields ==
  ASSUME NEW a \in Axes, NEW n \in MoveNames, NEW o \in Int
  PROVE  /\ Target(a, n, o) \in [axis : Axes, name : MoveNames, offset : Int]
         /\ Target(a, n, o).axis = a /\ Target(a, n, o).name = n /\ Target(a, n, o).offset = o
  BY DEF Target

(* The last move, of a plan that has measured its axes and is at rest in the *)
(* others; a plan over a feature outside of which it went down goes up first. *)
Sides(c) == {a \in {"X", "Y"} : Enabled(c, a)}
High(c) == c.family = "inside" \/ center_internal(c)
Before(c) ==
  Facts({Surface(a, "whole") : a \in Sides(c)},
        Rests({a \in Axes : a \notin Sides(c) /\ (a = "Z" => High(c))}))

LEMMA LastMovePlan ==
  ASSUME NEW c, Valid(c), c.family # "angle", ~c.z
  PROVE  Path(Before(c), LastMove(c), Ended(c))
<1> DEFINE over(a) == IF c.family = "inside" THEN Target(a, Start(a), 0)
                      ELSE Target(a, Surface(a, "whole"), -ProbeOffset[a])
           ts == When(c.x # 0, <<over("X")>>) \o When(c.y # 0, <<over("Y")>>)
           s == [kind |-> "move", targets |-> ts]
           M == Facts(Before(c).known, Rests(Axes \ Sides(c)))
           Ts == [axis : Axes, name : MoveNames, offset : Int]
<1>1. c.x \in Int /\ c.y \in Int /\ ~(c.x = 0 /\ c.y = 0) /\ c.z = FALSE
      /\ c.family \in {"inside", "outside", "center"}
  BY ValidRanges
<1>2. Sides(c) = MeasuredAxes(c) /\ Sides(c) \subseteq Sideways /\ (\A a \in Sides(c) : a # "Z")
      /\ ("X" \in Sides(c) <=> c.x # 0) /\ ("Y" \in Sides(c) <=> c.y # 0)
  BY <1>1 DEF Sides, MeasuredAxes, Enabled, Axes, Sideways
<1>3. \A a \in Sideways : over(a) \in Ts /\ over(a).axis = a
                      /\ (a \in Sides(c) => over(a).name \in M.known \cup Starts)
                      /\ (a \in Sides(c) => EndPlace(c, a) = <<a, over(a).name, over(a).offset>>)
  <2> SUFFICES ASSUME NEW a \in Sideways
               PROVE  over(a) \in Ts /\ over(a).axis = a
                      /\ (a \in Sides(c) => over(a).name \in M.known \cup Starts)
                      /\ (a \in Sides(c) => EndPlace(c, a) = <<a, over(a).name, over(a).offset>>)
    OBVIOUS
  <2>1. CASE c.family = "inside"
    <3>1. over(a) = [axis |-> a, name |-> Start(a), offset |-> 0]
      BY <2>1 DEF Target
    <3>2. a \in Axes /\ Start(a) \in MoveNames /\ Start(a) \in Starts
      BY PlainNames
    <3> HIDE DEF over
    <3> QED BY <2>1, <3>1, <3>2 DEF EndPlace
  <2>2. CASE c.family # "inside"
    <3> DEFINE o == -ProbeOffset[a]
    <3>1. over(a) = Target(a, Surface(a, "whole"), o)
      BY <2>2
    <3>2. a \in Axes /\ Surface(a, "whole") \in MoveNames
      BY NamesAreApart, PlainNames
    <3>3. o \in Int
      BY <3>2, PlanAssumption
    <3>4. a \in Sides(c) => Surface(a, "whole") \in M.known
      BY DEF Before, Facts
    <3>5. a \in Sides(c) => EndPlace(c, a) = <<a, Surface(a, "whole"), o>>
      BY <1>2, <2>2 DEF EndPlace
    <3> HIDE DEF M, o
    <3>0. Target(a, Surface(a, "whole"), o) \in Ts /\ Target(a, Surface(a, "whole"), o).axis = a
          /\ Target(a, Surface(a, "whole"), o).name = Surface(a, "whole") /\ Target(a, Surface(a, "whole"), o).offset = o
      BY <3>2, <3>3, TargetFields
    <3> HIDE DEF over
    <3>6. over(a).axis = a /\ over(a).name = Surface(a, "whole") /\ over(a).offset = o
      BY <3>0, <3>1
    <3>7. over(a) \in Ts
      BY <3>0, <3>1
    <3> QED BY <3>4, <3>5, <3>6, <3>7
  <2> QED BY <2>1, <2>2
<1> HIDE DEF over
<1>4. /\ ts \in Seq(Ts)
      /\ \A k \in DOMAIN ts : ts[k] \in {over(a) : a \in Sides(c)}
      /\ \A a \in Sides(c) : \E k \in DOMAIN ts : ts[k] = over(a)
  <2>1. "X" \in Sideways /\ "Y" \in Sideways
    BY PlainNames
  <2>2. over("X") \in Ts /\ over("Y") \in Ts
    BY <1>3, <2>1
  <2>3. CASE c.x # 0 /\ c.y # 0
    <3>1. ts = <<over("X")>> \o <<over("Y")>>
      BY <2>3 DEF When
    <3> HIDE DEF ts
    <3>2. ts \in Seq(Ts) /\ DOMAIN ts = 1..2 /\ ts[1] = over("X") /\ ts[2] = over("Y")
      BY <2>2, <3>1
    <3> QED BY <1>2, <2>3, <3>2 DEF Sides
  <2>4. CASE c.x # 0 /\ c.y = 0
    <3>1. ts = <<over("X")>>
      BY <2>4 DEF When
    <3> HIDE DEF ts
    <3> QED BY <1>2, <2>2, <2>4, <3>1 DEF Sides
  <2>5. CASE c.x = 0 /\ c.y # 0
    <3>1. ts = <<over("Y")>>
      BY <2>5 DEF When
    <3> HIDE DEF ts
    <3> QED BY <1>2, <2>2, <2>5, <3>1 DEF Sides
  <2> QED BY <1>1, <2>3, <2>4, <2>5
<1> HIDE DEF ts
<1>5. s \in StepRecords /\ s.targets = ts
  BY <1>4 DEF StepRecords
<1>6. AxesOf(s) = Sides(c) /\ \A a \in Sides(c) : TargetOf(s, a) = over(a)
  <2>1. Sides(c) \subseteq Axes
    BY DEF Sides, Axes
  <2>2. AxesOf(s) = Sides(c)
    BY <1>2, <1>3, <1>4, <1>5, <2>1 DEF AxesOf
  <2>3. ASSUME NEW a \in Sides(c) PROVE TargetOf(s, a) = over(a)
    <3>1. \E k \in DOMAIN ts : ts[k].axis = a
      BY <1>2, <1>3, <1>4, <2>1
    <3>2. \A k \in DOMAIN ts : ts[k].axis = a => ts[k] = over(a)
      BY <1>2, <1>3, <1>4, <2>1
    <3> QED BY <1>5, <3>1, <3>2 DEF TargetOf
  <2> QED BY <2>2, <2>3
<1>7. /\ Ended(c).known \subseteq M.known
      /\ \A a \in Axes \ Sides(c) : EndPlace(c, a) \in M.places
      /\ M.places \subseteq Home
  BY <1>2 DEF Ended, Before, Facts, MeasuredOf, EndPlace, Rests, Home
<1>8. \A f \in Ended(c).places : \E a \in Axes : f = EndPlace(c, a) /\ f[1] = a
  <2>1. \A a \in Axes : EndPlace(c, a)[1] = a
    BY DEF EndPlace
  <2>2. \A f \in Ended(c).places : \E a \in Axes : f = EndPlace(c, a)
    BY DEF Ended, Facts
  <2> QED BY <2>1, <2>2
<1> HIDE DEF M, s
<1>9. GoesMove(M, s, Ended(c))
  <2>1. \A k \in DOMAIN s.targets : s.targets[k].name \in M.known \cup Starts
    <3>1. Sides(c) \subseteq Axes
      BY DEF Sides, Axes
    <3>2. \A k \in DOMAIN ts : ts[k].name \in M.known \cup Starts
      BY <1>2, <1>3, <1>4, <3>1
    <3> QED BY <1>5, <3>2
  <2>2. ASSUME NEW f \in Ended(c).places
        PROVE  IF f[1] \in AxesOf(s)
                 THEN f[2] = TargetOf(s, f[1]).name /\ f[3] = TargetOf(s, f[1]).offset
                 ELSE f \in M.places
    <3>1. PICK a \in Axes : f = EndPlace(c, a) /\ f[1] = a
      BY <1>8
    <3> QED BY <1>2, <1>3, <1>6, <1>7, <3>1
  <2> QED BY <1>7, <2>1, <2>2 DEF GoesMove
<1>10. Goes(M, s, Ended(c))
  <2>1. s.kind = "move"
    BY DEF s
  <2> QED BY <1>9, <2>1 DEF Goes
<1>11. Path(M, <<s>>, Ended(c))
  BY <1>5, <1>10, PathStep
<1>12. Path(Before(c), When(c.family # "inside" /\ ~center_internal(c), mov("Z", Start("Z"), 0)), M)
  <2>1. "Z" \in Axes /\ Start("Z") \in MoveNames /\ Start("Z") \in Starts
    BY PlainNames
  <2>2. M.known = Before(c).known
    BY DEF M, Facts
  <2>3. ~High(c) => Before(c).places = Rests(Axes \ (Sides(c) \cup {"Z"}))
    BY DEF Before, Facts, Rests
  <2>4. M.places \subseteq Away(Facts({}, Rests(Axes \ (Sides(c) \cup {"Z"}))), "Z") \cup {<<"Z", Start("Z"), 0>>}
    BY DEF M, Facts, Rests, Away, Home
  <2>5. ~High(c) => M.places \subseteq Away(Before(c), "Z") \cup {<<"Z", Start("Z"), 0>>}
    BY <2>3, <2>4 DEF Away, Facts
  <2>6. ~High(c) => Path(Before(c), mov("Z", Start("Z"), 0), M)
    BY <2>1, <2>2, <2>5, MovTo
  <2>7. High(c) => Covers(Before(c), M)
    BY <1>2 DEF Before, M, Covers, Facts, Rests
  <2>8. (c.family # "inside" /\ ~center_internal(c)) \in BOOLEAN
    BY DEF center_internal
  <2> QED BY <2>6, <2>7, <2>8, PathWhen DEF High
<1>13. LastMove(c) =
         When(c.family # "inside" /\ ~center_internal(c), mov("Z", Start("Z"), 0)) \o <<s>>
  BY DEF LastMove, Move, s, ts, over
<1> QED BY <1>11, <1>12, <1>13, PathJoin

(* Contacts and moves when all that is kept are axes still at their start.  *)
LEMMA ContactLeaves ==
  ASSUME NEW start \in [Axes -> Int], NEW a \in Axes, NEW d \in {-1, 1}, NEW e \in Int, NEW t \in Tags,
         NEW K, NEW S, NEW T, T \subseteq S \ {a}
  PROVE  Path(Facts(K, Rests(S)), contact(start, a, d, e, t), Facts(K \cup {Surface(a, t)}, Rests(T)))
<1>1. Still(Facts(K, Rests(S))) /\ Rests(T) \subseteq Away(Facts(K, Rests(S)), a)
  BY DEF Still, Facts, Rests, Home, Starts, Away
<1>2. /\ Facts(K \cup {Surface(a, t)}, Rests(T)).known = K \cup {Surface(a, t)}
      /\ Facts(K \cup {Surface(a, t)}, Rests(T)).places = Rests(T)
      /\ Facts(K, Rests(S)).known = K
  BY DEF Facts
<1> QED BY <1>1, <1>2, ContactTo

LEMMA MovLeaves ==
  ASSUME NEW a \in Axes, NEW K, NEW n \in MoveNames, n \in K \cup Starts, NEW o \in Int,
         NEW S, NEW T, T \subseteq S \ {a}
  PROVE  Path(Facts(K, Rests(S)), mov(a, n, o), Facts(K, Rests(T)))
<1>1. Rests(T) \subseteq Away(Facts(K, Rests(S)), a)
  BY DEF Facts, Rests, Away
<1>2. Facts(K, Rests(T)).known = K /\ Facts(K, Rests(T)).places = Rests(T)
      /\ Facts(K, Rests(S)).known = K
  BY DEF Facts
<1> QED BY <1>1, <1>2, MovTo

LEMMA FactsCover ==
  ASSUME NEW K, NEW L, L \subseteq K, NEW S, NEW T, T \subseteq S
  PROVE  Covers(Facts(K, Rests(S)), Facts(L, Rests(T)))
<1>1. Rests(T) \subseteq Rests(S)
  BY RestsFacts
<1> QED BY <1>1 DEF Covers, Facts

LEMMA Products == \A v \in Int : -1 * v \in Int /\ 1 * v \in Int /\ -v \in Int
  OBVIOUS

LEMMA Signed ==
  ASSUME NEW d \in {-1, 1}, NEW v \in Int
  PROVE  d * v \in Int /\ -(d * v) \in Int
<1>1. CASE d = 1
  BY <1>1
<1>2. CASE d = -1
  BY <1>2
<1> QED BY <1>1, <1>2

(* A feature is left by axis a: from outside also by Z.                    *)
Lost(c, a) == IF center_internal(c) THEN {a} ELSE {a, "Z"}
LEMMA CenterSidePlan ==
  ASSUME NEW c, Valid(c), NEW start \in [Axes -> Int], NEW a \in Sideways, NEW side \in {-1, 1},
         NEW K, NEW S
  PROVE  Path(Facts(K, Rests(S)), CenterSide(c, start, a, side),
              Facts(K \cup {Surface(a, IF side < 0 THEN "low" ELSE "high")}, Rests(S \ Lost(c, a))))
<1> DEFINE t == IF side < 0 THEN "low" ELSE "high"
           reach == side * Search(c, a)
           down == -c.depth
           L == K \cup {Surface(a, t)}
<1>1. a \in Axes /\ "Z" \in Axes /\ a # "Z" /\ t \in Tags /\ reach \in Int /\ down \in Int
  <2>1. a \in Axes /\ "Z" \in Axes /\ a # "Z"
    BY PlainNames DEF Sideways
  <2>2. t \in Tags
    BY PlainNames
  <2>3. Search(c, a) \in Int /\ c.depth \in Int
    BY <2>1, ValidRanges
  <2> QED BY <2>1, <2>2, <2>3, Products
<1>2. -side \in {-1, 1}
  OBVIOUS
<1>3. Start(a) \in MoveNames /\ Start(a) \in Starts /\ Start("Z") \in MoveNames /\ Start("Z") \in Starts
  BY <1>1, PlainNames
<1> HIDE DEF t, reach, down, L
<1>4. CASE center_internal(c)
  <2>1. Path(Facts(K, Rests(S)), contact(start, a, side, reach, t), Facts(L, Rests(S \ {a})))
    BY <1>1, ContactLeaves DEF L
  <2>2. CenterSide(c, start, a, side) = contact(start, a, side, reach, t) /\ Lost(c, a) = {a}
    BY <1>4 DEF CenterSide, Lost, reach, t
  <2> QED BY <2>1, <2>2 DEF L, t
<1>5. CASE ~center_internal(c)
  <2> DEFINE R == S \ {a, "Z"}
             up == When(side < 0 \/ (a = "X" /\ c.y # 0), mov("Z", Start("Z"), 0))
  <2>1. R \subseteq (S \ {a}) \ {"Z"} /\ R \subseteq R \ {a} /\ R \subseteq R \ {"Z"}
    OBVIOUS
  <2> HIDE DEF R
  <2>2. Path(Facts(K, Rests(S)), mov(a, Start(a), reach), Facts(K, Rests(S \ {a})))
    BY <1>1, <1>3, MovLeaves
  <2>3. Path(Facts(K, Rests(S \ {a})), mov("Z", Start("Z"), down), Facts(K, Rests(R)))
    BY <1>1, <1>3, <2>1, MovLeaves
  <2>a. 0 \in Int
    OBVIOUS
  <2>4. Path(Facts(K, Rests(R)), contact(start, a, -side, 0, t), Facts(L, Rests(R)))
    <3> DEFINE b == -side
    <3> HIDE DEF b
    <3>1. b \in {-1, 1}
      BY <1>2 DEF b
    <3>2. Path(Facts(K, Rests(R)), contact(start, a, b, 0, t), Facts(K \cup {Surface(a, t)}, Rests(R)))
      BY <1>1, <2>1, <2>a, <3>1, ContactLeaves
    <3> QED BY <3>2 DEF L, b
  <2>5. Path(Facts(L, Rests(R)), mov("Z", Start("Z"), 0), Facts(L, Rests(R)))
    <3>1. Start("Z") \in L \cup Starts
      BY <1>3
    <3> QED BY <1>1, <1>3, <2>1, <2>a, <3>1, MovLeaves
  <2>6. Path(Facts(L, Rests(R)), up, Facts(L, Rests(R)))
    BY <2>5, PathWhen, FactsCover
  <2> HIDE DEF up
  <2>7. Path(Facts(K, Rests(S)), mov(a, Start(a), reach) \o mov("Z", Start("Z"), down), Facts(K, Rests(R)))
    BY <2>2, <2>3, PathJoin
  <2>8. Path(Facts(K, Rests(S)), mov(a, Start(a), reach) \o mov("Z", Start("Z"), down)
                                 \o contact(start, a, -side, 0, t), Facts(L, Rests(R)))
    BY <2>4, <2>7, PathJoin
  <2>9. Path(Facts(K, Rests(S)), mov(a, Start(a), reach) \o mov("Z", Start("Z"), down)
                                 \o contact(start, a, -side, 0, t) \o up, Facts(L, Rests(R)))
    BY <2>6, <2>8, PathJoin
  <2>10. CenterSide(c, start, a, side) = mov(a, Start(a), reach) \o mov("Z", Start("Z"), down)
                                         \o contact(start, a, -side, 0, t) \o up
         /\ Lost(c, a) = {a, "Z"}
    BY <1>5 DEF CenterSide, Lost, reach, down, t, up
  <2> QED BY <2>9, <2>10 DEF L, t, R
<1> QED BY <1>4, <1>5

LEMMA CenterAxisPlan ==
  ASSUME NEW c, Valid(c), NEW start \in [Axes -> Int], NEW a \in Sideways, NEW K, NEW S
  PROVE  Path(Facts(K, Rests(S)), CenterAxis(c, start, a),
              IF Enabled(c, a) THEN Facts(K \cup {Surface(a, "whole")}, Rests(S \ Lost(c, a)))
              ELSE Facts(K, Rests(S)))
<1> DEFINE low == Surface(a, "low")
           high == Surface(a, "high")
           whole == Surface(a, "whole")
           off == -ProbeOffset[a]
           R == S \ Lost(c, a)
           A == Facts(K, Rests(S))
           B == Facts(K \cup {low}, Rests(R))
           C == Facts(K \cup {low} \cup {high}, Rests(R))
           D == Facts(K \cup {low} \cup {high} \cup {whole}, Rests(R))
           E == Facts(K \cup {whole}, Rests(R))
           over == When(a = "X" /\ c.y # 0, mov(a, whole, off))
           side(d) == CenterSide(c, start, a, d)
<1>1. a \in Axes /\ off \in Int
  BY PlanAssumption, PlainNames
<1>2. whole \in MoveNames
  BY <1>1, NamesAreApart, PlainNames
<1>3. Path(A, side(-1), B)
  <2>1. Path(A, side(-1), Facts(K \cup {Surface(a, IF -1 < 0 THEN "low" ELSE "high")}, Rests(R)))
    <3>1. -1 \in {-1, 1}
      OBVIOUS
    <3> QED BY <3>1, CenterSidePlan
  <2> QED BY <2>1
<1>4. Path(B, side(1), C)
  <2>1. Path(B, side(1), Facts(K \cup {low} \cup {high}, Rests(R \ Lost(c, a))))
    <3>1. Path(B, side(1), Facts((K \cup {low}) \cup {Surface(a, IF 1 < 0 THEN "low" ELSE "high")},
                                 Rests(R \ Lost(c, a))))
      <4>1. 1 \in {-1, 1}
        OBVIOUS
      <4> QED BY <4>1, CenterSidePlan
    <3> QED BY <3>1
  <2>2. R \ Lost(c, a) = R
    OBVIOUS
  <2> QED BY <2>1, <2>2
<1>5. Path(C, Center(a), D)
  <2>1. Still(C) /\ low \in C.known /\ high \in C.known
    BY RestsFacts DEF Facts
  <2>2. D = Facts(C.known \cup {whole}, C.places)
    BY DEF Facts
  <2> HIDE DEF C, D
  <2> QED BY <1>1, <2>1, <2>2, CenterPath
<1>6. Path(D, mov(a, whole, off), E)
  <2> DEFINE L == K \cup {low} \cup {high} \cup {whole}
  <2>1. R \subseteq R \ {a} /\ whole \in L
    BY DEF Lost
  <2> HIDE DEF L, R, whole, off
  <2>2. Path(Facts(L, Rests(R)), mov(a, whole, off), Facts(L, Rests(R)))
    BY <1>1, <1>2, <2>1, MovLeaves
  <2>3. Covers(Facts(L, Rests(R)), E) /\ Covers(Facts(L, Rests(R)), Facts(L, Rests(R)))
    BY FactsCover DEF L
  <2> QED BY <2>2, <2>3, PathCovers DEF L
<1>7. Covers(D, E)
  BY FactsCover
<1>8. (a = "X" /\ c.y # 0) \in BOOLEAN /\ Enabled(c, a) \in BOOLEAN
  BY ValidRanges DEF Enabled
<1> HIDE DEF A, B, C, D, E, low, high, whole, off, R
<1>9. Path(D, over, E)
  BY <1>6, <1>7, <1>8, PathWhen
<1> HIDE DEF over, side
<1>10. Path(A, side(-1) \o side(1), C)
  BY <1>3, <1>4, PathJoin
<1>11. Path(A, side(-1) \o side(1) \o Center(a), D)
  BY <1>5, <1>10, PathJoin
<1>12. Path(A, side(-1) \o side(1) \o Center(a) \o over, E)
  BY <1>9, <1>11, PathJoin
<1>13. CenterAxis(c, start, a) = When(Enabled(c, a), side(-1) \o side(1) \o Center(a) \o over)
  BY DEF CenterAxis, side, over, whole, off
<1>14. CASE Enabled(c, a)
  BY <1>12, <1>13, <1>14 DEF When, A, E, whole, R
<1>15. CASE ~Enabled(c, a)
  <2>1. Path(A, <<>>, A)
    BY PathEmpty DEF Covers
  <2> QED BY <1>13, <1>15, <2>1 DEF When, A
<1> QED BY <1>8, <1>14, <1>15

LEMMA CenterPlan ==
  ASSUME NEW c, Valid(c), c.family = "center", ~c.z, NEW start \in [Axes -> Int]
  PROVE  Path(Begun, CenterAxis(c, start, "X") \o CenterAxis(c, start, "Y") \o LastMove(c), Ended(c))
<1> DEFINE KX == IF Enabled(c, "X") THEN {Surface("X", "whole")} ELSE {}
           SX == IF Enabled(c, "X") THEN Axes \ Lost(c, "X") ELSE Axes
           KY == IF Enabled(c, "Y") THEN KX \cup {Surface("Y", "whole")} ELSE KX
           SY == IF Enabled(c, "Y") THEN SX \ Lost(c, "Y") ELSE SX
<1>1. Path(Facts({}, Rests(Axes)), CenterAxis(c, start, "X"), Facts(KX, Rests(SX)))
  <2>1. {} \cup {Surface("X", "whole")} = {Surface("X", "whole")}
    OBVIOUS
  <2>2. Path(Facts({}, Rests(Axes)), CenterAxis(c, start, "X"),
             IF Enabled(c, "X") THEN Facts({} \cup {Surface("X", "whole")}, Rests(Axes \ Lost(c, "X")))
             ELSE Facts({}, Rests(Axes)))
    BY PlainNames, CenterAxisPlan
  <2> QED BY <2>1, <2>2
<1>2. Path(Facts(KX, Rests(SX)), CenterAxis(c, start, "Y"), Facts(KY, Rests(SY)))
  <2> HIDE DEF KX, SX
  <2>1. Path(Facts(KX, Rests(SX)), CenterAxis(c, start, "Y"),
             IF Enabled(c, "Y") THEN Facts(KX \cup {Surface("Y", "whole")}, Rests(SX \ Lost(c, "Y")))
             ELSE Facts(KX, Rests(SX)))
    BY PlainNames, CenterAxisPlan
  <2> QED BY <2>1
<1>3. Covers(Facts(KY, Rests(SY)), Before(c))
  <2>1. {Surface(a, "whole") : a \in Sides(c)} \subseteq KY
    BY DEF Sides
  <2>2. {a \in Axes : a \notin Sides(c) /\ (a = "Z" => High(c))} \subseteq SY
    BY DEF Sides, High, Lost, Axes
  <2> HIDE DEF KY, SY
  <2> QED BY <2>1, <2>2, FactsCover DEF Before
<1>4. Begun = Facts({}, Rests(Axes))
  BY RestsFacts DEF Begun
<1> HIDE DEF KX, SX, KY, SY
<1>5. Path(Begun, CenterAxis(c, start, "X") \o CenterAxis(c, start, "Y"), Facts(KY, Rests(SY)))
  BY <1>1, <1>2, <1>4, PathJoin
<1>6. Covers(Begun, Begun)
  BY DEF Covers
<1>7. Path(Begun, CenterAxis(c, start, "X") \o CenterAxis(c, start, "Y"), Before(c))
  BY <1>3, <1>5, <1>6, PathCovers
<1>8. Path(Before(c), LastMove(c), Ended(c))
  BY LastMovePlan
<1> QED BY <1>7, <1>8, PathJoin

LEMMA OutsideAxisPlan ==
  ASSUME NEW c, Valid(c), NEW start \in [Axes -> Int], NEW a \in Sideways, NEW dir \in -1..1,
         NEW K, NEW S, NEW T,
         dir # 0 => T \subseteq S \ {a, "Z"} /\ (a = "Y" /\ c.x # 0 => T \subseteq S \ {"X"}),
         dir = 0 => T \subseteq S
  PROVE  Path(Facts(K, Rests(S)), OutsideAxis(c, start, a, dir),
              Facts(IF dir # 0 THEN K \cup {Surface(a, "whole")} ELSE K, Rests(T)))
<1> DEFINE out == -dir * Search(c, a)
           down == -c.depth
           L == K \cup {Surface(a, "whole")}
           R == IF a = "Y" /\ c.x # 0 THEN S \ {"X"} ELSE S
           back == When(a = "Y" /\ c.x # 0, mov("X", Start("X"), 0))
           up == When(a = "X" /\ c.y # 0, mov("Z", Start("Z"), 0))
<1>1. a \in Axes /\ "X" \in Axes /\ "Z" \in Axes /\ "whole" \in Tags /\ 0 \in Int
      /\ (\A b \in Axes : Start(b) \in MoveNames /\ \A k : Start(b) \in k \cup Starts)
  <2>1. a \in Axes /\ "X" \in Axes /\ "Z" \in Axes /\ "whole" \in Tags /\ 0 \in Int
    BY PlainNames
  <2>2. \A b \in Axes : Start(b) \in MoveNames /\ Start(b) \in Starts
    BY PlainNames
  <2> QED BY <2>1, <2>2
<1>2. dir # 0 => out \in Int
  <2>1. Search(c, a) \in Int
    BY <1>1, ValidRanges
  <2>2. dir # 0 => dir \in {-1, 1}
    OBVIOUS
  <2>3. ASSUME dir # 0 PROVE out \in Int
    <3> DEFINE v == Search(c, a)
    <3> HIDE DEF v
    <3>1. v \in Int
      BY <2>1 DEF v
    <3>4. -(dir * v) \in Int
      BY <2>2, <2>3, <3>1, Signed
    <3> QED BY <3>4 DEF v
  <2> QED BY <2>3
<1>3. down \in Int
  BY ValidRanges
<1>4. (a = "Y" /\ c.x # 0) \in BOOLEAN /\ (a = "X" /\ c.y # 0) \in BOOLEAN
  OBVIOUS
<1>5. CASE dir = 0
  <2>1. Covers(Facts(K, Rests(S)), Facts(K, Rests(T)))
    BY <1>5, FactsCover
  <2> QED BY <1>5, <2>1, PathEmpty DEF OutsideAxis, When
<1>6. CASE dir # 0
  <2>1. R \subseteq S /\ (a = "Y" /\ c.x # 0 => R \subseteq S \ {"X"})
        /\ R \ {a} \subseteq R \ {a} /\ (R \ {a}) \ {"Z"} \subseteq (R \ {a}) \ {"Z"}
        /\ T \subseteq ((R \ {a}) \ {"Z"}) \ {a} /\ T \subseteq T \ {"Z"}
    BY <1>6
  <2> DEFINE R1 == R \ {a}
             R2 == R1 \ {"Z"}
  <2> HIDE DEF out, down, R
  <2>2. Path(Facts(K, Rests(S)), back, Facts(K, Rests(R)))
    <3>1. a = "Y" /\ c.x # 0 => Path(Facts(K, Rests(S)), mov("X", Start("X"), 0), Facts(K, Rests(R)))
      BY <1>1, <2>1, MovLeaves
    <3>2. Covers(Facts(K, Rests(S)), Facts(K, Rests(R)))
      BY <2>1, FactsCover
    <3> QED BY <1>4, <3>1, <3>2, PathWhen
  <2>3. Path(Facts(K, Rests(R)), mov(a, Start(a), out), Facts(K, Rests(R1)))
    BY <1>1, <1>2, <1>6, <2>1, MovLeaves
  <2>4. Path(Facts(K, Rests(R1)), mov("Z", Start("Z"), down), Facts(K, Rests(R2)))
    BY <1>1, <1>3, <2>1, MovLeaves
  <2>5. Path(Facts(K, Rests(R2)), contact(start, a, dir, 0, "whole"), Facts(L, Rests(T)))
    <3>1. dir \in {-1, 1}
      BY <1>6
    <3> HIDE DEF R1, R2
    <3>2. T \subseteq R2 \ {a}
      BY <2>1 DEF R1, R2
    <3> QED BY <1>1, <3>1, <3>2, ContactLeaves
  <2>6. Path(Facts(L, Rests(T)), up, Facts(L, Rests(T)))
    <3>1. Path(Facts(L, Rests(T)), mov("Z", Start("Z"), 0), Facts(L, Rests(T)))
      BY <1>1, <2>1, MovLeaves
    <3>2. Covers(Facts(L, Rests(T)), Facts(L, Rests(T)))
      BY DEF Covers
    <3> QED BY <1>4, <3>1, <3>2, PathWhen
  <2> HIDE DEF back, up, R1, R2, L
  <2>7. Path(Facts(K, Rests(S)), back \o mov(a, Start(a), out), Facts(K, Rests(R1)))
    BY <2>2, <2>3, PathJoin
  <2>8. Path(Facts(K, Rests(S)), back \o mov(a, Start(a), out) \o mov("Z", Start("Z"), down),
             Facts(K, Rests(R2)))
    BY <2>4, <2>7, PathJoin
  <2>9. Path(Facts(K, Rests(S)), back \o mov(a, Start(a), out) \o mov("Z", Start("Z"), down)
                                 \o contact(start, a, dir, 0, "whole"), Facts(L, Rests(T)))
    BY <2>5, <2>8, PathJoin
  <2>10. Path(Facts(K, Rests(S)), back \o mov(a, Start(a), out) \o mov("Z", Start("Z"), down)
                                  \o contact(start, a, dir, 0, "whole") \o up, Facts(L, Rests(T)))
    BY <2>6, <2>9, PathJoin
  <2>11. OutsideAxis(c, start, a, dir) = back \o mov(a, Start(a), out) \o mov("Z", Start("Z"), down)
                                         \o contact(start, a, dir, 0, "whole") \o up
    BY <1>6 DEF OutsideAxis, When, back, up, out, down
  <2> QED BY <1>6, <2>10, <2>11 DEF L
<1> QED BY <1>5, <1>6

LEMMA OutsidePlan ==
  ASSUME NEW c, Valid(c), c.family = "outside", ~c.z, NEW start \in [Axes -> Int]
  PROVE  Path(Begun, OutsideAxis(c, start, "X", c.x) \o OutsideAxis(c, start, "Y", c.y) \o LastMove(c),
              Ended(c))
<1> DEFINE KX == IF c.x # 0 THEN {Surface("X", "whole")} ELSE {}
           SX == IF c.x # 0 THEN Axes \ {"X", "Z"} ELSE Axes
           KY == IF c.y # 0 THEN KX \cup {Surface("Y", "whole")} ELSE KX
           SY == IF c.y # 0 THEN SX \ {"Y", "Z"} ELSE SX
<1>0. c.x \in -1..1 /\ c.y \in -1..1 /\ (c.x # 0 \/ c.y # 0)
  BY ValidRanges
<1>1. Path(Facts({}, Rests(Axes)), OutsideAxis(c, start, "X", c.x), Facts(KX, Rests(SX)))
  <2>1. Path(Facts({}, Rests(Axes)), OutsideAxis(c, start, "X", c.x),
             Facts(IF c.x # 0 THEN {} \cup {Surface("X", "whole")} ELSE {}, Rests(SX)))
    BY <1>0, PlainNames, OutsideAxisPlan
  <2>2. {} \cup {Surface("X", "whole")} = {Surface("X", "whole")}
    OBVIOUS
  <2> QED BY <2>1, <2>2
<1>2. Path(Facts(KX, Rests(SX)), OutsideAxis(c, start, "Y", c.y), Facts(KY, Rests(SY)))
  <2>1. /\ c.y # 0 => SY \subseteq SX \ {"Y", "Z"} /\ (c.x # 0 => SY \subseteq SX \ {"X"})
        /\ c.y = 0 => SY \subseteq SX
    OBVIOUS
  <2> HIDE DEF KX, SX, SY
  <2> QED BY <1>0, <2>1, PlainNames, OutsideAxisPlan
<1>3. Covers(Facts(KY, Rests(SY)), Before(c))
  <2>1. {Surface(a, "whole") : a \in Sides(c)} \subseteq KY
    BY DEF Sides, Enabled
  <2>2. {a \in Axes : a \notin Sides(c) /\ (a = "Z" => High(c))} \subseteq SY
    <3>1. ~High(c)
      BY DEF High, center_internal, Valid, ValidConfig, Features
    <3> QED BY <3>1 DEF Sides, Enabled, Axes
  <2> HIDE DEF KY, SY
  <2> QED BY <2>1, <2>2, FactsCover DEF Before
<1>4. Begun = Facts({}, Rests(Axes))
  BY RestsFacts DEF Begun
<1> HIDE DEF KX, SX, KY, SY
<1>5. Path(Begun, OutsideAxis(c, start, "X", c.x) \o OutsideAxis(c, start, "Y", c.y), Facts(KY, Rests(SY)))
  BY <1>1, <1>2, <1>4, PathJoin
<1>6. Covers(Begun, Begun)
  BY DEF Covers
<1>7. Path(Begun, OutsideAxis(c, start, "X", c.x) \o OutsideAxis(c, start, "Y", c.y), Before(c))
  BY <1>3, <1>5, <1>6, PathCovers
<1>8. Path(Before(c), LastMove(c), Ended(c))
  BY LastMovePlan
<1> QED BY <1>7, <1>8, PathJoin

LEMMA InsidePlan ==
  ASSUME NEW c, Valid(c), c.family = "inside", ~c.z, NEW start \in [Axes -> Int]
  PROVE  Path(Begun, InsideSteps(c, start) \o LastMove(c), Ended(c))
<1> DEFINE KX == IF c.x # 0 THEN {Surface("X", "whole")} ELSE {}
           SX == IF c.x # 0 THEN Axes \ {"X"} ELSE Axes
           KY == IF c.y # 0 THEN KX \cup {Surface("Y", "whole")} ELSE KX
           SY == IF c.y # 0 THEN SX \ {"Y"} ELSE SX
           reachX == c.x * c.searchX
           reachY == c.y * c.searchY
           sideX == When(c.x # 0, contact(start, "X", c.x, reachX, "whole"))
           back == When(c.x # 0, mov("X", Start("X"), 0))
           touchY == contact(start, "Y", c.y, reachY, "whole")
           sideY == When(c.y # 0, back \o touchY)
<1>0. c.x \in -1..1 /\ c.y \in -1..1 /\ (c.x # 0 \/ c.y # 0) /\ c.searchX \in Int /\ c.searchY \in Int
  BY ValidRanges
<1>1. (c.x # 0 => c.x \in {-1, 1} /\ reachX \in Int) /\ (c.y # 0 => c.y \in {-1, 1} /\ reachY \in Int)
  <2>1. (c.x # 0 => c.x \in {-1, 1}) /\ (c.y # 0 => c.y \in {-1, 1})
    BY <1>0
  <2>2. c.x # 0 => reachX \in Int
    BY <1>0, <2>1, Signed
  <2>3. c.y # 0 => reachY \in Int
    BY <1>0, <2>1, Signed
  <2> QED BY <2>1, <2>2, <2>3
<1>2. "X" \in Axes /\ "Y" \in Axes /\ "whole" \in Tags /\ 0 \in Int
      /\ Start("X") \in MoveNames /\ \A k : Start("X") \in k \cup Starts
  <2>1. "X" \in Axes /\ "Y" \in Axes /\ "whole" \in Tags /\ 0 \in Int
    BY PlainNames
  <2>2. Start("X") \in MoveNames /\ Start("X") \in Starts
    BY PlainNames
  <2> QED BY <2>1, <2>2
<1>3. (c.x # 0) \in BOOLEAN /\ (c.y # 0) \in BOOLEAN
  OBVIOUS
<1> HIDE DEF reachX, reachY
<1>4. Path(Facts({}, Rests(Axes)), sideX, Facts(KX, Rests(SX)))
  <2>1. CASE c.x # 0
    <3>1. Axes \ {"X"} \subseteq Axes \ {"X"} /\ {} \cup {Surface("X", "whole")} = {Surface("X", "whole")}
      OBVIOUS
    <3>2. Path(Facts({}, Rests(Axes)), contact(start, "X", c.x, reachX, "whole"),
               Facts({} \cup {Surface("X", "whole")}, Rests(Axes \ {"X"})))
      BY <1>1, <1>2, <2>1, <3>1, ContactLeaves
    <3>3. KX = {Surface("X", "whole")} /\ SX = Axes \ {"X"}
          /\ sideX = contact(start, "X", c.x, reachX, "whole")
      BY <2>1 DEF When
    <3> QED BY <3>1, <3>2, <3>3
  <2>2. CASE c.x = 0
    <3>1. sideX = <<>> /\ KX = {} /\ SX = Axes
      BY <2>2 DEF When
    <3> QED BY <3>1, PathEmpty DEF Covers
  <2> QED BY <2>1, <2>2
<1>5. Path(Facts(KX, Rests(SX)), sideY, Facts(KY, Rests(SY)))
  <2>1. CASE c.y # 0
    <3>1. Path(Facts(KX, Rests(SX)), back, Facts(KX, Rests(SX)))
      <4>1. SX \subseteq SX \ {"X"} \/ c.x = 0
        OBVIOUS
      <4> HIDE DEF KX, SX
      <4>2. c.x # 0 => Path(Facts(KX, Rests(SX)), mov("X", Start("X"), 0), Facts(KX, Rests(SX)))
        BY <1>2, <4>1, MovLeaves
      <4>3. Covers(Facts(KX, Rests(SX)), Facts(KX, Rests(SX)))
        BY DEF Covers
      <4> QED BY <1>3, <4>2, <4>3, PathWhen
    <3>2. KY = KX \cup {Surface("Y", "whole")} /\ SY = SX \ {"Y"} /\ sideY = back \o touchY
      BY <2>1 DEF When
    <3> HIDE DEF KX, SX, KY, SY, sideY, back
    <3>3. SX \ {"Y"} \subseteq SX \ {"Y"}
      OBVIOUS
    <3>4. Path(Facts(KX, Rests(SX)), touchY, Facts(KX \cup {Surface("Y", "whole")}, Rests(SX \ {"Y"})))
      BY <1>1, <1>2, <2>1, <3>3, ContactLeaves
    <3> QED BY <3>1, <3>2, <3>4, PathJoin
  <2>2. CASE c.y = 0
    <3>1. sideY = <<>> /\ KY = KX /\ SY = SX
      BY <2>2 DEF When
    <3> HIDE DEF KX, SX, KY, SY, sideY
    <3> QED BY <3>1, PathEmpty DEF Covers
  <2> QED BY <2>1, <2>2
<1>6. Covers(Facts(KY, Rests(SY)), Before(c))
  <2>1. {Surface(a, "whole") : a \in Sides(c)} \subseteq KY
    BY DEF Sides, Enabled
  <2>2. {a \in Axes : a \notin Sides(c) /\ (a = "Z" => High(c))} \subseteq SY
    BY DEF Sides, Enabled, Axes
  <2> HIDE DEF KY, SY
  <2> QED BY <2>1, <2>2, FactsCover DEF Before
<1>7. Begun = Facts({}, Rests(Axes))
  BY RestsFacts DEF Begun
<1>8. InsideSteps(c, start) = sideX \o sideY
  BY DEF InsideSteps, reachX, reachY
<1> HIDE DEF KX, SX, KY, SY, sideX, sideY
<1>9. Path(Begun, InsideSteps(c, start), Facts(KY, Rests(SY)))
  BY <1>4, <1>5, <1>7, <1>8, PathJoin
<1>10. Covers(Begun, Begun)
  BY DEF Covers
<1>11. Path(Begun, InsideSteps(c, start), Before(c))
  BY <1>6, <1>9, <1>10, PathCovers
<1>12. Path(Before(c), LastMove(c), Ended(c))
  BY LastMovePlan
<1> QED BY <1>11, <1>12, PathJoin

\* Whatever the options, every value a step needs has been measured by a step
\* before it, and the plan ends over what it measured or where it began
\* (RoutinePlan::review, plan.rs).
THEOREM PlansAreInOrder ==
  ASSUME NEW c, Valid(c), NEW start \in [Axes -> Int]
  PROVE  Path(Begun, Steps(c, start), Ended(c))
<1>1. c.family \in {"inside", "outside", "center", "angle"} /\ c.z \in BOOLEAN
  BY ValidRanges
<1>2. CASE c.family = "angle"
  BY <1>2, AnglePlan DEF Steps
<1>3. CASE c.family # "angle" /\ c.z
  <2>1. Steps(c, start) = contact(start, "Z", -1, -c.depth, "whole") \o mov("Z", Start("Z"), 0)
    BY <1>3 DEF Steps
  <2> QED BY <1>3, <2>1, HeightPlan
<1>4. CASE c.family = "center" /\ ~c.z
  <2>1. Steps(c, start) = CenterAxis(c, start, "X") \o CenterAxis(c, start, "Y") \o LastMove(c)
    BY <1>4 DEF Steps
  <2> QED BY <1>4, <2>1, CenterPlan
<1>5. CASE c.family = "outside" /\ ~c.z
  <2>1. Steps(c, start) = OutsideAxis(c, start, "X", c.x) \o OutsideAxis(c, start, "Y", c.y) \o LastMove(c)
    BY <1>5 DEF Steps
  <2> QED BY <1>5, <2>1, OutsidePlan
<1>6. CASE c.family = "inside" /\ ~c.z
  <2>1. Steps(c, start) = InsideSteps(c, start) \o LastMove(c)
    BY <1>6 DEF Steps
  <2> QED BY <1>6, <2>1, InsidePlan
<1> QED BY <1>1, <1>2, <1>3, <1>4, <1>5, <1>6

-----------------------------------------------------------------------------
(* A run, by what is known of it.                                          *)

Results ==
  [point : [Axes -> Int \cup {None}], zeroed : BOOLEAN, returned : BOOLEAN,
   positioned : BOOLEAN, settled : BOOLEAN, offset : Int]

Planned ==
  /\ plan = Plan(config, plan.start, plan.origin)
  /\ Valid(config) /\ plan.start \in Places /\ plan.origin \in Places
  /\ validate_envelope(config, plan.start, plan.steps)

Types ==
  /\ at \in Places /\ origin \in Places /\ position \in Places
  /\ changed \in [what : Changes \cup {"nothing"}, index : Int, stage : Int]
  /\ index \in Nat /\ stage \in 0..5
  /\ refs \in [Surfaces -> Int \cup {None}]
  /\ result \in Results
  /\ legs \in Seq(Places)

(* Which operation is at which place, and which has a result.              *)
Phases ==
  /\ op \in {"none", "run", "return", "measured", "zero"}
  /\ op = "none" => pc = "idle"
  /\ pc \in {"step", "contact", "finish", "restore"} => op = "run"
  /\ pc = "legs" => op \in {"return", "measured"}
  /\ pc \in {"query", "zero"} => op \in {"run", "zero"}
  /\ pc = "applied" => op = "zero"
  /\ op \in {"return", "measured", "zero"} /\ pc # "idle" => result.settled
  /\ op = "none" => position = plan.start /\ stage = 0 /\ ~result.settled
  /\ pc \in {"step", "contact"} => index \in 1..Done
  /\ pc = "contact" => index # Done /\ Here.kind = "contact" /\ stage \in 1..5
  /\ pc \in {"step", "query", "zero"} /\ op = "run" => stage = 0
  /\ pc \in {"query", "zero"} /\ op = "run" => config.family # "angle"

(* A change shows, until it is answered: the machine is not where it was   *)
(* left, the work zero not where it was; or the change is of this step.    *)
Fresh ==
  /\ (op = "none" \/ pc \in {"step", "contact"}) =>
       /\ changed.what = "moved" <=> at # position
       /\ changed.what = "zero" <=> origin # plan.origin
  /\ pc = "contact" /\ (\/ changed.what \in {"tool", "probe"}
                        \/ (changed.what = "zero" /\ config.family # "angle")) =>
       changed.index = index
  /\ pc \in {"query", "zero"} /\ op = "run" /\ changed.what # "nothing" =>
       changed.index = index /\ changed.stage = stage

(* What the steps so far have told, along the trail of the plan.           *)
Way(c, s) == CHOOSE w : Covers(Begun, w[1]) /\ Covers(w[Len(s) + 1], Ended(c)) /\ Trail(w, s)
Told(i) == Way(config, plan.steps)[i]
Values(f) == \A n \in f.known : n \in Surfaces /\ refs[n] \in Int
Points(f) == \A a \in Axes : Surface(a, "whole") \in f.known =>
               result.point[a] = refs[Surface(a, "whole")]
Stands(f) ==
  \A t \in f.places : /\ t[1] \in Axes /\ t[2] \in Surfaces \cup Starts
                      /\ position[t[1]] = ValueOf(t[2]) + t[3]
Known ==
  /\ pc = "step" => Values(Told(index)) /\ Points(Told(index)) /\ Stands(Told(index))
  /\ pc = "contact" =>
       /\ Values(Told(index))
       /\ stage \in 4..5 => refs[Surface(Here.axis, Here.tag)] \in Int
       /\ \A a \in Axes : Surface(a, "whole") \in Told(index).known
                          /\ Surface(a, "whole") # Surface(Here.axis, Here.tag) =>
            result.point[a] = refs[Surface(a, "whole")]
       /\ Stands(Told(index + 1))

(* What a routine has found and where it is when its steps are done.       *)
Found == \A a \in MeasuredAxes(config) : result.point[a] \in Int
Reached(p) ==
  \A a \in Axes :
    p[a] = IF a \in MeasuredAxes(config) /\ config.family # "inside" /\ a # "Z"
             THEN result.point[a] - ProbeOffset[a] ELSE plan.start[a]
Ending == op = "run" /\ (pc \in {"query", "zero", "finish"} \/ (pc = "over" /\ outcome = "ok"))
Endings ==
  /\ result.settled => Found
  /\ pc \in {"failed", "restore"} => outcome # "ok"
  /\ Ending => Found /\ (changed.what # "moved" => Reached(at))
  /\ op = "run" /\ (pc = "restore" \/ (pc = "over" /\ outcome = "CoarseNoContact" /\ config.z))
       /\ changed.what # "moved" => at["Z"] = plan.start["Z"]

(* An action on a result ends at the last of its legs.                     *)
LastLeg == IF legs = <<>> THEN position ELSE legs[Len(legs)]
Legs ==
  pc = "legs" =>
    /\ op = "return" => LastLeg = plan.start
    /\ op = "measured" => \A a \in MeasuredAxes(config) :
                            LastLeg[a] = result.point[a] - ProbeOffset[a]

RInv == Planned /\ Types /\ Phases /\ Fresh /\ Known /\ Endings /\ Legs

-----------------------------------------------------------------------------
(* What the steps and the places are.                                      *)

LEMMA ToldTrail ==
  ASSUME Planned
  PROVE  /\ plan.steps \in Seq(StepRecords) /\ Len(plan.steps) \in Nat
         /\ Covers(Begun, Told(1)) /\ Covers(Told(Done), Ended(config))
         /\ \A i \in 1..Len(plan.steps) : Goes(Told(i), plan.steps[i], Told(i + 1))
<1>1. Path(Begun, Steps(config, plan.start), Ended(config))
  BY PlansAreInOrder DEF Planned, Places
<1>2. plan.steps = Steps(config, plan.start)
  BY DEF Planned, Plan
<1>3. plan.steps \in Seq(StepRecords)
  BY <1>1, <1>2 DEF Path
<1>4. \E w : Covers(Begun, w[1]) /\ Covers(w[Len(plan.steps) + 1], Ended(config))
             /\ Trail(w, plan.steps)
  BY <1>1, <1>2 DEF Path
<1> DEFINE w == Way(config, plan.steps)
<1>5. Covers(Begun, w[1]) /\ Covers(w[Len(plan.steps) + 1], Ended(config)) /\ Trail(w, plan.steps)
  BY <1>4 DEF Way
<1> HIDE DEF w
<1>6. \A i : Told(i) = w[i]
  BY DEF Told, w
<1>7. Len(plan.steps) \in Nat
  BY <1>3
<1> QED BY <1>3, <1>5, <1>6, <1>7 DEF Trail, Done

LEMMA StepShapes ==
  ASSUME Planned, NEW i \in 1..Len(plan.steps), NEW s, s = plan.steps[i]
  PROVE  /\ s \in StepRecords
         /\ s.kind \in {"contact", "center", "move"}
         /\ s.kind = "contact" => s.axis \in Axes /\ s.dir \in {-1, 1} /\ s.limit \in Int /\ s.tag \in Tags
         /\ s.kind = "center" => s.axis \in Sideways
         /\ s.kind = "move" => s.targets \in Seq([axis : Axes, name : MoveNames, offset : Int])
<1>1. s \in StepRecords
  BY ToldTrail
<1> QED BY <1>1 DEF StepRecords

LEMMA TargetsOfMoves ==
  ASSUME Planned, NEW i \in 1..Len(plan.steps), NEW s, s = plan.steps[i], s.kind = "move",
         NEW a \in AxesOf(s)
  PROVE  /\ a \in Axes
         /\ TargetOf(s, a) \in [axis : Axes, name : MoveNames, offset : Int]
         /\ TargetOf(s, a).axis = a
         /\ TargetOf(s, a).name \in Told(i).known \cup Starts
<1> DEFINE Ts == [axis : Axes, name : MoveNames, offset : Int]
           k == CHOOSE j \in DOMAIN s.targets : s.targets[j].axis = a
<1>1. s.targets \in Seq(Ts)
  BY StepShapes
<1>2. \A j \in DOMAIN s.targets : s.targets[j] \in Ts
  <2> HIDE DEF Ts
  <2> QED BY <1>1
<1>3. k \in DOMAIN s.targets /\ s.targets[k].axis = a
  BY DEF AxesOf
<1>4. TargetOf(s, a) = s.targets[k]
  BY DEF TargetOf
<1>5. GoesMove(Told(i), s, Told(i + 1))
  BY ToldTrail DEF Goes
<1> HIDE DEF k
<1>6. TargetOf(s, a) \in Ts /\ TargetOf(s, a).axis = a
  BY <1>2, <1>3, <1>4
<1>7. a \in Axes
  BY <1>6
<1> QED BY <1>3, <1>4, <1>5, <1>6, <1>7 DEF GoesMove

LEMMA ValueIsNumber ==
  ASSUME Planned, NEW f, Values(f), NEW n \in f.known \cup Starts
  PROVE  ValueOf(n) \in Int
<1>1. CASE n \in Starts
  <2>1. PICK a \in Axes : n = Start(a)
    BY <1>1 DEF Starts
  <2>2. n[1] = "start" /\ n[2] = a
    BY <2>1 DEF Start
  <2> QED BY <2>2 DEF ValueOf, Planned, Places
<1>2. CASE n \in f.known
  <2>1. n \in Surfaces /\ refs[n] \in Int
    BY <1>2 DEF Values
  <2>2. n[1] # "start"
    BY <2>1 DEF Surfaces
  <2> QED BY <2>1, <2>2 DEF ValueOf
<1> QED BY <1>1, <1>2

LEMMA GoalOfMove ==
  ASSUME Planned, Types, Phases, Known, AtStep("move")
  PROVE  /\ Goal(Here) \in Places /\ Len(plan.steps) \in Nat
         /\ \A a \in AxesOf(Here) : /\ a \in Axes
                                    /\ TargetOf(Here, a).name \in Told(index).known \cup Starts
                                    /\ ValueOf(TargetOf(Here, a).name) \in Int
                                    /\ TargetOf(Here, a).offset \in Int
         /\ \A a \in Axes :
              Goal(Here)[a] = IF a \in AxesOf(Here)
                                THEN ValueOf(TargetOf(Here, a).name) + TargetOf(Here, a).offset
                                ELSE position[a]
<1>1. Len(plan.steps) \in Nat
  BY ToldTrail
<1>2. PICK i \in 1..Len(plan.steps) : i = index /\ Here = plan.steps[i]
  BY <1>1 DEF AtStep, Done, Types, Phases, Here
<1>3. Here.kind = "move"
  BY DEF AtStep
<1>4. ASSUME NEW a \in AxesOf(Here)
      PROVE  a \in Axes /\ TargetOf(Here, a).name \in Told(index).known \cup Starts
             /\ ValueOf(TargetOf(Here, a).name) \in Int /\ TargetOf(Here, a).offset \in Int
  <2>1. a \in Axes /\ TargetOf(Here, a) \in [axis : Axes, name : MoveNames, offset : Int]
        /\ TargetOf(Here, a).name \in Told(index).known \cup Starts
    BY <1>2, <1>3, TargetsOfMoves
  <2>2. TargetOf(Here, a).offset \in Int
    BY <2>1
  <2>3. Values(Told(index))
    BY DEF Known, AtStep
  <2>4. ValueOf(TargetOf(Here, a).name) \in Int
    BY <2>1, <2>3, ValueIsNumber
  <2> QED BY <2>1, <2>2, <2>4
<1> DEFINE h == Here
<1> HIDE DEF h
<1>5. \A a \in Axes : Goal(h)[a] = IF a \in AxesOf(h)
                                     THEN ValueOf(TargetOf(h, a).name) + TargetOf(h, a).offset
                                     ELSE position[a]
  BY DEF Goal
<1>6. ASSUME NEW a \in Axes PROVE Goal(h)[a] \in Int
  <2>1. CASE a \in AxesOf(h)
    BY <1>4, <1>5, <2>1 DEF h
  <2>2. CASE a \notin AxesOf(h)
    BY <1>5, <2>2 DEF Types, Places
  <2> QED BY <2>1, <2>2
<1>7. Goal(h) \in Places
  BY <1>6 DEF Goal, Places
<1> QED BY <1>1, <1>4, <1>5, <1>7 DEF h

LEMMA StopsBetween ==
  ASSUME NEW from \in Places, NEW to \in Places, NEW p \in Stops(from, to)
  PROVE  /\ p \in Places
         /\ \A a \in Axes : Lesser(from[a], to[a]) <= p[a] /\ p[a] <= Greater(from[a], to[a])
<1> DEFINE on(a) == OnGrain(Between(from[a], to[a])) \cup {to[a]}
<1>1. \A a \in Axes : \A v \in on(a) : v \in Int /\ Lesser(from[a], to[a]) <= v /\ v <= Greater(from[a], to[a])
  BY DEF OnGrain, Between, Lesser, Greater, Places
<1>2. PICK x \in on("X"), y \in on("Y"), z \in on("Z") : p = [from EXCEPT !["X"] = x, !["Y"] = y, !["Z"] = z]
  BY DEF Stops
<1>3. x \in Int /\ y \in Int /\ z \in Int
  BY <1>1, PlainNames
<1>4. p \in Places /\ p["X"] = x /\ p["Y"] = y /\ p["Z"] = z
  BY <1>2, <1>3 DEF Places, Axes
<1> HIDE DEF on
<1>5. \A a \in Axes : a = "X" \/ a = "Y" \/ a = "Z"
  BY DEF Axes
<1> QED BY <1>1, <1>2, <1>4, <1>5

-----------------------------------------------------------------------------
(* What the steps of the machine do to it.                                 *)

Stopped(to) == at' \in Stops(at, to) \cup {at} /\ pc' = "failed" /\ outcome' \notin {"ok", "CoarseNoContact"}

LEMMA MoveCases ==
  ASSUME MoveStep
  PROVE  /\ pc = "step" /\ index < Done /\ Here.kind = "move" /\ Checked
         /\ UNCHANGED <<plan, origin, changed, op, refs, touches, actions, stage, legs, result>>
         /\ at = position /\ changed.what \notin {"wcs", "tool", "probe"}
         /\ config.family # "angle" => origin = plan.origin
         /\ \/ at' = Goal(Here) /\ position' = Goal(Here) /\ index' = index + 1
               /\ UNCHANGED <<pc, outcome>>
            \/ Stopped(Goal(Here)) /\ UNCHANGED <<position, index>>
<1> DEFINE goal == Goal(Here)
           arrived == /\ position' = goal /\ index' = index + 1
                      /\ UNCHANGED <<pc, outcome, stage, legs, result>>
<1>1. AtStep("move") /\ Checked /\ UNCHANGED <<plan, origin, changed, op, refs, touches, actions>>
      /\ IF goal = position THEN arrived /\ UNCHANGED at ELSE PositionStage(goal, arrived)
  BY DEF MoveStep
<1>2. at = position /\ changed.what \notin {"wcs", "tool", "probe"}
      /\ (config.family # "angle" => origin = plan.origin)
  BY <1>1 DEF Checked, check_state
<1> HIDE DEF goal
<1>3. pc = "step" /\ index < Done /\ Here.kind = "move"
  BY <1>1 DEF AtStep
<1>4. CASE goal = position
  BY <1>1, <1>2, <1>3, <1>4 DEF goal
<1>5. CASE goal # position
  BY <1>1, <1>2, <1>3, <1>5 DEF goal, PositionStage, Stopped, Fail
<1> QED BY <1>4, <1>5

LEMMA LegCases ==
  ASSUME Leg
  PROVE  /\ pc = "legs" /\ legs # <<>>
         /\ UNCHANGED <<plan, origin, changed, op, refs, touches, streamVars, actions, index, stage, result>>
         /\ \/ at' = Head(legs) /\ position' = Head(legs) /\ legs' = Tail(legs) /\ UNCHANGED <<pc, outcome>>
            \/ Stopped(Head(legs)) /\ UNCHANGED <<position, legs>>
            \/ pc' = "failed" /\ outcome' = "Preflight" /\ UNCHANGED <<at, position, legs>>
  BY DEF Leg, PositionStage, Stopped, Fail

LEMMA InitRInv == Init => RInv
<1> SUFFICES ASSUME Init PROVE RInv
  OBVIOUS
<1>1. PICK k \in Cases : plan = Plan(k.config, k.start, [a \in Axes |-> 0]) /\ at = k.start
                         /\ Reviewed(plan)
  BY DEF Init
<1>2. k.config \in Configs /\ k.start \in Places
  BY RoutineAssumption DEF Places
<1>3. plan.config = k.config /\ plan.start = k.start /\ plan.origin = [a \in Axes |-> 0]
  BY <1>1 DEF Plan
<1>4. Planned
  BY <1>1, <1>2, <1>3 DEF Planned, Reviewed, Valid, config, Places
<1>5. position = plan.start /\ origin = plan.origin /\ at = plan.start
  BY <1>1, <1>3 DEF Init
<1>6. refs \in [Surfaces -> Int \cup {None}] /\ ~result.settled
  BY DEF Init, NoRefs, NoResult
<1>7. result \in Results
  <2>1. [a \in Axes |-> None] \in [Axes -> Int \cup {None}]
    OBVIOUS
  <2> DEFINE n == [a \in Axes |-> None]
  <2> HIDE DEF n
  <2>2. [point |-> n, zeroed |-> FALSE, returned |-> FALSE, positioned |-> FALSE,
         settled |-> FALSE, offset |-> 0] \in Results
    BY <2>1 DEF Results, n
  <2> QED BY <2>2 DEF Init, NoResult, n
<1>8. changed \in [what : Changes \cup {"nothing"}, index : Int, stage : Int] /\ changed.what = "nothing"
  BY DEF Init, NoChange, Change
<1>9. Types
  BY <1>2, <1>3, <1>5, <1>6, <1>7, <1>8 DEF Types, Init, Places
<1>10. Phases /\ Fresh
  BY <1>5, <1>6, <1>8 DEF Phases, Fresh, Init
<1>11. Known /\ Legs
  BY DEF Known, Legs, Init
<1>12. Endings
  BY <1>6 DEF Endings, Ending, Init
<1> QED BY <1>4, <1>9, <1>10, <1>11, <1>12 DEF RInv

LEMMA PlanKept == ASSUME Next \/ UNCHANGED vars PROVE UNCHANGED plan \/ ZeroApplied
<1>1. CASE UNCHANGED vars
  BY <1>1 DEF vars
<1>2. CASE Begin \/ StepRefused \/ CenterStep \/ ContactBegin \/ StageRefused \/ ContactStage \/ ContactEnd
  BY <1>2 DEF Begin, StepRefused, CenterStep, ContactBegin, StageRefused, ContactStage, ContactEnd
<1>3. CASE MoveStep \/ StepsDone \/ ZeroQuery \/ WriteZero \/ RaiseAfterMiss \/ RestoreAfterFailure
  BY <1>3 DEF MoveStep, StepsDone, ZeroQuery, WriteZero, RaiseAfterMiss, RestoreAfterFailure
<1>4. CASE Finish \/ Report \/ Jog \/ ReturnToStart \/ (\E z \in Clearances : GoToMeasured(z))
  BY <1>4 DEF Finish, Report, Jog, ReturnToStart, GoToMeasured, Act
<1>5. CASE Leg \/ LegsDone \/ ZeroResult \/ ActionFailed \/ \E what \in Changes : Disturb(what)
  BY <1>5 DEF Leg, LegsDone, ZeroResult, ActionFailed, Disturb, Act
<1>6. CASE ZeroApplied
  BY <1>6
<1> QED BY <1>1, <1>2, <1>3, <1>4, <1>5, <1>6 DEF Next

LEMMA PlannedStep == RInv /\ [Next]_vars => Planned'
<1> SUFFICES ASSUME RInv, [Next]_vars PROVE Planned'
  OBVIOUS
<1>0. Planned /\ origin \in Places
  BY DEF RInv, Types
<1>1. CASE UNCHANGED plan
  BY <1>0, <1>1 DEF Planned, config
<1>2. CASE ZeroApplied
  <2>1. plan' = [plan EXCEPT !.origin = origin]
    BY <1>2 DEF ZeroApplied
  <2>2. plan' = Plan(plan.config, plan.start, origin)
    BY <1>0, <2>1 DEF Planned, Plan, config
  <2>3. plan'.config = plan.config /\ plan'.start = plan.start /\ plan'.origin = origin
    BY <2>2 DEF Plan
  <2>4. plan.steps = plan'.steps
    BY <1>0, <2>2 DEF Planned, Plan, config
  <2> QED BY <1>0, <2>2, <2>3, <2>4 DEF Planned, config
<1> QED BY <1>1, <1>2, PlanKept

-----------------------------------------------------------------------------
(* Types.                                                                  *)

LEMMA ShiftedPlace ==
  ASSUME at \in Places, NEW a \in Axes, NEW by \in Int
  PROVE  Shifted(a, by) \in Places /\ Shifted(a, by)[a] = at[a] + by
         /\ \A b \in Axes \ {a} : Shifted(a, by)[b] = at[b]
  BY DEF Shifted, Places

LEMMA PointKept ==
  ASSUME NEW r \in Results, NEW a \in Axes, NEW v \in Int \cup {None}
  PROVE  /\ [r EXCEPT !.point[a] = v] \in Results
         /\ [r EXCEPT !.point[a] = v].point = [r.point EXCEPT ![a] = v]
         /\ [r EXCEPT !.point[a] = v].settled = r.settled
<1>1. [r EXCEPT !.point[a] = v] = [r EXCEPT !.point = [r.point EXCEPT ![a] = v]]
  BY DEF Results
<1> DEFINE q == [r.point EXCEPT ![a] = v]
<1>2. q \in [Axes -> Int \cup {None}]
  BY DEF Results
<1> HIDE DEF q
<1>3. [r EXCEPT !.point = q] \in Results /\ [r EXCEPT !.point = q].point = q
      /\ [r EXCEPT !.point = q].settled = r.settled
  BY <1>2 DEF Results
<1> QED BY <1>1, <1>3 DEF q

LEMMA ResultKept ==
  ASSUME NEW r \in Results, NEW b \in BOOLEAN, NEW o \in Int
  PROVE  /\ [r EXCEPT !.zeroed = TRUE, !.offset = o] \in Results
         /\ [r EXCEPT !.zeroed = TRUE, !.offset = o].point = r.point
         /\ [r EXCEPT !.zeroed = TRUE, !.offset = o].offset = o
         /\ [r EXCEPT !.zeroed = TRUE, !.offset = o].settled = r.settled
         /\ [r EXCEPT !.returned = b] \in Results /\ [r EXCEPT !.returned = b].point = r.point
         /\ [r EXCEPT !.returned = b].settled = r.settled
         /\ [r EXCEPT !.positioned = b] \in Results /\ [r EXCEPT !.positioned = b].point = r.point
         /\ [r EXCEPT !.positioned = b].settled = r.settled
         /\ [r EXCEPT !.settled = TRUE] \in Results /\ [r EXCEPT !.settled = TRUE].point = r.point
<1>1. /\ [r EXCEPT !.zeroed = TRUE, !.offset = o] \in Results
      /\ [r EXCEPT !.zeroed = TRUE, !.offset = o].point = r.point
      /\ [r EXCEPT !.zeroed = TRUE, !.offset = o].offset = o
      /\ [r EXCEPT !.zeroed = TRUE, !.offset = o].settled = r.settled
  BY DEF Results
<1>2. /\ [r EXCEPT !.returned = b] \in Results /\ [r EXCEPT !.returned = b].point = r.point
      /\ [r EXCEPT !.returned = b].settled = r.settled
  BY DEF Results
<1>3. /\ [r EXCEPT !.positioned = b] \in Results /\ [r EXCEPT !.positioned = b].point = r.point
      /\ [r EXCEPT !.positioned = b].settled = r.settled
  BY DEF Results
<1>4. [r EXCEPT !.settled = TRUE] \in Results /\ [r EXCEPT !.settled = TRUE].point = r.point
  BY DEF Results
<1> QED BY <1>1, <1>2, <1>3, <1>4

(* The surface a step is about, and the numbers a contact goes by.         *)
LEMMA ContactShape ==
  ASSUME Planned, Types, Phases, pc = "contact" \/ AtStep("contact")
  PROVE  /\ Here = plan.steps[index] /\ index \in 1..Len(plan.steps) /\ index \in 1..Done
         /\ index + 1 \in 1..Done
         /\ Here.axis \in Axes /\ Here.dir \in {-1, 1} /\ Here.limit \in Int /\ Here.tag \in Tags
         /\ Surface(Here.axis, Here.tag) \in Surfaces
         /\ CoarseTravel \in Int /\ config.retract \in Int /\ config.radius \in Int
         /\ Slack \in Int /\ StageReach \in Int
         /\ CoarseTravel = IF Here.dir = 1 THEN Here.limit - position[Here.axis]
                           ELSE position[Here.axis] - Here.limit
         /\ Goes(Told(index), Here, Told(index + 1)) /\ Here.kind = "contact"
<1>1. Len(plan.steps) \in Nat
  BY ToldTrail
<1>2. index \in 1..Len(plan.steps) /\ index + 1 \in 1..Done /\ index \in 1..Done
  BY <1>1 DEF Phases, Done, AtStep
<1>3. Here.kind = "contact" /\ Here = plan.steps[index]
  BY DEF Phases, AtStep, Here
<1>4. Here.axis \in Axes /\ Here.dir \in {-1, 1} /\ Here.limit \in Int /\ Here.tag \in Tags
  BY <1>2, <1>3, StepShapes
<1>5. Surface(Here.axis, Here.tag) \in Surfaces
  BY <1>4, NamesAreApart
<1>6. config.retract \in Int /\ config.radius \in Int /\ Slack \in Int
  BY ValidRanges, PlanAssumption DEF Planned
<1>7. position[Here.axis] \in Int
  BY <1>4 DEF Types, Places
<1>8. CoarseTravel \in Int
      /\ CoarseTravel = IF Here.dir = 1 THEN Here.limit - position[Here.axis]
                        ELSE position[Here.axis] - Here.limit
  <2>1. CASE Here.dir = 1
    BY <1>4, <1>7, <2>1 DEF CoarseTravel
  <2>2. CASE Here.dir = -1
    BY <1>4, <1>7, <2>2 DEF CoarseTravel
  <2> QED BY <1>4, <2>1, <2>2
<1>9. StageReach \in Int
  BY <1>6, <1>8 DEF StageReach
<1>10. Goes(Told(index), Here, Told(index + 1))
  BY <1>2, <1>3, ToldTrail
<1> QED BY <1>2, <1>3, <1>4, <1>5, <1>6, <1>8, <1>9, <1>10

LEMMA StageNames ==
  /\ Stages[1] = "coarse" /\ Stages[2] = "retract" /\ Stages[3] = "fine" /\ Stages[4] = "retract"
  /\ \A k \in 1..4 : /\ Stages[k] = "fine" <=> k = 3
                     /\ Stages[k] = "retract" <=> k \in {2, 4}
                     /\ Stages[k] = "coarse" <=> k = 1
  BY DEF Stages

(* A stage of a contact: what it reaches, or that it fails.                *)
FineValue(a, d, p) == p[a] + (IF a = "Z" THEN -ProbeOffset[a] ELSE ProbeOffset[a] + d * config.radius)
Touches(a, d) ==
  /\ stage \in {1, 3} /\ stage' = stage + 1 /\ position' = at' /\ UNCHANGED <<pc, outcome>>
  /\ \E n \in 0..StageReach : at' = Shifted(a, d * n)
  /\ refs' = IF stage = 3 THEN [refs EXCEPT ![Surface(a, Here.tag)] = FineValue(a, d, at')] ELSE refs
BacksOff(a, d) ==
  /\ stage \in {2, 4} /\ stage' = stage + 1 /\ position' = at' /\ UNCHANGED <<pc, outcome, refs>>
  /\ at' = Shifted(a, -d * config.retract)
Misses(a, d) ==
  /\ stage \in {1, 3} /\ UNCHANGED <<stage, position, refs>> /\ pc' = "failed"
  /\ outcome' = IF stage = 1 THEN "CoarseNoContact" ELSE "NoContact"
  /\ at' = Shifted(a, d * StageReach)
Breaks(a, d) ==
  /\ UNCHANGED <<stage, position, refs>> /\ pc' = "failed" /\ outcome' = "Failed"
  /\ at' \in Stops(at, Shifted(a, IF stage \in {2, 4} THEN -d * config.retract ELSE d * StageReach))

LEMMA StageCases ==
  ASSUME Phases, ContactStage
  PROVE  /\ pc = "contact" /\ stage \in 1..4 /\ changed.what # "wcs" /\ at = position
         /\ UNCHANGED <<plan, origin, changed, op, index, legs, result, actions>>
         /\ \/ Touches(Here.axis, Here.dir) \/ BacksOff(Here.axis, Here.dir)
            \/ Misses(Here.axis, Here.dir) \/ Breaks(Here.axis, Here.dir)
<1> DEFINE a == Here.axis
           d == Here.dir
<1>1. pc = "contact" /\ stage <= 4 /\ changed.what # "wcs" /\ at = position
      /\ UNCHANGED <<plan, origin, changed, op, index, legs, result, actions>>
  BY DEF ContactStage
<1>2. stage \in 1..4
  BY <1>1 DEF Phases
<1>3. \/ Probe(a, d) /\ Stages[stage] # "retract"
      \/ BackOff(a, d) /\ Stages[stage] = "retract"
      \/ /\ \E p \in Stops(at, Shifted(a, IF Stages[stage] = "retract" THEN -d * config.retract
                                          ELSE d * StageReach)) : at' = p
         /\ Fail("Failed") /\ UNCHANGED <<stage, position, refs, touches>>
  BY DEF ContactStage
<1> SUFFICES Touches(a, d) \/ BacksOff(a, d) \/ Misses(a, d) \/ Breaks(a, d)
  BY <1>1, <1>2
<1>4. CASE Probe(a, d) /\ Stages[stage] # "retract"
  <2>1. stage \in {1, 3} /\ (Stages[stage] = "fine" <=> stage = 3) /\ (Stages[stage] = "coarse" <=> stage = 1)
    BY <1>2, <1>4, StageNames
  <2>2. CASE \E n \in 0..StageReach :
               /\ (at[a] + d * n) % Grain = 0
               /\ at' = Shifted(a, d * n) /\ position' = at' /\ stage' = stage + 1
               /\ refs' = IF Stages[stage] = "fine"
                            THEN [refs EXCEPT ![Surface(a, Here.tag)] =
                                    at'[a] + (IF a = "Z" THEN -ProbeOffset[a]
                                              ELSE ProbeOffset[a] + d * config.radius)]
                            ELSE refs
               /\ touches' = IF Stages[stage] = "fine" /\ config.family = "angle"
                               THEN Append(touches, at') ELSE touches
               /\ UNCHANGED <<pc, outcome>>
    <3>1. PICK n \in 0..StageReach : at' = Shifted(a, d * n)
      BY <2>2
    <3>2. position' = at' /\ stage' = stage + 1 /\ UNCHANGED <<pc, outcome>>
      BY <2>2
    <3>3. refs' = IF stage = 3 THEN [refs EXCEPT ![Surface(a, Here.tag)] = FineValue(a, d, at')] ELSE refs
      BY <2>1, <2>2 DEF FineValue
    <3> QED BY <2>1, <3>1, <3>2, <3>3 DEF Touches
  <2>3. CASE /\ at' = Shifted(a, d * StageReach)
             /\ Fail(IF Stages[stage] = "coarse" THEN "CoarseNoContact" ELSE "NoContact")
             /\ UNCHANGED <<stage, position, refs, touches>>
    <3>1. Misses(a, d)
      BY <2>1, <2>3 DEF Misses, Fail
    <3> QED BY <3>1
  <2> QED BY <1>4, <2>2, <2>3 DEF Probe
<1>5. CASE BackOff(a, d) /\ Stages[stage] = "retract"
  <2>1. stage \in {2, 4}
    BY <1>2, <1>5, StageNames
  <2>2. BacksOff(a, d)
    BY <1>5, <2>1 DEF BackOff, BacksOff
  <2> QED BY <2>2
<1>6. CASE /\ \E p \in Stops(at, Shifted(a, IF Stages[stage] = "retract" THEN -d * config.retract
                                            ELSE d * StageReach)) : at' = p
           /\ Fail("Failed") /\ UNCHANGED <<stage, position, refs, touches>>
  <2>1. Stages[stage] = "retract" <=> stage \in {2, 4}
    BY <1>2, StageNames
  <2>2. Breaks(a, d)
    BY <1>6, <2>1 DEF Breaks, Fail
  <2> QED BY <2>2
<1> QED BY <1>3, <1>4, <1>5, <1>6

LEMMA StagePlaces ==
  ASSUME RInv, ContactStage
  PROVE  /\ at' \in Places /\ position' \in Places
         /\ refs' \in [Surfaces -> Int \cup {None}] /\ stage' \in 0..5
         /\ pc' = "contact" => stage' \in 2..5
<1> DEFINE a == Here.axis
           d == Here.dir
<1>0. Planned /\ Types /\ Phases /\ pc = "contact"
  BY StageCases DEF RInv
<1>1. a \in Axes /\ d \in {-1, 1} /\ StageReach \in Int /\ config.retract \in Int
      /\ config.radius \in Int /\ Surface(a, Here.tag) \in Surfaces
  BY <1>0, ContactShape
<1>2. at \in Places /\ position \in Places /\ refs \in [Surfaces -> Int \cup {None}]
  BY <1>0 DEF Types
<1>3. stage \in 1..4
  BY <1>0, StageCases
<1>4. Touches(a, d) \/ BacksOff(a, d) \/ Misses(a, d) \/ Breaks(a, d)
  BY <1>0, StageCases
<1> HIDE DEF a, d
<1>5. CASE Touches(a, d)
  <2>1. PICK n \in 0..StageReach : at' = Shifted(a, d * n)
    BY <1>5 DEF Touches
  <2>2. n \in Int /\ d * n \in Int
    BY <1>1, Signed
  <2>3. at' \in Places
    BY <1>1, <1>2, <2>1, <2>2, ShiftedPlace
  <2>4. FineValue(a, d, at') \in Int
    <3>1. d * config.radius \in Int /\ ProbeOffset[a] \in Int /\ at'[a] \in Int
      BY <1>1, <2>3, Signed, PlanAssumption DEF Places
    <3> QED BY <3>1 DEF FineValue
  <2>5. refs' \in [Surfaces -> Int \cup {None}]
    <3> DEFINE v == FineValue(a, d, at')
               n1 == Surface(a, Here.tag)
    <3>1. refs' = [refs EXCEPT ![n1] = v] \/ refs' = refs
      BY <1>5 DEF Touches
    <3> HIDE DEF v, n1
    <3> QED BY <1>2, <2>4, <3>1 DEF v
  <2> QED BY <1>3, <1>5, <2>3, <2>5 DEF Touches
<1>6. CASE BacksOff(a, d)
  <2>1. -d * config.retract \in Int
    BY <1>1, Signed
  <2>2. at' \in Places
    BY <1>1, <1>2, <1>6, <2>1, ShiftedPlace DEF BacksOff
  <2> QED BY <1>2, <1>3, <1>6, <2>2 DEF BacksOff
<1>7. CASE Misses(a, d)
  <2>1. d * StageReach \in Int
    BY <1>1, Signed
  <2>2. at' \in Places
    BY <1>1, <1>2, <1>7, <2>1, ShiftedPlace DEF Misses
  <2> QED BY <1>2, <1>3, <1>7, <2>2 DEF Misses
<1>8. CASE Breaks(a, d)
  <2>1. -d * config.retract \in Int /\ d * StageReach \in Int
    BY <1>1, Signed
  <2>2. Shifted(a, -d * config.retract) \in Places /\ Shifted(a, d * StageReach) \in Places
    BY <1>1, <1>2, <2>1, ShiftedPlace
  <2>3. at' \in Places
    BY <1>2, <1>8, <2>2, StopsBetween DEF Breaks
  <2> QED BY <1>2, <1>3, <1>8, <2>3 DEF Breaks
<1> QED BY <1>4, <1>5, <1>6, <1>7, <1>8

LEMMA CenterShape ==
  ASSUME RInv, CenterStep
  PROVE  /\ Here.axis \in Axes /\ index \in 1..Done /\ index + 1 \in 1..Done
         /\ refs[Surface(Here.axis, "low")] \in Int /\ refs[Surface(Here.axis, "high")] \in Int
         /\ (refs[Surface(Here.axis, "low")] + refs[Surface(Here.axis, "high")]) \div 2 \in Int
         /\ Surface(Here.axis, "whole") \in Surfaces
         /\ GoesCenter(Told(index), Here, Told(index + 1)) /\ Here.kind = "center"
         /\ Here = plan.steps[index] /\ index \in 1..Len(plan.steps) /\ pc = "step" /\ Checked
<1>0. Planned /\ Types /\ Phases /\ Known /\ pc = "step" /\ index < Done /\ Here.kind = "center" /\ Checked
  BY DEF RInv, CenterStep, AtStep
<1>1. Len(plan.steps) \in Nat
  BY <1>0, ToldTrail
<1>2. index \in 1..Len(plan.steps) /\ index \in 1..Done /\ index + 1 \in 1..Done
  BY <1>0, <1>1 DEF Phases, Done
<1>3. Here = plan.steps[index]
  BY DEF Here
<1>4. Here.axis \in Axes
  BY <1>0, <1>2, <1>3, StepShapes, PlainNames
<1>5. GoesCenter(Told(index), Here, Told(index + 1))
  BY <1>0, <1>2, <1>3, ToldTrail DEF Goes
<1>6. refs[Surface(Here.axis, "low")] \in Int /\ refs[Surface(Here.axis, "high")] \in Int
  BY <1>0, <1>5 DEF GoesCenter, Known, Values
<1>7. \A l, h \in Int : (l + h) \div 2 \in Int
  OBVIOUS
<1>8. Surface(Here.axis, "whole") \in Surfaces
  BY <1>4, NamesAreApart, PlainNames
<1> QED BY <1>0, <1>2, <1>3, <1>4, <1>5, <1>6, <1>7, <1>8

LEMMA MeasuredPoints ==
  ASSUME Planned
  PROVE  MeasuredAxes(config) \subseteq Axes
  BY DEF MeasuredAxes

LEMMA ZeroPlaces ==
  ASSUME RInv, NEW z \in Int, Found
  PROVE  Zeroed(z) => origin' \in Places
  BY DEF RInv, Types, Found, Zeroed, Places

LEMMA TypesStep == RInv /\ [Next]_vars => Types'
<1> SUFFICES ASSUME RInv, [Next]_vars PROVE Types'
  OBVIOUS
<1>0. Planned /\ Types /\ Phases /\ Known /\ Endings /\ Places = [Axes -> Int] /\ result \in Results
  BY DEF RInv, Types, Places
<1> DEFINE Same == UNCHANGED <<at, origin, changed, position, refs, result, legs>>
<1>1. CASE Begin \/ StepRefused \/ ContactBegin \/ StageRefused
  <2>1. Same /\ index' \in {index, 1} /\ stage' \in {stage, 1}
    BY <1>1 DEF Begin, StepRefused, ContactBegin, StageRefused, Over, Fail, machineVars, localVars
  <2> QED BY <1>0, <2>1 DEF Types
<1>2. CASE RestoreAfterFailure \/ ZeroApplied
  <2>1. Same /\ UNCHANGED <<index, stage>>
    BY <1>2 DEF RestoreAfterFailure, ZeroApplied, machineVars, localVars
  <2> QED BY <1>0, <2>1 DEF Types
<1>3. CASE CenterStep
  <2> DEFINE a == Here.axis
             center == (refs[Surface(a, "low")] + refs[Surface(a, "high")]) \div 2
  <2>1. a \in Axes /\ center \in Int /\ Surface(a, "whole") \in Surfaces
    BY <1>3, CenterShape
  <2>2. /\ UNCHANGED <<at, origin, changed, position, stage, legs>>
        /\ \/ UNCHANGED <<index, refs, result>>
           \/ /\ index' = index + 1 /\ refs' = [refs EXCEPT ![Surface(a, "whole")] = center]
              /\ result' = [result EXCEPT !.point[a] = center]
    BY <1>3 DEF CenterStep, machineVars
  <2> HIDE DEF a, center
  <2>3. refs' \in [Surfaces -> Int \cup {None}]
    BY <1>0, <2>1, <2>2 DEF Types
  <2>4. result' \in Results
    <3>1. center \in Int \cup {None}
      BY <2>1
    <3>2. [result EXCEPT !.point[a] = center] \in Results
      BY <1>0, <2>1, <3>1, PointKept
    <3> QED BY <1>0, <2>2, <3>2
  <2>5. index' \in Nat
    BY <1>0, <2>2 DEF Types
  <2> QED BY <1>0, <2>2, <2>3, <2>4, <2>5 DEF Types
<1>4. CASE ContactStage
  <2>1. UNCHANGED <<origin, changed, index, legs, result>>
    BY <1>0, <1>4, StageCases
  <2> QED BY <1>0, <1>4, <2>1, StagePlaces DEF Types
<1>5. CASE ContactEnd
  <2> DEFINE a == Here.axis
             v == refs[Surface(a, "whole")]
  <2>1. a \in Axes
    BY <1>0, <1>5, ContactShape DEF ContactEnd
  <2>2. v \in Int \cup {None}
    <3>1. Surface(a, "whole") \in Surfaces
      BY <2>1, NamesAreApart, PlainNames
    <3> QED BY <1>0, <3>1 DEF Types
  <2>3. /\ UNCHANGED <<at, origin, changed, position, refs, legs>> /\ index' = index + 1 /\ stage' = 0
        /\ result' = [result EXCEPT !.point[a] = v] \/ result' = result
    BY <1>5 DEF ContactEnd, machineVars
  <2> HIDE DEF a, v
  <2>4. result' \in Results
    <3>1. [result EXCEPT !.point[a] = v] \in Results
      BY <1>0, <2>1, <2>2, PointKept
    <3> QED BY <1>0, <2>3, <3>1
  <2> QED BY <1>0, <2>3, <2>4 DEF Types
<1>6. CASE MoveStep
  <2>1. AtStep("move")
    BY <1>6 DEF MoveStep
  <2>2. Goal(Here) \in Places
    BY <1>0, <2>1, GoalOfMove
  <2> DEFINE goal == Goal(Here)
  <2>4. at \in Places /\ position \in Places /\ index \in Nat
    BY <1>0 DEF Types
  <2>5. \/ at' = goal /\ position' = goal /\ index' = index + 1
        \/ at' \in Stops(at, goal) \cup {at} /\ UNCHANGED <<position, index>>
    BY <1>6, MoveCases DEF Stopped
  <2>6. goal \in Places
    BY <2>2
  <2> HIDE DEF goal
  <2>7. Stops(at, goal) \subseteq Places
    BY <2>4, <2>6, StopsBetween
  <2>3. at' \in Places /\ position' \in Places /\ index' \in Nat
    BY <2>4, <2>5, <2>6, <2>7
  <2> QED BY <1>0, <1>6, <2>3, MoveCases DEF Types
<1>7. CASE StepsDone
  <2>1. UNCHANGED <<at, origin, changed, position, refs, legs, index, stage>>
        /\ (result' = result \/ result' = [result EXCEPT !.returned = (config.family = "angle")])
    BY <1>7 DEF StepsDone, machineVars, localVars
  <2> DEFINE b == config.family = "angle"
  <2>2. 0 \in Int
    OBVIOUS
  <2>3. b \in BOOLEAN
    OBVIOUS
  <2> HIDE DEF b
  <2>4. [result EXCEPT !.returned = b] \in Results
    BY <1>0, <2>2, <2>3, ResultKept
  <2>5. result' \in Results
    BY <1>0, <2>1, <2>4 DEF b
  <2> QED BY <1>0, <2>1, <2>5 DEF Types
<1>8. CASE ZeroQuery
  <2>1. UNCHANGED <<at, origin, changed, refs, result, legs, index, stage>> /\ position' \in {position, at}
    BY <1>8 DEF ZeroQuery, machineVars
  <2> QED BY <1>0, <2>1 DEF Types
<1>9. CASE WriteZero
  <2>1. Found
    BY <1>0, <1>9 DEF WriteZero, Endings, Ending, Phases
  <2>2. PICK z \in (IF op = "run" THEN {0} ELSE Offsets) :
          \/ Zeroed(z) /\ result' = [result EXCEPT !.zeroed = TRUE, !.offset = z]
          \/ (Zeroed(z) \/ UNCHANGED origin) /\ UNCHANGED result
    BY <1>9 DEF WriteZero
  <2>3. z \in Int
    BY <2>2, RoutineAssumption
  <2>4. origin' \in Places
    BY <1>0, <2>1, <2>2, <2>3, ZeroPlaces DEF Types
  <2>5. result' \in Results
    <3>1. TRUE \in BOOLEAN
      OBVIOUS
    <3>2. [result EXCEPT !.zeroed = TRUE, !.offset = z] \in Results
      BY <1>0, <2>3, <3>1, ResultKept
    <3> QED BY <1>0, <2>2, <3>2
  <2>6. UNCHANGED <<at, changed, position, refs, legs, index, stage>>
    BY <1>9 DEF WriteZero, localVars
  <2> QED BY <1>0, <2>4, <2>5, <2>6 DEF Types
<1>10. CASE RaiseAfterMiss
  <2> DEFINE lifted == [at EXCEPT !["Z"] = plan.start["Z"]]
  <2>1. lifted \in Places
    BY <1>0 DEF Types, Planned, Axes
  <2>2. at' \in {at, lifted} \cup Stops(at, lifted)
        /\ UNCHANGED <<origin, changed, position, refs, result, legs, index, stage>>
    BY <1>10 DEF RaiseAfterMiss, localVars
  <2> HIDE DEF lifted
  <2>3. at' \in Places
    BY <1>0, <2>1, <2>2, StopsBetween DEF Types
  <2> QED BY <1>0, <2>2, <2>3 DEF Types
<1>11. CASE Finish
  <2>1. UNCHANGED <<at, origin, changed, position, refs, legs, index, stage>>
        /\ (result' = result \/ result' = [result EXCEPT !.settled = TRUE])
    BY <1>11 DEF Finish, machineVars, localVars
  <2>2. [result EXCEPT !.settled = TRUE] \in Results
    BY <1>0 DEF Results
  <2>3. result' \in Results
    BY <1>0, <2>1, <2>2
  <2> QED BY <1>0, <2>1, <2>3 DEF Types
<1>12. CASE Report
  <2>1. UNCHANGED <<at, origin, changed>> /\ position' = at /\ refs' = NoRefs /\ legs' = <<>>
        /\ index' = 0 /\ stage' = 0 /\ (result' = result \/ result' = NoResult)
    BY <1>12 DEF Report, machineVars
  <2>2. NoRefs \in [Surfaces -> Int \cup {None}]
    BY DEF NoRefs
  <2>3. NoResult \in Results
    <3> DEFINE n == [a \in Axes |-> None]
    <3>1. n \in [Axes -> Int \cup {None}]
      OBVIOUS
    <3> HIDE DEF n
    <3>2. [point |-> n, zeroed |-> FALSE, returned |-> FALSE, positioned |-> FALSE,
           settled |-> FALSE, offset |-> 0] \in Results
      BY <3>1 DEF Results
    <3> QED BY <3>2 DEF NoResult, n
  <2>4. result' \in Results /\ legs' \in Seq(Places)
    BY <1>0, <2>1, <2>3
  <2> QED BY <1>0, <2>1, <2>2, <2>4 DEF Types
<1>13. CASE Jog
  <2>1. at' \in Places
    BY <1>0, <1>13, RoutineAssumption DEF Jog
  <2> QED BY <1>0, <1>13, <2>1 DEF Jog, Types, localVars
<1>14. CASE ReturnToStart
  <2> DEFINE beside == [plan.start EXCEPT !["Z"] = at["Z"]]
  <2>1. beside \in Places /\ plan.start \in Places
    BY <1>0 DEF Types, Planned, Axes
  <2>2. UNCHANGED <<at, origin, changed, refs, result>> /\ position' = at /\ index' = 0 /\ stage' = 0
        /\ legs' \in {legs, <<beside, plan.start>>}
    BY <1>14 DEF ReturnToStart, Act, machineVars
  <2> DEFINE start == plan.start
  <2> HIDE DEF beside, start
  <2>4. <<beside, start>> \in Seq(Places)
    BY <2>1 DEF start
  <2>5. legs \in Seq(Places)
    BY <1>0 DEF Types
  <2>3. legs' \in Seq(Places)
    BY <2>2, <2>4, <2>5 DEF start
  <2> QED BY <1>0, <2>2, <2>3 DEF Types
<1>15. CASE \E z \in Clearances : GoToMeasured(z)
  <2>1. PICK z \in Clearances : GoToMeasured(z)
    BY <1>15
  <2> DEFINE up == [at EXCEPT !["Z"] = @ + z]
             over == [a \in Axes |-> IF a \in MeasuredAxes(config)
                                     THEN result.point[a] - ProbeOffset[a] ELSE up[a]]
  <2>2. up \in Places
    BY <1>0, RoutineAssumption DEF Types, Axes
  <2>3. Found
    BY <1>0, <2>1 DEF GoToMeasured, Act, Endings
  <2>4. over \in Places
    BY <1>0, <2>2, <2>3, PlanAssumption DEF Found
  <2>5. UNCHANGED <<at, origin, changed, refs, result>> /\ position' = at /\ index' = 0 /\ stage' = 0
        /\ legs' \in {legs, <<up, over>>}
    BY <2>1 DEF GoToMeasured, Act, machineVars
  <2> HIDE DEF up, over
  <2>7. <<up, over>> \in Seq(Places)
    BY <2>2, <2>4
  <2>8. legs \in Seq(Places)
    BY <1>0 DEF Types
  <2>6. legs' \in Seq(Places)
    BY <2>5, <2>7, <2>8
  <2> QED BY <1>0, <2>5, <2>6 DEF Types
<1>16. CASE Leg
  <2>1. legs \in Seq(Places) /\ legs # <<>>
    BY <1>0, <1>16, LegCases DEF Types
  <2>2. Head(legs) \in Places /\ Tail(legs) \in Seq(Places)
    BY <2>1
  <2>3. at' \in Places /\ position' \in Places /\ legs' \in Seq(Places)
    BY <1>0, <1>16, <2>1, <2>2, LegCases, StopsBetween DEF Stopped, Types
  <2> QED BY <1>0, <1>16, <2>3, LegCases DEF Types
<1>17. CASE LegsDone
  <2>1. UNCHANGED <<at, origin, changed, position, refs, legs, index, stage>>
        /\ (\/ result' = result \/ result' = [result EXCEPT !.returned = TRUE]
            \/ result' = [result EXCEPT !.positioned = TRUE])
    BY <1>17 DEF LegsDone, machineVars, localVars
  <2>2. [result EXCEPT !.returned = TRUE] \in Results /\ [result EXCEPT !.positioned = TRUE] \in Results
    BY <1>0 DEF Results
  <2>3. result' \in Results
    BY <1>0, <2>1, <2>2
  <2> QED BY <1>0, <2>1, <2>3 DEF Types
<1>18. CASE ZeroResult
  BY <1>0, <1>18 DEF ZeroResult, Act, machineVars, Types
<1>19. CASE ActionFailed
  <2>1. legs' \in Seq(Places)
    BY <1>19 DEF ActionFailed
  <2> QED BY <1>0, <1>19, <2>1 DEF ActionFailed, machineVars, localVars, Types
<1>20. CASE \E what \in Changes : Disturb(what)
  <2>1. PICK what \in Changes : Disturb(what)
    BY <1>20
  <2>2. changed' = Change(what, index, stage) /\ UNCHANGED <<position, refs, result, legs, index, stage>>
    BY <2>1 DEF Disturb, localVars
  <2>3. changed' \in [what : Changes \cup {"nothing"}, index : Int, stage : Int]
    BY <1>0, <2>2 DEF Change, Types
  <2>4. \/ at' = at \/ \E a \in Axes : at' = [at EXCEPT ![a] = @ + Grain] \/ at' = [at EXCEPT ![a] = @ + -Grain]
    BY <2>1 DEF Disturb, Moved
  <2>5. Grain \in Int /\ -Grain \in Int
    BY RoutineAssumption
  <2>6. at' \in Places
    BY <1>0, <2>4, <2>5 DEF Types
  <2>7. origin' = origin \/ origin' = [origin EXCEPT !["X"] = @ + Grain]
    BY <2>1 DEF Disturb, Moved
  <2>8. origin' \in Places
    BY <1>0, <2>5, <2>7 DEF Types
  <2> QED BY <1>0, <2>2, <2>3, <2>6, <2>8 DEF Types
<1>21. CASE UNCHANGED vars
  BY <1>0, <1>21 DEF vars, machineVars, localVars, Types
<1> QED BY <1>1, <1>2, <1>3, <1>4, <1>5, <1>6, <1>7, <1>8, <1>9, <1>10, <1>11, <1>12, <1>13, <1>14,
           <1>15, <1>16, <1>17, <1>18, <1>19, <1>20, <1>21 DEF Next


-----------------------------------------------------------------------------
(* Which operation is where.                                               *)

LEMMA PlanSame ==
  ASSUME Planned, [Next]_vars
  PROVE  config' = config /\ plan'.steps = plan.steps /\ plan'.start = plan.start /\ Done' = Done
<1>1. plan'.steps = plan.steps /\ plan'.start = plan.start /\ plan'.config = plan.config
  <2>1. CASE UNCHANGED plan
    BY <2>1
  <2>2. CASE ZeroApplied
    <3>1. plan' = [plan EXCEPT !.origin = origin]
      BY <2>2 DEF ZeroApplied
    <3> QED BY <3>1 DEF Planned, Plan
  <2> QED BY <2>1, <2>2, PlanKept
<1> QED BY <1>1 DEF config, Done

LEMMA PhasesStep == RInv /\ [Next]_vars => Phases'
<1> SUFFICES ASSUME RInv, [Next]_vars PROVE Phases'
  OBVIOUS
<1>0. Planned /\ Types /\ Phases
  BY DEF RInv
<1>p. config' = config /\ plan'.steps = plan.steps /\ plan'.start = plan.start /\ Done' = Done
  BY <1>0, PlanSame
<1>n. Len(plan.steps) \in Nat /\ Done = Len(plan.steps) + 1 /\ index \in Nat /\ stage \in 0..5
  BY <1>0, ToldTrail DEF Done, Types
<1>h. index' = index => Here' = Here
  BY <1>p DEF Here
<1>1. CASE Begin
  <2>1. pc = "idle" /\ op = "none" /\ op' = "run" /\ UNCHANGED stage
        /\ \/ pc' = "step" /\ index' = 1
           \/ pc' = "over" /\ UNCHANGED index
    BY <1>1 DEF Begin, Over
  <2>2. pc' = "step" => stage' = 0
    BY <1>0, <2>1 DEF Phases
  <2> QED BY <1>n, <1>p, <2>1, <2>2 DEF Phases
<1>2. CASE StepRefused \/ StageRefused
  <2>1. pc \in {"step", "contact"} /\ pc' = "failed" /\ UNCHANGED <<op, index, stage, result>>
    BY <1>2 DEF StepRefused, StageRefused, Fail, localVars
  <2> QED BY <1>0, <2>1 DEF Phases
<1>3. CASE CenterStep
  <2>1. pc = "step" /\ index < Done /\ UNCHANGED <<op, stage>>
        /\ \/ pc' = "failed"
           \/ UNCHANGED pc /\ index' = index + 1
    BY <1>3 DEF CenterStep, AtStep, Fail
  <2> QED BY <1>0, <1>n, <1>p, <2>1 DEF Phases
<1>4. CASE ContactBegin
  <2>1. pc = "step" /\ index < Done /\ Here.kind = "contact" /\ UNCHANGED <<op, index>>
        /\ \/ pc' = "failed" /\ UNCHANGED stage
           \/ pc' = "contact" /\ stage' = 1
    BY <1>4 DEF ContactBegin, AtStep, Fail
  <2> QED BY <1>0, <1>h, <1>n, <1>p, <2>1 DEF Phases
<1>5. CASE ContactStage
  <2>1. pc = "contact" /\ UNCHANGED <<op, index>> /\ pc' \in {"contact", "failed"}
    BY <1>0, <1>5, StageCases DEF Touches, BacksOff, Misses, Breaks
  <2>2. pc' = "contact" => stage' \in 2..5
    BY <1>5, StagePlaces
  <2> QED BY <1>0, <1>h, <1>n, <1>p, <2>1, <2>2 DEF Phases
<1>6. CASE ContactEnd
  <2>1. pc = "contact" /\ pc' = "step" /\ index' = index + 1 /\ stage' = 0 /\ UNCHANGED op
    BY <1>6 DEF ContactEnd
  <2> QED BY <1>0, <1>n, <1>p, <2>1 DEF Phases
<1>7. CASE MoveStep
  <2>1. pc = "step" /\ index < Done /\ UNCHANGED <<op, stage>>
        /\ (\/ UNCHANGED pc /\ index' = index + 1
            \/ pc' = "failed")
    BY <1>7, MoveCases DEF Stopped
  <2> QED BY <1>0, <1>n, <1>p, <2>1 DEF Phases
<1>8. CASE StepsDone
  <2>1. pc = "step" /\ UNCHANGED <<op, index, stage>>
        /\ pc' \in {"failed", "finish"} \cup (IF config.zero THEN {"query"} ELSE {})
    BY <1>8 DEF StepsDone, Fail, localVars
  <2>2. config.family = "angle" => ~config.zero
    BY <1>0 DEF Planned, Valid, ValidConfig
  <2> QED BY <1>0, <1>p, <2>1, <2>2 DEF Phases
<1>9. CASE ZeroQuery
  <2>1. pc = "query" /\ UNCHANGED <<op, index, stage, result>> /\ pc' \in {"zero", "failed"}
    BY <1>9 DEF ZeroQuery, Fail
  <2> QED BY <1>0, <1>p, <2>1 DEF Phases
<1>10. CASE WriteZero
  <2>1. PICK z \in (IF op = "run" THEN {0} ELSE Offsets) :
          \/ /\ result' = [result EXCEPT !.zeroed = TRUE, !.offset = z]
             /\ pc' = (IF op = "run" THEN "finish" ELSE "applied")
          \/ Fail("Failed") /\ UNCHANGED result
    BY <1>10 DEF WriteZero
  <2>2. pc = "zero" /\ UNCHANGED <<op, index, stage>>
    BY <1>10 DEF WriteZero, localVars
  <2>3. result'.settled = result.settled
    <3>1. [result EXCEPT !.zeroed = TRUE, !.offset = z].settled = result.settled
      BY <1>0 DEF Types, Results
    <3> QED BY <2>1, <3>1
  <2> QED BY <1>0, <2>1, <2>2, <2>3 DEF Phases, Fail
<1>11. CASE RaiseAfterMiss \/ RestoreAfterFailure
  <2>1. pc \in {"failed", "restore"} /\ pc' \in {"restore", "over"} /\ UNCHANGED <<op, index, stage, result>>
        /\ op = "run"
    BY <1>0, <1>11 DEF RaiseAfterMiss, RestoreAfterFailure, Over, localVars, Phases
  <2> QED BY <1>0, <2>1 DEF Phases
<1>12. CASE Finish
  <2>1. pc = "finish" /\ pc' = "over" /\ UNCHANGED <<op, index, stage>>
    BY <1>12 DEF Finish, Over, localVars
  <2> QED BY <1>0, <2>1 DEF Phases
<1>13. CASE Report
  <2>1. pc = "over" /\ pc' = "idle" /\ UNCHANGED op
    BY <1>13 DEF Report
  <2> QED BY <1>0, <2>1 DEF Phases
<1>14. CASE Jog
  <2>1. pc = "idle" /\ result.settled /\ UNCHANGED <<op, pc>>
    BY <1>14 DEF Jog
  <2> QED BY <1>0, <2>1 DEF Phases
<1>15. CASE ReturnToStart \/ (\E z \in Clearances : GoToMeasured(z)) \/ ZeroResult
  <2>1. result.settled /\ UNCHANGED result /\ op' \in {"return", "measured", "zero"}
        /\ (\/ op' = "return" /\ pc' \in {"legs", "over"}
            \/ op' = "measured" /\ pc' \in {"legs", "over"}
            \/ op' = "zero" /\ pc' \in {"query", "over"})
    BY <1>15 DEF ReturnToStart, GoToMeasured, ZeroResult, Act, Over
  <2> QED BY <2>1 DEF Phases
<1>16. CASE Leg
  <2>1. pc = "legs" /\ pc' \in {"legs", "failed"} /\ UNCHANGED <<op, result>>
    BY <1>16, LegCases DEF Stopped
  <2> QED BY <1>0, <2>1 DEF Phases
<1>17. CASE LegsDone
  <2>1. pc = "legs" /\ pc' = "over" /\ UNCHANGED op
        /\ (\/ result' = result \/ result' = [result EXCEPT !.returned = TRUE]
            \/ result' = [result EXCEPT !.positioned = TRUE])
    BY <1>17 DEF LegsDone, Over
  <2>2. result'.settled = result.settled
    BY <1>0, <2>1 DEF Types, Results
  <2> QED BY <1>0, <2>1, <2>2 DEF Phases
<1>18. CASE ZeroApplied \/ ActionFailed
  <2>1. pc \in {"applied", "failed"} /\ pc' = "over" /\ UNCHANGED <<op, result>>
    BY <1>18 DEF ZeroApplied, ActionFailed, Over
  <2> QED BY <1>0, <2>1 DEF Phases
<1>19. CASE UNCHANGED vars \/ \E what \in Changes : Disturb(what)
  <2>1. UNCHANGED <<plan, pc, op, index, stage, result, position>>
    BY <1>19 DEF vars, Disturb, localVars
  <2> QED BY <1>0, <1>h, <1>p, <2>1 DEF Phases
<1> QED BY <1>1, <1>2, <1>3, <1>4, <1>5, <1>6, <1>7, <1>8, <1>9, <1>10, <1>11, <1>12, <1>13, <1>14,
           <1>15, <1>16, <1>17, <1>18, <1>19 DEF Next


-----------------------------------------------------------------------------
(* A change does not stay hidden.                                          *)

LEMMA Nudged ==
  ASSUME NEW p \in Places, NEW q \in Places, NEW what \in Changes, Disturb(what), at = p, origin = q
  PROVE  /\ what = "moved" => at' # p /\ origin' = q
         /\ what = "zero" => at' = p /\ origin' # q
         /\ what \notin {"moved", "zero"} => at' = p /\ origin' = q
<1>1. Grain \in Int /\ Grain # 0 /\ -Grain \in Int /\ -Grain # 0
  BY RoutineAssumption
<1>2. ASSUME NEW r \in Places, NEW a \in Axes, NEW v \in Int, v # 0 PROVE [r EXCEPT ![a] = @ + v] # r
  BY <1>2 DEF Places
<1>3. CASE what = "moved"
  <2>1. PICK a \in Axes : (at' = [at EXCEPT ![a] = @ + Grain] \/ at' = [at EXCEPT ![a] = @ + -Grain])
                          /\ UNCHANGED origin
    BY <1>3 DEF Disturb, Moved
  <2> QED BY <1>1, <1>2, <1>3, <2>1
<1>4. CASE what = "zero"
  <2>1. origin' = [origin EXCEPT !["X"] = @ + Grain] /\ UNCHANGED at
    BY <1>4 DEF Disturb
  <2> QED BY <1>1, <1>2, <1>4, <2>1, PlainNames
<1>5. CASE what \notin {"moved", "zero"}
  BY <1>5 DEF Disturb
<1> QED BY <1>3, <1>4, <1>5

LEMMA FreshStep == RInv /\ [Next]_vars => Fresh'
<1> SUFFICES ASSUME RInv, [Next]_vars PROVE Fresh'
  OBVIOUS
<1>0. Planned /\ Types /\ Phases /\ Fresh
  BY DEF RInv
<1>p. config' = config
  BY <1>0, PlanSame
<1>1. CASE Begin
  <2>1. UNCHANGED <<plan, at, origin, changed>> /\ op = "none" /\ op' = "run" /\ UNCHANGED position
        /\ pc' \in {"step", "over"}
    BY <1>1 DEF Begin, Over, machineVars
  <2> QED BY <1>0, <2>1 DEF Fresh
<1>2. CASE StepRefused \/ StageRefused
  <2>1. pc' = "failed" /\ op # "none" /\ UNCHANGED op
    BY <1>0, <1>2 DEF StepRefused, StageRefused, Fail, Phases
  <2> QED BY <2>1 DEF Fresh
<1>3. CASE CenterStep
  <2>1. UNCHANGED <<plan, at, origin, changed, op, position>> /\ pc = "step" /\ pc' \in {"step", "failed"}
    BY <1>3 DEF CenterStep, AtStep, Fail, machineVars
  <2>2. op' # "none"
    BY <1>0, <2>1 DEF Phases
  <2> QED BY <1>0, <2>1, <2>2 DEF Fresh
<1>4. CASE ContactBegin
  <2>1. UNCHANGED <<plan, at, origin, changed, op, position, index>> /\ pc = "step" /\ pc' \in {"contact", "failed"}
        /\ Checked
    BY <1>4 DEF ContactBegin, AtStep, Fail, machineVars
  <2>2. op' # "none"
    BY <1>0, <2>1 DEF Phases
  <2>3. changed.what \notin {"wcs", "tool", "probe"} /\ (config.family # "angle" => origin = plan.origin)
    BY <2>1 DEF Checked, check_state
  <2>4. changed.what = "zero" => config.family = "angle"
    BY <1>0, <2>1, <2>3 DEF Fresh
  <2> QED BY <1>0, <1>p, <2>1, <2>2, <2>3, <2>4 DEF Fresh
<1>5. CASE ContactStage
  <2>1. pc = "contact" /\ at = position /\ UNCHANGED <<plan, origin, changed, op, index>>
        /\ (pc' = "failed" \/ (pc' = "contact" /\ at' = position'))
    BY <1>0, <1>5, StageCases DEF Touches, BacksOff, Misses, Breaks
  <2>2. op' # "none"
    BY <1>0, <2>1 DEF Phases
  <2> QED BY <1>0, <1>p, <2>1, <2>2 DEF Fresh
<1>6. CASE ContactEnd
  <2>1. UNCHANGED <<plan, at, origin, changed, op, position>> /\ pc = "contact" /\ pc' = "step"
    BY <1>6 DEF ContactEnd, machineVars
  <2> QED BY <1>0, <2>1 DEF Fresh, Phases
<1>7. CASE MoveStep
  <2>1. pc = "step" /\ at = position /\ UNCHANGED <<plan, origin, changed, op>>
        /\ (pc' = "failed" \/ (pc' = "step" /\ at' = position'))
    BY <1>7, MoveCases DEF Stopped
  <2>2. op' # "none"
    BY <1>0, <2>1 DEF Phases
  <2> QED BY <1>0, <2>1, <2>2 DEF Fresh
<1>8. CASE StepsDone
  <2>1. UNCHANGED <<plan, at, origin, changed, op, index, stage>> /\ pc = "step" /\ Checked
        /\ pc' \in {"query", "finish", "failed"} /\ (pc' = "query" => config.zero)
    BY <1>8 DEF StepsDone, Fail, machineVars, localVars
  <2>2. op' = "run"
    BY <1>0, <2>1 DEF Phases
  <2>3. config.zero => config.family # "angle"
    BY <1>0 DEF Planned, Valid, ValidConfig
  <2>4. changed.what \notin {"wcs", "tool", "probe"} /\ at = position
        /\ (config.family # "angle" => origin = plan.origin)
    BY <2>1 DEF Checked, check_state
  <2>5. pc' = "query" => changed.what = "nothing"
    BY <1>0, <2>1, <2>3, <2>4 DEF Fresh, Types, Changes
  <2> QED BY <2>1, <2>2, <2>5 DEF Fresh
<1>9. CASE ZeroQuery
  <2>1. UNCHANGED <<changed, op, index, stage>> /\ pc = "query" /\ pc' \in {"zero", "failed"}
    BY <1>9 DEF ZeroQuery, Fail, machineVars
  <2>2. op' # "none"
    BY <1>0, <2>1 DEF Phases
  <2> QED BY <1>0, <2>1, <2>2 DEF Fresh
<1>10. CASE WriteZero \/ RaiseAfterMiss \/ RestoreAfterFailure \/ Finish \/ ZeroApplied \/ ActionFailed \/ LegsDone
            \/ Leg
  <2>1. UNCHANGED op /\ pc # "idle" /\ pc' \in {"finish", "applied", "failed", "restore", "over", "legs"}
    BY <1>10, LegCases DEF WriteZero, RaiseAfterMiss, RestoreAfterFailure, Finish, ZeroApplied, ActionFailed,
         LegsDone, Over, Fail, Stopped
  <2>2. op' # "none"
    BY <1>0, <2>1 DEF Phases
  <2> QED BY <2>1, <2>2 DEF Fresh
<1>11. CASE Report \/ Jog
  <2>1. UNCHANGED op /\ pc' = "idle" /\ (pc = "over" \/ result.settled)
    BY <1>11 DEF Report, Jog
  <2>2. op' # "none"
    BY <1>0, <2>1 DEF Phases
  <2> QED BY <2>1, <2>2 DEF Fresh
<1>12. CASE ReturnToStart \/ (\E z \in Clearances : GoToMeasured(z)) \/ ZeroResult
  <2>1. op' \in {"return", "measured", "zero"} /\ pc' \in {"legs", "over", "query"}
    BY <1>12 DEF ReturnToStart, GoToMeasured, ZeroResult, Act, Over
  <2> QED BY <2>1 DEF Fresh
<1>13. CASE \E what \in Changes : Disturb(what)
  <2>1. PICK what \in Changes : Disturb(what)
    BY <1>13
  <2>2. changed = NoChange /\ changed' = Change(what, index, stage)
        /\ UNCHANGED <<plan, pc, op, index, stage, position>>
    BY <2>1 DEF Disturb, localVars
  <2>3. changed.what = "nothing" /\ changed'.what = what /\ changed'.index = index /\ changed'.stage = stage
    BY <2>2 DEF NoChange, Change
  <2>4. at \in Places /\ origin \in Places
    BY <1>0 DEF Types
  <2>5. /\ what = "moved" => at' # at /\ origin' = origin
        /\ what = "zero" => at' = at /\ origin' # origin
        /\ what \notin {"moved", "zero"} => at' = at /\ origin' = origin
    BY <2>1, <2>4, Nudged
  <2>6. ASSUME op = "none" \/ pc \in {"step", "contact"}
        PROVE  (what = "moved" <=> at' # position) /\ (what = "zero" <=> origin' # plan.origin)
    <3>1. at = position /\ origin = plan.origin
      BY <1>0, <2>3, <2>6 DEF Fresh
    <3> QED BY <2>5, <3>1
  <2> QED BY <1>p, <2>2, <2>3, <2>6 DEF Fresh
<1>14. CASE UNCHANGED vars
  BY <1>0, <1>14 DEF vars, machineVars, localVars, Fresh, config
<1> QED BY <1>1, <1>2, <1>3, <1>4, <1>5, <1>6, <1>7, <1>8, <1>9, <1>10, <1>11, <1>12, <1>13, <1>14 DEF Next


-----------------------------------------------------------------------------
(* What the steps have told.                                               *)

LEMMA OtherValues ==
  ASSUME refs \in [Surfaces -> Int \cup {None}], NEW n0 \in Surfaces, NEW v,
         refs' = [refs EXCEPT ![n0] = v] \/ refs' = refs, plan'.start = plan.start
  PROVE  /\ \A n \in Surfaces \ {n0} : refs'[n] = refs[n]
         /\ \A n \in (Surfaces \cup Starts) \ {n0} : ValueOf(n)' = ValueOf(n)
<1>1. \A n \in Surfaces \ {n0} : refs'[n] = refs[n]
  OBVIOUS
<1>2. ASSUME NEW n \in (Surfaces \cup Starts) \ {n0} PROVE ValueOf(n)' = ValueOf(n)
  <2>1. CASE n \in Surfaces
    BY <1>1, <1>2, <2>1 DEF ValueOf
  <2>2. CASE n \in Starts
    <3>1. n[1] = "start"
      BY <2>2 DEF Starts, Start
    <3> QED BY <3>1 DEF ValueOf
  <2> QED BY <1>2, <2>1, <2>2
<1> QED BY <1>1, <1>2

(* A stage that ends well: only its own axis moves, only its own surface   *)
(* is written.                                                             *)
LEMMA StageKeeps ==
  ASSUME RInv, ContactStage, pc' = "contact"
  PROVE  /\ \A b \in Axes \ {Here.axis} : position'[b] = position[b]
         /\ \/ UNCHANGED refs /\ stage' # 4
            \/ \E v \in Int : refs' = [refs EXCEPT ![Surface(Here.axis, Here.tag)] = v]
         /\ stage' = 5 => stage = 4
<1> DEFINE a == Here.axis
           d == Here.dir
           n0 == Surface(a, Here.tag)
<1>0. Planned /\ Types /\ Phases /\ pc = "contact"
  BY StageCases DEF RInv
<1>1. a \in Axes /\ d \in {-1, 1} /\ StageReach \in Int /\ config.retract \in Int
      /\ config.radius \in Int /\ n0 \in Surfaces
  BY <1>0, ContactShape
<1>2. at \in Places /\ position \in Places /\ at = position /\ at' \in Places
  BY <1>0, StageCases, StagePlaces DEF Types
<1>3. Touches(a, d) \/ BacksOff(a, d) \/ Misses(a, d) \/ Breaks(a, d)
  BY <1>0, StageCases
<1> HIDE DEF a, d
<1>4. CASE Touches(a, d)
  <2>1. PICK n \in 0..StageReach : at' = Shifted(a, d * n)
    BY <1>4 DEF Touches
  <2>2. n \in Int /\ d * n \in Int
    BY <1>1, Signed
  <2>3. \A b \in Axes \ {a} : at'[b] = at[b]
    BY <1>1, <1>2, <2>1, <2>2, ShiftedPlace
  <2>4. FineValue(a, d, at') \in Int
    <3>1. d * config.radius \in Int /\ ProbeOffset[a] \in Int /\ at'[a] \in Int
      BY <1>1, <1>2, Signed, PlanAssumption DEF Places
    <3> QED BY <3>1 DEF FineValue
  <2>5. position' = at' /\ stage \in {1, 3} /\ stage' = stage + 1
        /\ (stage = 1 => UNCHANGED refs)
    BY <1>4 DEF Touches
  <2>6. stage = 3 => refs' = [refs EXCEPT ![n0] = FineValue(a, d, at')]
    BY <1>4 DEF Touches
  <2> QED BY <1>2, <2>3, <2>4, <2>5, <2>6 DEF a
<1>5. CASE BacksOff(a, d)
  <2>1. -d * config.retract \in Int
    BY <1>1, Signed
  <2>2. \A b \in Axes \ {a} : at'[b] = at[b]
    BY <1>1, <1>2, <1>5, <2>1, ShiftedPlace DEF BacksOff
  <2>3. position' = at' /\ UNCHANGED refs /\ stage \in {2, 4} /\ stage' = stage + 1
    BY <1>5 DEF BacksOff
  <2> QED BY <1>2, <2>2, <2>3 DEF a
<1>6. CASE Misses(a, d) \/ Breaks(a, d)
  BY <1>6 DEF Misses, Breaks
<1> QED BY <1>3, <1>4, <1>5, <1>6

LEMMA KnownBegin ==
  ASSUME RInv, Begin
  PROVE  Known'
<1>0. Planned /\ Phases
  BY DEF RInv
<1>1. op = "none" /\ UNCHANGED <<plan, position, refs, result>> /\ (pc' = "over" \/ (pc' = "step" /\ index' = 1))
  BY DEF Begin, Over
<1>2. position = plan.start /\ plan.start \in Places
  BY <1>0, <1>1 DEF Phases, Planned
<1> DEFINE f == Told(1)
<1>3. f.known = {} /\ f.places \subseteq Home
  BY <1>0, ToldTrail DEF Covers, Begun, Facts
<1>4. Told(1)' = f
  BY <1>1 DEF Told, config
<1> HIDE DEF f
<1>5. ASSUME NEW t \in Home
      PROVE  t[1] \in Axes /\ t[2] \in Surfaces \cup Starts /\ position'[t[1]] = ValueOf(t[2])' + t[3]
  <2>1. PICK a \in Axes : t = <<a, Start(a), 0>>
    BY DEF Home
  <2>2. t[1] = a /\ t[2] = Start(a) /\ t[3] = 0 /\ Start(a) \in Starts /\ Start(a)[1] = "start" /\ Start(a)[2] = a
    BY <2>1, PlainNames DEF Start
  <2>3. ValueOf(Start(a))' = plan.start[a]
    BY <1>1, <2>2 DEF ValueOf
  <2>4. plan.start[a] \in Int
    BY <1>2 DEF Places
  <2> QED BY <1>1, <1>2, <2>2, <2>3, <2>4
<1>6. CASE pc' = "step" /\ index' = 1
  <2>1. Told(index)' = f
    BY <1>1, <1>6 DEF Told, config, f
  <2>2. Values(Told(index))' /\ Points(Told(index))'
    BY <1>3, <2>1 DEF Values, Points
  <2>3. Stands(Told(index))'
    BY <1>3, <1>5, <2>1 DEF Stands
  <2> QED BY <1>6, <2>2, <2>3 DEF Known
<1> QED BY <1>1, <1>6 DEF Known

LEMMA KnownCenter ==
  ASSUME RInv, CenterStep, [Next]_vars
  PROVE  Known'
<1>0. Planned /\ Types /\ Phases /\ Known
  BY DEF RInv
<1> DEFINE a == Here.axis
           n0 == Surface(a, "whole")
           f == Told(index)
           g == Told(index + 1)
           center == (refs[Surface(a, "low")] + refs[Surface(a, "high")]) \div 2
<1>1. a \in Axes /\ n0 \in Surfaces /\ center \in Int /\ GoesCenter(f, Here, g) /\ pc = "step"
  BY CenterShape
<1>2. \/ pc' = "failed"
      \/ /\ index' = index + 1 /\ refs' = [refs EXCEPT ![n0] = center] /\ UNCHANGED pc
         /\ result' = [result EXCEPT !.point[a] = center]
  BY DEF CenterStep, Fail
<1>3. UNCHANGED <<plan, position>>
  BY DEF CenterStep
<1>4. Values(f) /\ Points(f) /\ Stands(f)
  BY <1>0, <1>1 DEF Known
<1>5. g.known \subseteq f.known \cup {n0} /\ \A t \in g.places : t \in f.places /\ t[2] # n0
  BY <1>1 DEF GoesCenter
<1>6. refs \in [Surfaces -> Int \cup {None}] /\ result \in Results
  BY <1>0 DEF Types
<1> SUFFICES ASSUME index' = index + 1, refs' = [refs EXCEPT ![n0] = center], pc' = "step",
                    result' = [result EXCEPT !.point[a] = center]
             PROVE  Known'
  BY <1>1, <1>2 DEF Known
<1>7. Told(index)' = g
  BY <1>3 DEF Told, config
<1>8. result'.point = [result.point EXCEPT ![a] = center] /\ result.point \in [Axes -> Int \cup {None}]
  <2>1. center \in Int \cup {None}
    BY <1>1
  <2> HIDE DEF center, a
  <2>2. [result EXCEPT !.point[a] = center].point = [result.point EXCEPT ![a] = center]
    BY <1>1, <1>6, <2>1, PointKept
  <2> QED BY <1>6, <2>2 DEF Results
<1> HIDE DEF f, g, center, a
<1>9. \A n \in Surfaces \ {n0} : refs'[n] = refs[n]
  BY <1>6
<1>10. \A n \in (Surfaces \cup Starts) \ {n0} : ValueOf(n)' = ValueOf(n)
  BY <1>1, <1>3, <1>6, OtherValues
<1>11. refs'[n0] = center /\ result'.point[a] = center
  BY <1>1, <1>6, <1>8
<1>12. \A n \in g.known : n \in Surfaces /\ refs'[n] \in Int
  BY <1>1, <1>4, <1>5, <1>9, <1>11 DEF Values
<1>13. ASSUME NEW b \in Axes, Surface(b, "whole") \in g.known
       PROVE  result'.point[b] = refs'[Surface(b, "whole")]
  <2>1. CASE b = a
    BY <1>11, <2>1
  <2>2. CASE b # a
    <3>1. Surface(b, "whole") # n0 /\ Surface(b, "whole") \in Surfaces
      BY <1>1, <2>2, NamesAreApart, PlainNames
    <3> QED BY <1>4, <1>5, <1>8, <1>9, <1>13, <2>2, <3>1 DEF Points
  <2> QED BY <2>1, <2>2
<1>14. \A t \in g.places : /\ t[1] \in Axes /\ t[2] \in Surfaces \cup Starts
                           /\ position'[t[1]] = ValueOf(t[2])' + t[3]
  BY <1>3, <1>4, <1>5, <1>10 DEF Stands
<1>15. Values(Told(index))' /\ Points(Told(index))' /\ Stands(Told(index))'
  BY <1>7, <1>12, <1>13, <1>14 DEF Values, Points, Stands
<1> QED BY <1>15 DEF Known


LEMMA KnownContact ==
  ASSUME RInv, ContactBegin \/ ContactStage, [Next]_vars
  PROVE  Known'
<1>0. Planned /\ Types /\ Phases /\ Known
  BY DEF RInv
<1> DEFINE a == Here.axis
           n0 == Surface(a, Here.tag)
           f == Told(index)
           g == Told(index + 1)
<1>1. UNCHANGED <<plan, index, result>> /\ pc \in {"step", "contact"} /\ (pc = "step" => AtStep("contact"))
      /\ pc' \in {"contact", "failed"}
  BY <1>0, StageCases DEF ContactBegin, Touches, BacksOff, Misses, Breaks, Fail, AtStep
<1>2. n0 \in Surfaces /\ a \in Axes /\ GoesContact(f, Here, g)
  BY <1>0, <1>1, ContactShape DEF Goes
<1>3. /\ g.known \subseteq f.known \cup {n0}
      /\ \A t \in g.places : t \in f.places /\ t[1] # a /\ t[2] # n0
  BY <1>2 DEF GoesContact
<1>4. Told(index)' = f /\ Told(index + 1)' = g /\ Here' = Here
  BY <1>1 DEF Told, config, Here
<1>5. refs \in [Surfaces -> Int \cup {None}]
  BY <1>0 DEF Types
<1>6. /\ Values(f)
      /\ \A b \in Axes : Surface(b, "whole") \in f.known /\ Surface(b, "whole") # n0 =>
           result.point[b] = refs[Surface(b, "whole")]
      /\ \A t \in g.places : /\ t[1] \in Axes /\ t[2] \in Surfaces \cup Starts
                             /\ position[t[1]] = ValueOf(t[2]) + t[3]
  <2>1. CASE pc = "contact"
    BY <1>0, <2>1 DEF Known, Stands
  <2>2. CASE pc = "step"
    BY <1>0, <1>3, <2>2 DEF Known, Stands, Points
  <2> QED BY <1>1, <2>1, <2>2
<1> SUFFICES ASSUME pc' = "contact" PROVE Known'
  BY <1>1 DEF Known
<1>7. /\ \A b \in Axes \ {a} : position'[b] = position[b]
      /\ \/ UNCHANGED refs
         \/ \E v \in Int : refs' = [refs EXCEPT ![n0] = v]
      /\ stage' \in 4..5 => refs'[n0] \in Int
  <2>1. CASE ContactStage
    <3>1. /\ \A b \in Axes \ {a} : position'[b] = position[b]
          /\ \/ UNCHANGED refs /\ stage' # 4
             \/ \E v \in Int : refs' = [refs EXCEPT ![n0] = v]
          /\ stage' = 5 => stage = 4
      BY <2>1, StageKeeps
    <3>2. stage = 4 => refs[n0] \in Int
      BY <1>0, <2>1 DEF Known, ContactStage
    <3>3. (\E v \in Int : refs' = [refs EXCEPT ![n0] = v]) => refs'[n0] \in Int
      BY <1>2, <1>5
    <3>4. ASSUME stage' \in 4..5 PROVE refs'[n0] \in Int
      <4>1. CASE UNCHANGED refs /\ stage' # 4
        <5>1. stage' = 5
          BY <3>4, <4>1
        <5> QED BY <3>1, <3>2, <4>1, <5>1
      <4> QED BY <3>1, <3>3, <4>1
    <3> QED BY <3>1, <3>4
  <2>2. CASE ContactBegin
    <3>1. UNCHANGED <<position, refs>> /\ stage' = 1
      BY <2>2 DEF ContactBegin, Fail
    <3> QED BY <3>1
  <2> QED BY <2>1, <2>2
<1>8. PICK v \in Int : refs' = [refs EXCEPT ![n0] = v] \/ refs' = refs
  <2>1. 0 \in Int
    OBVIOUS
  <2> QED BY <1>7, <2>1
<1> HIDE DEF f, g, n0, a
<1>9. \A n \in Surfaces \ {n0} : refs'[n] = refs[n]
  BY <1>2, <1>5, <1>8
<1>10. \A n \in (Surfaces \cup Starts) \ {n0} : ValueOf(n)' = ValueOf(n)
  BY <1>1, <1>2, <1>5, <1>8, OtherValues
<1>11. \A n \in f.known : n \in Surfaces /\ refs'[n] \in Int
  BY <1>2, <1>5, <1>6, <1>8 DEF Values
<1>12. \A b \in Axes : Surface(b, "whole") \in f.known /\ Surface(b, "whole") # n0 =>
         result'.point[b] = refs'[Surface(b, "whole")]
  BY <1>1, <1>6, <1>9, NamesAreApart, PlainNames
<1>13. \A t \in g.places : /\ t[1] \in Axes /\ t[2] \in Surfaces \cup Starts
                           /\ position'[t[1]] = ValueOf(t[2])' + t[3]
  BY <1>3, <1>6, <1>7, <1>10
<1>14. Values(Told(index))' /\ Stands(Told(index + 1))'
  BY <1>4, <1>11, <1>13 DEF Values, Stands
<1>16. n0 = Surface(Here'.axis, Here'.tag)
  BY <1>4 DEF n0, a
<1> QED BY <1>1, <1>4, <1>7, <1>12, <1>14, <1>16 DEF Known

LEMMA KnownContactEnd ==
  ASSUME RInv, ContactEnd, [Next]_vars
  PROVE  Known'
<1>0. Planned /\ Types /\ Phases /\ Known
  BY DEF RInv
<1> DEFINE a == Here.axis
           n0 == Surface(a, Here.tag)
           f == Told(index)
           g == Told(index + 1)
<1>1. /\ UNCHANGED <<plan, refs, position>> /\ index' = index + 1 /\ pc = "contact" /\ stage = 5 /\ pc' = "step"
      /\ result' = IF Here.tag = "whole" THEN [result EXCEPT !.point[a] = refs[Surface(a, "whole")]] ELSE result
  BY DEF ContactEnd
<1>2. n0 \in Surfaces /\ a \in Axes /\ Here.tag \in Tags /\ GoesContact(f, Here, g)
  BY <1>0, <1>1, ContactShape DEF Goes
<1>3. g.known \subseteq f.known \cup {n0}
  BY <1>2 DEF GoesContact
<1>4. Told(index)' = g
  BY <1>1 DEF Told, config
<1>5. /\ Values(f) /\ refs[n0] \in Int
      /\ \A b \in Axes : Surface(b, "whole") \in f.known /\ Surface(b, "whole") # n0 =>
           result.point[b] = refs[Surface(b, "whole")]
      /\ Stands(g)
  BY <1>0, <1>1 DEF Known
<1>6. /\ Here.tag = "whole" => result'.point = [result.point EXCEPT ![a] = refs[n0]]
      /\ Here.tag # "whole" => result'.point = result.point
      /\ result.point \in [Axes -> Int \cup {None}]
  <2> DEFINE v == refs[n0]
  <2>1. v \in Int \cup {None} /\ result \in Results
    BY <1>0, <1>5 DEF Types
  <2> HIDE DEF v, a
  <2>2. [result EXCEPT !.point[a] = v].point = [result.point EXCEPT ![a] = v]
    BY <1>2, <2>1, PointKept
  <2> QED BY <1>1, <2>1, <2>2 DEF v, Results
<1> HIDE DEF f, g, a
<1>7. \A n \in g.known : n \in Surfaces /\ refs'[n] \in Int
  BY <1>1, <1>2, <1>3, <1>5 DEF Values
<1>8. ASSUME NEW b \in Axes, Surface(b, "whole") \in g.known
      PROVE  result'.point[b] = refs'[Surface(b, "whole")]
  <2>1. CASE Surface(b, "whole") = n0
    <3>1. b = a /\ Here.tag = "whole"
      BY <1>2, <2>1, NamesAreApart, PlainNames
    <3> QED BY <1>1, <1>2, <1>6, <2>1, <3>1
  <2>2. CASE Surface(b, "whole") # n0
    <3>1. Here.tag = "whole" => b # a
      BY <2>2
    <3> QED BY <1>1, <1>2, <1>3, <1>5, <1>6, <1>8, <2>2, <3>1
  <2> QED BY <2>1, <2>2
<1>9. Values(Told(index))' /\ Points(Told(index))'
  BY <1>4, <1>7, <1>8 DEF Values, Points
<1>10. Stands(Told(index))'
  <2>1. \A n : ValueOf(n)' = ValueOf(n)
    BY <1>1 DEF ValueOf
  <2> QED BY <1>1, <1>4, <1>5, <2>1 DEF Stands
<1> QED BY <1>1, <1>9, <1>10 DEF Known


LEMMA KnownMove ==
  ASSUME RInv, MoveStep, [Next]_vars
  PROVE  Known'
<1>0. Planned /\ Types /\ Phases /\ Known
  BY DEF RInv
<1> DEFINE f == Told(index)
           g == Told(index + 1)
           h == Here
           goal == Goal(h)
<1>1. /\ AtStep("move") /\ UNCHANGED <<plan, refs, result>>
      /\ \/ position' = goal /\ index' = index + 1 /\ UNCHANGED pc
         \/ pc' = "failed"
  BY MoveCases DEF Stopped, AtStep
<1>2. pc = "step" /\ index < Done /\ h.kind = "move" /\ h = plan.steps[index]
  BY <1>1 DEF AtStep, Here
<1>3. /\ \A a \in AxesOf(h) : TargetOf(h, a).name \in f.known \cup Starts
      /\ \A a \in Axes : goal[a] = IF a \in AxesOf(h)
                                     THEN ValueOf(TargetOf(h, a).name) + TargetOf(h, a).offset
                                     ELSE position[a]
      /\ \A a \in AxesOf(h) : a \in Axes
  BY <1>0, <1>1, GoalOfMove
<1>4. GoesMove(f, h, g)
  <2>1. index \in 1..Len(plan.steps)
    BY <1>0, <1>2, ToldTrail DEF Phases, Done
  <2> QED BY <1>0, <1>2, <2>1, ToldTrail DEF Goes
<1>5. Values(f) /\ Points(f) /\ Stands(f)
  BY <1>0, <1>2 DEF Known
<1> SUFFICES ASSUME position' = goal, index' = index + 1, pc' = "step" PROVE Known'
  BY <1>1, <1>2 DEF Known
<1>6. Told(index)' = g
  BY <1>1 DEF Told, config
<1>7. \A n : ValueOf(n)' = ValueOf(n)
  BY <1>1 DEF ValueOf
<1> HIDE DEF f, g, h, goal
<1>9. ASSUME NEW t \in g.places
      PROVE  t[1] \in Axes /\ t[2] \in Surfaces \cup Starts /\ goal[t[1]] = ValueOf(t[2]) + t[3]
  <2>1. CASE t[1] \in AxesOf(h)
    <3>1. t[2] = TargetOf(h, t[1]).name /\ t[3] = TargetOf(h, t[1]).offset
      BY <1>4, <2>1 DEF GoesMove
    <3>2. t[2] \in Surfaces \cup Starts
      BY <1>3, <1>5, <2>1, <3>1 DEF Values
    <3> QED BY <1>3, <2>1, <3>1, <3>2
  <2>2. CASE t[1] \notin AxesOf(h)
    <3>1. t \in f.places
      BY <1>4, <2>2 DEF GoesMove
    <3> QED BY <1>3, <1>5, <2>2, <3>1 DEF Stands
  <2> QED BY <2>1, <2>2
<1>10. \A t \in g.places : /\ t[1] \in Axes /\ t[2] \in Surfaces \cup Starts
                           /\ position'[t[1]] = ValueOf(t[2])' + t[3]
  BY <1>7, <1>9
<1>11. Values(Told(index))' /\ Points(Told(index))'
  BY <1>1, <1>4, <1>5, <1>6 DEF GoesMove, Values, Points
<1>12. Stands(Told(index))'
  BY <1>6, <1>10 DEF Stands
<1> QED BY <1>11, <1>12 DEF Known

LEMMA KnownStep == RInv /\ [Next]_vars => Known'
<1> SUFFICES ASSUME RInv, [Next]_vars PROVE Known'
  OBVIOUS
<1>1. CASE Begin \/ CenterStep \/ ContactBegin \/ ContactStage \/ ContactEnd \/ MoveStep
  BY <1>1, KnownBegin, KnownCenter, KnownContact, KnownContactEnd, KnownMove
<1>2. CASE StepRefused \/ StageRefused \/ StepsDone \/ ZeroQuery \/ WriteZero \/ RaiseAfterMiss
           \/ RestoreAfterFailure \/ Finish \/ Report \/ Jog
  <2>1. pc' \notin {"step", "contact"}
    BY <1>2 DEF StepRefused, StageRefused, StepsDone, ZeroQuery, WriteZero, RaiseAfterMiss,
         RestoreAfterFailure, Finish, Report, Jog, Over, Fail
  <2> QED BY <2>1 DEF Known
<1>3. CASE ReturnToStart \/ (\E z \in Clearances : GoToMeasured(z)) \/ Leg \/ LegsDone \/ ZeroResult
           \/ ZeroApplied \/ ActionFailed
  <2>1. pc' \notin {"step", "contact"}
    BY <1>3, LegCases DEF ReturnToStart, GoToMeasured, LegsDone, ZeroResult, ZeroApplied, ActionFailed,
         Act, Over, Fail, Stopped
  <2> QED BY <2>1 DEF Known
<1>4. CASE UNCHANGED vars \/ \E what \in Changes : Disturb(what)
  <2>1. UNCHANGED <<plan, pc, index, stage, position, refs, result>>
    BY <1>4 DEF vars, Disturb, localVars
  <2>2. Told(index)' = Told(index) /\ Told(index + 1)' = Told(index + 1) /\ Here' = Here
    BY <2>1 DEF Told, config, Here
  <2>3. \A f : (Values(f)' <=> Values(f)) /\ (Points(f)' <=> Points(f)) /\ (Stands(f)' <=> Stands(f))
    BY <2>1 DEF Values, Points, Stands, ValueOf
  <2>4. Known
    BY DEF RInv
  <2> QED BY <2>1, <2>2, <2>3, <2>4 DEF Known, Values, Points, Stands, ValueOf
<1> QED BY <1>1, <1>2, <1>3, <1>4 DEF Next


-----------------------------------------------------------------------------
(* Where a routine ends.                                                   *)

(* Once every axis is measured it stays so.                                *)
LEMMA FoundKept ==
  ASSUME RInv, [Next]_vars
  PROVE  /\ Found => (Found' \/ Report)
         /\ result'.settled => result.settled \/ Finish
         /\ ~(CenterStep \/ ContactEnd \/ Report) => result'.point = result.point
<1>0. Planned /\ Types /\ Phases /\ Known /\ result \in Results
  BY DEF RInv, Types
<1>p. MeasuredAxes(config)' = MeasuredAxes(config) /\ MeasuredAxes(config) \subseteq Axes
  BY <1>0, PlanSame, MeasuredPoints
<1>1. CASE Begin \/ StepRefused \/ ContactBegin \/ StageRefused \/ ContactStage \/ MoveStep \/ ZeroQuery
           \/ RaiseAfterMiss \/ RestoreAfterFailure
  <2>1. UNCHANGED result
    BY <1>0, <1>1, StageCases, MoveCases DEF Begin, StepRefused, ContactBegin, StageRefused, ZeroQuery,
         RaiseAfterMiss, RestoreAfterFailure
  <2>2. result'.point = result.point
    BY <2>1
  <2> QED BY <1>p, <2>1, <2>2 DEF Found
<1>2. CASE Jog \/ ReturnToStart \/ (\E z \in Clearances : GoToMeasured(z)) \/ Leg \/ ZeroResult \/ ZeroApplied
           \/ ActionFailed \/ UNCHANGED vars \/ \E what \in Changes : Disturb(what)
  <2>1. UNCHANGED result
    BY <1>2, LegCases DEF Jog, ReturnToStart, GoToMeasured, ZeroResult, ZeroApplied, ActionFailed, vars,
         Disturb, Act
  <2>2. result'.point = result.point
    BY <2>1
  <2> QED BY <1>p, <2>1, <2>2 DEF Found
<1>3. CASE StepsDone \/ WriteZero \/ LegsDone
  <2>1. result' = result \/ (\E b \in BOOLEAN : result' = [result EXCEPT !.returned = b])
        \/ (\E b \in BOOLEAN : result' = [result EXCEPT !.positioned = b])
        \/ (\E o \in Int : result' = [result EXCEPT !.zeroed = TRUE, !.offset = o])
    <3>1. CASE StepsDone
      <4> DEFINE b == config.family = "angle"
      <4>1. b \in BOOLEAN
        OBVIOUS
      <4>2. result' = result \/ result' = [result EXCEPT !.returned = b]
        BY <3>1 DEF StepsDone
      <4> HIDE DEF b
      <4> QED BY <4>1, <4>2
    <3>2. CASE WriteZero
      <4>1. PICK z \in (IF op = "run" THEN {0} ELSE Offsets) :
              result' = [result EXCEPT !.zeroed = TRUE, !.offset = z] \/ result' = result
        BY <3>2 DEF WriteZero
      <4>2. z \in Int
        BY <4>1, RoutineAssumption
      <4> QED BY <4>1, <4>2
    <3>3. CASE LegsDone
      BY <3>3 DEF LegsDone
    <3> QED BY <1>3, <3>1, <3>2, <3>3
  <2>2. \A b \in BOOLEAN : /\ [result EXCEPT !.returned = b].point = result.point
                           /\ [result EXCEPT !.returned = b].settled = result.settled
                           /\ [result EXCEPT !.positioned = b].point = result.point
                           /\ [result EXCEPT !.positioned = b].settled = result.settled
    BY <1>0 DEF Results
  <2>3. \A o \in Int : /\ [result EXCEPT !.zeroed = TRUE, !.offset = o].point = result.point
                       /\ [result EXCEPT !.zeroed = TRUE, !.offset = o].settled = result.settled
    BY <1>0 DEF Results
  <2>4. result'.point = result.point /\ result'.settled = result.settled
    BY <2>1, <2>2, <2>3
  <2> QED BY <1>p, <2>4 DEF Found
<1>4. CASE Finish
  <2>1. result' = result \/ result' = [result EXCEPT !.settled = TRUE]
    BY <1>4 DEF Finish
  <2>2. result'.point = result.point
    BY <1>0, <2>1 DEF Results
  <2> QED BY <1>4, <1>p, <2>2 DEF Found
<1>5. CASE CenterStep \/ ContactEnd
  <2> DEFINE a == Here.axis
  <2>1. a \in Axes /\ (result' = result \/ \E v \in Int : result' = [result EXCEPT !.point[a] = v])
    <3>1. CASE CenterStep
      <4>1. a \in Axes /\ (refs[Surface(a, "low")] + refs[Surface(a, "high")]) \div 2 \in Int
        BY <3>1, CenterShape
      <4> QED BY <3>1, <4>1 DEF CenterStep
    <3>2. CASE ContactEnd
      <4>1. a \in Axes /\ pc = "contact" /\ stage = 5
        BY <1>0, <3>2, ContactShape DEF ContactEnd
      <4>2. Here.tag = "whole" => refs[Surface(a, "whole")] \in Int
        BY <1>0, <4>1 DEF Known
      <4> QED BY <3>2, <4>1, <4>2 DEF ContactEnd
    <3> QED BY <1>5, <3>1, <3>2
  <2> HIDE DEF a
  <2>2. ASSUME NEW v \in Int, result' = [result EXCEPT !.point[a] = v]
        PROVE  result'.settled = result.settled /\ result'.point = [result.point EXCEPT ![a] = v]
    <3>1. v \in Int \cup {None}
      OBVIOUS
    <3> QED BY <1>0, <2>1, <2>2, <3>1, PointKept
  <2>3. result'.settled = result.settled
        /\ (result'.point = result.point \/ \E v \in Int : result'.point = [result.point EXCEPT ![a] = v])
    BY <2>1, <2>2
  <2>4. \A b \in Axes : result'.point[b] = result.point[b] \/ result'.point[b] \in Int
    BY <1>0, <2>1, <2>3 DEF Results
  <2>5. Found => Found'
    BY <1>p, <2>4 DEF Found
  <2> QED BY <1>5, <2>3, <2>5
<1>6. CASE Report
  <2>1. result' = result \/ result' = NoResult
    BY <1>6 DEF Report
  <2>2. ~NoResult.settled
    BY DEF NoResult
  <2> QED BY <1>6, <2>1, <2>2
<1> QED BY <1>1, <1>2, <1>3, <1>4, <1>5, <1>6 DEF Next


LEMMA StepsEnd ==
  ASSUME RInv, pc = "step", index = Done
  PROVE  Found /\ Reached(position)
<1>0. Planned /\ Types /\ Values(Told(Done)) /\ Points(Told(Done)) /\ Stands(Told(Done))
  BY DEF RInv, Known
<1> DEFINE f == Told(Done)
<1>1. Ended(config).known \subseteq f.known /\ Ended(config).places \subseteq f.places
  BY <1>0, ToldTrail DEF Covers
<1> HIDE DEF f
<1>2. MeasuredAxes(config) \subseteq Axes
  BY <1>0, MeasuredPoints
<1>3. ASSUME NEW a \in MeasuredAxes(config)
      PROVE  result.point[a] = refs[Surface(a, "whole")] /\ result.point[a] \in Int
  <2>1. Surface(a, "whole") \in f.known
    BY <1>1 DEF Ended, Facts, MeasuredOf
  <2> QED BY <1>0, <1>2, <2>1 DEF f, Values, Points
<1>4. ASSUME NEW a \in Axes
      PROVE  position[a] = IF a \in MeasuredAxes(config) /\ config.family # "inside" /\ a # "Z"
                             THEN result.point[a] - ProbeOffset[a] ELSE plan.start[a]
  <2>1. EndPlace(config, a) \in f.places
    BY <1>1 DEF Ended, Facts
  <2>2. position[EndPlace(config, a)[1]] = ValueOf(EndPlace(config, a)[2]) + EndPlace(config, a)[3]
    BY <1>0, <2>1 DEF f, Stands
  <2>3. plan.start[a] \in Int /\ ProbeOffset[a] \in Int
    BY <1>0, PlanAssumption DEF Planned, Places
  <2>4. CASE a \in MeasuredAxes(config) /\ config.family # "inside" /\ a # "Z"
    <3>1. EndPlace(config, a) = <<a, Surface(a, "whole"), -ProbeOffset[a]>>
      BY <2>4 DEF EndPlace
    <3>2. position[a] = ValueOf(Surface(a, "whole")) + -ProbeOffset[a]
      BY <2>2, <3>1
    <3>3. ValueOf(Surface(a, "whole")) = refs[Surface(a, "whole")]
      BY DEF ValueOf, Surface
    <3> QED BY <1>3, <2>3, <2>4, <3>2, <3>3
  <2>5. CASE ~(a \in MeasuredAxes(config) /\ config.family # "inside" /\ a # "Z")
    <3>1. EndPlace(config, a) = <<a, Start(a), 0>>
      BY <2>5 DEF EndPlace
    <3>2. position[a] = ValueOf(Start(a)) + 0
      BY <2>2, <3>1
    <3>3. ValueOf(Start(a)) = plan.start[a]
      BY DEF ValueOf, Start
    <3> QED BY <2>3, <2>5, <3>2, <3>3
  <2> QED BY <2>4, <2>5
<1>5. Found
  BY <1>3 DEF Found
<1> QED BY <1>4, <1>5 DEF Reached

LEMMA EndingsStep == RInv /\ [Next]_vars => Endings'
<1> SUFFICES ASSUME RInv, [Next]_vars PROVE Endings'
  OBVIOUS
<1>0. Planned /\ Types /\ Phases /\ Endings
  BY DEF RInv
<1>p. config' = config /\ plan'.start = plan.start /\ config'.z = config.z
  BY <1>0, PlanSame
<1>q. MeasuredAxes(config)' = MeasuredAxes(config) /\ MeasuredAxes(config) \subseteq Axes
  BY <1>p, <1>0, MeasuredPoints
<1>e. result'.settled => Found'
  <2>1. Finish => Found
    BY <1>0 DEF Finish, Endings, Ending, Phases
  <2>2. Report /\ result'.settled => result' = result
    BY DEF Report, NoResult
  <2>3. result' = result /\ Found => Found'
    BY <1>q DEF Found
  <2> QED BY <1>0, <2>1, <2>2, <2>3, FoundKept DEF Endings
<1> DEFINE Ends == op = "run" /\ (pc = "restore" \/ (pc = "over" /\ outcome = "CoarseNoContact" /\ config.z))
<1> SUFFICES /\ pc' \in {"failed", "restore"} => outcome' # "ok"
             /\ Ending' => Found' /\ (changed'.what # "moved" => Reached(at)')
             /\ Ends' /\ changed'.what # "moved" => at'["Z"] = plan'.start["Z"]
  BY <1>e DEF Endings
<1>1. CASE Begin
  <2>1. \/ pc' = "step"
        \/ pc' = "over" /\ outcome' \in {"Failed", "Preflight"}
    BY <1>1 DEF Begin, Over
  <2> QED BY <2>1 DEF Ending
<1>2. CASE StepRefused \/ StageRefused \/ CenterStep \/ ContactBegin
  <2>1. \/ pc' = "failed" /\ outcome' \in Errors
        \/ pc' \in {"step", "contact"}
    BY <1>2 DEF StepRefused, StageRefused, CenterStep, ContactBegin, AtStep, Fail, Errors
  <2> QED BY <2>1 DEF Ending, Errors
<1>3. CASE ContactStage \/ ContactEnd \/ MoveStep
  <2>1. \/ pc' = "failed" /\ outcome' # "ok"
        \/ pc' \in {"step", "contact"}
    BY <1>0, <1>3, StageCases, MoveCases DEF Touches, BacksOff, Misses, Breaks, ContactEnd, Stopped
  <2> QED BY <2>1 DEF Ending
<1>4. CASE StepsDone
  <2>1. pc = "step" /\ index = Done /\ Checked /\ UNCHANGED <<at, changed>>
        /\ (\/ pc' = "failed" /\ outcome' = "Compensation"
            \/ pc' \in {"query", "finish"})
    BY <1>4 DEF StepsDone, Fail, machineVars
  <2>2. Found /\ Reached(position)
    BY <2>1, StepsEnd
  <2>3. at = position
    BY <2>1 DEF Checked, check_state
  <2>4. result'.point = result.point
    <3>1. ~(CenterStep \/ ContactEnd \/ Report)
      BY <1>0, <2>1, ToldTrail DEF CenterStep, ContactEnd, Report, AtStep, Done
    <3> QED BY <3>1, FoundKept
  <2>5. Found' /\ Reached(at)'
    BY <1>p, <1>q, <2>1, <2>2, <2>3, <2>4 DEF Found, Reached
  <2> QED BY <2>1, <2>5
<1>5. CASE ZeroQuery \/ WriteZero \/ Finish
  <2>1. UNCHANGED <<at, changed, op>> /\ pc \in {"query", "zero", "finish"}
        /\ (\/ pc' = "failed" /\ outcome' \in Errors
            \/ pc' \in {"zero", "finish", "applied"}
            \/ pc' = "over" /\ outcome' \in {"ok", "Failed"})
    BY <1>5 DEF ZeroQuery, WriteZero, Finish, Fail, Over, machineVars, Errors
  <2>2. result'.point = result.point
    <3>1. ~(CenterStep \/ ContactEnd \/ Report)
      BY <2>1 DEF CenterStep, ContactEnd, Report, AtStep
    <3> QED BY <3>1, FoundKept
  <2>3. ASSUME op = "run" PROVE Found' /\ (changed'.what # "moved" => Reached(at)')
    <3>1. Found /\ (changed.what # "moved" => Reached(at))
      BY <1>0, <2>1, <2>3 DEF Endings, Ending
    <3> QED BY <1>p, <1>q, <2>1, <2>2, <3>1 DEF Found, Reached
  <2> QED BY <2>1, <2>3 DEF Ending, Errors
<1>6. CASE RaiseAfterMiss
  <2>1. /\ pc = "failed" /\ UNCHANGED <<changed, plan>>
        /\ \/ at' = [at EXCEPT !["Z"] = plan.start["Z"]] /\ pc' = "restore" /\ UNCHANGED outcome
           \/ pc' = "over" /\ outcome' = "Recovery"
    BY <1>6 DEF RaiseAfterMiss, Over
  <2>2. at \in Places /\ "Z" \in Axes
    BY <1>0, PlainNames DEF Types
  <2>3. pc' = "restore" => at'["Z"] = plan.start["Z"]
    BY <2>1, <2>2 DEF Places
  <2> QED BY <1>0, <2>1, <2>3 DEF Endings, Ending
<1>7. CASE RestoreAfterFailure
  <2>1. /\ UNCHANGED <<at, changed, plan, op>> /\ pc' = "over" /\ outcome' \in {outcome, "Recovery"}
        /\ op = "run" => pc \in {"restore", "failed"} /\ (pc = "failed" => ~(outcome = "CoarseNoContact" /\ config.z))
    BY <1>7 DEF RestoreAfterFailure, Over, machineVars
  <2>2. pc \in {"restore", "failed"}
    BY <1>7 DEF RestoreAfterFailure
  <2> QED BY <1>0, <1>p, <2>1, <2>2 DEF Endings, Ending
<1>8. CASE Report \/ Jog
  <2>1. pc' = "idle"
    BY <1>8 DEF Report, Jog
  <2> QED BY <2>1 DEF Ending
<1>9. CASE ReturnToStart \/ (\E z \in Clearances : GoToMeasured(z)) \/ ZeroResult
  <2>1. op' # "run" /\ pc' \notin {"failed", "restore"}
    BY <1>9 DEF ReturnToStart, GoToMeasured, ZeroResult, Act, Over
  <2> QED BY <2>1 DEF Ending
<1>10. CASE Leg
  <2>1. pc = "legs" /\ UNCHANGED op /\ (UNCHANGED pc \/ (pc' = "failed" /\ outcome' # "ok"))
    BY <1>10, LegCases DEF Stopped
  <2>2. op # "run"
    BY <1>0, <2>1 DEF Phases
  <2> QED BY <2>1, <2>2 DEF Ending
<1>11. CASE LegsDone \/ ZeroApplied \/ ActionFailed
  <2>1. UNCHANGED op /\ pc' = "over" /\ (pc \in {"legs", "applied"} \/ op # "run")
    BY <1>11 DEF LegsDone, ZeroApplied, ActionFailed, Over
  <2>2. op # "run"
    BY <1>0, <2>1 DEF Phases
  <2> QED BY <2>1, <2>2 DEF Ending
<1>12. CASE UNCHANGED vars \/ \E what \in Changes : Disturb(what)
  <2>1. UNCHANGED <<plan, pc, op, outcome, result>>
    BY <1>12 DEF vars, Disturb
  <2>2. changed'.what # "moved" => changed.what # "moved" /\ at' = at
    <3>1. CASE UNCHANGED vars
      BY <3>1 DEF vars, machineVars
    <3>2. CASE \E what \in Changes : Disturb(what)
      <4>1. PICK what \in Changes : Disturb(what)
        BY <3>2
      <4>2. changed = NoChange /\ changed'.what = what
        BY <4>1 DEF Disturb, Change
      <4>3. what # "moved" => at' = at
        BY <1>0, <4>1, Nudged DEF Types
      <4> QED BY <4>2, <4>3 DEF NoChange, Change
    <3> QED BY <1>12, <3>1, <3>2
  <2>3. Found' <=> Found
    BY <1>q, <2>1 DEF Found
  <2>4. at' = at => (Reached(at)' <=> Reached(at))
    BY <1>p, <1>q, <2>1 DEF Reached
  <2> QED BY <1>0, <1>p, <2>1, <2>2, <2>3, <2>4 DEF Endings, Ending
<1> QED BY <1>1, <1>2, <1>3, <1>4, <1>5, <1>6, <1>7, <1>8, <1>9, <1>10, <1>11, <1>12 DEF Next


LEMMA LegsStep == RInv /\ [Next]_vars => Legs'
<1> SUFFICES ASSUME RInv, [Next]_vars PROVE Legs'
  OBVIOUS
<1>0. Planned /\ Types /\ Phases /\ Legs
  BY DEF RInv
<1>p. config' = config /\ plan'.start = plan.start /\ MeasuredAxes(config)' = MeasuredAxes(config)
  BY <1>0, PlanSame
<1>1. CASE ReturnToStart
  <2> DEFINE beside == [plan.start EXCEPT !["Z"] = at["Z"]]
             start == plan.start
  <2>1. op' = "return" /\ UNCHANGED plan /\ (pc' = "over" \/ legs' = <<beside, start>>)
    BY <1>1 DEF ReturnToStart, Act, Over
  <2> HIDE DEF beside
  <2>2. legs' = <<beside, start>> => LastLeg' = start
    BY DEF LastLeg
  <2> QED BY <1>p, <2>1, <2>2 DEF Legs
<1>2. CASE \E z \in Clearances : GoToMeasured(z)
  <2>1. PICK z \in Clearances : GoToMeasured(z)
    BY <1>2
  <2> DEFINE up == [at EXCEPT !["Z"] = @ + z]
             over == [a \in Axes |-> IF a \in MeasuredAxes(config)
                                     THEN result.point[a] - ProbeOffset[a] ELSE up[a]]
  <2>2. op' = "measured" /\ UNCHANGED <<plan, result>> /\ (pc' = "over" \/ legs' = <<up, over>>)
    BY <2>1 DEF GoToMeasured, Act, Over
  <2>3. \A a \in MeasuredAxes(config) : over[a] = result.point[a] - ProbeOffset[a]
    BY <1>0, MeasuredPoints
  <2> HIDE DEF up, over
  <2>4. legs' = <<up, over>> => LastLeg' = over
    BY DEF LastLeg
  <2> QED BY <1>p, <2>2, <2>3, <2>4 DEF Legs
<1>3. CASE Leg
  <2>1. /\ pc = "legs" /\ legs # <<>> /\ UNCHANGED <<plan, op, result>>
        /\ \/ position' = Head(legs) /\ legs' = Tail(legs)
           \/ pc' = "failed"
    BY <1>3, LegCases DEF Stopped
  <2>2. legs \in Seq(Places)
    BY <1>0 DEF Types
  <2>3. position' = Head(legs) /\ legs' = Tail(legs) => LastLeg' = LastLeg
    <3> SUFFICES ASSUME position' = Head(legs), legs' = Tail(legs) PROVE LastLeg' = LastLeg
      OBVIOUS
    <3>1. CASE Len(legs) = 1
      <4>1. legs' = <<>> /\ position' = legs[Len(legs)]
        BY <2>1, <2>2, <3>1
      <4> QED BY <2>1, <4>1 DEF LastLeg
    <3>2. CASE Len(legs) # 1
      <4>1. Len(legs) \in Nat /\ Len(legs) > 1
        BY <2>1, <2>2, <3>2
      <4>2. /\ Len(legs') = Len(legs) - 1
            /\ \A i \in 1..Len(legs) - 1 : legs'[i] = legs[i + 1]
        BY <2>1, <2>2, HeadTailProperties
      <4> DEFINE n == Len(legs) - 1
      <4>4. n \in 1..Len(legs) - 1 /\ n + 1 = Len(legs) /\ Len(legs') = n /\ n > 0
        BY <4>1, <4>2
      <4> HIDE DEF n
      <4>5. Len(<<>>) = 0
        OBVIOUS
      <4>6. legs' # <<>>
        BY <4>4, <4>5
      <4>7. legs'[n] = legs[n + 1]
        BY <4>2, <4>4
      <4>3. legs'[Len(legs')] = legs[Len(legs)] /\ legs' # <<>>
        BY <4>4, <4>6, <4>7
      <4> QED BY <2>1, <4>3 DEF LastLeg
    <3> QED BY <3>1, <3>2
  <2> QED BY <1>0, <1>p, <2>1, <2>3 DEF Legs
<1>4. CASE UNCHANGED vars \/ \E what \in Changes : Disturb(what)
  <2>1. UNCHANGED <<plan, pc, op, legs, position, result>>
    BY <1>4 DEF vars, Disturb, localVars
  <2>2. LastLeg' = LastLeg
    BY <2>1 DEF LastLeg
  <2> QED BY <1>0, <1>p, <2>1, <2>2 DEF Legs
<1>5. CASE Begin \/ StepRefused \/ CenterStep \/ ContactBegin \/ StageRefused \/ ContactStage \/ ContactEnd
           \/ MoveStep \/ StepsDone
  <2>1. pc' # "legs"
    BY <1>0, <1>5, StageCases, MoveCases DEF Begin, StepRefused, CenterStep, AtStep, ContactBegin, StageRefused,
         ContactEnd, StepsDone, Fail, Over, Touches, BacksOff, Misses, Breaks, Stopped
  <2> QED BY <2>1 DEF Legs
<1>6. CASE ZeroQuery \/ WriteZero \/ RaiseAfterMiss \/ RestoreAfterFailure \/ Finish \/ Report \/ Jog \/ LegsDone
           \/ ZeroResult \/ ZeroApplied \/ ActionFailed
  <2>1. pc' # "legs"
    BY <1>6 DEF ZeroQuery, WriteZero, RaiseAfterMiss, RestoreAfterFailure, Finish, Report, Jog, LegsDone,
         ZeroResult, ZeroApplied, ActionFailed, Fail, Over
  <2> QED BY <2>1 DEF Legs
<1> QED BY <1>1, <1>2, <1>3, <1>4, <1>5, <1>6 DEF Next

LEMMA AlwaysRInv == Spec => []RInv
<1>1. RInv /\ [Next]_vars => RInv'
  BY PlannedStep, TypesStep, PhasesStep, FreshStep, KnownStep, EndingsStep, LegsStep DEF RInv
<1> QED BY <1>1, InitRInv, PTL DEF Spec

-----------------------------------------------------------------------------
(* The properties of a run.                                                *)

\* A routine that succeeds has measured every axis of its plan and stands
\* where its review said, and a Z search that touched nothing is back at its
\* starting height, unless an operator moved the machine (run_inner).
THEOREM EndsAsReviewed == Spec => []EndsWhereReviewed
<1>1. RInv => EndsWhereReviewed
  <2> SUFFICES ASSUME RInv, pc = "over", op = "run", changed.what # "moved"
               PROVE  /\ outcome = "ok" =>
                           /\ \A a \in MeasuredAxes(config) : result.point[a] # None
                           /\ \A a \in Axes :
                                IF a \in MeasuredAxes(config) /\ config.family # "inside" /\ a # "Z"
                                  THEN at[a] = result.point[a] - ProbeOffset[a]
                                  ELSE at[a] = plan.start[a]
                      /\ (outcome = "CoarseNoContact" /\ config.z) => at["Z"] = plan.start["Z"]
    BY DEF EndsWhereReviewed
  <2>1. Endings
    BY DEF RInv
  <2>2. outcome = "ok" => Found /\ Reached(at)
    BY <2>1 DEF Endings, Ending
  <2>3. (outcome = "CoarseNoContact" /\ config.z) => at["Z"] = plan.start["Z"]
    BY <2>1 DEF Endings
  <2> QED BY <2>2, <2>3, PlanAssumption DEF Found, Reached
<1> QED BY <1>1, AlwaysRInv, PTL

\* After an operator has moved the machine or selected other coordinates no
\* further stage is sent, and after a change of the tool, the calibration or
\* the work zero no further step: what check_state and the look before every
\* stage compare shows each of them (check_state, run_inner).
THEOREM ChangesStopIt == Spec => StopsAfterChange
<1> DEFINE Sends == op = "run" /\ last' # last /\ last'[2] \notin {NoLine, <<"modes">>, <<"$#">>}
           Ok == CASE changed.what = "nothing" -> TRUE
                   [] changed.what \in {"moved", "wcs"} -> changed.index = index /\ changed.stage = stage
                   [] changed.what = "zero" /\ config.family = "angle" -> TRUE
                   [] OTHER -> changed.index = index
<1>1. RInv /\ [Next]_vars => (Sends => Ok)
  <2> SUFFICES ASSUME RInv, [Next]_vars, Sends PROVE Ok
    OBVIOUS
  <2>0. Planned /\ Types /\ Phases /\ Fresh /\ changed.what \in Changes \cup {"nothing"}
    BY DEF RInv, Types
  <2>1. CASE ContactStage
    <3>1. pc = "contact" /\ at = position /\ changed.what # "wcs"
      BY <2>1 DEF ContactStage
    <3> QED BY <2>0, <3>1 DEF Fresh, Changes
  <2>2. CASE MoveStep
    <3>1. pc = "step" /\ at = position /\ changed.what \notin {"wcs", "tool", "probe"}
          /\ (config.family # "angle" => origin = plan.origin)
      BY <2>2, MoveCases
    <3> QED BY <2>0, <3>1 DEF Fresh, Changes
  <2>3. CASE WriteZero
    <3>1. pc = "zero" /\ op = "run"
      BY <2>3 DEF WriteZero
    <3> QED BY <2>0, <3>1 DEF Fresh, Changes
  <2>4. CASE Begin \/ Finish \/ ZeroQuery
    <3>1. last' = last \/ last'[2] \in {<<"modes">>, <<"$#">>}
      BY <2>4 DEF Begin, Finish, ZeroQuery, Show, Sent, streamVars
    <3> QED BY <3>1
  <2>5. CASE Report
    BY <2>5 DEF Report
  <2>6. CASE StepRefused \/ CenterStep \/ ContactBegin \/ StageRefused \/ ContactEnd \/ StepsDone
    BY <2>6 DEF StepRefused, CenterStep, ContactBegin, StageRefused, ContactEnd, StepsDone, streamVars
  <2>7. CASE RaiseAfterMiss \/ RestoreAfterFailure \/ Jog \/ ReturnToStart \/ (\E z \in Clearances : GoToMeasured(z))
             \/ Leg
    BY <2>7, LegCases DEF RaiseAfterMiss, RestoreAfterFailure, Jog, ReturnToStart, GoToMeasured, Act, streamVars
  <2>8. CASE LegsDone \/ ZeroResult \/ ZeroApplied \/ ActionFailed \/ UNCHANGED vars
             \/ \E what \in Changes : Disturb(what)
    BY <2>8 DEF LegsDone, ZeroResult, Act, ZeroApplied, ActionFailed, vars, Disturb, streamVars
  <2> QED BY <2>1, <2>2, <2>3, <2>4, <2>5, <2>6, <2>7, <2>8 DEF Next
<1>2. RInv /\ [Next]_vars => [Sends => Ok]_vars
  BY <1>1
<1> HIDE DEF Sends, Ok
<1>3. Spec => [][Sends => Ok]_vars
  BY <1>2, AlwaysRInv, PTL DEF Spec
<1> QED BY <1>3 DEF StopsAfterChange, Sends, Ok


\* A result says that the machine went back to its start, or over the
\* measured point, only when it was last seen at rest there: its steps or its
\* legs ended there (run_inner, return_inner, measured_inner).
THEOREM FlagsAreTrue == Spec => FlagsSayWhereItIs
<1> DEFINE Said ==
             /\ (result'.returned /\ ~result.returned) => position = plan.start
             /\ (result'.positioned /\ ~result.positioned) =>
                  \A a \in MeasuredAxes(config) : position[a] = result.point[a] - ProbeOffset[a]
<1>1. RInv /\ [Next]_vars => Said
  <2> SUFFICES ASSUME RInv, [Next]_vars PROVE Said
    OBVIOUS
  <2>0. Planned /\ Types /\ Phases /\ Legs /\ result \in Results
    BY DEF RInv, Types
  <2>1. CASE StepsDone
    <3>1. pc = "step" /\ index = Done
          /\ (result' = result \/ result' = [result EXCEPT !.returned = (config.family = "angle")])
      BY <2>1 DEF StepsDone
    <3>2. result'.positioned = result.positioned /\ (result'.returned => result.returned \/ config.family = "angle")
      BY <2>0, <3>1 DEF Results
    <3>3. ASSUME config.family = "angle" PROVE position = plan.start
      <4>1. MeasuredAxes(config) = {}
        BY <3>3 DEF MeasuredAxes
      <4>2. \A a \in Axes : position[a] = plan.start[a]
        BY <3>1, <4>1, StepsEnd DEF Reached
      <4>3. position \in Places /\ plan.start \in Places
        BY <2>0 DEF Types, Planned
      <4> QED BY <4>2, <4>3 DEF Places
    <3> QED BY <3>2, <3>3
  <2>2. CASE LegsDone
    <3>1. pc = "legs" /\ legs = <<>>
          /\ (\/ result' = result
              \/ op = "return" /\ result' = [result EXCEPT !.returned = TRUE]
              \/ op # "return" /\ result' = [result EXCEPT !.positioned = TRUE])
      BY <2>2 DEF LegsDone
    <3>2. LastLeg = position
      BY <3>1 DEF LastLeg
    <3>3. /\ op = "return" => position = plan.start
          /\ op # "return" => \A a \in MeasuredAxes(config) : position[a] = result.point[a] - ProbeOffset[a]
      BY <2>0, <3>1, <3>2 DEF Legs, Phases
    <3>4. /\ (result'.returned /\ ~result.returned) => op = "return"
          /\ (result'.positioned /\ ~result.positioned) => op # "return"
      BY <2>0, <3>1 DEF Results
    <3> QED BY <3>3, <3>4
  <2>3. CASE CenterStep \/ ContactEnd
    <3> DEFINE a == Here.axis
    <3>1. a \in Axes /\ (result' = result \/ \E v \in Int \cup {None} : result' = [result EXCEPT !.point[a] = v])
      <4>1. CASE CenterStep
        <5>1. a \in Axes /\ (refs[Surface(a, "low")] + refs[Surface(a, "high")]) \div 2 \in Int
          BY <4>1, CenterShape
        <5> QED BY <4>1, <5>1 DEF CenterStep
      <4>2. CASE ContactEnd
        <5>1. a \in Axes /\ Surface(a, "whole") \in Surfaces
          BY <2>0, <4>2, ContactShape, NamesAreApart, PlainNames DEF ContactEnd
        <5>2. refs[Surface(a, "whole")] \in Int \cup {None}
          BY <2>0, <5>1 DEF Types
        <5> QED BY <4>2, <5>1, <5>2 DEF ContactEnd
      <4> QED BY <2>3, <4>1, <4>2
    <3> HIDE DEF a
    <3>2. ASSUME NEW v \in Int \cup {None}, result' = [result EXCEPT !.point[a] = v]
          PROVE  result'.returned = result.returned /\ result'.positioned = result.positioned
      BY <2>0, <3>2 DEF Results
    <3> QED BY <3>1, <3>2
  <2>4. CASE WriteZero
    <3>1. result' = result \/ \E z \in (IF op = "run" THEN {0} ELSE Offsets) :
                                result' = [result EXCEPT !.zeroed = TRUE, !.offset = z]
      BY <2>4 DEF WriteZero
    <3>2. result'.returned = result.returned /\ result'.positioned = result.positioned
      BY <2>0, <3>1 DEF Results
    <3> QED BY <3>2
  <2>5. CASE Finish \/ Report
    <3>1. result' = result \/ result' = [result EXCEPT !.settled = TRUE] \/ result' = NoResult
      BY <2>5 DEF Finish, Report
    <3>2. (result'.returned => result.returned) /\ (result'.positioned => result.positioned)
      BY <2>0, <3>1 DEF Results, NoResult
    <3> QED BY <3>2
  <2>6. CASE Begin \/ StepRefused \/ ContactBegin \/ StageRefused \/ ContactStage \/ MoveStep \/ ZeroQuery
             \/ RaiseAfterMiss \/ RestoreAfterFailure
    <3>1. UNCHANGED result
      BY <2>0, <2>6, StageCases, MoveCases DEF Begin, StepRefused, ContactBegin, StageRefused, ZeroQuery,
           RaiseAfterMiss, RestoreAfterFailure
    <3> QED BY <3>1
  <2>7. CASE Jog \/ ReturnToStart \/ (\E z \in Clearances : GoToMeasured(z)) \/ Leg \/ ZeroResult \/ ZeroApplied
             \/ ActionFailed \/ UNCHANGED vars \/ \E what \in Changes : Disturb(what)
    <3>1. UNCHANGED result
      BY <2>7, LegCases DEF Jog, ReturnToStart, GoToMeasured, ZeroResult, ZeroApplied, ActionFailed, vars,
           Disturb, Act
    <3> QED BY <3>1
  <2> QED BY <2>1, <2>2, <2>3, <2>4, <2>5, <2>6, <2>7 DEF Next
<1>2. RInv /\ [Next]_vars => [Said]_vars
  BY <1>1
<1> HIDE DEF Said
<1>3. Spec => [][Said]_vars
  BY <1>2, AlwaysRInv, PTL DEF Spec
<1> QED BY <1>3 DEF FlagsSayWhereItIs, Said

\* A work zero that a result counts as set lies at the measured point and the
\* offset asked for, and every other axis keeps the zero the plan expects,
\* whatever was done to the machine since its coordinates were queried
\* (write_zero).
THEOREM ZeroIsAsMeasured == Spec => ZeroIsWhereMeasured
<1> DEFINE Zeroes == pc = "zero" /\ pc' \in {"finish", "applied"}
           Lies == \A a \in Axes : origin'[a] = IF a \in MeasuredAxes(config)
                                                  THEN result'.point[a] + result'.offset ELSE plan.origin[a]
<1>1. RInv /\ [Next]_vars => (Zeroes => Lies)
  <2> SUFFICES ASSUME RInv, [Next]_vars, Zeroes PROVE Lies
    OBVIOUS
  <2>0. Planned /\ Types /\ Phases /\ Endings
    BY DEF RInv
  <2>1. WriteZero
    <3>1. ~(Begin \/ StepRefused \/ CenterStep \/ ContactBegin \/ StageRefused \/ ContactStage \/ ContactEnd
            \/ MoveStep \/ StepsDone \/ ZeroQuery)
      BY DEF Begin, StepRefused, CenterStep, AtStep, ContactBegin, StageRefused, ContactStage, ContactEnd,
         MoveStep, StepsDone, ZeroQuery
    <3>2. ~(RaiseAfterMiss \/ RestoreAfterFailure \/ Finish \/ Report \/ Jog \/ ReturnToStart
            \/ (\E z \in Clearances : GoToMeasured(z)) \/ Leg \/ LegsDone \/ ZeroResult \/ ZeroApplied
            \/ ActionFailed)
      BY DEF RaiseAfterMiss, RestoreAfterFailure, Finish, Report, Jog, ReturnToStart, GoToMeasured, Leg, LegsDone,
         ZeroResult, ZeroApplied, ActionFailed, Act
    <3>3. ~(UNCHANGED vars \/ \E what \in Changes : Disturb(what))
      BY DEF vars, Disturb
    <3> QED BY <3>1, <3>2, <3>3 DEF Next
  <2>2. PICK z \in (IF op = "run" THEN {0} ELSE Offsets) :
          /\ Confirmed /\ Zeroed(z)
          /\ result' = [result EXCEPT !.zeroed = TRUE, !.offset = z]
    BY <2>1 DEF WriteZero, Fail
  <2>3. z \in Int /\ result \in Results /\ at \in Places /\ Found
    BY <2>0, <2>2, RoutineAssumption DEF Types, Endings, Ending, Phases
  <2>4. result'.point = result.point /\ result'.offset = z
    BY <2>2, <2>3 DEF Results
  <2>5. ASSUME NEW a \in Axes
        PROVE  origin'[a] = IF a \in MeasuredAxes(config)
                              THEN result'.point[a] + result'.offset ELSE plan.origin[a]
    <3>1. CASE a \in MeasuredAxes(config)
      <4>1. origin'[a] = result.point[a] + z + at[a] - position[a] /\ at = position
        BY <2>2, <3>1 DEF Zeroed, Confirmed
      <4>2. result.point[a] \in Int /\ at[a] \in Int
        BY <2>3, <3>1 DEF Found, Places
      <4> QED BY <2>3, <2>4, <3>1, <4>1, <4>2
    <3>2. CASE a \notin MeasuredAxes(config)
      BY <2>2, <3>2 DEF Zeroed, Confirmed
    <3> QED BY <3>1, <3>2
  <2> QED BY <2>5
<1>2. RInv /\ [Next]_vars => [Zeroes => Lies]_vars
  BY <1>1
<1> HIDE DEF Zeroes, Lies
<1>3. Spec => [][Zeroes => Lies]_vars
  BY <1>2, AlwaysRInv, PTL DEF Spec
<1> QED BY <1>3 DEF ZeroIsWhereMeasured, Zeroes, Lies


-----------------------------------------------------------------------------
(* The envelopes of the plan, one step after the other.                    *)

Env == Envelopes(config, plan.start, plan.steps)
Typed(e) == e.lo \in Places /\ e.hi \in Places /\ e.refs \in [Names -> Int \X Int]

(* Where the axis of a contact may be before its stage k.                  *)
StageLow(e, s, k) ==
  IF s.dir = 1
    THEN (IF k <= 2 THEN e.lo[s.axis] ELSE IF k <= 4 THEN e.lo[s.axis] - config.retract
          ELSE e.lo[s.axis] - config.retract - config.retract)
    ELSE (IF k = 1 THEN e.lo[s.axis] ELSE IF k = 2 THEN s.limit ELSE IF k = 3 THEN s.limit + config.retract
          ELSE IF k = 4 THEN s.limit - Slack ELSE s.limit - Slack + config.retract)
StageHigh(e, s, k) ==
  IF s.dir = 1
    THEN (IF k = 1 THEN e.hi[s.axis] ELSE IF k = 2 THEN s.limit ELSE IF k = 3 THEN s.limit - config.retract
          ELSE IF k = 4 THEN s.limit + Slack ELSE s.limit + Slack - config.retract)
    ELSE (IF k <= 2 THEN e.hi[s.axis] ELSE IF k <= 4 THEN e.hi[s.axis] + config.retract
          ELSE e.hi[s.axis] + config.retract + config.retract)
Off(s) == ProbeOffset[s.axis] + s.dir * config.radius
InRange(a, v) == Slack - Limits[a] <= v /\ v <= 0

LEMMA EnvFacts ==
  ASSUME Planned
  PROVE  /\ Env[1] = EnvelopeOfStart(plan.start)
         /\ \A i \in 1..Len(plan.steps) : /\ Env[i + 1] = EnvelopeAfter(config, Env[i], plan.steps[i])
                                          /\ Env[i + 1].ok
<1>1. plan.steps \in Seq(StepRecords)
  BY ToldTrail
<1>2. \A i \in 1..Len(plan.steps) : Env[i + 1].ok
  BY DEF Planned, validate_envelope, Env
<1> QED BY <1>1, <1>2, EnvelopesAre DEF Env

LEMMA SignedBy ==
  ASSUME NEW d \in {-1, 1}, NEW v \in Int
  PROVE  /\ d = 1 => d * v = v
         /\ d = -1 => d * v = -v
  OBVIOUS

LEMMA AfterContact ==
  ASSUME Planned, NEW e, Typed(e), NEW s, s.kind = "contact", s.axis \in Axes, s.dir \in {-1, 1},
         s.limit \in Int, s.tag \in Tags, NEW f, f = EnvelopeAfter(config, e, s)
  PROVE  /\ Typed(f)
         /\ \A b \in Axes \ {s.axis} : f.lo[b] = e.lo[b] /\ f.hi[b] = e.hi[b]
         /\ f.lo[s.axis] = StageLow(e, s, 5) /\ f.hi[s.axis] = StageHigh(e, s, 5)
         /\ f.refs[Surface(s.axis, s.tag)][1] = StageLow(e, s, 4) + Off(s)
         /\ f.refs[Surface(s.axis, s.tag)][2] = StageHigh(e, s, 4) + Off(s)
         /\ \A n \in Names \ {Surface(s.axis, s.tag)} : f.refs[n] = e.refs[n]
         /\ f.ok => /\ Slack - Limits[s.axis] <= e.lo[s.axis] /\ e.hi[s.axis] <= 0
                    /\ \A k \in 4..5 : Slack - Limits[s.axis] <= StageLow(e, s, k) /\ StageHigh(e, s, k) <= 0
<1> DEFINE a == s.axis
           r == config.retract
           lo == IF s.dir > 0 THEN e.lo[a] - r ELSE s.limit - Slack
           hi == IF s.dir > 0 THEN s.limit + Slack ELSE e.hi[a] + r
           off == ProbeOffset[a] + s.dir * config.radius
           shift == s.dir * r
           low == lo - shift
           high == hi - shift
           n0 == Surface(a, s.tag)
<1>1. /\ r \in Int /\ config.radius \in Int /\ Slack \in Int /\ a \in Axes /\ n0 \in Names
      /\ e.lo[a] \in Int /\ e.hi[a] \in Int /\ ProbeOffset[a] \in Int /\ Limits[a] \in Int
  BY ValidRanges, PlanAssumption, NamesAreApart DEF Planned, Typed, Places
<1>2. shift \in Int /\ off \in Int /\ (s.dir = 1 => shift = r) /\ (s.dir = -1 => shift = -r)
  BY <1>1, Signed, SignedBy
<1>3. f = [ok |-> e.ok /\ check_path(a, Lesser(e.lo[a], Lesser(lo, low)), Greater(e.hi[a], Greater(hi, high))),
           lo |-> [e.lo EXCEPT ![a] = low], hi |-> [e.hi EXCEPT ![a] = high],
           refs |-> [e.refs EXCEPT ![n0] = <<lo + off, hi + off>>]]
  BY DEF EnvelopeAfter, EnvelopeOfContact
<1> HIDE DEF shift
<1>4. lo = StageLow(e, s, 4) /\ hi = StageHigh(e, s, 4) /\ lo \in Int /\ hi \in Int
  BY <1>1 DEF StageLow, StageHigh
<1>5. low = StageLow(e, s, 5) /\ high = StageHigh(e, s, 5) /\ low \in Int /\ high \in Int
  <2>1. CASE s.dir = 1
    BY <1>1, <1>2, <2>1 DEF StageLow, StageHigh
  <2>2. CASE s.dir = -1
    BY <1>1, <1>2, <2>2 DEF StageLow, StageHigh
  <2> QED BY <2>1, <2>2
<1>6. off = Off(s)
  BY DEF Off
<1> HIDE DEF lo, hi, low, high, off, n0, a
<1>7. Typed(f)
  <2>1. f.lo = [e.lo EXCEPT ![a] = low] /\ f.hi = [e.hi EXCEPT ![a] = high]
        /\ f.refs = [e.refs EXCEPT ![n0] = <<lo + off, hi + off>>]
    BY <1>3
  <2>2. <<lo + off, hi + off>> \in Int \X Int
    BY <1>2, <1>4
  <2>3. f.lo \in Places /\ f.hi \in Places
    BY <1>1, <1>5, <2>1 DEF Typed, Places
  <2>4. f.refs \in [Names -> Int \X Int]
    BY <2>1, <2>2 DEF Typed
  <2> QED BY <2>3, <2>4 DEF Typed
<1>8. \A b \in Axes \ {a} : f.lo[b] = e.lo[b] /\ f.hi[b] = e.hi[b]
  BY <1>3 DEF Typed, Places
<1>9. f.lo[a] = low /\ f.hi[a] = high
  BY <1>1, <1>3 DEF Typed, Places
<1>10. f.refs[n0] = <<lo + off, hi + off>> /\ \A n \in Names \ {n0} : f.refs[n] = e.refs[n]
  BY <1>1, <1>3 DEF Typed
<1>11. f.ok => check_path(a, Lesser(e.lo[a], Lesser(lo, low)), Greater(e.hi[a], Greater(hi, high)))
  <2> DEFINE ok == e.ok /\ check_path(a, Lesser(e.lo[a], Lesser(lo, low)), Greater(e.hi[a], Greater(hi, high)))
  <2>1. f = [ok |-> ok, lo |-> [e.lo EXCEPT ![a] = low], hi |-> [e.hi EXCEPT ![a] = high],
             refs |-> [e.refs EXCEPT ![n0] = <<lo + off, hi + off>>]]
    BY <1>3
  <2>2. f.ok = ok
    <3> HIDE DEF ok
    <3> QED BY <2>1
  <2> QED BY <2>2, Zenon
<1>12. f.ok => /\ Slack - Limits[a] <= e.lo[a] /\ e.hi[a] <= 0
               /\ Slack - Limits[a] <= lo /\ hi <= 0 /\ Slack - Limits[a] <= low /\ high <= 0
  BY <1>1, <1>4, <1>5, <1>11 DEF check_path, Lesser, Greater
<1>13. f.ok => \A k \in 4..5 : Slack - Limits[a] <= StageLow(e, s, k) /\ StageHigh(e, s, k) <= 0
  BY <1>4, <1>5, <1>12
<1>14. f.refs[n0][1] = lo + off /\ f.refs[n0][2] = hi + off
  BY <1>10
<1> QED BY <1>4, <1>5, <1>6, <1>7, <1>8, <1>9, <1>10, <1>12, <1>13, <1>14 DEF a, n0

LEMMA AfterCenter ==
  ASSUME NEW e, Typed(e), NEW s, s.kind = "center", s.axis \in Sideways, NEW f, f = EnvelopeAfter(config, e, s),
         NEW l, l = e.refs[Surface(s.axis, "low")], NEW h, h = e.refs[Surface(s.axis, "high")],
         NEW m, m = f.refs[Surface(s.axis, "whole")]
  PROVE  /\ Typed(f) /\ f.lo = e.lo /\ f.hi = e.hi
         /\ m[1] = (l[1] + h[1]) \div 2 /\ m[2] = (l[2] + h[2] + 1) \div 2
         /\ l[1] \in Int /\ l[2] \in Int /\ h[1] \in Int /\ h[2] \in Int
         /\ \A n \in Names \ {Surface(s.axis, "whole")} : f.refs[n] = e.refs[n]
<1> DEFINE middle == <<(l[1] + h[1]) \div 2, (l[2] + h[2] + 1) \div 2>>
           n0 == Surface(s.axis, "whole")
<1>1. s.axis \in Axes
  BY PlainNames
<1>2. n0 \in Names /\ l \in Int \X Int /\ h \in Int \X Int
  BY <1>1, NamesAreApart, PlainNames DEF Typed
<1>3. l[1] \in Int /\ l[2] \in Int /\ h[1] \in Int /\ h[2] \in Int
  BY <1>2
<1>4. middle \in Int \X Int
  BY <1>3
<1>5. f = [ok |-> e.ok, lo |-> e.lo, hi |-> e.hi, refs |-> [e.refs EXCEPT ![n0] = middle]]
  BY DEF EnvelopeAfter, EnvelopeOfCenter
<1>m. middle[1] = (l[1] + h[1]) \div 2 /\ middle[2] = (l[2] + h[2] + 1) \div 2
  OBVIOUS
<1> HIDE DEF middle, n0
<1>6. f.lo = e.lo /\ f.hi = e.hi /\ f.refs = [e.refs EXCEPT ![n0] = middle]
  BY <1>5
<1>7. f.refs[n0] = middle /\ (\A n \in Names \ {n0} : f.refs[n] = e.refs[n]) /\ f.refs \in [Names -> Int \X Int]
  BY <1>2, <1>4, <1>6 DEF Typed
<1>8. Typed(f)
  BY <1>6, <1>7 DEF Typed
<1>9. m = middle
  BY <1>7 DEF n0
<1> QED BY <1>3, <1>6, <1>7, <1>8, <1>9, <1>m DEF n0

LEMMA AfterMove ==
  ASSUME NEW e, Typed(e), NEW s, s.kind = "move", AxesOf(s) \subseteq Axes,
         \A a \in AxesOf(s) : TargetOf(s, a).name \in Names /\ TargetOf(s, a).offset \in Int,
         NEW f, f = EnvelopeAfter(config, e, s)
  PROVE  /\ Typed(f) /\ f.refs = e.refs
         /\ \A a \in Axes \ AxesOf(s) : f.lo[a] = e.lo[a] /\ f.hi[a] = e.hi[a]
         /\ \A a \in AxesOf(s) : /\ f.lo[a] = e.refs[TargetOf(s, a).name][1] + TargetOf(s, a).offset
                                 /\ f.hi[a] = e.refs[TargetOf(s, a).name][2] + TargetOf(s, a).offset
                                 /\ f.ok => /\ Slack - Limits[a] <= e.lo[a] /\ Slack - Limits[a] <= f.lo[a]
                                            /\ e.hi[a] <= 0 /\ f.hi[a] <= 0
<1> DEFINE to == [a \in Axes |-> IF a \in AxesOf(s) THEN EnvelopeOfTarget(e, TargetOf(s, a))
                                 ELSE <<e.lo[a], e.hi[a]>>]
<1>1. f = [ok |-> e.ok /\ \A a \in AxesOf(s) :
                            check_path(a, Lesser(e.lo[a], to[a][1]), Greater(e.hi[a], to[a][2])),
           lo |-> [a \in Axes |-> to[a][1]], hi |-> [a \in Axes |-> to[a][2]], refs |-> e.refs]
  BY DEF EnvelopeAfter, EnvelopeOfMove
<1>2. \A a \in Axes \ AxesOf(s) : to[a][1] = e.lo[a] /\ to[a][2] = e.hi[a]
  OBVIOUS
<1>3. \A a \in AxesOf(s) : /\ to[a][1] = e.refs[TargetOf(s, a).name][1] + TargetOf(s, a).offset
                           /\ to[a][2] = e.refs[TargetOf(s, a).name][2] + TargetOf(s, a).offset
  BY DEF EnvelopeOfTarget
<1> HIDE DEF to
<1>4. f.refs = e.refs /\ (\A a \in Axes : f.lo[a] = to[a][1] /\ f.hi[a] = to[a][2])
      /\ f.lo = [a \in Axes |-> to[a][1]] /\ f.hi = [a \in Axes |-> to[a][2]]
  BY <1>1
<1>5. \A n \in Names : e.refs[n][1] \in Int /\ e.refs[n][2] \in Int
  <2>1. ASSUME NEW n \in Names PROVE e.refs[n][1] \in Int /\ e.refs[n][2] \in Int
    <3>1. e.refs[n] \in Int \X Int
      BY DEF Typed
    <3> QED BY <3>1
  <2> QED BY <2>1
<1>6. \A a \in Axes : e.lo[a] \in Int /\ e.hi[a] \in Int
  BY DEF Typed, Places
<1>7. \A a \in Axes : to[a][1] \in Int /\ to[a][2] \in Int
  <2>1. ASSUME NEW a \in Axes PROVE to[a][1] \in Int /\ to[a][2] \in Int
    <3>1. CASE a \in AxesOf(s)
      BY <1>3, <1>5, <3>1
    <3>2. CASE a \notin AxesOf(s)
      BY <1>2, <1>6, <3>2
    <3> QED BY <3>1, <3>2
  <2> QED BY <2>1
<1>8. f.lo \in Places /\ f.hi \in Places
  BY <1>4, <1>7 DEF Places
<1>9. Typed(f)
  BY <1>4, <1>8 DEF Typed
<1>10. ASSUME NEW a \in AxesOf(s), f.ok
       PROVE  Slack - Limits[a] <= e.lo[a] /\ Slack - Limits[a] <= f.lo[a] /\ e.hi[a] <= 0 /\ f.hi[a] <= 0
  <2>1. check_path(a, Lesser(e.lo[a], to[a][1]), Greater(e.hi[a], to[a][2]))
    <3> DEFINE ok == e.ok /\ \A b \in AxesOf(s) : check_path(b, Lesser(e.lo[b], to[b][1]), Greater(e.hi[b], to[b][2]))
    <3>1. f.ok = ok
      <4>1. f = [ok |-> ok, lo |-> [b \in Axes |-> to[b][1]], hi |-> [b \in Axes |-> to[b][2]], refs |-> e.refs]
        BY <1>1
      <4> HIDE DEF ok
      <4> QED BY <4>1
    <3> QED BY <1>10, <3>1, Zenon
  <2>2. Slack \in Int /\ Limits[a] \in Int
    BY PlanAssumption
  <2> QED BY <1>4, <1>6, <1>7, <2>1, <2>2 DEF check_path, Lesser, Greater
<1> QED BY <1>2, <1>3, <1>4, <1>9, <1>10


-----------------------------------------------------------------------------
(* A run stays within its envelopes.                                       *)

Holds(e, n) == e.refs[n][1] <= ValueOf(n) /\ ValueOf(n) <= e.refs[n][2]
HeldIn(e, b) == e.lo[b] <= position[b] /\ position[b] <= e.hi[b]
Touched == Surface(Here.axis, Here.tag)
Aims(f) == (f.known \cup Starts) \cap MoveNames

Bounded ==
  /\ pc = "step" => /\ Typed(Env[index])
                    /\ \A b \in Axes : HeldIn(Env[index], b)
                    /\ \A n \in Aims(Told(index)) : Holds(Env[index], n)
  /\ pc = "contact" =>
       /\ Typed(Env[index])
       /\ \A b \in Axes \ {Here.axis} : HeldIn(Env[index], b)
       /\ \A n \in Aims(Told(index)) \ {Touched} : Holds(Env[index], n)
       /\ StageLow(Env[index], Here, stage) <= position[Here.axis]
       /\ position[Here.axis] <= StageHigh(Env[index], Here, stage)
       /\ stage = 1 => CoarseTravel > 0
       /\ stage \in 4..5 /\ Here.axis \in Sideways =>
            /\ StageLow(Env[index], Here, 4) + Off(Here) <= refs[Touched]
            /\ refs[Touched] <= StageHigh(Env[index], Here, 4) + Off(Here)

(* A step leaves the steps, is one of them, or changes nothing of theirs.  *)
LEMMA StepOrNot ==
  ASSUME [Next]_vars
  PROVE  \/ Begin \/ CenterStep \/ ContactBegin \/ ContactStage \/ ContactEnd \/ MoveStep
         \/ pc' \notin {"step", "contact"}
         \/ UNCHANGED <<plan, pc, index, stage, position, refs, result>>
<1>2. CASE StepRefused \/ StageRefused \/ StepsDone \/ ZeroQuery \/ WriteZero \/ RaiseAfterMiss
           \/ RestoreAfterFailure \/ Finish \/ Report \/ Jog
  <2>1. pc' \notin {"step", "contact"}
    BY <1>2 DEF StepRefused, StageRefused, StepsDone, ZeroQuery, WriteZero, RaiseAfterMiss,
         RestoreAfterFailure, Finish, Report, Jog, Over, Fail
  <2> QED BY <2>1
<1>3. CASE ReturnToStart \/ (\E z \in Clearances : GoToMeasured(z)) \/ Leg \/ LegsDone \/ ZeroResult
           \/ ZeroApplied \/ ActionFailed
  <2>1. pc' \notin {"step", "contact"}
    BY <1>3, LegCases DEF ReturnToStart, GoToMeasured, LegsDone, ZeroResult, ZeroApplied, ActionFailed,
         Act, Over, Fail, Stopped
  <2> QED BY <2>1
<1>4. CASE UNCHANGED vars \/ \E what \in Changes : Disturb(what)
  BY <1>4 DEF vars, Disturb, localVars
<1> QED BY <1>2, <1>3, <1>4 DEF Next

LEMMA EnvKept ==
  ASSUME Planned, [Next]_vars
  PROVE  Env' = Env /\ (\A i : Told(i)' = Told(i)) /\ \A i : plan'.steps[i] = plan.steps[i]
  BY PlanSame DEF Env, Told

(* A contact's place after a search of n or a backoff from within bounds.  *)
LEMMA ProbeWithin ==
  ASSUME Planned, Types, Phases, pc = "contact", NEW e, Typed(e), stage \in {1, 3},
         NEW p \in Int, p = position[Here.axis],
         StageLow(e, Here, stage) <= p, p <= StageHigh(e, Here, stage), stage = 1 => CoarseTravel > 0,
         NEW n \in 0..StageReach
  PROVE  /\ StageLow(e, Here, stage + 1) <= p + Here.dir * n
         /\ p + Here.dir * n <= StageHigh(e, Here, stage + 1)
<1>1. /\ Here.axis \in Axes /\ Here.dir \in {-1, 1} /\ Here.limit \in Int
      /\ CoarseTravel \in Int /\ config.retract \in Int /\ Slack \in Int /\ StageReach \in Int
      /\ CoarseTravel = IF Here.dir = 1 THEN Here.limit - p ELSE p - Here.limit
  BY ContactShape
<1>2. e.lo[Here.axis] \in Int /\ e.hi[Here.axis] \in Int
  BY <1>1 DEF Typed, Places
<1>3. StageReach = IF stage = 1 THEN CoarseTravel ELSE config.retract + Slack
  BY StageNames DEF StageReach
<1>4. n \in Int /\ 0 <= n /\ n <= StageReach
  BY <1>1
<1>5. CASE Here.dir = 1
  <2>1. Here.dir * n = n
    BY <1>4, <1>5
  <2>2. CASE stage = 1
    BY <1>1, <1>2, <1>3, <1>4, <1>5, <2>1, <2>2 DEF StageLow, StageHigh
  <2>3. CASE stage = 3
    BY <1>1, <1>2, <1>3, <1>4, <1>5, <2>1, <2>3 DEF StageLow, StageHigh
  <2> QED BY <2>2, <2>3
<1>6. CASE Here.dir = -1
  <2>1. Here.dir * n = -n
    BY <1>4, <1>6
  <2>2. CASE stage = 1
    BY <1>1, <1>2, <1>3, <1>4, <1>6, <2>1, <2>2 DEF StageLow, StageHigh
  <2>3. CASE stage = 3
    BY <1>1, <1>2, <1>3, <1>4, <1>6, <2>1, <2>3 DEF StageLow, StageHigh
  <2> QED BY <2>2, <2>3
<1> QED BY <1>1, <1>5, <1>6

LEMMA BackOffWithin ==
  ASSUME Planned, Types, Phases, pc = "contact", NEW e, Typed(e), stage \in {2, 4},
         NEW p \in Int, p = position[Here.axis],
         StageLow(e, Here, stage) <= p, p <= StageHigh(e, Here, stage)
  PROVE  /\ StageLow(e, Here, stage + 1) <= p + (-Here.dir * config.retract)
         /\ p + (-Here.dir * config.retract) <= StageHigh(e, Here, stage + 1)
<1>1. /\ Here.axis \in Axes /\ Here.dir \in {-1, 1} /\ Here.limit \in Int
      /\ config.retract \in Int /\ Slack \in Int
  BY ContactShape
<1>2. e.lo[Here.axis] \in Int /\ e.hi[Here.axis] \in Int
  BY <1>1 DEF Typed, Places
<1>3. CASE Here.dir = 1
  <2>1. -Here.dir * config.retract = -config.retract
    BY <1>1, <1>3
  <2>2. CASE stage = 2
    BY <1>1, <1>2, <1>3, <2>1, <2>2 DEF StageLow, StageHigh
  <2>3. CASE stage = 4
    BY <1>1, <1>2, <1>3, <2>1, <2>3 DEF StageLow, StageHigh
  <2> QED BY <2>2, <2>3
<1>4. CASE Here.dir = -1
  <2>1. -Here.dir * config.retract = config.retract
    BY <1>1, <1>4
  <2>2. CASE stage = 2
    BY <1>1, <1>2, <1>4, <2>1, <2>2 DEF StageLow, StageHigh
  <2>3. CASE stage = 4
    BY <1>1, <1>2, <1>4, <2>1, <2>3 DEF StageLow, StageHigh
  <2> QED BY <2>2, <2>3
<1> QED BY <1>1, <1>3, <1>4

(* Where every stage of this contact is from, and what its step leaves.    *)
LEMMA ContactNow ==
  ASSUME Planned, Types, Phases, pc = "contact" \/ AtStep("contact"), Typed(Env[index])
  PROVE  /\ Typed(Env[index + 1])
         /\ \A b \in Axes \ {Here.axis} : Env[index + 1].lo[b] = Env[index].lo[b]
                                          /\ Env[index + 1].hi[b] = Env[index].hi[b]
         /\ Env[index + 1].lo[Here.axis] = StageLow(Env[index], Here, 5)
         /\ Env[index + 1].hi[Here.axis] = StageHigh(Env[index], Here, 5)
         /\ Env[index + 1].refs[Touched][1] = StageLow(Env[index], Here, 4) + Off(Here)
         /\ Env[index + 1].refs[Touched][2] = StageHigh(Env[index], Here, 4) + Off(Here)
         /\ \A n \in Names \ {Touched} : Env[index + 1].refs[n] = Env[index].refs[n]
         /\ Slack - Limits[Here.axis] <= Env[index].lo[Here.axis] /\ Env[index].hi[Here.axis] <= 0
         /\ \A k \in 4..5 : /\ Slack - Limits[Here.axis] <= StageLow(Env[index], Here, k)
                            /\ StageHigh(Env[index], Here, k) <= 0
<1>1. /\ Here = plan.steps[index] /\ index \in 1..Len(plan.steps) /\ Here.axis \in Axes
      /\ Here.dir \in {-1, 1} /\ Here.limit \in Int /\ Here.tag \in Tags /\ Here.kind = "contact"
  BY ContactShape
<1>2. Env[index + 1] = EnvelopeAfter(config, Env[index], Here) /\ Env[index + 1].ok
  BY <1>1, EnvFacts
<1> DEFINE e == Env[index]
           f == Env[index + 1]
           h == Here
<1>3. Typed(e) /\ f = EnvelopeAfter(config, e, h) /\ f.ok
  BY <1>2
<1>4. Touched = Surface(h.axis, h.tag)
  BY DEF Touched
<1> HIDE DEF e, f
<1>5. Planned /\ h.kind = "contact" /\ h.axis \in Axes /\ h.dir \in {-1, 1} /\ h.limit \in Int /\ h.tag \in Tags
  BY <1>1
<1> HIDE DEF h
<1>6. /\ Typed(f)
      /\ \A b \in Axes \ {h.axis} : f.lo[b] = e.lo[b] /\ f.hi[b] = e.hi[b]
      /\ f.lo[h.axis] = StageLow(e, h, 5) /\ f.hi[h.axis] = StageHigh(e, h, 5)
      /\ f.refs[Touched][1] = StageLow(e, h, 4) + Off(h) /\ f.refs[Touched][2] = StageHigh(e, h, 4) + Off(h)
      /\ \A n \in Names \ {Touched} : f.refs[n] = e.refs[n]
      /\ Slack - Limits[h.axis] <= e.lo[h.axis] /\ e.hi[h.axis] <= 0
      /\ \A k \in 4..5 : Slack - Limits[h.axis] <= StageLow(e, h, k) /\ StageHigh(e, h, k) <= 0
  BY <1>3, <1>4, <1>5, AfterContact
<1> QED BY <1>6 DEF e, f, h


LEMMA BoundedBegin ==
  ASSUME RInv, Begin, [Next]_vars
  PROVE  Bounded'
<1>0. Planned /\ Phases
  BY DEF RInv
<1>1. op = "none" /\ UNCHANGED <<plan, position, refs>> /\ (pc' = "over" \/ (pc' = "step" /\ index' = 1))
  BY DEF Begin, Over
<1>2. position = plan.start /\ plan.start \in Places
  BY <1>0, <1>1 DEF Phases, Planned
<1> DEFINE e == EnvelopeOfStart(plan.start)
           start == plan.start
<1>3. Env' = Env /\ Env[1] = e /\ Told(1)' = Told(1)
  BY <1>0, EnvKept, EnvFacts
<1>4. Told(1).known = {}
  BY <1>0, ToldTrail DEF Covers, Begun, Facts
<1>5. e.lo = start /\ e.hi = start
      /\ e.refs = [n \in Names |-> IF n[1] = "start" THEN <<start[n[2]], start[n[2]]>> ELSE <<0, 0>>]
  BY DEF EnvelopeOfStart
<1>6. ASSUME NEW n \in Names, n[1] = "start" PROVE n \in Starts
  BY <1>6 DEF Names, Surfaces, Starts
<1>7. ASSUME NEW n \in Starts
      PROVE  n[1] = "start" /\ n[2] \in Axes /\ n \in Names /\ start[n[2]] \in Int /\ ValueOf(n)' = start[n[2]]
  <2>1. PICK a \in Axes : n = Start(a)
    BY DEF Starts
  <2>2. n[1] = "start" /\ n[2] = a /\ n \in Names
    BY <2>1, PlainNames DEF Start
  <2> QED BY <1>1, <1>2, <2>2 DEF ValueOf, Places
<1> HIDE DEF e
<1>8. Typed(e)
  <2>1. ASSUME NEW n \in Names
        PROVE  (IF n[1] = "start" THEN <<start[n[2]], start[n[2]]>> ELSE <<0, 0>>) \in Int \X Int
    <3>1. CASE n[1] = "start"
      BY <1>6, <1>7, <3>1
    <3>2. CASE n[1] # "start"
      BY <3>2
    <3> QED BY <3>1, <3>2
  <2>2. e.refs \in [Names -> Int \X Int]
    BY <1>5, <2>1
  <2> QED BY <1>2, <1>5, <2>2 DEF Typed
<1>9. \A n \in Starts : e.refs[n][1] = ValueOf(n)' /\ e.refs[n][2] = ValueOf(n)' /\ ValueOf(n)' \in Int
  BY <1>5, <1>7
<1>10. ASSUME pc' = "step", index' = 1 PROVE Bounded'
  <2>1. (Env[index])' = e /\ Told(index)' = Told(1)
    BY <1>3, <1>10 DEF Told
  <2>2. \A b \in Axes : HeldIn(Env[index], b)'
    BY <1>1, <1>2, <1>5, <2>1 DEF HeldIn, Places
  <2>3. \A n \in Aims(Told(1)) : n \in Starts
    BY <1>4 DEF Aims
  <2>4. \A n \in Aims(Told(index))' : Holds(Env[index], n)'
    BY <1>9, <2>1, <2>3 DEF Holds, Aims
  <2>5. Typed(Env[index])'
    BY <1>8, <2>1 DEF Typed
  <2> QED BY <1>10, <2>2, <2>4, <2>5 DEF Bounded
<1> QED BY <1>1, <1>10 DEF Bounded

LEMMA Halves ==
  /\ \A x, y \in Int : x <= y => x \div 2 <= y \div 2
  /\ \A x \in Int : x \div 2 \in Int
  OBVIOUS

LEMMA BoundedCenter ==
  ASSUME RInv, Bounded, CenterStep, [Next]_vars
  PROVE  Bounded'
<1>0. Planned /\ Types /\ Phases /\ refs \in [Surfaces -> Int \cup {None}]
  BY DEF RInv, Types
<1> DEFINE a == Here.axis
           n0 == Surface(a, "whole")
           nl == Surface(a, "low")
           nh == Surface(a, "high")
           e == Env[index]
           f == Env[index + 1]
           center == (refs[nl] + refs[nh]) \div 2
<1>1. /\ n0 \in Surfaces /\ center \in Int /\ GoesCenter(Told(index), Here, Told(index + 1)) /\ pc = "step"
      /\ Here.kind = "center" /\ Here = plan.steps[index] /\ index \in 1..Len(plan.steps)
      /\ refs[nl] \in Int /\ refs[nh] \in Int
  BY CenterShape
<1>2. a \in Sideways /\ a \in Axes
  BY <1>0, <1>1, StepShapes, PlainNames
<1>3. \/ pc' = "failed"
      \/ index' = index + 1 /\ refs' = [refs EXCEPT ![n0] = center] /\ pc' = "step"
  BY <1>1 DEF CenterStep, Fail
<1> SUFFICES ASSUME index' = index + 1, refs' = [refs EXCEPT ![n0] = center], pc' = "step"
             PROVE  Bounded'
  BY <1>3 DEF Bounded
<1>4. UNCHANGED <<plan, position>> /\ Env' = Env /\ Told(index)' = Told(index + 1) /\ (Env[index])' = f
  BY <1>0, EnvKept DEF CenterStep, Told
<1>5. Typed(e) /\ (\A b \in Axes : HeldIn(e, b)) /\ \A n \in Aims(Told(index)) : Holds(e, n)
  BY <1>1 DEF Bounded
<1> DEFINE l == e.refs[nl]
           r == e.refs[nh]
           m == f.refs[n0]
<1>6. /\ Typed(f) /\ f.lo = e.lo /\ f.hi = e.hi
      /\ m[1] = (l[1] + r[1]) \div 2 /\ m[2] = (l[2] + r[2] + 1) \div 2
      /\ l[1] \in Int /\ l[2] \in Int /\ r[1] \in Int /\ r[2] \in Int
      /\ \A n \in Names \ {n0} : f.refs[n] = e.refs[n]
  <2>1. f = EnvelopeAfter(config, e, Here)
    BY <1>0, <1>1, EnvFacts
  <2>2. l = e.refs[Surface(Here.axis, "low")] /\ r = e.refs[Surface(Here.axis, "high")]
        /\ m = f.refs[Surface(Here.axis, "whole")]
    OBVIOUS
  <2> DEFINE h == Here
  <2>3. h.kind = "center" /\ h.axis \in Sideways /\ Typed(e)
    BY <1>1, <1>2, <1>5
  <2>4. n0 = Surface(h.axis, "whole") /\ f = EnvelopeAfter(config, e, h)
        /\ l = e.refs[Surface(h.axis, "low")] /\ r = e.refs[Surface(h.axis, "high")]
        /\ m = f.refs[Surface(h.axis, "whole")]
    BY <2>1, <2>2
  <2> HIDE DEF e, f, l, r, m, h, n0
  <2>5. Typed(f) /\ f.lo = e.lo /\ f.hi = e.hi
    BY <2>3, <2>4, AfterCenter
  <2>6. m[1] = (l[1] + r[1]) \div 2 /\ m[2] = (l[2] + r[2] + 1) \div 2
    BY <2>3, <2>4, AfterCenter
  <2>7. l[1] \in Int /\ l[2] \in Int /\ r[1] \in Int /\ r[2] \in Int
    BY <2>3, <2>4, AfterCenter
  <2>8. \A n \in Names \ {n0} : f.refs[n] = e.refs[n]
    BY <2>3, <2>4, AfterCenter
  <2> QED BY <2>5, <2>6, <2>7, <2>8
<1>7. nl \in Aims(Told(index)) /\ nh \in Aims(Told(index))
  BY <1>1, <1>2, NamesAreApart, PlainNames DEF GoesCenter, Aims
<1>8. ValueOf(nl) = refs[nl] /\ ValueOf(nh) = refs[nh] /\ \A n : n = n0 => ValueOf(n)' = center
  <2>1. nl[1] = "surface" /\ nh[1] = "surface" /\ n0[1] = "surface"
    BY DEF Surface
  <2> HIDE DEF nl, nh, n0, center
  <2>2. refs'[n0] = center
    BY <1>0, <1>1
  <2>3. ValueOf(nl) = refs[nl] /\ ValueOf(nh) = refs[nh]
    BY <2>1 DEF ValueOf
  <2>4. ASSUME NEW n, n = n0 PROVE ValueOf(n)' = center
    <3>1. n[1] = "surface" /\ refs'[n] = center
      BY <2>1, <2>2, <2>4
    <3> QED BY <3>1 DEF ValueOf
  <2> QED BY <2>3, <2>4
<1>9. \A n \in (Surfaces \cup Starts) \ {n0} : ValueOf(n)' = ValueOf(n)
  BY <1>0, <1>1, <1>4, OtherValues
<1>10. \A n \in Aims(Told(index + 1)) \ {n0} : n \in Aims(Told(index)) /\ n \in Names /\ n \in Surfaces \cup Starts
  BY <1>1, MoveNamesAre DEF Aims, GoesCenter
<1> HIDE DEF e, f, center, n0, nl, nh
<1>11. m[1] <= center /\ center <= m[2]
  <2>1. l[1] <= refs[nl] /\ refs[nl] <= l[2] /\ r[1] <= refs[nh] /\ refs[nh] <= r[2]
    BY <1>5, <1>7, <1>8 DEF Holds
  <2> DEFINE u == refs[nl]
             v == refs[nh]
  <2>2. /\ u \in Int /\ v \in Int /\ l[1] <= u /\ u <= l[2] /\ r[1] <= v /\ v <= r[2]
        /\ center = (u + v) \div 2
    BY <1>1, <2>1 DEF center
  <2> HIDE DEF l, r, u, v
  <2>3. /\ l[1] + r[1] <= u + v /\ u + v <= l[2] + r[2] + 1
        /\ l[1] + r[1] \in Int /\ u + v \in Int /\ l[2] + r[2] + 1 \in Int
    BY <1>6, <2>2
  <2>4. (l[1] + r[1]) \div 2 <= (u + v) \div 2 /\ (u + v) \div 2 <= (l[2] + r[2] + 1) \div 2
    BY <2>3, Halves
  <2> HIDE DEF m
  <2> QED BY <1>6, <2>2, <2>4
<1>12. ASSUME NEW n \in Aims(Told(index + 1)) PROVE f.refs[n][1] <= ValueOf(n)' /\ ValueOf(n)' <= f.refs[n][2]
  <2>1. CASE n = n0
    <3>1. ValueOf(n)' = center
      BY <1>8, <2>1
    <3>2. f.refs[n] = m
      BY <2>1
    <3> HIDE DEF m
    <3> QED BY <1>11, <3>1, <3>2
  <2>2. CASE n # n0
    <3>1. n \in Aims(Told(index)) /\ f.refs[n] = e.refs[n] /\ ValueOf(n)' = ValueOf(n)
      BY <1>6, <1>9, <1>10, <2>2
    <3> QED BY <1>5, <3>1 DEF Holds
  <2> QED BY <2>1, <2>2
<1>13. \A n \in Aims(Told(index))' : Holds(Env[index], n)'
  BY <1>4, <1>12 DEF Holds, Aims
<1>14. \A b \in Axes : HeldIn(Env[index], b)'
  BY <1>4, <1>5, <1>6 DEF HeldIn
<1>15. Typed(Env[index])'
  BY <1>4, <1>6 DEF Typed
<1> QED BY <1>13, <1>14, <1>15 DEF Bounded

(* Where a move goes to, and what its step leaves.                         *)
LEMMA MoveNow ==
  ASSUME RInv, Bounded, AtStep("move")
  PROVE  /\ Typed(Env[index + 1]) /\ Env[index + 1].refs = Env[index].refs
         /\ GoesMove(Told(index), Here, Told(index + 1))
         /\ \A b \in Axes : /\ Env[index + 1].lo[b] <= Goal(Here)[b]
                            /\ Goal(Here)[b] <= Env[index + 1].hi[b]
         /\ \A b \in AxesOf(Here) : InRange(b, Goal(Here)[b])
<1>0. Planned /\ Types /\ Phases /\ Known
  BY DEF RInv
<1> DEFINE h == Here
           e == Env[index]
           f == Env[index + 1]
           goal == Goal(h)
<1>1. pc = "step" /\ h.kind = "move" /\ index < Done
  BY DEF AtStep
<1>2. index \in 1..Len(plan.steps) /\ h = plan.steps[index]
  BY <1>0, <1>1, ToldTrail DEF Phases, Done, Here
<1>3. /\ \A a \in AxesOf(h) : /\ a \in Axes /\ TargetOf(h, a).offset \in Int
                              /\ TargetOf(h, a).name \in Told(index).known \cup Starts
                              /\ ValueOf(TargetOf(h, a).name) \in Int
      /\ \A a \in Axes : goal[a] = IF a \in AxesOf(h)
                                     THEN ValueOf(TargetOf(h, a).name) + TargetOf(h, a).offset
                                     ELSE position[a]
  BY <1>0, <1>1, GoalOfMove
<1>4. \A a \in AxesOf(h) : TargetOf(h, a).name \in MoveNames
  <2>1. ASSUME NEW a \in AxesOf(h) PROVE TargetOf(h, a).name \in MoveNames
    <3>1. TargetOf(h, a) \in [axis : Axes, name : MoveNames, offset : Int]
      BY <1>0, <1>1, <1>2, TargetsOfMoves
    <3> QED BY <3>1
  <2> QED BY <2>1
<1>5. Typed(e) /\ (\A b \in Axes : HeldIn(e, b)) /\ \A n \in Aims(Told(index)) : Holds(e, n)
  BY <1>1 DEF Bounded
<1>6. GoesMove(Told(index), h, Told(index + 1))
  BY <1>0, <1>1, <1>2, ToldTrail DEF Goes
<1>8. f = EnvelopeAfter(config, e, h) /\ f.ok
  BY <1>0, <1>2, EnvFacts
<1> HIDE DEF h, e, f, goal
<1>9. AxesOf(h) \subseteq Axes
      /\ \A a \in AxesOf(h) : TargetOf(h, a).name \in Names /\ TargetOf(h, a).offset \in Int
  BY <1>3, <1>4, MoveNamesAre
<1>10. /\ Typed(f) /\ f.refs = e.refs
       /\ \A a \in Axes \ AxesOf(h) : f.lo[a] = e.lo[a] /\ f.hi[a] = e.hi[a]
       /\ \A a \in AxesOf(h) : /\ f.lo[a] = e.refs[TargetOf(h, a).name][1] + TargetOf(h, a).offset
                               /\ f.hi[a] = e.refs[TargetOf(h, a).name][2] + TargetOf(h, a).offset
                               /\ Slack - Limits[a] <= f.lo[a] /\ f.hi[a] <= 0
  BY <1>1, <1>5, <1>8, <1>9, AfterMove DEF h
<1>11. ASSUME NEW b \in Axes PROVE f.lo[b] <= goal[b] /\ goal[b] <= f.hi[b]
  <2>1. CASE b \in AxesOf(h)
    <3> DEFINE n == TargetOf(h, b).name
               o == TargetOf(h, b).offset
    <3>1. n \in Aims(Told(index)) /\ n \in Names
      BY <1>3, <1>4, <1>9, <2>1 DEF Aims
    <3>2. e.refs[n][1] <= ValueOf(n) /\ ValueOf(n) <= e.refs[n][2]
      BY <1>5, <3>1 DEF Holds
    <3>3. e.refs[n][1] \in Int /\ e.refs[n][2] \in Int
      <4>1. e.refs[n] \in Int \X Int
        BY <1>5, <3>1 DEF Typed
      <4> QED BY <4>1
    <3>4. o \in Int /\ ValueOf(n) \in Int /\ goal[b] = ValueOf(n) + o
          /\ f.lo[b] = e.refs[n][1] + o /\ f.hi[b] = e.refs[n][2] + o
      BY <1>3, <1>10, <2>1
    <3> HIDE DEF n, o
    <3> QED BY <3>2, <3>3, <3>4
  <2>2. CASE b \notin AxesOf(h)
    BY <1>3, <1>5, <1>10, <2>2 DEF HeldIn
  <2> QED BY <2>1, <2>2
<1>12. ASSUME NEW b \in AxesOf(h) PROVE InRange(b, goal[b])
  <2>1. b \in Axes
    BY <1>9
  <2>2. f.lo[b] \in Int /\ f.hi[b] \in Int /\ Slack \in Int /\ Limits[b] \in Int
    BY <1>10, <2>1, PlanAssumption DEF Typed, Places
  <2>3. goal[b] \in Int
    BY <1>3, <1>12
  <2> QED BY <1>10, <1>11, <1>12, <2>1, <2>2, <2>3 DEF InRange
<1> QED BY <1>6, <1>10, <1>11, <1>12 DEF h, e, f, goal

LEMMA BoundedMove ==
  ASSUME RInv, Bounded, MoveStep, [Next]_vars
  PROVE  Bounded'
<1>0. Planned /\ AtStep("move")
  BY DEF RInv, MoveStep
<1> DEFINE h == Here
           e == Env[index]
           f == Env[index + 1]
           goal == Goal(h)
<1>1. /\ UNCHANGED <<plan, refs>> /\ pc = "step"
      /\ \/ position' = goal /\ index' = index + 1 /\ UNCHANGED pc
         \/ pc' = "failed"
  BY MoveCases DEF Stopped
<1> SUFFICES ASSUME position' = goal, index' = index + 1, pc' = "step" PROVE Bounded'
  BY <1>1 DEF Bounded
<1>5. \A n \in Aims(Told(index)) : Holds(e, n)
  BY <1>1 DEF Bounded
<1>6. /\ Typed(f) /\ f.refs = e.refs /\ GoesMove(Told(index), h, Told(index + 1))
      /\ \A b \in Axes : f.lo[b] <= goal[b] /\ goal[b] <= f.hi[b]
  BY <1>0, MoveNow
<1>7. Env' = Env /\ Told(index)' = Told(index + 1) /\ (Env[index])' = f
  BY <1>0, EnvKept DEF Told
<1> HIDE DEF h, e, f, goal
<1>12. \A n : ValueOf(n)' = ValueOf(n)
  BY <1>1 DEF ValueOf
<1>13. \A n \in Aims(Told(index))' : Holds(Env[index], n)'
  BY <1>5, <1>6, <1>7, <1>12 DEF GoesMove, Aims, Holds
<1>14. \A b \in Axes : HeldIn(Env[index], b)'
  BY <1>6, <1>7 DEF HeldIn
<1>15. Typed(Env[index])'
  BY <1>6, <1>7 DEF Typed
<1> QED BY <1>13, <1>14, <1>15 DEF Bounded

LEMMA BoundedContactBegin ==
  ASSUME RInv, Bounded, ContactBegin, [Next]_vars
  PROVE  Bounded'
<1>0. Planned /\ Types /\ Phases
  BY DEF RInv
<1>1. /\ UNCHANGED <<plan, index, position, refs>> /\ AtStep("contact") /\ pc = "step"
      /\ \/ pc' = "failed"
         \/ pc' = "contact" /\ stage' = 1 /\ ~(CoarseTravel <= 0)
  BY DEF ContactBegin, AtStep, Fail
<1> SUFFICES ASSUME pc' = "contact", stage' = 1, ~(CoarseTravel <= 0) PROVE Bounded'
  BY <1>1 DEF Bounded
<1>2. CoarseTravel \in Int /\ Here.axis \in Axes
  BY <1>0, <1>1, ContactShape
<1>3. CoarseTravel' > 0
  <2>1. CoarseTravel' = CoarseTravel
    BY <1>1 DEF CoarseTravel, Here
  <2> QED BY <1>2, <2>1
<1>4. Env' = Env /\ Told(index)' = Told(index) /\ (Env[index])' = Env[index] /\ Here' = Here /\ Touched' = Touched
  BY <1>0, <1>1, EnvKept DEF Here, Touched, Told
<1>5. Typed(Env[index]) /\ (\A b \in Axes : HeldIn(Env[index], b)) /\ \A n \in Aims(Told(index)) : Holds(Env[index], n)
  BY <1>1 DEF Bounded
<1>6. Typed(Env[index])' /\ \A b \in Axes : HeldIn(Env[index], b)'
  BY <1>1, <1>4, <1>5 DEF Typed, HeldIn
<1>7. \A n \in Aims(Told(index))' : Holds(Env[index], n)'
  BY <1>1, <1>4, <1>5 DEF Holds, Aims, ValueOf
<1>8. StageLow(Env[index], Here, stage)' <= position'[Here'.axis]
      /\ position'[Here'.axis] <= StageHigh(Env[index], Here, stage)'
  <2>1. Env[index].lo[Here.axis] <= position[Here.axis] /\ position[Here.axis] <= Env[index].hi[Here.axis]
    BY <1>2, <1>5 DEF HeldIn
  <2>2. StageLow(Env[index], Here, stage)' = Env[index].lo[Here.axis]
        /\ StageHigh(Env[index], Here, stage)' = Env[index].hi[Here.axis]
    BY <1>4 DEF StageLow, StageHigh
  <2> QED BY <1>1, <1>4, <2>1, <2>2
<1> QED BY <1>3, <1>6, <1>7, <1>8 DEF Bounded

LEMMA BoundedStage ==
  ASSUME RInv, Bounded, ContactStage, [Next]_vars
  PROVE  Bounded'
<1>0. Planned /\ Types /\ Phases /\ pc = "contact" /\ stage \in 1..4 /\ at = position
      /\ UNCHANGED <<plan, index>>
  BY StageCases DEF RInv
<1>n. pc' # "step"
  BY <1>0, StageCases DEF Touches, BacksOff, Misses, Breaks
<1> SUFFICES ASSUME pc' = "contact" PROVE Bounded'
  BY <1>n DEF Bounded
<1> DEFINE a == Here.axis
           d == Here.dir
           e == Env[index]
           lowK(k) == StageLow(e, Here, k)
           highK(k) == StageHigh(e, Here, k)
           p == position[a]
<1>1. /\ a \in Axes /\ d \in {-1, 1} /\ StageReach \in Int /\ config.retract \in Int
      /\ config.radius \in Int /\ Touched \in Surfaces
  BY <1>0, ContactShape DEF Touched
<1>2. /\ Typed(e) /\ (\A b \in Axes \ {a} : HeldIn(e, b))
      /\ (\A n \in Aims(Told(index)) \ {Touched} : Holds(e, n))
      /\ lowK(stage) <= p /\ p <= highK(stage) /\ (stage = 1 => CoarseTravel > 0)
      /\ (stage \in 4..5 /\ a \in Sideways =>
            lowK(4) + Off(Here) <= refs[Touched] /\ refs[Touched] <= highK(4) + Off(Here))
  BY <1>0 DEF Bounded
<1>3. at \in Places /\ position \in Places /\ p \in Int /\ refs \in [Surfaces -> Int \cup {None}]
  BY <1>0, <1>1 DEF Types, Places
<1>4. Env' = Env /\ Told(index)' = Told(index) /\ (Env[index])' = e /\ Here' = Here /\ Touched' = Touched
      /\ config' = config
  BY <1>0, EnvKept, PlanSame DEF Here, Touched, Told
<1>5. /\ \A b \in Axes \ {a} : position'[b] = position[b]
      /\ \E v \in Int : refs' = [refs EXCEPT ![Touched] = v] \/ refs' = refs
  <2>1. 0 \in Int
    OBVIOUS
  <2> QED BY <2>1, StageKeeps DEF Touched
<1>6. Touches(a, d) \/ BacksOff(a, d)
  BY <1>0, StageCases DEF Misses, Breaks
<1>7. /\ lowK(stage') <= position'[a] /\ position'[a] <= highK(stage') /\ stage' \in 2..5
      /\ stage' = 4 /\ a \in Sideways => refs'[Touched] = position'[a] + Off(Here)
      /\ stage' # 4 => refs' = refs /\ (stage' = 5 => stage = 4)
  <2>1. CASE Touches(a, d)
    <3>1. PICK n \in 0..StageReach : at' = Shifted(a, d * n)
      BY <2>1 DEF Touches
    <3>2. n \in Int /\ d * n \in Int
      BY <1>1, Signed
    <3>3. stage \in {1, 3} /\ stage' = stage + 1 /\ position' = at'
          /\ refs' = IF stage = 3 THEN [refs EXCEPT ![Touched] = FineValue(a, d, at')] ELSE refs
      BY <2>1 DEF Touches, Touched
    <3>4. at'[a] = p + d * n
      <4> HIDE DEF d
      <4> QED BY <1>0, <1>1, <1>3, <3>1, <3>2, ShiftedPlace
    <3>5. lowK(stage + 1) <= p + d * n /\ p + d * n <= highK(stage + 1)
      BY <1>0, <1>2, <1>3, <3>3, ProbeWithin
    <3>6. a \in Sideways => FineValue(a, d, at') = at'[a] + Off(Here)
      <4>1. a \in Sideways => a # "Z"
        BY DEF Sideways
      <4> QED BY <4>1 DEF FineValue, Off
    <3>7. stage = 3 => refs'[Touched] = FineValue(a, d, at')
      BY <1>1, <1>3, <3>3
    <3> HIDE DEF a, d, lowK, highK, p
    <3> QED BY <3>3, <3>4, <3>5, <3>6, <3>7
  <2>2. CASE BacksOff(a, d)
    <3>1. at' = Shifted(a, -d * config.retract) /\ stage \in {2, 4} /\ stage' = stage + 1 /\ position' = at'
          /\ refs' = refs
      BY <2>2 DEF BacksOff
    <3>2. -d * config.retract \in Int
      BY <1>1, Signed
    <3>3. at'[a] = p + (-d * config.retract)
      <4> HIDE DEF d
      <4> QED BY <1>0, <1>1, <1>3, <3>1, <3>2, ShiftedPlace
    <3>4. lowK(stage + 1) <= p + (-d * config.retract) /\ p + (-d * config.retract) <= highK(stage + 1)
      BY <1>0, <1>2, <1>3, <3>1, BackOffWithin
    <3> HIDE DEF a, d, lowK, highK, p
    <3> QED BY <3>1, <3>3, <3>4
  <2> QED BY <1>6, <2>1, <2>2
<1>8. ASSUME stage' \in 4..5, a \in Sideways
      PROVE  lowK(4) + Off(Here) <= refs'[Touched] /\ refs'[Touched] <= highK(4) + Off(Here)
  <2>1. CASE stage' = 4
    <3>1. /\ lowK(4) <= position'[a] /\ position'[a] <= highK(4)
          /\ refs'[Touched] = position'[a] + Off(Here)
      BY <1>7, <1>8, <2>1
    <3>2. lowK(4) \in Int /\ highK(4) \in Int /\ Off(Here) \in Int /\ position'[a] \in Int
      <4>1. e.lo[a] \in Int /\ e.hi[a] \in Int /\ Slack \in Int /\ Here.limit \in Int /\ ProbeOffset[a] \in Int
        BY <1>0, <1>1, <1>2, ContactShape, PlanAssumption DEF Typed, Places
      <4>2. d * config.radius \in Int
        BY <1>1, Signed
      <4>3. position'[a] \in Int
        BY <1>1, StagePlaces DEF Places
      <4> QED BY <1>1, <4>1, <4>2, <4>3 DEF StageLow, StageHigh, Off
    <3> HIDE DEF lowK, highK, a
    <3> QED BY <3>1, <3>2
  <2>2. CASE stage' = 5
    <3>1. refs' = refs /\ stage = 4
      BY <1>7, <2>2
    <3> QED BY <1>2, <1>8, <3>1
  <2> QED BY <1>8, <2>1, <2>2
<1>9. \A n \in (Surfaces \cup Starts) \ {Touched} : ValueOf(n)' = ValueOf(n)
  BY <1>0, <1>1, <1>3, <1>5, OtherValues
<1>10. \A n \in (Aims(Told(index)) \ {Touched})' : Holds(Env[index], n)'
  BY <1>2, <1>4, <1>9, MoveNamesAre DEF Aims, Holds
<1>11. Typed(Env[index])' /\ \A b \in Axes \ {a} : HeldIn(Env[index], b)'
  BY <1>2, <1>4, <1>5 DEF Typed, HeldIn
<1>12. \A k : StageLow(Env[index], Here, k)' = lowK(k) /\ StageHigh(Env[index], Here, k)' = highK(k)
  BY <1>4 DEF StageLow, StageHigh
<1>13. StageLow(Env[index], Here, stage)' = lowK(stage') /\ StageHigh(Env[index], Here, stage)' = highK(stage')
       /\ StageLow(Env[index], Here, 4)' = lowK(4) /\ StageHigh(Env[index], Here, 4)' = highK(4)
       /\ Off(Here)' = Off(Here) /\ Here'.axis = a
  BY <1>4 DEF StageLow, StageHigh, Off
<1> HIDE DEF lowK, highK, a
<1>14. stage' # 1
  BY <1>7
<1> QED BY <1>4, <1>7, <1>8, <1>10, <1>11, <1>13, <1>14 DEF Bounded

LEMMA BoundedContactEnd ==
  ASSUME RInv, Bounded, ContactEnd, [Next]_vars
  PROVE  Bounded'
<1>0. Planned /\ Types /\ Phases
  BY DEF RInv
<1> DEFINE a == Here.axis
           e == Env[index]
           f == Env[index + 1]
<1>1. /\ UNCHANGED <<plan, refs, position>> /\ index' = index + 1 /\ pc = "contact" /\ stage = 5 /\ pc' = "step"
  BY DEF ContactEnd
<1>2. Touched \in Surfaces /\ a \in Axes /\ Here.tag \in Tags /\ GoesContact(Told(index), Here, Told(index + 1))
  BY <1>0, <1>1, ContactShape DEF Goes, Touched
<1>3. /\ Typed(e) /\ (\A b \in Axes \ {a} : HeldIn(e, b))
      /\ (\A n \in Aims(Told(index)) \ {Touched} : Holds(e, n))
      /\ StageLow(e, Here, 5) <= position[a] /\ position[a] <= StageHigh(e, Here, 5)
      /\ (a \in Sideways => /\ StageLow(e, Here, 4) + Off(Here) <= refs[Touched]
                            /\ refs[Touched] <= StageHigh(e, Here, 4) + Off(Here))
  BY <1>1 DEF Bounded
<1>4. /\ Typed(f)
      /\ \A b \in Axes \ {a} : f.lo[b] = e.lo[b] /\ f.hi[b] = e.hi[b]
      /\ f.lo[a] = StageLow(e, Here, 5) /\ f.hi[a] = StageHigh(e, Here, 5)
      /\ f.refs[Touched][1] = StageLow(e, Here, 4) + Off(Here)
      /\ f.refs[Touched][2] = StageHigh(e, Here, 4) + Off(Here)
      /\ \A n \in Names \ {Touched} : f.refs[n] = e.refs[n]
  BY <1>0, <1>1, <1>3, ContactNow
<1>5. Env' = Env /\ Told(index)' = Told(index + 1) /\ (Env[index])' = f
  BY <1>0, <1>1, EnvKept DEF Told
<1>6. Touched \in MoveNames => a \in Sideways
  BY <1>2, MoveNamesAre DEF Touched
<1>7. ValueOf(Touched) = refs[Touched] /\ \A n : ValueOf(n)' = ValueOf(n)
  BY <1>1 DEF ValueOf, Touched, Surface
<1> HIDE DEF e, f, a
<1>8. ASSUME NEW n \in Aims(Told(index + 1)) PROVE f.refs[n][1] <= ValueOf(n) /\ ValueOf(n) <= f.refs[n][2]
  <2>1. CASE n = Touched
    <3>1. a \in Sideways
      BY <1>6, <2>1 DEF Aims
    <3> QED BY <1>3, <1>4, <1>7, <2>1, <3>1
  <2>2. CASE n # Touched
    <3>1. n \in Aims(Told(index)) /\ n \in Names
      BY <1>2, <2>2, MoveNamesAre DEF Aims, GoesContact, Touched
    <3> QED BY <1>3, <1>4, <2>2, <3>1 DEF Holds
  <2> QED BY <2>1, <2>2
<1>9. \A n \in Aims(Told(index))' : Holds(Env[index], n)'
  BY <1>5, <1>7, <1>8 DEF Aims, Holds
<1>10. ASSUME NEW b \in Axes PROVE f.lo[b] <= position[b] /\ position[b] <= f.hi[b]
  <2>1. CASE b = a
    BY <1>3, <1>4, <2>1
  <2>2. CASE b # a
    BY <1>3, <1>4, <2>2 DEF HeldIn
  <2> QED BY <2>1, <2>2
<1>11. \A b \in Axes : HeldIn(Env[index], b)'
  BY <1>1, <1>5, <1>10 DEF HeldIn
<1>12. Typed(Env[index])'
  BY <1>4, <1>5 DEF Typed
<1> QED BY <1>1, <1>9, <1>11, <1>12 DEF Bounded

LEMMA BoundedStep == RInv /\ Bounded /\ [Next]_vars => Bounded'
<1> SUFFICES ASSUME RInv, Bounded, [Next]_vars PROVE Bounded'
  OBVIOUS
<1>1. CASE Begin \/ CenterStep \/ MoveStep \/ ContactBegin \/ ContactStage \/ ContactEnd
  BY <1>1, BoundedBegin, BoundedCenter, BoundedMove, BoundedContactBegin, BoundedStage, BoundedContactEnd
<1>2. CASE pc' \notin {"step", "contact"}
  BY <1>2 DEF Bounded
<1>3. CASE UNCHANGED <<plan, pc, index, stage, position, refs, result>>
  <2>1. config' = config /\ Here' = Here /\ Touched' = Touched /\ Env' = Env /\ (Env[index])' = Env[index]
        /\ Told(index)' = Told(index)
    BY <1>3 DEF config, Here, Touched, Env, Told
  <2>2. CoarseTravel' = CoarseTravel /\ Off(Here)' = Off(Here)
    BY <1>3, <2>1 DEF CoarseTravel, Off
  <2>3. /\ StageLow(Env[index], Here, stage)' = StageLow(Env[index], Here, stage)
        /\ StageHigh(Env[index], Here, stage)' = StageHigh(Env[index], Here, stage)
        /\ StageLow(Env[index], Here, 4)' = StageLow(Env[index], Here, 4)
        /\ StageHigh(Env[index], Here, 4)' = StageHigh(Env[index], Here, 4)
    BY <1>3, <2>1 DEF StageLow, StageHigh
  <2>4. \A n : ValueOf(n)' = ValueOf(n)
    BY <1>3 DEF ValueOf
  <2> QED BY <1>3, <2>1, <2>2, <2>3, <2>4 DEF Bounded, Typed, HeldIn, Holds, Aims
<1> QED BY <1>1, <1>2, <1>3, StepOrNot


LEMMA AlwaysBounded == Spec => [](RInv /\ Bounded)
<1>1. Init => Bounded
  BY DEF Init, Bounded
<1>2. RInv /\ Bounded /\ [Next]_vars => Bounded'
  BY BoundedStep
<1> QED BY <1>1, <1>2, AlwaysRInv, PTL DEF Spec

(* Every stage of a contact is within the travel.                          *)
LEMMA StagesInRange ==
  ASSUME Planned, Types, Phases, pc = "contact" \/ AtStep("contact"), Typed(Env[index]), NEW k \in 1..5
  PROVE  /\ StageLow(Env[index], Here, k) \in Int /\ StageHigh(Env[index], Here, k) \in Int
         /\ Slack - Limits[Here.axis] <= StageLow(Env[index], Here, k)
         /\ StageHigh(Env[index], Here, k) <= 0
<1> DEFINE e == Env[index]
           a == Here.axis
           r == config.retract
           lo == e.lo[a]
           hi == e.hi[a]
           l == Here.limit
           floor == Slack - Limits[a]
<1>1. a \in Axes /\ Here.dir \in {-1, 1} /\ l \in Int /\ r \in Int /\ r > 0 /\ Slack \in Int /\ Slack > 0
  BY ContactShape, ValidRanges, PlanAssumption DEF Planned
<1>2. lo \in Int /\ hi \in Int /\ floor \in Int
  BY <1>1, PlanAssumption DEF Typed, Places
<1>3. /\ floor <= lo /\ hi <= 0
      /\ floor <= StageLow(e, Here, 4) /\ StageHigh(e, Here, 4) <= 0
      /\ floor <= StageLow(e, Here, 5) /\ StageHigh(e, Here, 5) <= 0
  BY ContactNow
<1>4. CASE Here.dir = 1
  <2>1. /\ StageLow(e, Here, k) = IF k <= 2 THEN lo ELSE IF k <= 4 THEN lo - r ELSE lo - r - r
        /\ StageHigh(e, Here, k) = IF k = 1 THEN hi ELSE IF k = 2 THEN l ELSE IF k = 3 THEN l - r
                                   ELSE IF k = 4 THEN l + Slack ELSE l + Slack - r
        /\ StageLow(e, Here, 4) = lo - r /\ StageHigh(e, Here, 4) = l + Slack
        /\ StageLow(e, Here, 5) = lo - r - r
    BY <1>4 DEF StageLow, StageHigh
  <2> HIDE DEF e, lo, hi, l, r, floor
  <2>2. /\ StageLow(e, Here, k) \in Int /\ StageHigh(e, Here, k) \in Int
        /\ floor <= StageLow(e, Here, k) /\ StageHigh(e, Here, k) <= 0
    BY <1>1, <1>2, <1>3, <2>1
  <2> QED BY <2>2 DEF e, floor, a
<1>5. CASE Here.dir = -1
  <2>1. /\ StageLow(e, Here, k) = IF k = 1 THEN lo ELSE IF k = 2 THEN l ELSE IF k = 3 THEN l + r
                                  ELSE IF k = 4 THEN l - Slack ELSE l - Slack + r
        /\ StageHigh(e, Here, k) = IF k <= 2 THEN hi ELSE IF k <= 4 THEN hi + r ELSE hi + r + r
        /\ StageLow(e, Here, 4) = l - Slack /\ StageHigh(e, Here, 4) = hi + r
        /\ StageHigh(e, Here, 5) = hi + r + r
    BY <1>5 DEF StageLow, StageHigh
  <2> HIDE DEF e, lo, hi, l, r, floor
  <2>2. /\ StageLow(e, Here, k) \in Int /\ StageHigh(e, Here, k) \in Int
        /\ floor <= StageLow(e, Here, k) /\ StageHigh(e, Here, k) <= 0
    BY <1>1, <1>2, <1>3, <2>1
  <2> QED BY <2>2 DEF e, floor, a
<1> QED BY <1>1, <1>4, <1>5

\* Wherever its contacts have left it, a reviewed routine finds room for the
\* next one: preview_contact never refuses what validate_envelope accepted.
THEOREM ReviewIsEnough == Spec => []ReviewCoversPreview
<1>1. RInv /\ Bounded => ReviewCoversPreview
  <2> SUFFICES ASSUME RInv, Bounded, AtStep("contact"), CoarseTravel > 0 PROVE PreviewFits
    BY DEF ReviewCoversPreview
  <2>0. Planned /\ Types /\ Phases /\ pc = "step"
    BY DEF RInv, AtStep
  <2> DEFINE a == Here.axis
             d == Here.dir
             p == position[a]
             r == config.retract
             l == Here.limit
             t == CoarseTravel
             floor == Slack - Limits[a]
  <2>1. /\ a \in Axes /\ d \in {-1, 1} /\ l \in Int /\ r \in Int /\ r > 0 /\ Slack \in Int /\ Slack > 0
        /\ t \in Int /\ t > 0 /\ t = IF d = 1 THEN l - p ELSE p - l
    BY <2>0, ContactShape, ValidRanges, PlanAssumption DEF Planned
  <2>2. p \in Int /\ floor \in Int
    BY <2>0, <2>1, PlanAssumption DEF Types, Places
  <2>3. Typed(Env[index]) /\ Env[index].lo[a] <= p /\ p <= Env[index].hi[a]
    BY <2>0, <2>1 DEF Bounded, HeldIn
  <2>4. Env[index].lo[a] \in Int /\ Env[index].hi[a] \in Int
    BY <2>1, <2>3 DEF Typed, Places
  <2>5. floor <= Env[index].lo[a] /\ Env[index].hi[a] <= 0
    BY <2>0, <2>3, ContactNow
  <2>6. \A k \in 4..5 : floor <= StageLow(Env[index], Here, k) /\ StageHigh(Env[index], Here, k) <= 0
    BY <2>0, <2>3, ContactNow
  <2>7. CASE d = 1
    <3>1. floor <= Env[index].lo[a] - r - r /\ l + Slack <= 0
      BY <2>6, <2>7 DEF StageLow, StageHigh
    <3>2. d * 2 * r = 2 * r /\ d * (t + Slack) = t + Slack
      BY <2>1, <2>7
    <3> HIDE DEF a, d, p, r, l, t, floor
    <3>3. /\ floor <= p /\ p <= 0 /\ floor <= p - 2 * r /\ p - 2 * r <= 0
          /\ floor <= p + (t + Slack) /\ p + (t + Slack) <= 0
      BY <2>1, <2>2, <2>3, <2>4, <2>5, <2>7, <3>1
    <3> QED BY <3>2, <3>3 DEF PreviewFits, a, d, p, r, t, floor
  <2>8. CASE d = -1
    <3>1. Env[index].hi[a] + r + r <= 0 /\ floor <= l - Slack
      BY <2>6, <2>8 DEF StageLow, StageHigh
    <3>2. d * 2 * r = -(2 * r) /\ d * (t + Slack) = -(t + Slack)
      BY <2>1, <2>8
    <3> HIDE DEF a, d, p, r, l, t, floor
    <3>3. /\ floor <= p /\ p <= 0 /\ floor <= p - (-(2 * r)) /\ p - (-(2 * r)) <= 0
          /\ floor <= p + (-(t + Slack)) /\ p + (-(t + Slack)) <= 0
      BY <2>1, <2>2, <2>3, <2>4, <2>5, <2>8, <3>1
    <3> QED BY <3>2, <3>3 DEF PreviewFits, a, d, p, r, t, floor
  <2> QED BY <2>1, <2>7, <2>8
<1> QED BY <1>1, AlwaysBounded, PTL


-----------------------------------------------------------------------------
(* The carriage stays within its travel.                                   *)

InTravel(p) == \A a \in Axes : InRange(a, p[a])
(* What the machine itself sees to: it is within its travel when a routine *)
(* is reviewed, and an operator jogs within it.                            *)
StartsInTravel == (\A k \in Cases : InTravel(k.start)) /\ (\A p \in Jogs : InTravel(p))

Inside ==
  /\ InTravel(plan.start)
  /\ changed.what # "moved" => InTravel(at) /\ (pc = "legs" => \A k \in 1..Len(legs) : InTravel(legs[k]))

LEMMA StopsInTravel ==
  ASSUME NEW from \in Places, NEW to \in Places, InTravel(from), InTravel(to), NEW p \in Stops(from, to)
  PROVE  InTravel(p)
<1> SUFFICES ASSUME NEW a \in Axes PROVE InRange(a, p[a])
  BY DEF InTravel
<1>1. /\ Lesser(from[a], to[a]) <= p[a] /\ p[a] <= Greater(from[a], to[a])
      /\ from[a] \in Int /\ to[a] \in Int /\ p[a] \in Int
  BY StopsBetween DEF Places
<1>2. Slack - Limits[a] \in Int
  BY PlanAssumption
<1>3. InRange(a, from[a]) /\ InRange(a, to[a])
  BY DEF InTravel
<1> QED BY <1>1, <1>2, <1>3 DEF InRange, Lesser, Greater

(* Where a stage of a contact is headed.                                   *)
LEMMA StageInTravel ==
  ASSUME RInv, Bounded, pc = "contact", at = position, InTravel(at), NEW by \in Int,
         \/ stage \in {1, 3} /\ \E n \in 0..StageReach : by = Here.dir * n
         \/ stage \in {2, 4} /\ by = -Here.dir * config.retract
  PROVE  Shifted(Here.axis, by) \in Places /\ InTravel(Shifted(Here.axis, by))
<1>0. Planned /\ Types /\ Phases /\ at \in Places
  BY DEF RInv, Types
<1> DEFINE a == Here.axis
           q == Shifted(a, by)
           e == Env[index]
<1>1. a \in Axes /\ at[a] \in Int /\ stage \in Int
  BY <1>0, ContactShape DEF Places, Types
<1>2. q \in Places /\ q[a] = at[a] + by /\ \A b \in Axes \ {a} : q[b] = at[b]
  BY <1>0, <1>1, ShiftedPlace
<1>3. /\ Typed(e) /\ StageLow(e, Here, stage) <= at[a] /\ at[a] <= StageHigh(e, Here, stage)
      /\ stage = 1 => CoarseTravel > 0
  BY DEF Bounded
<1>4. StageLow(e, Here, stage + 1) <= at[a] + by /\ at[a] + by <= StageHigh(e, Here, stage + 1)
  <2>1. CASE stage \in {1, 3} /\ \E n \in 0..StageReach : by = Here.dir * n
    BY <1>0, <1>1, <1>3, <2>1, ProbeWithin
  <2>2. CASE stage \in {2, 4} /\ by = -Here.dir * config.retract
    BY <1>0, <1>1, <1>3, <2>2, BackOffWithin
  <2> QED BY <2>1, <2>2
<1>5. stage + 1 \in 1..5
  BY <1>1
<1>6. /\ StageLow(e, Here, stage + 1) \in Int /\ StageHigh(e, Here, stage + 1) \in Int
      /\ Slack - Limits[a] <= StageLow(e, Here, stage + 1) /\ StageHigh(e, Here, stage + 1) <= 0
  BY <1>0, <1>3, <1>5, StagesInRange
<1>7. InRange(a, at[a] + by)
  <2>1. Slack - Limits[a] \in Int
    BY <1>1, PlanAssumption
  <2> DEFINE u == StageLow(e, Here, stage + 1)
             v == StageHigh(e, Here, stage + 1)
             floor == Slack - Limits[a]
  <2>2. u \in Int /\ v \in Int /\ floor \in Int /\ floor <= u /\ v <= 0 /\ u <= at[a] + by /\ at[a] + by <= v
    BY <1>4, <1>6, <2>1
  <2> HIDE DEF u, v, floor, a
  <2>3. floor <= at[a] + by /\ at[a] + by <= 0
    BY <1>1, <2>2
  <2> QED BY <2>3 DEF InRange, floor
<1> HIDE DEF q, a
<1>8. InTravel(q)
  BY <1>2, <1>7 DEF InTravel
<1> QED BY <1>2, <1>8 DEF q, a

LEMMA TravelInContact ==
  ASSUME RInv, Bounded, ContactStage, InTravel(at)
  PROVE  InTravel(at')
<1>0. /\ Planned /\ Types /\ Phases /\ pc = "contact" /\ stage \in 1..4 /\ at = position /\ at \in Places
      /\ \/ Touches(Here.axis, Here.dir) \/ BacksOff(Here.axis, Here.dir)
         \/ Misses(Here.axis, Here.dir) \/ Breaks(Here.axis, Here.dir)
  BY StageCases DEF RInv, Types
<1> DEFINE a == Here.axis
           d == Here.dir
           back == -d * config.retract
           reach == d * StageReach
<1>1. a \in Axes /\ d \in {-1, 1} /\ StageReach \in Int /\ config.retract \in Int
  BY <1>0, ContactShape
<1>2. back \in Int /\ (\A n \in Int : d * n \in Int) /\ reach \in Int
  BY <1>1, Signed
<1>3. stage \in {1, 3} => StageReach \in 0..StageReach
  <2>1. stage = 1 => CoarseTravel > 0
    BY <1>0 DEF Bounded
  <2>2. config.retract > 0 /\ Slack \in Int /\ Slack > 0 /\ CoarseTravel \in Int
    BY <1>0, ContactShape, ValidRanges, PlanAssumption DEF Planned
  <2>3. stage \in {1, 3} => StageReach = IF stage = 1 THEN CoarseTravel ELSE config.retract + Slack
    BY <1>0, StageNames DEF StageReach
  <2> QED BY <1>1, <2>1, <2>2, <2>3
<1>4. stage \in {2, 4} => Shifted(a, back) \in Places /\ InTravel(Shifted(a, back))
  BY <1>0, <1>2, StageInTravel
<1>5. \A n \in 0..StageReach : stage \in {1, 3} => Shifted(a, d * n) \in Places /\ InTravel(Shifted(a, d * n))
  BY <1>0, <1>2, StageInTravel
<1>6. stage \in {1, 3} => Shifted(a, reach) \in Places /\ InTravel(Shifted(a, reach))
  BY <1>3, <1>5
<1>7. CASE Touches(a, d)
  BY <1>5, <1>7 DEF Touches
<1>8. CASE BacksOff(a, d)
  BY <1>4, <1>8 DEF BacksOff
<1>9. CASE Misses(a, d)
  BY <1>6, <1>9 DEF Misses
<1>10. CASE Breaks(a, d)
  <2>1. at' \in Stops(at, Shifted(a, IF stage \in {2, 4} THEN back ELSE reach))
    BY <1>10 DEF Breaks
  <2> HIDE DEF back, reach, a, d
  <2>2. CASE stage \in {2, 4}
    BY <1>0, <1>4, <2>1, <2>2, StopsInTravel
  <2>3. CASE stage \notin {2, 4}
    BY <1>0, <1>6, <2>1, <2>3, StopsInTravel
  <2> QED BY <2>2, <2>3
<1> QED BY <1>0, <1>7, <1>8, <1>9, <1>10

LEMMA TravelInMove ==
  ASSUME RInv, Bounded, MoveStep, InTravel(at)
  PROVE  InTravel(at')
<1>0. /\ Planned /\ Types /\ Phases /\ Known /\ at \in Places /\ AtStep("move")
      /\ at = position /\ (at' = Goal(Here) \/ Stopped(Goal(Here)))
  BY MoveCases DEF RInv, Types, MoveStep
<1> DEFINE goal == Goal(Here)
<1>1. goal \in Places /\ \A a \in Axes \ AxesOf(Here) : goal[a] = position[a]
  BY <1>0, GoalOfMove
<1>2. \A a \in AxesOf(Here) : InRange(a, goal[a])
  BY <1>0, MoveNow
<1>3. at' = goal \/ at' = at \/ at' \in Stops(at, goal)
  BY <1>0 DEF Stopped
<1> HIDE DEF goal
<1>4. InTravel(goal)
  BY <1>0, <1>1, <1>2 DEF InTravel
<1> QED BY <1>0, <1>1, <1>3, <1>4, StopsInTravel


(* The moves that are left of an action.                                   *)
LegsInside(ls) == \A k \in 1..Len(ls) : InTravel(ls[k])

LEMMA TwoInside ==
  ASSUME NEW u, NEW v, InTravel(u), InTravel(v)
  PROVE  LegsInside(<<u, v>>)
<1>1. \A k \in 1..Len(<<u, v>>) : <<u, v>>[k] \in {u, v}
  OBVIOUS
<1> QED BY <1>1 DEF LegsInside

LEMMA LegsOfReturn ==
  ASSUME RInv, Inside, ReturnToStart, changed.what # "moved", pc' = "legs"
  PROVE  LegsInside(legs')
<1> DEFINE beside == [plan.start EXCEPT !["Z"] = at["Z"]]
<1>1. legs' = <<beside, plan.start>>
  BY DEF ReturnToStart, Over
<1>2. InTravel(plan.start) /\ InTravel(at) /\ plan.start \in Places
  BY DEF Inside, RInv, Planned
<1>3. \A a \in Axes : beside[a] = plan.start[a] \/ (beside[a] = at[a])
  BY <1>2 DEF Places
<1> HIDE DEF beside
<1>4. InTravel(beside)
  BY <1>2, <1>3 DEF InTravel
<1> QED BY <1>1, <1>2, <1>4, TwoInside

LEMMA LegsToMeasured ==
  ASSUME RInv, Inside, NEW z \in Clearances, GoToMeasured(z), changed.what # "moved", pc' = "legs"
  PROVE  LegsInside(legs')
<1>0. /\ at \in Places /\ result \in Results /\ Planned /\ result.settled /\ Endings /\ z \in Int
      /\ InTravel(at)
  BY RoutineAssumption DEF RInv, Types, GoToMeasured, Act, Inside
<1> DEFINE up == [at EXCEPT !["Z"] = @ + z]
           over == [a \in Axes |-> IF a \in MeasuredAxes(config)
                                   THEN result.point[a] - ProbeOffset[a] ELSE up[a]]
           M == MeasuredAxes(config)
<1>1. /\ legs' = <<up, over>> /\ ~config.z
      /\ \A a \in M \cup {"Z"} : check_path(a, Lesser(at[a], over[a]), Greater(at[a], over[a]))
  BY DEF GoToMeasured, PathFits, Over
<1>2. Found
  BY <1>0 DEF Endings
<1>3. M \subseteq Axes /\ "Z" \in Axes /\ "Z" \notin M
  <2>1. M \subseteq Axes
    BY <1>0, MeasuredPoints
  <2>2. "Z" \notin M
    BY <1>1 DEF MeasuredAxes, Enabled
  <2> QED BY <2>1, <2>2, PlainNames
<1>4. /\ up \in Places
      /\ \A a \in Axes \ {"Z"} : up[a] = at[a]
      /\ \A a \in M : over[a] = result.point[a] - ProbeOffset[a]
      /\ \A a \in Axes \ M : over[a] = up[a]
  BY <1>0, <1>3 DEF Places
<1>5. over \in Places
  BY <1>2, <1>4, PlanAssumption DEF Found, Places
<1> HIDE DEF up, over, M
<1>6. ASSUME NEW a \in M \cup {"Z"} PROVE InRange(a, over[a])
  <2>1. at[a] \in Int /\ over[a] \in Int /\ Slack - Limits[a] \in Int
    BY <1>0, <1>3, <1>5, PlanAssumption DEF Places
  <2> QED BY <1>1, <2>1 DEF check_path, Lesser, Greater, InRange
<1>7. InTravel(up)
  <2>1. InRange("Z", up["Z"])
    BY <1>3, <1>4, <1>6
  <2> QED BY <1>0, <1>4, <2>1 DEF InTravel
<1>8. InTravel(over)
  BY <1>4, <1>6, <1>7 DEF InTravel
<1> QED BY <1>1, <1>7, <1>8, TwoInside

LEMMA TravelOnLeg ==
  ASSUME RInv, Leg, InTravel(at), LegsInside(legs)
  PROVE  InTravel(at') /\ LegsInside(legs')
<1>1. at \in Places /\ legs \in Seq(Places) /\ legs # <<>>
  BY LegCases DEF RInv, Types
<1>2. Head(legs) \in Places /\ Head(legs) = legs[1] /\ Len(legs) \in Nat /\ Len(legs) >= 1
  BY <1>1
<1>3. InTravel(Head(legs))
  BY <1>2 DEF LegsInside
<1>4. LegsInside(Tail(legs))
  <2>1. Len(Tail(legs)) = Len(legs) - 1 /\ \A i \in 1..Len(Tail(legs)) : Tail(legs)[i] = legs[i + 1]
    BY <1>1, HeadTailProperties
  <2> DEFINE t == Tail(legs)
  <2> HIDE DEF t
  <2>2. \A i \in 1..Len(t) : t[i] = legs[i + 1] /\ i + 1 \in 1..Len(legs)
    BY <1>2, <2>1 DEF t
  <2> QED BY <2>2 DEF LegsInside, t
<1>5. \/ at' = Head(legs) /\ legs' = Tail(legs)
      \/ (at' = at \/ at' \in Stops(at, Head(legs))) /\ legs' = legs
  BY LegCases DEF Stopped
<1> QED BY <1>1, <1>2, <1>3, <1>4, <1>5, StopsInTravel

LEMMA TravelInRaise ==
  ASSUME RInv, Inside, RaiseAfterMiss, InTravel(at)
  PROVE  InTravel(at')
<1> DEFINE lifted == [at EXCEPT !["Z"] = plan.start["Z"]]
<1>1. at' \in {lifted, at} \/ at' \in Stops(at, lifted)
  BY DEF RaiseAfterMiss
<1>2. at \in Places /\ plan.start \in Places /\ InTravel(plan.start) /\ "Z" \in Axes
  BY PlainNames DEF RInv, Types, Planned, Inside
<1>3. lifted \in Places /\ \A a \in Axes : lifted[a] = at[a] \/ lifted[a] = plan.start[a]
  BY <1>2 DEF Places
<1> HIDE DEF lifted
<1>4. InTravel(lifted)
  BY <1>2, <1>3 DEF InTravel
<1> QED BY <1>1, <1>2, <1>3, <1>4, StopsInTravel

LEMMA InsideStep ==
  ASSUME StartsInTravel, RInv, Bounded, Inside, [Next]_vars
  PROVE  Inside'
<1>1. InTravel(plan'.start)
  BY PlanSame DEF Inside, RInv
<1> SUFFICES ASSUME changed'.what # "moved"
             PROVE  InTravel(at') /\ (pc' = "legs" => LegsInside(legs'))
  BY <1>1 DEF Inside, InTravel, LegsInside
<1>2. changed.what # "moved"
  <2>1. changed' = changed \/ changed.what = "nothing"
    <3>1. CASE \E what \in Changes : Disturb(what)
      BY <3>1 DEF Disturb, NoChange, Change
    <3>2. CASE ~\E what \in Changes : Disturb(what)
      BY <3>2, LegCases, MoveCases DEF Next, vars, machineVars, Begin, StepRefused, CenterStep, ContactBegin,
         StageRefused, ContactStage, ContactEnd, StepsDone, ZeroQuery, WriteZero, RaiseAfterMiss,
         RestoreAfterFailure, Finish, Report, Jog, ReturnToStart, GoToMeasured, LegsDone, ZeroResult,
         ZeroApplied, ActionFailed, Act
    <3> QED BY <3>1, <3>2
  <2> QED BY <2>1
<1>3. InTravel(at) /\ (pc = "legs" => LegsInside(legs))
  BY <1>2 DEF Inside, LegsInside
<1>4. CASE ContactStage
  BY <1>3, <1>4, TravelInContact, StageCases DEF RInv, Touches, BacksOff, Misses, Breaks
<1>5. CASE MoveStep
  BY <1>3, <1>5, TravelInMove, MoveCases DEF Stopped
<1>6. CASE RaiseAfterMiss
  BY <1>3, <1>6, TravelInRaise DEF RaiseAfterMiss, Over
<1>7. CASE Jog
  BY <1>7 DEF Jog, StartsInTravel
<1>8. CASE ReturnToStart
  BY <1>2, <1>3, <1>8, LegsOfReturn DEF ReturnToStart, Act, machineVars
<1>9. CASE \E z \in Clearances : GoToMeasured(z)
  <2>1. PICK z \in Clearances : GoToMeasured(z)
    BY <1>9
  <2>2. at' = at
    BY <2>1 DEF GoToMeasured, Act, machineVars
  <2> QED BY <1>2, <1>3, <2>1, <2>2, LegsToMeasured
<1>10. CASE Leg
  BY <1>3, <1>10, TravelOnLeg, LegCases
<1>11. CASE Begin \/ StepRefused \/ CenterStep \/ ContactBegin \/ StageRefused \/ ContactEnd \/ StepsDone
            \/ ZeroQuery \/ WriteZero \/ RestoreAfterFailure \/ Finish \/ Report
  <2>1. at' = at /\ pc' # "legs"
    BY <1>11 DEF Begin, StepRefused, CenterStep, AtStep, ContactBegin, StageRefused, ContactEnd, StepsDone,
       ZeroQuery, WriteZero, RestoreAfterFailure, Finish, Report, Fail, Over, machineVars
  <2> QED BY <1>3, <2>1
<1>12. CASE LegsDone \/ ZeroResult \/ ZeroApplied \/ ActionFailed
  <2>1. at' = at /\ pc' # "legs"
    BY <1>12 DEF LegsDone, ZeroResult, ZeroApplied, ActionFailed, Act, Fail, Over, machineVars
  <2> QED BY <1>3, <2>1
<1>13. CASE UNCHANGED vars
  BY <1>3, <1>13 DEF vars, machineVars
<1>14. CASE \E what \in Changes : Disturb(what)
  <2>1. PICK what \in Changes : Disturb(what)
    BY <1>14
  <2>2. changed'.what = what
    BY <2>1 DEF Disturb, Change
  <2>3. at' = at /\ UNCHANGED <<pc, legs>>
    BY <2>1, <2>2 DEF Disturb
  <2> QED BY <1>3, <2>3
<1> QED BY <1>4, <1>5, <1>6, <1>7, <1>8, <1>9, <1>10, <1>11, <1>12, <1>13, <1>14 DEF Next

\* A reviewed routine and the actions on its result keep the carriage within
\* the travel limits wherever they touch, miss, fail or are stopped, from any
\* start within them (validate_envelope, preview_contact and the path checks
\* of the actions).
THEOREM CarriageStaysInTravel == StartsInTravel => (Spec => []StaysInTravel)
<1> SUFFICES ASSUME StartsInTravel PROVE Spec => []StaysInTravel
  OBVIOUS
<1>1. Init => Inside
  <2> SUFFICES ASSUME Init PROVE Inside
    OBVIOUS
  <2>1. PICK k \in Cases : plan = Plan(k.config, k.start, [a \in Axes |-> 0]) /\ at = k.start
    BY DEF Init
  <2>2. plan.start = k.start /\ pc = "idle"
    BY <2>1 DEF Plan, Init
  <2> QED BY <2>1, <2>2 DEF StartsInTravel, Inside
<1>2. RInv /\ Bounded /\ Inside /\ [Next]_vars => Inside'
  BY InsideStep
<1>3. Inside => StaysInTravel
  BY DEF Inside, InTravel, InRange, StaysInTravel
<1> QED BY <1>1, <1>2, <1>3, AlwaysBounded, PTL DEF Spec

-----------------------------------------------------------------------------
(* The order of a plan: what a step measures, no step before it has gone   *)
(* by.  Orderly(s, A, B): so it is in s, which goes by surfaces of the     *)
(* axes A and measures surfaces of the axes B.                             *)

Uses(s) == IF s.kind = "move" THEN {s.targets[k].name : k \in DOMAIN s.targets} ELSE {}
Measures(s) ==
  CASE s.kind = "contact" -> {Surface(s.axis, s.tag)}
    [] s.kind = "center" -> {Surface(s.axis, "whole")}
    [] OTHER -> {}
SurfacesOf(A) == {Surface(a, t) : a \in A, t \in Tags}
Orderly(s, A, B) ==
  /\ s \in Seq(StepRecords)
  /\ \A k \in 1..Len(s) : /\ Uses(s[k]) \subseteq Starts \cup SurfacesOf(A)
                          /\ Measures(s[k]) \subseteq SurfacesOf(B)
  /\ \A k \in 1..Len(s), j \in 1..Len(s) : j <= k => Measures(s[k]) \cap Uses(s[j]) = {}

LEMMA SurfacesApart ==
  ASSUME NEW A \in SUBSET Axes, NEW B \in SUBSET Axes, A \cap B = {}
  PROVE  (Starts \cup SurfacesOf(A)) \cap SurfacesOf(B) = {}
  BY NamesAreApart DEF SurfacesOf, Starts

LEMMA OrderlyJoin ==
  ASSUME NEW A \in SUBSET Axes, NEW B, NEW C, NEW D \in SUBSET Axes, A \cap D = {},
         NEW s, Orderly(s, A, B), NEW t, Orderly(t, C, D)
  PROVE  Orderly(s \o t, A \cup C, B \cup D)
<1> DEFINE m == Len(s)
           n == Len(t)
           r == s \o t
<1>1. s \in Seq(StepRecords) /\ t \in Seq(StepRecords)
  BY DEF Orderly
<1>2. /\ m \in Nat /\ n \in Nat /\ r \in Seq(StepRecords) /\ Len(r) = m + n
      /\ \A k \in 1..m + n : r[k] = IF k <= m THEN s[k] ELSE t[k - m]
  BY <1>1
<1> HIDE DEF r, m, n
<1>3. (Starts \cup SurfacesOf(A)) \cap SurfacesOf(D) = {}
  BY SurfacesApart
<1>4. /\ SurfacesOf(A) \subseteq SurfacesOf(A \cup C) /\ SurfacesOf(C) \subseteq SurfacesOf(A \cup C)
      /\ SurfacesOf(B) \subseteq SurfacesOf(B \cup D) /\ SurfacesOf(D) \subseteq SurfacesOf(B \cup D)
  BY DEF SurfacesOf
<1>5. ASSUME NEW k \in 1..m + n
      PROVE  \/ k \in 1..m /\ r[k] = s[k]
             \/ k - m \in 1..n /\ k > m /\ r[k] = t[k - m]
  BY <1>2
<1>6. /\ \A k \in 1..m : /\ Uses(s[k]) \subseteq Starts \cup SurfacesOf(A)
                         /\ Measures(s[k]) \subseteq SurfacesOf(B)
      /\ \A k, j \in 1..m : j <= k => Measures(s[k]) \cap Uses(s[j]) = {}
      /\ \A k \in 1..n : /\ Uses(t[k]) \subseteq Starts \cup SurfacesOf(C)
                         /\ Measures(t[k]) \subseteq SurfacesOf(D)
      /\ \A k, j \in 1..n : j <= k => Measures(t[k]) \cap Uses(t[j]) = {}
  BY DEF Orderly, m, n
<1>7. ASSUME NEW k \in 1..m + n
      PROVE  /\ Uses(r[k]) \subseteq Starts \cup SurfacesOf(A \cup C)
             /\ Measures(r[k]) \subseteq SurfacesOf(B \cup D)
  BY <1>4, <1>5, <1>6
<1>8. ASSUME NEW k \in 1..m + n, NEW j \in 1..m + n, j <= k
      PROVE  Measures(r[k]) \cap Uses(r[j]) = {}
  <2>1. CASE k \in 1..m /\ r[k] = s[k]
    <3>1. j \in 1..m /\ r[j] = s[j]
      BY <1>2, <1>8, <2>1
    <3> QED BY <1>6, <1>8, <2>1, <3>1
  <2>2. CASE k - m \in 1..n /\ k > m /\ r[k] = t[k - m]
    <3>1. CASE j \in 1..m /\ r[j] = s[j]
      BY <1>3, <1>6, <2>2, <3>1
    <3>2. CASE j - m \in 1..n /\ j > m /\ r[j] = t[j - m]
      <4>1. j - m <= k - m
        BY <1>2, <1>8
      <4> QED BY <1>6, <2>2, <3>2, <4>1
    <3> QED BY <1>5, <3>1, <3>2
  <2> QED BY <1>5, <2>1, <2>2
<1> QED BY <1>2, <1>7, <1>8 DEF Orderly, r

LEMMA OrderlyMore ==
  ASSUME NEW s, NEW A, NEW B, Orderly(s, A, B), NEW C, NEW D, A \subseteq C, B \subseteq D
  PROVE  Orderly(s, C, D)
<1>1. SurfacesOf(A) \subseteq SurfacesOf(C) /\ SurfacesOf(B) \subseteq SurfacesOf(D)
  BY DEF SurfacesOf
<1> QED BY <1>1 DEF Orderly

(* Steps that go by no surface can be followed by any.                     *)
LEMMA LevelJoin ==
  ASSUME NEW B \in SUBSET Axes, NEW s, Orderly(s, {}, B), NEW t, Orderly(t, {}, B)
  PROVE  Orderly(s \o t, {}, B)
<1>1. Orderly(s \o t, {} \cup {}, B \cup B)
  BY OrderlyJoin
<1>2. {} \cup {} = {} /\ B \cup B = B
  OBVIOUS
<1> QED BY <1>1, <1>2

LEMMA OrderlyWhen ==
  ASSUME NEW cond \in BOOLEAN, NEW s, NEW A, NEW B, cond => Orderly(s, A, B)
  PROVE  Orderly(When(cond, s), A, B)
<1>1. Orderly(<<>>, A, B)
  BY DEF Orderly
<1> QED BY <1>1 DEF When

LEMMA OrderlyStep ==
  ASSUME NEW s \in StepRecords, NEW A, NEW B, Uses(s) \subseteq Starts \cup SurfacesOf(A),
         Measures(s) \subseteq SurfacesOf(B), Measures(s) \cap Uses(s) = {}
  PROVE  Orderly(<<s>>, A, B)
<1>1. <<s>> \in Seq(StepRecords) /\ Len(<<s>>) = 1 /\ <<s>>[1] = s
  OBVIOUS
<1> QED BY <1>1 DEF Orderly

LEMMA ContactOrder ==
  ASSUME NEW start \in [Axes -> Int], NEW a \in Axes, NEW d \in {-1, 1}, NEW e \in Int, NEW t \in Tags,
         NEW B \in SUBSET Axes, a \in B
  PROVE  Orderly(contact(start, a, d, e, t), {}, B)
<1> DEFINE s == [kind |-> "contact", axis |-> a, dir |-> d, limit |-> start[a] + e, tag |-> t]
<1>1. start[a] + e \in Int
  OBVIOUS
<1>2. s \in StepRecords
  BY <1>1 DEF StepRecords
<1>3. s.kind = "contact" /\ s.axis = a /\ s.tag = t
  OBVIOUS
<1> HIDE DEF s
<1>4. Uses(s) = {} /\ Measures(s) = {Surface(a, t)}
  BY <1>3 DEF Uses, Measures
<1>5. Measures(s) \subseteq SurfacesOf(B)
  BY <1>4 DEF SurfacesOf
<1>6. Orderly(<<s>>, {}, B)
  BY <1>2, <1>4, <1>5, OrderlyStep
<1> QED BY <1>6 DEF contact, s

LEMMA MovOrder ==
  ASSUME NEW a \in Axes, NEW n \in MoveNames, NEW o \in Int, NEW A, n \in Starts \cup SurfacesOf(A), NEW B
  PROVE  Orderly(mov(a, n, o), A, B)
<1> DEFINE t == Target(a, n, o)
           s == [kind |-> "move", targets |-> <<t>>]
<1>1. t \in [axis : Axes, name : MoveNames, offset : Int] /\ t.name = n
  BY TargetFields
<1> HIDE DEF t
<1>2. <<t>> \in Seq([axis : Axes, name : MoveNames, offset : Int]) /\ DOMAIN <<t>> = {1} /\ <<t>>[1] = t
  BY <1>1
<1>3. s \in StepRecords /\ s.kind = "move" /\ s.targets = <<t>>
  BY <1>2 DEF StepRecords
<1> HIDE DEF s
<1>4. Uses(s) = {n} /\ Measures(s) = {}
  BY <1>1, <1>2, <1>3 DEF Uses, Measures
<1>5. Orderly(<<s>>, A, B)
  BY <1>3, <1>4, OrderlyStep
<1> QED BY <1>5 DEF mov, Move, s, t

LEMMA StartOrder ==
  ASSUME NEW a \in Axes, NEW b \in Axes, NEW o \in Int, NEW B
  PROVE  Orderly(mov(a, Start(b), o), {}, B)
<1>1. Start(b) \in MoveNames /\ Start(b) \in Starts \cup SurfacesOf({})
  BY PlainNames
<1> QED BY <1>1, MovOrder

LEMMA CenterOrder ==
  ASSUME NEW a \in Sideways
  PROVE  Orderly(Center(a), {}, {a})
<1> DEFINE s == [kind |-> "center", axis |-> a]
<1>1. s \in StepRecords /\ s.kind = "center" /\ s.axis = a
  BY DEF StepRecords
<1> HIDE DEF s
<1>2. Uses(s) = {} /\ Measures(s) = {Surface(a, "whole")}
  BY <1>1 DEF Uses, Measures
<1>3. Measures(s) \subseteq SurfacesOf({a})
  BY <1>2, PlainNames DEF SurfacesOf
<1>4. Orderly(<<s>>, {}, {a})
  BY <1>1, <1>2, <1>3, OrderlyStep
<1> QED BY <1>4 DEF Center, s

(* Moves measure nothing.                                                  *)
LEMMA MovesOrder ==
  ASSUME NEW s \in Seq(StepRecords), \A k \in 1..Len(s) : s[k].kind = "move"
  PROVE  Orderly(s, Axes, {})
<1>1. ASSUME NEW k \in 1..Len(s)
      PROVE  Measures(s[k]) = {} /\ Uses(s[k]) \subseteq Starts \cup SurfacesOf(Axes)
  <2>1. s[k] \in StepRecords /\ s[k].kind = "move"
    OBVIOUS
  <2> DEFINE r == s[k]
  <2> HIDE DEF r
  <2> DEFINE ts == r.targets
             Ts == [axis : Axes, name : MoveNames, offset : Int]
  <2>2. ts \in Seq(Ts)
    BY <2>1 DEF StepRecords, r
  <2> HIDE DEF ts
  <2>6. ASSUME NEW i \in DOMAIN ts PROVE ts[i].name \in MoveNames
    <3>1. ts[i] \in Ts
      <4> HIDE DEF Ts
      <4> QED BY <2>2
    <3> QED BY <3>1
  <2>3. \A i \in DOMAIN r.targets : r.targets[i].name \in MoveNames
    BY <2>6 DEF ts
  <2>4. MoveNames \subseteq Starts \cup SurfacesOf(Axes)
    BY PlainNames DEF MoveNames, SurfacesOf
  <2>5. Measures(r) = {} /\ Uses(r) \subseteq Starts \cup SurfacesOf(Axes)
    BY <2>1, <2>3, <2>4 DEF Measures, Uses, r
  <2> QED BY <2>5 DEF r
<1> QED BY <1>1 DEF Orderly

LEMMA LastMoveOrder ==
  ASSUME NEW c, Valid(c), c.family # "angle", ~c.z
  PROVE  Orderly(LastMove(c), Axes, {})
<1>1. LastMove(c) \in Seq(StepRecords)
  BY LastMovePlan DEF Path
<1>2. \A k \in 1..Len(LastMove(c)) : LastMove(c)[k].kind = "move"
  <2> DEFINE over(a) == IF c.family = "inside" THEN Target(a, Start(a), 0)
                        ELSE Target(a, Surface(a, "whole"), -ProbeOffset[a])
             ts == When(c.x # 0, <<over("X")>>) \o When(c.y # 0, <<over("Y")>>)
             s == [kind |-> "move", targets |-> ts]
             u == [kind |-> "move", targets |-> <<Target("Z", Start("Z"), 0)>>]
             cond == c.family # "inside" /\ ~center_internal(c)
  <2>1. LastMove(c) = When(cond, <<u>>) \o <<s>>
    BY DEF LastMove, Move, mov
  <2>2. u.kind = "move" /\ s.kind = "move"
    OBVIOUS
  <2> HIDE DEF u, s, cond
  <2>3. LastMove(c) = <<u>> \o <<s>> \/ LastMove(c) = <<>> \o <<s>>
    BY <2>1 DEF When
  <2>4. ASSUME NEW v, v \in {<<u>>, <<>>}, NEW k \in 1..Len(v \o <<s>>)
        PROVE  (v \o <<s>>)[k] \in {u, s}
    <3>1. CASE v = <<u>>
      <4>1. Len(<<u>> \o <<s>>) = 2 /\ (<<u>> \o <<s>>)[1] = u /\ (<<u>> \o <<s>>)[2] = s
        OBVIOUS
      <4> QED BY <2>4, <3>1, <4>1
    <3>2. CASE v = <<>>
      <4>1. Len(<<>> \o <<s>>) = 1 /\ (<<>> \o <<s>>)[1] = s
        OBVIOUS
      <4> QED BY <2>4, <3>2, <4>1
    <3> QED BY <2>4, <3>1, <3>2
  <2> QED BY <2>2, <2>3, <2>4
<1> QED BY <1>1, <1>2, MovesOrder

LEMMA AngleOrder ==
  ASSUME NEW c, Valid(c), c.family = "angle", NEW start \in [Axes -> Int]
  PROVE  Orderly(AngleSteps(c, start), {}, Axes)
<1> DEFINE m == AngleAxes(c.feature)[1]
           n == AngleAxes(c.feature)[2]
           d == AngleAxes(c.feature)[3]
           reach == d * Search(c, m)
           along == Search(c, n)
<1>1. m \in Axes /\ n \in Axes /\ d \in {-1, 1}
  BY DEF AngleAxes, Axes
<1> HIDE DEF m, n, d
<1>2. reach \in Int /\ along \in Int /\ 0 \in Int /\ "0" \in Tags /\ "1" \in Tags
  BY <1>1, ValidRanges, Signed, PlainNames
<1> HIDE DEF reach, along
<1> DEFINE c0 == contact(start, m, d, reach, "0")
           c1 == contact(start, m, d, reach, "1")
           back == mov(m, Start(m), 0)
           next == mov(n, Start(n), along)
           home == mov(n, Start(n), 0)
<1>3. AngleSteps(c, start) = c0 \o back \o next \o (c1 \o back) \o home
  BY DEF AngleSteps, m, n, d, reach, along
<1>4. Orderly(c0, {}, Axes) /\ Orderly(c1, {}, Axes)
  BY <1>1, <1>2, ContactOrder
<1>5. Orderly(back, {}, Axes) /\ Orderly(next, {}, Axes) /\ Orderly(home, {}, Axes)
  BY <1>1, <1>2, StartOrder
<1> HIDE DEF c0, c1, back, next, home
<1>6. Orderly(c0 \o back, {}, Axes) /\ Orderly(c1 \o back, {}, Axes)
  BY <1>4, <1>5, LevelJoin
<1>7. Orderly(c0 \o back \o next, {}, Axes)
  BY <1>5, <1>6, LevelJoin
<1>8. Orderly(c0 \o back \o next \o (c1 \o back), {}, Axes)
  BY <1>6, <1>7, LevelJoin
<1>9. Orderly(c0 \o back \o next \o (c1 \o back) \o home, {}, Axes)
  BY <1>5, <1>8, LevelJoin
<1> QED BY <1>3, <1>9

LEMMA HeightOrder ==
  ASSUME NEW c, Valid(c), NEW start \in [Axes -> Int]
  PROVE  Orderly(contact(start, "Z", -1, -c.depth, "whole") \o mov("Z", Start("Z"), 0), {}, Axes)
<1> DEFINE down == -c.depth
           d == -1
<1>1. "Z" \in Axes /\ "whole" \in Tags
  BY PlainNames
<1>2. down \in Int /\ d \in {-1, 1} /\ 0 \in Int
  BY ValidRanges
<1> HIDE DEF down, d
<1>3. Orderly(contact(start, "Z", d, down, "whole"), {}, Axes)
  BY <1>1, <1>2, ContactOrder
<1>4. Orderly(mov("Z", Start("Z"), 0), {}, Axes)
  BY <1>1, <1>2, StartOrder
<1> DEFINE s == contact(start, "Z", d, down, "whole")
           t == mov("Z", Start("Z"), 0)
<1> HIDE DEF s, t
<1>5. Orderly(s \o t, {}, Axes)
  BY <1>3, <1>4, LevelJoin DEF s, t
<1> QED BY <1>5 DEF s, t, d, down

LEMMA CenterSideOrder ==
  ASSUME NEW c, Valid(c), NEW start \in [Axes -> Int], NEW a \in Sideways, NEW side \in {-1, 1}
  PROVE  Orderly(CenterSide(c, start, a, side), {}, {a})
<1> DEFINE t == IF side < 0 THEN "low" ELSE "high"
           reach == side * Search(c, a)
           down == -c.depth
           in == -side
           in0 == contact(start, a, side, reach, t)
           aside == mov(a, Start(a), reach)
           dive == mov("Z", Start("Z"), down)
           touch == contact(start, a, in, 0, t)
           up == When(side < 0 \/ (a = "X" /\ c.y # 0), mov("Z", Start("Z"), 0))
<1>1. a \in Axes /\ "Z" \in Axes /\ t \in Tags /\ in \in {-1, 1} /\ 0 \in Int /\ {a} \in SUBSET Axes
  BY PlainNames DEF Sideways
<1>2. reach \in Int /\ down \in Int
  BY <1>1, ValidRanges, Signed, Products
<1>3. (side < 0 \/ (a = "X" /\ c.y # 0)) \in BOOLEAN
  OBVIOUS
<1>4. CenterSide(c, start, a, side) = IF center_internal(c) THEN in0 ELSE aside \o dive \o touch \o up
  BY DEF CenterSide
<1> HIDE DEF t, reach, down, in
<1>5. Orderly(in0, {}, {a}) /\ Orderly(touch, {}, {a})
  BY <1>1, <1>2, ContactOrder
<1>6. Orderly(aside, {}, {a}) /\ Orderly(dive, {}, {a}) /\ Orderly(mov("Z", Start("Z"), 0), {}, {a})
  BY <1>1, <1>2, StartOrder
<1>7. Orderly(up, {}, {a})
  BY <1>3, <1>6, OrderlyWhen
<1> HIDE DEF in0, aside, dive, touch, up
<1>8. Orderly(aside \o dive, {}, {a})
  BY <1>1, <1>6, LevelJoin
<1>9. Orderly(aside \o dive \o touch, {}, {a})
  BY <1>1, <1>5, <1>8, LevelJoin
<1>10. Orderly(aside \o dive \o touch \o up, {}, {a})
  BY <1>1, <1>7, <1>9, LevelJoin
<1> QED BY <1>4, <1>5, <1>10

LEMMA CenterAxisOrder ==
  ASSUME NEW c, Valid(c), NEW start \in [Axes -> Int], NEW a \in Sideways
  PROVE  Orderly(CenterAxis(c, start, a), {a}, {a})
<1> DEFINE low == CenterSide(c, start, a, -1)
           high == CenterSide(c, start, a, 1)
           off == -ProbeOffset[a]
           over == When(a = "X" /\ c.y # 0, mov(a, Surface(a, "whole"), off))
           all == low \o high \o Center(a) \o over
<1>1. a \in Axes /\ {a} \in SUBSET Axes /\ -1 \in {-1, 1} /\ 1 \in {-1, 1}
  BY PlainNames
<1>2. Surface(a, "whole") \in MoveNames /\ Surface(a, "whole") \in SurfacesOf({a})
  BY NamesAreApart, PlainNames DEF SurfacesOf
<1>3. off \in Int
  BY <1>1, PlanAssumption
<1>4. Enabled(c, a) \in BOOLEAN /\ (a = "X" /\ c.y # 0) \in BOOLEAN
  BY ValidRanges DEF Enabled
<1>5. Orderly(low, {}, {a}) /\ Orderly(high, {}, {a})
  BY <1>1, CenterSideOrder
<1>6. CenterAxis(c, start, a) = When(Enabled(c, a), all)
  BY DEF CenterAxis
<1> HIDE DEF low, high, off
<1>7. Orderly(mov(a, Surface(a, "whole"), off), {a}, {})
  BY <1>1, <1>2, <1>3, MovOrder
<1>8. Orderly(over, {a}, {})
  BY <1>4, <1>7, OrderlyWhen
<1> HIDE DEF over
<1>9. Orderly(low \o high, {}, {a})
  BY <1>1, <1>5, LevelJoin
<1>10. Orderly(low \o high \o Center(a), {}, {a})
  BY <1>1, <1>9, CenterOrder, LevelJoin
<1>11. Orderly(all, {} \cup {a}, {a} \cup {})
  BY <1>8, <1>10, OrderlyJoin
<1>12. {} \cup {a} = {a} /\ {a} \cup {} = {a}
  OBVIOUS
<1> HIDE DEF all
<1> QED BY <1>4, <1>6, <1>11, <1>12, OrderlyWhen

LEMMA OutsideAxisOrder ==
  ASSUME NEW c, Valid(c), NEW start \in [Axes -> Int], NEW a \in Sideways, NEW dir \in -1..1
  PROVE  Orderly(OutsideAxis(c, start, a, dir), {}, Axes)
<1> DEFINE out == -dir * Search(c, a)
           down == -c.depth
           back == When(a = "Y" /\ c.x # 0, mov("X", Start("X"), 0))
           aside == mov(a, Start(a), out)
           dive == mov("Z", Start("Z"), down)
           touch == contact(start, a, dir, 0, "whole")
           up == When(a = "X" /\ c.y # 0, mov("Z", Start("Z"), 0))
           all == back \o aside \o dive \o touch \o up
<1>1. a \in Axes /\ "X" \in Axes /\ "Z" \in Axes /\ "whole" \in Tags /\ 0 \in Int
  BY PlainNames
<1>2. (dir # 0) \in BOOLEAN /\ (a = "Y" /\ c.x # 0) \in BOOLEAN /\ (a = "X" /\ c.y # 0) \in BOOLEAN
  OBVIOUS
<1>3. OutsideAxis(c, start, a, dir) = When(dir # 0, all)
  BY DEF OutsideAxis
<1>4. ASSUME dir # 0 PROVE Orderly(all, {}, Axes)
  <2>1. dir \in {-1, 1}
    BY <1>4
  <2>2. out \in Int
    <3> DEFINE v == Search(c, a)
    <3> HIDE DEF v
    <3>1. v \in Int
      BY <1>1, ValidRanges DEF v
    <3>2. -(dir * v) \in Int
      BY <2>1, <3>1, Signed
    <3> QED BY <3>2 DEF v
  <2>3. down \in Int
    BY ValidRanges
  <2> HIDE DEF out, down
  <2>4. Orderly(touch, {}, Axes)
    BY <1>1, <2>1, ContactOrder
  <2>5. /\ Orderly(aside, {}, Axes) /\ Orderly(dive, {}, Axes)
        /\ Orderly(mov("X", Start("X"), 0), {}, Axes) /\ Orderly(mov("Z", Start("Z"), 0), {}, Axes)
    BY <1>1, <2>2, <2>3, StartOrder
  <2>6. Orderly(back, {}, Axes) /\ Orderly(up, {}, Axes)
    BY <1>2, <2>5, OrderlyWhen
  <2> HIDE DEF back, aside, dive, touch, up
  <2>7. Orderly(back \o aside, {}, Axes)
    BY <2>5, <2>6, LevelJoin
  <2>8. Orderly(back \o aside \o dive, {}, Axes)
    BY <2>5, <2>7, LevelJoin
  <2>9. Orderly(back \o aside \o dive \o touch, {}, Axes)
    BY <2>4, <2>8, LevelJoin
  <2>10. Orderly(back \o aside \o dive \o touch \o up, {}, Axes)
    BY <2>6, <2>9, LevelJoin
  <2> QED BY <2>10
<1> HIDE DEF all
<1> QED BY <1>2, <1>3, <1>4, OrderlyWhen

LEMMA InsideOrder ==
  ASSUME NEW c, Valid(c), NEW start \in [Axes -> Int]
  PROVE  Orderly(InsideSteps(c, start), {}, Axes)
<1> DEFINE reachX == c.x * c.searchX
           reachY == c.y * c.searchY
           sideX == When(c.x # 0, contact(start, "X", c.x, reachX, "whole"))
           back == When(c.x # 0, mov("X", Start("X"), 0))
           touchY == contact(start, "Y", c.y, reachY, "whole")
           sideY == When(c.y # 0, back \o touchY)
<1>0. c.x \in -1..1 /\ c.y \in -1..1 /\ c.searchX \in Int /\ c.searchY \in Int
  BY ValidRanges
<1>1. /\ (c.x # 0 => c.x \in {-1, 1}) /\ (c.y # 0 => c.y \in {-1, 1})
      /\ (c.x # 0) \in BOOLEAN /\ (c.y # 0) \in BOOLEAN
  BY <1>0
<1>2. (c.x # 0 => reachX \in Int) /\ (c.y # 0 => reachY \in Int)
  BY <1>0, <1>1, Signed
<1>3. "X" \in Axes /\ "Y" \in Axes /\ "whole" \in Tags /\ 0 \in Int
  BY PlainNames
<1>4. InsideSteps(c, start) = sideX \o sideY
  BY DEF InsideSteps
<1> HIDE DEF reachX, reachY
<1>5. c.x # 0 => Orderly(contact(start, "X", c.x, reachX, "whole"), {}, Axes)
  BY <1>1, <1>2, <1>3, ContactOrder
<1>6. c.y # 0 => Orderly(touchY, {}, Axes)
  BY <1>1, <1>2, <1>3, ContactOrder
<1>7. Orderly(mov("X", Start("X"), 0), {}, Axes)
  BY <1>3, StartOrder
<1>8. Orderly(sideX, {}, Axes) /\ Orderly(back, {}, Axes)
  BY <1>1, <1>5, <1>7, OrderlyWhen
<1> HIDE DEF sideX, back, touchY
<1>9. c.y # 0 => Orderly(back \o touchY, {}, Axes)
  BY <1>6, <1>8, LevelJoin
<1>10. Orderly(sideY, {}, Axes)
  BY <1>1, <1>9, OrderlyWhen
<1> HIDE DEF sideY
<1> QED BY <1>4, <1>8, <1>10, LevelJoin

LEMMA StepsOrder ==
  ASSUME NEW c, Valid(c), NEW start \in [Axes -> Int]
  PROVE  Orderly(Steps(c, start), Axes, Axes)
<1>1. c.family \in {"inside", "outside", "center", "angle"} /\ c.z \in BOOLEAN
      /\ c.x \in -1..1 /\ c.y \in -1..1
  BY ValidRanges
<1>2. "X" \in Sideways /\ "Y" \in Sideways /\ "X" \in Axes /\ "Y" \in Axes
  BY PlainNames
<1>3. CASE c.family = "angle"
  <2>1. Steps(c, start) = AngleSteps(c, start)
    BY <1>3 DEF Steps
  <2> QED BY <1>3, <2>1, AngleOrder, OrderlyMore
<1>4. CASE c.family # "angle" /\ c.z
  <2>1. Steps(c, start) = contact(start, "Z", -1, -c.depth, "whole") \o mov("Z", Start("Z"), 0)
    BY <1>4 DEF Steps
  <2> QED BY <2>1, HeightOrder, OrderlyMore
<1>5. ASSUME c.family # "angle", ~c.z, NEW s, Orderly(s, {}, Axes)
      PROVE  Orderly(s \o LastMove(c), Axes, Axes)
  <2>1. Orderly(LastMove(c), Axes, {})
    BY <1>5, LastMoveOrder
  <2> DEFINE t == LastMove(c)
  <2> HIDE DEF t
  <2>2. Orderly(s \o t, {} \cup Axes, Axes \cup {})
    BY <1>5, <2>1, OrderlyJoin DEF t
  <2>3. {} \cup Axes = Axes /\ Axes \cup {} = Axes
    OBVIOUS
  <2> QED BY <2>2, <2>3 DEF t
<1>6. CASE c.family = "center" /\ ~c.z
  <2> DEFINE x == CenterAxis(c, start, "X")
             y == CenterAxis(c, start, "Y")
             t == LastMove(c)
  <2>1. Steps(c, start) = x \o y \o t
    BY <1>6 DEF Steps
  <2>2. Orderly(x, {"X"}, {"X"}) /\ Orderly(y, {"Y"}, {"Y"}) /\ Orderly(t, Axes, {})
    BY <1>2, <1>6, CenterAxisOrder, LastMoveOrder
  <2> HIDE DEF x, y, t
  <2>3. {"X"} \in SUBSET Axes /\ {"Y"} \in SUBSET Axes /\ {"X"} \cap {"Y"} = {}
    BY <1>2
  <2>4. Orderly(x \o y, {"X"} \cup {"Y"}, {"X"} \cup {"Y"})
    BY <2>2, <2>3, OrderlyJoin
  <2>5. Orderly(x \o y, Axes, Axes)
    BY <2>3, <2>4, OrderlyMore
  <2>6. Orderly(x \o y \o t, Axes \cup Axes, Axes \cup {})
    BY <2>2, <2>5, OrderlyJoin
  <2>7. Axes \cup Axes = Axes /\ Axes \cup {} = Axes
    OBVIOUS
  <2> QED BY <2>1, <2>6, <2>7
<1>7. CASE c.family = "outside" /\ ~c.z
  <2> DEFINE x == OutsideAxis(c, start, "X", c.x)
             y == OutsideAxis(c, start, "Y", c.y)
  <2>1. Steps(c, start) = x \o y \o LastMove(c)
    BY <1>7 DEF Steps
  <2>2. Orderly(x, {}, Axes) /\ Orderly(y, {}, Axes)
    BY <1>1, <1>2, OutsideAxisOrder
  <2> HIDE DEF x, y
  <2>3. Orderly(x \o y, {}, Axes)
    BY <2>2, LevelJoin
  <2> QED BY <1>5, <1>7, <2>1, <2>3
<1>8. CASE c.family = "inside" /\ ~c.z
  <2>1. Steps(c, start) = InsideSteps(c, start) \o LastMove(c)
    BY <1>8 DEF Steps
  <2> QED BY <1>5, <1>8, <2>1, InsideOrder
<1> QED BY <1>1, <1>3, <1>4, <1>6, <1>7, <1>8

LEMMA PlanOrder ==
  ASSUME Planned
  PROVE  \A k \in 1..Len(plan.steps), j \in 1..Len(plan.steps) :
           j <= k => Measures(plan.steps[k]) \cap Uses(plan.steps[j]) = {}
<1>1. plan.steps = Steps(config, plan.start)
  BY DEF Planned, Plan
<1>2. Orderly(Steps(config, plan.start), Axes, Axes)
  BY StepsOrder DEF Planned, Places
<1> QED BY <1>1, <1>2 DEF Orderly

-----------------------------------------------------------------------------
(* The lines of the script.                                                *)

Cmds ==
  {<<"note">>, <<"modes">>, <<"zero">>}
  \cup ({"coarse", "retract", "fine", "G1", "G38.3"} \X SUBSET Axes)
LineRecords == [step : Nat, is : {"note", "command", "declaration"}, cmd : Cmds]
NoteOf(i) == [step |-> i, is |-> "note", cmd |-> <<"note">>]
CommandOf(i, cmd) == [step |-> i, is |-> "command", cmd |-> cmd]
DeclarationOf(i) == [step |-> i, is |-> "declaration", cmd |-> <<"note">>]

LEMMA LinesAre ==
  /\ \A i \in Nat : /\ Note(i) = <<NoteOf(i)>> /\ NoteOf(i) \in LineRecords
                    /\ Declaration(i) = <<DeclarationOf(i)>> /\ DeclarationOf(i) \in LineRecords
  /\ \A i \in Nat, cmd \in Cmds : /\ Command(i, cmd) = <<CommandOf(i, cmd)>>
                                  /\ CommandOf(i, cmd) \in LineRecords
  BY DEF Note, Declaration, Command, Line, NoteOf, CommandOf, DeclarationOf, LineRecords, Cmds

\* A line added to lines.
Added(t, s, x) ==
  /\ t \in Seq(LineRecords) /\ Len(t) = Len(s) + 1 /\ t[Len(s) + 1] = x
  /\ \A k \in 1..Len(s) : t[k] = s[k]
LEMMA OneMore ==
  ASSUME NEW s \in Seq(LineRecords), NEW x \in LineRecords, NEW t, t = s \o <<x>>
  PROVE  Added(t, s, x)
<1>1. <<x>> \in Seq(LineRecords) /\ Len(<<x>>) = 1 /\ <<x>>[1] = x
  OBVIOUS
<1>2. Len(s) \in Nat
  OBVIOUS
<1> DEFINE u == <<x>>
<1> HIDE DEF u
<1>3. /\ s \o u \in Seq(LineRecords) /\ Len(s \o u) = Len(s) + Len(u)
      /\ \A k \in 1..Len(s) + Len(u) : (s \o u)[k] = IF k <= Len(s) THEN s[k] ELSE u[k - Len(s)]
  BY <1>1, ConcatProperties DEF u
<1>4. t = s \o u
  BY DEF u
<1> QED BY <1>1, <1>2, <1>3, <1>4 DEF u, Added

\* A contact writes nine lines: a note for each search, its four stages, and
\* what the fine search and the last retract declare.
LEMMA LinesOfContact ==
  ASSUME NEW i \in Nat, NEW s, s.axis \in Axes
  PROVE  /\ ContactLines(i, s) \in Seq(LineRecords) /\ Len(ContactLines(i, s)) = 9
         /\ ContactLines(i, s)[1] = NoteOf(i) /\ ContactLines(i, s)[2] = NoteOf(i)
         /\ ContactLines(i, s)[3] = CommandOf(i, <<"coarse", {s.axis}>>)
         /\ ContactLines(i, s)[4] = CommandOf(i, <<"retract", {s.axis}>>)
         /\ ContactLines(i, s)[5] = NoteOf(i)
         /\ ContactLines(i, s)[6] = CommandOf(i, <<"fine", {s.axis}>>)
         /\ ContactLines(i, s)[7] = DeclarationOf(i)
         /\ ContactLines(i, s)[8] = CommandOf(i, <<"retract", {s.axis}>>)
         /\ ContactLines(i, s)[9] = DeclarationOf(i)
         /\ \A k \in 1..9 : ContactLines(i, s)[k].step = i
<1> DEFINE N == NoteOf(i)
           D == DeclarationOf(i)
           C == CommandOf(i, <<"coarse", {s.axis}>>)
           R == CommandOf(i, <<"retract", {s.axis}>>)
           F == CommandOf(i, <<"fine", {s.axis}>>)
<1>1. <<"coarse", {s.axis}>> \in Cmds /\ <<"retract", {s.axis}>> \in Cmds /\ <<"fine", {s.axis}>> \in Cmds
  BY DEF Cmds
<1>2. /\ N \in LineRecords /\ D \in LineRecords /\ C \in LineRecords /\ R \in LineRecords
      /\ F \in LineRecords
  BY <1>1, LinesAre
<1>3. /\ Note(i) = <<N>> /\ Declaration(i) = <<D>> /\ Command(i, <<"coarse", {s.axis}>>) = <<C>>
      /\ Command(i, <<"retract", {s.axis}>>) = <<R>> /\ Command(i, <<"fine", {s.axis}>>) = <<F>>
  BY <1>1, LinesAre
<1> HIDE DEF N, D, C, R, F
<1>4. ContactLines(i, s) = <<N>> \o <<N>> \o <<C>> \o <<R>> \o <<N>> \o <<F>> \o <<D>> \o <<R>> \o <<D>>
  BY <1>3 DEF ContactLines
<1>5. N.step = i /\ D.step = i /\ C.step = i /\ R.step = i /\ F.step = i
  BY DEF N, D, C, R, F, NoteOf, DeclarationOf, CommandOf
<1>6. PICK t1 : t1 = <<N>>
  OBVIOUS
<1>7. t1 \in Seq(LineRecords) /\ Len(t1) = 1 /\ t1[1] = N
  BY <1>2, <1>6
<1>8. PICK t2 : t2 = t1 \o <<N>>
  OBVIOUS
<1>9. Added(t2, t1, N)
  BY <1>2, <1>7, <1>8, OneMore
<1>10. t2 \in Seq(LineRecords) /\ Len(t2) = 2 /\ t2[2] = N /\ \A k \in 1..1 : t2[k] = t1[k]
  BY <1>7, <1>9 DEF Added
<1>11. PICK t3 : t3 = t2 \o <<C>>
  OBVIOUS
<1>12. Added(t3, t2, C)
  BY <1>2, <1>10, <1>11, OneMore
<1>13. t3 \in Seq(LineRecords) /\ Len(t3) = 3 /\ t3[3] = C /\ \A k \in 1..2 : t3[k] = t2[k]
  BY <1>10, <1>12 DEF Added
<1>14. PICK t4 : t4 = t3 \o <<R>>
  OBVIOUS
<1>15. Added(t4, t3, R)
  BY <1>2, <1>13, <1>14, OneMore
<1>16. t4 \in Seq(LineRecords) /\ Len(t4) = 4 /\ t4[4] = R /\ \A k \in 1..3 : t4[k] = t3[k]
  BY <1>13, <1>15 DEF Added
<1>17. PICK t5 : t5 = t4 \o <<N>>
  OBVIOUS
<1>18. Added(t5, t4, N)
  BY <1>2, <1>16, <1>17, OneMore
<1>19. t5 \in Seq(LineRecords) /\ Len(t5) = 5 /\ t5[5] = N /\ \A k \in 1..4 : t5[k] = t4[k]
  BY <1>16, <1>18 DEF Added
<1>20. PICK t6 : t6 = t5 \o <<F>>
  OBVIOUS
<1>21. Added(t6, t5, F)
  BY <1>2, <1>19, <1>20, OneMore
<1>22. t6 \in Seq(LineRecords) /\ Len(t6) = 6 /\ t6[6] = F /\ \A k \in 1..5 : t6[k] = t5[k]
  BY <1>19, <1>21 DEF Added
<1>23. PICK t7 : t7 = t6 \o <<D>>
  OBVIOUS
<1>24. Added(t7, t6, D)
  BY <1>2, <1>22, <1>23, OneMore
<1>25. t7 \in Seq(LineRecords) /\ Len(t7) = 7 /\ t7[7] = D /\ \A k \in 1..6 : t7[k] = t6[k]
  BY <1>22, <1>24 DEF Added
<1>26. PICK t8 : t8 = t7 \o <<R>>
  OBVIOUS
<1>27. Added(t8, t7, R)
  BY <1>2, <1>25, <1>26, OneMore
<1>28. t8 \in Seq(LineRecords) /\ Len(t8) = 8 /\ t8[8] = R /\ \A k \in 1..7 : t8[k] = t7[k]
  BY <1>25, <1>27 DEF Added
<1>29. PICK t9 : t9 = t8 \o <<D>>
  OBVIOUS
<1>30. Added(t9, t8, D)
  BY <1>2, <1>28, <1>29, OneMore
<1>31. t9 \in Seq(LineRecords) /\ Len(t9) = 9 /\ t9[9] = D /\ \A k \in 1..8 : t9[k] = t8[k]
  BY <1>28, <1>30 DEF Added
<1>32. /\ t9[1] = N /\ t9[2] = N /\ t9[3] = C /\ t9[4] = R /\ t9[5] = N /\ t9[6] = F /\ t9[7] = D
       /\ t9[8] = R /\ t9[9] = D
  BY <1>7, <1>10, <1>13, <1>16, <1>19, <1>22, <1>25, <1>28, <1>31
<1>33. \A k \in 1..9 : t9[k].step = i
  BY <1>5, <1>32
<1>34. ContactLines(i, s) = t9
  BY <1>4, <1>6, <1>8, <1>11, <1>14, <1>17, <1>20, <1>23, <1>26, <1>29
<1> QED BY <1>31, <1>32, <1>33, <1>34 DEF N, D, C, R, F

\* A move writes a note and a command for the axes that it takes elsewhere, or
\* nothing if there are none.
Elsewhere(s, pos) ==
  {a \in AxesOf(s) : <<TargetOf(s, a).name, TargetOf(s, a).offset>> # pos[a]}
MoveRecords == [kind : {"move"}, targets : Seq([axis : Axes, name : MoveNames, offset : Int])]

OfMove(t, i, axes) ==
  \/ axes = {} /\ t = <<>>
  \/ /\ t \in Seq(LineRecords) /\ Len(t) = 2
     /\ t[1] = NoteOf(i) /\ t[1].step = i /\ t[2].step = i
     /\ \E g \in {"G1", "G38.3"}, A \in SUBSET Axes :
          axes \subseteq A /\ t[2] = CommandOf(i, <<g, A>>)

LEMMA LinesOfMove ==
  ASSUME NEW c, NEW i \in Nat, NEW s \in MoveRecords, NEW pos
  PROVE  OfMove(MoveLines(c, i, s, pos), i, Elsewhere(s, pos))
<1> DEFINE differs(t) == <<t.name, t.offset>> # pos[t.axis]
           words == {t \in {s.targets[k] : k \in DOMAIN s.targets} : differs(t)}
           axes == {t.axis : t \in words}
           rises(t) == t.name[1] = "start" /\ pos["Z"][1][1] = "start" /\ t.offset > pos["Z"][2]
           lift == axes = {"Z"} /\ (c.z \/ \E t \in words : rises(t))
           cmd == MoveCommand(axes, lift)
           Ts == [axis : Axes, name : MoveNames, offset : Int]
<1>0. s.targets \in Seq(Ts)
  BY DEF MoveRecords
<1>1. MoveLines(c, i, s, pos) = When(words # {}, Note(i) \o Command(i, cmd))
  BY DEF MoveLines
<1>2. \A k \in DOMAIN s.targets : s.targets[k].axis \in Axes
  <2>1. \A k \in DOMAIN s.targets : s.targets[k] \in Ts
    <3> HIDE DEF Ts
    <3> QED BY <1>0
  <2> QED BY <2>1
<1>3. axes \in SUBSET Axes
  BY <1>2
<1>4. ASSUME NEW a \in Elsewhere(s, pos) PROVE a \in axes
  <2>1. \E k \in DOMAIN s.targets : s.targets[k].axis = a
    BY <1>4 DEF Elsewhere, AxesOf
  <2> DEFINE k == CHOOSE k \in DOMAIN s.targets : s.targets[k].axis = a
  <2>2. k \in DOMAIN s.targets /\ s.targets[k].axis = a /\ TargetOf(s, a) = s.targets[k]
    BY <2>1 DEF TargetOf
  <2> HIDE DEF k
  <2>3. differs(s.targets[k])
    BY <1>4, <2>2 DEF Elsewhere
  <2> QED BY <2>2, <2>3
<1>5. CASE words = {}
  <2>1. Elsewhere(s, pos) = {}
    BY <1>4, <1>5
  <2> QED BY <1>1, <1>5, <2>1 DEF When, OfMove
<1>6. CASE words # {}
  <2>1. PICK g \in {"G1", "G38.3"} : cmd = <<g, axes>>
    BY DEF MoveCommand
  <2> HIDE DEF words, axes, lift, cmd
  <2>2. cmd \in Cmds
    BY <1>3, <2>1 DEF Cmds
  <2>3. MoveLines(c, i, s, pos) = <<NoteOf(i)>> \o <<CommandOf(i, cmd)>>
    BY <1>1, <1>6, <2>2, LinesAre DEF When
  <2>4. NoteOf(i) \in LineRecords /\ CommandOf(i, cmd) \in LineRecords
    BY <2>2, LinesAre
  <2>5. /\ MoveLines(c, i, s, pos) \in Seq(LineRecords) /\ Len(MoveLines(c, i, s, pos)) = 2
        /\ MoveLines(c, i, s, pos)[1] = NoteOf(i) /\ MoveLines(c, i, s, pos)[2] = CommandOf(i, cmd)
    <3> DEFINE x == NoteOf(i)
               y == CommandOf(i, cmd)
    <3> HIDE DEF x, y
    <3>1. PICK u : u = <<x>>
      OBVIOUS
    <3>2. u \in Seq(LineRecords) /\ Len(u) = 1 /\ u[1] = x /\ x \in LineRecords /\ y \in LineRecords
      BY <2>4, <3>1 DEF x, y
    <3>3. PICK t : t = u \o <<y>>
      OBVIOUS
    <3>4. Added(t, u, y)
      BY <3>2, <3>3, OneMore
    <3>5. t \in Seq(LineRecords) /\ Len(t) = 2 /\ t[1] = x /\ t[2] = y
      BY <3>2, <3>4 DEF Added
    <3>6. MoveLines(c, i, s, pos) = t
      BY <2>3, <3>1, <3>3 DEF x, y
    <3> QED BY <3>5, <3>6 DEF x, y
  <2>6. MoveLines(c, i, s, pos)[1].step = i /\ MoveLines(c, i, s, pos)[2].step = i
    BY <2>5 DEF NoteOf, CommandOf
  <2>7. Elsewhere(s, pos) \subseteq axes
    BY <1>4
  <2> QED BY <1>3, <2>1, <2>5, <2>6, <2>7 DEF OfMove
<1> QED BY <1>5, <1>6

\* Every step writes lines of its own number.
LEMMA LinesOfSteps ==
  ASSUME NEW c, NEW i \in Nat, NEW s \in StepRecords, NEW pos
  PROVE  /\ LinesOfStep(c, i, s, pos) \in Seq(LineRecords)
         /\ \A k \in 1..Len(LinesOfStep(c, i, s, pos)) : LinesOfStep(c, i, s, pos)[k].step = i
<1>1. CASE s.kind = "contact"
  <2>1. s.axis \in Axes /\ LinesOfStep(c, i, s, pos) = ContactLines(i, s)
    BY <1>1 DEF StepRecords, LinesOfStep
  <2>2. /\ ContactLines(i, s) \in Seq(LineRecords) /\ Len(ContactLines(i, s)) = 9
        /\ \A k \in 1..9 : ContactLines(i, s)[k].step = i
    BY <2>1, LinesOfContact
  <2> QED BY <2>1, <2>2
<1>2. CASE s.kind = "center"
  <2>1. LinesOfStep(c, i, s, pos) = <<NoteOf(i)>> /\ NoteOf(i) \in LineRecords
    BY <1>2, LinesAre DEF LinesOfStep
  <2>2. NoteOf(i).step = i
    BY DEF NoteOf
  <2> QED BY <2>1, <2>2
<1>3. CASE s.kind = "move"
  <2>1. LinesOfStep(c, i, s, pos) = MoveLines(c, i, s, pos) /\ s \in MoveRecords
    BY <1>3 DEF StepRecords, LinesOfStep, MoveRecords
  <2>4. OfMove(MoveLines(c, i, s, pos), i, Elsewhere(s, pos))
    BY <2>1, LinesOfMove
  <2> DEFINE t == MoveLines(c, i, s, pos)
             axes == Elsewhere(s, pos)
  <2>5. OfMove(t, i, axes)
    BY <2>4
  <2> HIDE DEF t, axes
  <2>2. \/ t = <<>>
        \/ t \in Seq(LineRecords) /\ Len(t) = 2 /\ t[1].step = i /\ t[2].step = i
    BY <2>5 DEF OfMove
  <2>3. t \in Seq(LineRecords) /\ \A k \in 1..Len(t) : t[k].step = i
    <3>1. CASE t = <<>>
      BY <3>1
    <3>2. CASE t \in Seq(LineRecords) /\ Len(t) = 2 /\ t[1].step = i /\ t[2].step = i
      <4>1. \A k \in 1..2 : t[k].step = i
        BY <3>2
      <4> QED BY <3>2, <4>1
    <3> QED BY <2>2, <3>1, <3>2
  <2> QED BY <2>1, <2>3 DEF t
<1> QED BY <1>1, <1>2, <1>3 DEF StepRecords

-----------------------------------------------------------------------------
(* What is written before a step, and where its lines begin.               *)

Written(i) == Writing(config, plan.steps)[i]
Chunk(i) == LinesOfStep(config, i, plan.steps[i], Written(i).pos)
Count(i) == Len(Written(i).lines)
Cue(i) == Count(i) + 3
Symbols == (MoveNames \cup {Backoff(a) : a \in Axes}) \X Int

LEMMA WrittenIs ==
  ASSUME Planned
  PROVE  /\ Written(1) = ScriptOfStart
         /\ \A i \in 1..Len(plan.steps) :
              /\ Written(i + 1).lines = Written(i).lines \o Chunk(i)
              /\ Written(i + 1).pos = PlaceAfter(plan.steps[i], Written(i).pos)
<1>1. plan.steps \in Seq(StepRecords)
  BY ToldTrail
<1>2. /\ Writing(config, plan.steps)[1] = ScriptOfStart
      /\ \A i \in 1..Len(plan.steps) :
           Writing(config, plan.steps)[i + 1]
             = ScriptAfter(config, i, Writing(config, plan.steps)[i], plan.steps[i])
  BY <1>1, WritingIs
<1>3. ASSUME NEW i \in 1..Len(plan.steps)
      PROVE  /\ Written(i + 1).lines = Written(i).lines \o Chunk(i)
             /\ Written(i + 1).pos = PlaceAfter(plan.steps[i], Written(i).pos)
  <2>1. Written(i + 1) = ScriptAfter(config, i, Written(i), plan.steps[i])
    BY <1>2 DEF Written
  <2> DEFINE w == Written(i)
             s == plan.steps[i]
             t == w.lines \o LinesOfStep(config, i, s, w.pos)
             q == PlaceAfter(s, w.pos)
  <2>2. Written(i + 1) = [lines |-> t, pos |-> q]
    BY <2>1 DEF ScriptAfter
  <2> HIDE DEF t, q
  <2>3. Written(i + 1).lines = t /\ Written(i + 1).pos = q
    BY <2>2
  <2> QED BY <2>3 DEF t, q, Chunk
<1> QED BY <1>2, <1>3 DEF Written

LEMMA BackoffsApart ==
  /\ \A a \in Axes : Backoff(a) \notin Surfaces \cup Starts
  /\ \A a, b \in Axes, t \in Tags : Backoff(a) # Surface(b, t)
  /\ \A a \in Axes : Backoff(a) \notin MoveNames
  BY DEF Backoff, Surfaces, Starts, Start, Surface, MoveNames

LEMMA PlaceAfterIs ==
  ASSUME NEW s \in StepRecords, NEW pos \in [Axes -> Symbols]
  PROVE  /\ PlaceAfter(s, pos) \in [Axes -> Symbols]
         /\ s.kind = "contact" => /\ PlaceAfter(s, pos)[s.axis][1] = Backoff(s.axis)
                                  /\ \A a \in Axes \ {s.axis} : PlaceAfter(s, pos)[a] = pos[a]
         /\ s.kind = "center" => PlaceAfter(s, pos) = pos
         /\ s.kind = "move" =>
              \A a \in Axes :
                IF a \in AxesOf(s) THEN /\ PlaceAfter(s, pos)[a][1] = TargetOf(s, a).name
                                        /\ PlaceAfter(s, pos)[a][2] = TargetOf(s, a).offset
                                        /\ TargetOf(s, a).name \in Uses(s) \cap MoveNames
                ELSE PlaceAfter(s, pos)[a] = pos[a]
<1>1. CASE s.kind = "contact"
  <2>1. s.axis \in Axes /\ PlaceAfter(s, pos) = [pos EXCEPT ![s.axis] = <<Backoff(s.axis), 0>>]
    BY <1>1 DEF StepRecords, PlaceAfter
  <2> DEFINE b == <<Backoff(s.axis), 0>>
  <2>2. b \in Symbols /\ b[1] = Backoff(s.axis)
    BY <2>1 DEF Symbols
  <2> HIDE DEF b
  <2> QED BY <1>1, <2>1, <2>2 DEF b
<1>2. CASE s.kind = "center"
  BY <1>2 DEF PlaceAfter
<1>3. CASE s.kind = "move"
  <2> DEFINE Ts == [axis : Axes, name : MoveNames, offset : Int]
  <2>1. s.targets \in Seq(Ts)
    BY <1>3 DEF StepRecords
  <2>2. ASSUME NEW a \in AxesOf(s)
        PROVE  /\ TargetOf(s, a).name \in Uses(s) \cap MoveNames /\ TargetOf(s, a).offset \in Int
    <3>1. \E k \in DOMAIN s.targets : s.targets[k].axis = a
      BY <2>2 DEF AxesOf
    <3> DEFINE k == CHOOSE k \in DOMAIN s.targets : s.targets[k].axis = a
    <3>2. k \in DOMAIN s.targets /\ TargetOf(s, a) = s.targets[k]
      BY <3>1 DEF TargetOf
    <3> HIDE DEF k
    <3>3. s.targets[k] \in Ts
      <4> HIDE DEF Ts
      <4> QED BY <2>1, <3>2
    <3>4. s.targets[k].name \in Uses(s)
      BY <1>3, <3>2 DEF Uses
    <3> QED BY <3>2, <3>3, <3>4
  <2> DEFINE to(a) == <<TargetOf(s, a).name, TargetOf(s, a).offset>>
  <2>3. PlaceAfter(s, pos) = [a \in Axes |-> IF a \in AxesOf(s) THEN to(a) ELSE pos[a]]
    BY <1>3 DEF PlaceAfter
  <2>4. ASSUME NEW a \in AxesOf(s) PROVE to(a) \in Symbols
    BY <2>2 DEF Symbols
  <2>5. \A a : to(a)[1] = TargetOf(s, a).name /\ to(a)[2] = TargetOf(s, a).offset
    OBVIOUS
  <2> HIDE DEF to
  <2>6. PlaceAfter(s, pos) \in [Axes -> Symbols]
    BY <2>3, <2>4
  <2>7. ASSUME NEW a \in Axes
        PROVE  PlaceAfter(s, pos)[a] = IF a \in AxesOf(s) THEN to(a) ELSE pos[a]
    BY <2>3
  <2> QED BY <1>3, <2>2, <2>5, <2>6, <2>7
<1> QED BY <1>1, <1>2, <1>3 DEF StepRecords

\* Where the script takes an axis to be is named by a value that no later step
\* measures again.
Named(i) ==
  /\ Written(i).pos \in [Axes -> Symbols]
  /\ \A a \in Axes, k \in i..Len(plan.steps) : Written(i).pos[a][1] \notin Measures(plan.steps[k])

LEMMA MeasuresSurfaces ==
  ASSUME NEW s \in StepRecords
  PROVE  /\ Measures(s) \subseteq Surfaces
         /\ \A a \in Axes : Start(a) \notin Measures(s) /\ Backoff(a) \notin Measures(s)
<1>1. Measures(s) \subseteq Surfaces
  BY NamesAreApart, PlainNames DEF Measures, StepRecords
<1> QED BY <1>1, NamesAreApart, BackoffsApart

LEMMA NamedNext ==
  ASSUME Planned, NEW i \in 1..Len(plan.steps), Named(i)
  PROVE  Named(i + 1)
<1> DEFINE s == plan.steps[i]
           p == Written(i).pos
           q == Written(i + 1).pos
           n == Len(plan.steps)
<1>1. plan.steps \in Seq(StepRecords) /\ n \in Nat
  BY ToldTrail
<1>2. s \in StepRecords /\ \A k \in 1..n : plan.steps[k] \in StepRecords
  BY <1>1
<1>3. q = PlaceAfter(s, p) /\ p \in [Axes -> Symbols]
  BY WrittenIs DEF Named
<1>4. /\ q \in [Axes -> Symbols]
      /\ \A a \in Axes : \/ q[a] = p[a]
                         \/ q[a][1] = Backoff(a)
                         \/ s.kind = "move" /\ q[a][1] \in Uses(s)
  <2> HIDE DEF s, p, q
  <2>1. s.kind \in {"contact", "center", "move"} /\ (s.kind = "contact" => s.axis \in Axes)
    BY <1>2 DEF StepRecords
  <2>2. q \in [Axes -> Symbols]
    BY <1>2, <1>3, PlaceAfterIs
  <2>3. ASSUME s.kind = "contact", NEW a \in Axes PROVE q[a] = p[a] \/ q[a][1] = Backoff(a)
    <3>1. q[s.axis][1] = Backoff(s.axis) /\ (a # s.axis => q[a] = p[a])
      BY <1>2, <1>3, <2>3, PlaceAfterIs
    <3> QED BY <3>1
  <2>4. ASSUME s.kind = "center" PROVE q = p
    BY <1>2, <1>3, <2>4, PlaceAfterIs
  <2>5. ASSUME s.kind = "move", NEW a \in Axes PROVE q[a] = p[a] \/ q[a][1] \in Uses(s)
    <3>1. CASE a \in AxesOf(s)
      BY <1>2, <1>3, <2>5, <3>1, PlaceAfterIs
    <3>2. CASE a \notin AxesOf(s)
      BY <1>2, <1>3, <2>5, <3>2, PlaceAfterIs
    <3> QED BY <3>1, <3>2
  <2> QED BY <2>1, <2>2, <2>3, <2>4, <2>5
<1>5. ASSUME NEW a \in Axes, NEW k \in i + 1..n PROVE q[a][1] \notin Measures(plan.steps[k])
  <2>1. k \in 1..n /\ k \in i..n /\ i \in 1..n /\ i <= k
    BY <1>1
  <2>2. p[a][1] \notin Measures(plan.steps[k])
    BY <2>1 DEF Named
  <2>3. Measures(plan.steps[k]) \cap Uses(s) = {}
    BY <2>1, PlanOrder
  <2>4. Backoff(a) \notin Measures(plan.steps[k])
    BY <1>2, <2>1, MeasuresSurfaces
  <2> HIDE DEF s, p, q, n
  <2> QED BY <1>4, <2>2, <2>3, <2>4
<1> QED BY <1>4, <1>5 DEF Named

LEMMA AllNamed ==
  ASSUME Planned
  PROVE  \A i \in 1..Done : Named(i)
<1> DEFINE n == Len(plan.steps)
           S == {m \in Nat : m <= n => Named(m + 1)}
<1>1. plan.steps \in Seq(StepRecords) /\ n \in Nat /\ \A k \in 1..n : plan.steps[k] \in StepRecords
  BY ToldTrail
<1>2. 0 \in S
  <2>1. Written(1).pos = [a \in Axes |-> <<Start(a), 0>>]
    BY WrittenIs DEF ScriptOfStart
  <2>2. ASSUME NEW a \in Axes PROVE <<Start(a), 0>> \in Symbols /\ <<Start(a), 0>>[1] = Start(a)
    BY PlainNames DEF Symbols
  <2>3. \A a \in Axes : Written(1).pos[a] \in Symbols /\ Written(1).pos[a][1] = Start(a)
    BY <2>1, <2>2
  <2>4. Written(1).pos \in [Axes -> Symbols]
    BY <2>1, <2>2
  <2>5. \A a \in Axes, k \in 1..n : Start(a) \notin Measures(plan.steps[k])
    BY <1>1, MeasuresSurfaces
  <2>6. Named(1)
    BY <2>3, <2>4, <2>5 DEF Named
  <2> QED BY <2>6
<1>3. ASSUME NEW m \in Nat, m \in S PROVE m + 1 \in S
  <2> SUFFICES ASSUME m + 1 <= n PROVE Named((m + 1) + 1)
    OBVIOUS
  <2>1. m + 1 \in 1..n /\ Named(m + 1)
    BY <1>1, <1>3
  <2> QED BY <2>1, NamedNext
<1> HIDE DEF S
<1>4. Nat \subseteq S
  BY <1>2, <1>3, SetInduction
<1> SUFFICES ASSUME NEW i \in 1..Done PROVE Named(i)
  OBVIOUS
<1>5. i - 1 \in Nat /\ i - 1 <= n /\ (i - 1) + 1 = i
  BY <1>1 DEF Done
<1> QED BY <1>4, <1>5 DEF S

\* What is written stays, and what is written later is of later steps.
Kept(i, j) ==
  /\ Count(i) \in Nat /\ Count(i) <= Count(j)
  /\ \A k \in 1..Count(j) : IF k <= Count(i) THEN Written(j).lines[k] = Written(i).lines[k]
                            ELSE Written(j).lines[k].step >= i
Lined(j) == Written(j).lines \in Seq(LineRecords) /\ \A i \in 1..j : Kept(i, j)

LEMMA ChunkIs ==
  ASSUME Planned, NEW i \in 1..Len(plan.steps)
  PROVE  /\ Chunk(i) \in Seq(LineRecords) /\ Len(Chunk(i)) \in Nat
         /\ \A k \in 1..Len(Chunk(i)) : Chunk(i)[k].step = i
<1>1. plan.steps[i] \in StepRecords /\ i \in Nat
  BY ToldTrail
<1>2. /\ Chunk(i) \in Seq(LineRecords)
      /\ \A k \in 1..Len(Chunk(i)) : Chunk(i)[k].step = i
  BY <1>1, LinesOfSteps DEF Chunk
<1> QED BY <1>2

LEMMA LinedNext ==
  ASSUME Planned, NEW j \in 1..Len(plan.steps), Lined(j)
  PROVE  /\ Lined(j + 1) /\ Count(j + 1) = Count(j) + Len(Chunk(j))
         /\ \A k \in 1..Len(Chunk(j)) : Written(j + 1).lines[Count(j) + k] = Chunk(j)[k]
<1> DEFINE u == Written(j).lines
           v == Written(j + 1).lines
           t == Chunk(j)
<1>1. u \in Seq(LineRecords) /\ t \in Seq(LineRecords) /\ v = u \o t
      /\ \A k \in 1..Len(t) : t[k].step = j
  BY ChunkIs, WrittenIs DEF Lined
<1>2. Len(u) = Count(j) /\ Len(v) = Count(j + 1) /\ j \in Nat
  BY DEF Count
<1>0. \A i \in 1..j : Kept(i, j)
  BY DEF Lined
<1>k. \A i \in 1..j : /\ Count(i) \in Nat /\ Count(i) <= Len(u)
                      /\ \A k \in 1..Len(u) : IF k <= Count(i) THEN u[k] = Written(i).lines[k]
                                              ELSE u[k].step >= i
  BY <1>0, <1>2 DEF Kept
<1> HIDE DEF u, v, t
<1>3. /\ v \in Seq(LineRecords) /\ Len(v) = Len(u) + Len(t) /\ Len(u) \in Nat /\ Len(t) \in Nat
      /\ \A k \in 1..Len(u) + Len(t) : v[k] = IF k <= Len(u) THEN u[k] ELSE t[k - Len(u)]
  BY <1>1, ConcatProperties
<1>4. \A k \in 1..Len(t) : v[Len(u) + k] = t[k]
  BY <1>3
<1>5. ASSUME NEW k \in 1..Len(v), k > Len(u) PROVE v[k].step = j
  <2>1. k - Len(u) \in 1..Len(t) /\ v[k] = t[k - Len(u)]
    BY <1>3, <1>5
  <2> QED BY <1>1, <2>1
<1>6. ASSUME NEW i \in 1..j PROVE Kept(i, j + 1)
  <2>1. i \in Nat /\ Count(i) \in Nat /\ Count(i) <= Len(u) /\ Count(i) <= Len(v)
    <3>1. Count(i) \in Nat /\ Count(i) <= Len(u)
      BY <1>k
    <3> QED BY <1>3, <3>1
  <2>2. ASSUME NEW k \in 1..Len(v)
        PROVE  IF k <= Count(i) THEN v[k] = Written(i).lines[k] ELSE v[k].step >= i
    <3>1. CASE k <= Len(u)
      <4>1. k \in 1..Len(u) /\ v[k] = u[k]
        BY <1>3, <3>1
      <4> QED BY <1>k, <4>1
    <3>2. CASE k > Len(u)
      <4>1. v[k].step = j /\ ~(k <= Count(i)) /\ j >= i
        BY <1>2, <1>5, <2>1, <3>2
      <4> QED BY <4>1
    <3> QED BY <1>3, <3>1, <3>2
  <2> QED BY <1>2, <2>1, <2>2 DEF Kept, v
<1>7. Kept(j + 1, j + 1)
  BY <1>2, <1>3 DEF Kept, v
<1>8. \A i \in 1..j + 1 : Kept(i, j + 1)
  <2> TAKE i \in 1..j + 1
  <2>1. i \in 1..j \/ i = j + 1
    BY <1>2
  <2> QED BY <1>6, <1>7, <2>1
<1> QED BY <1>2, <1>3, <1>4, <1>8 DEF Lined, u, v, t

LEMMA AllLined ==
  ASSUME Planned
  PROVE  \A j \in 1..Done : Lined(j)
<1> DEFINE n == Len(plan.steps)
           S == {m \in Nat : m <= n => Lined(m + 1)}
<1>1. n \in Nat
  BY ToldTrail
<1>2. 0 \in S
  <2>1. Written(1).lines = <<>>
    BY WrittenIs DEF ScriptOfStart
  <2>2. Count(1) = 0
    BY <2>1 DEF Count
  <2>3. Kept(1, 1)
    BY <2>2 DEF Kept
  <2>5. <<>> \in Seq(LineRecords)
    OBVIOUS
  <2>6. \A i \in 1..1 : i = 1
    OBVIOUS
  <2>4. Lined(1)
    BY <2>1, <2>3, <2>5, <2>6 DEF Lined
  <2> QED BY <2>4
<1>3. ASSUME NEW m \in Nat, m \in S PROVE m + 1 \in S
  <2> SUFFICES ASSUME m + 1 <= n PROVE Lined((m + 1) + 1)
    OBVIOUS
  <2>1. m + 1 \in 1..n /\ Lined(m + 1)
    BY <1>1, <1>3
  <2> QED BY <2>1, LinedNext
<1> HIDE DEF S
<1>4. Nat \subseteq S
  BY <1>2, <1>3, SetInduction
<1> SUFFICES ASSUME NEW j \in 1..Done PROVE Lined(j)
  OBVIOUS
<1>5. j - 1 \in Nat /\ j - 1 <= n /\ (j - 1) + 1 = j
  BY <1>1 DEF Done
<1> QED BY <1>4, <1>5 DEF S

-----------------------------------------------------------------------------
(* The script of a plan, and the cursor in it.                             *)

Joined(u, s, t) ==
  /\ u \in Seq(LineRecords) /\ Len(u) = Len(s) + Len(t)
  /\ \A k \in 1..Len(s) : u[k] = s[k]
  /\ \A k \in 1..Len(t) : u[Len(s) + k] = t[k]
LEMMA Join ==
  ASSUME NEW s \in Seq(LineRecords), NEW t \in Seq(LineRecords), NEW u, u = s \o t
  PROVE  Joined(u, s, t)
<1>1. /\ s \o t \in Seq(LineRecords) /\ Len(s \o t) = Len(s) + Len(t) /\ Len(s) \in Nat /\ Len(t) \in Nat
      /\ \A k \in 1..Len(s) + Len(t) : (s \o t)[k] = IF k <= Len(s) THEN s[k] ELSE t[k - Len(s)]
  BY ConcatProperties
<1>2. \A k \in 1..Len(s) : u[k] = s[k]
  BY <1>1
<1>3. ASSUME NEW k \in 1..Len(t) PROVE u[Len(s) + k] = t[k]
  <2> DEFINE j == Len(s) + k
  <2>1. j \in 1..Len(s) + Len(t) /\ ~(j <= Len(s)) /\ j - Len(s) = k
    BY <1>1
  <2> HIDE DEF j
  <2>2. (s \o t)[j] = t[j - Len(s)]
    BY <1>1, <2>1
  <2> QED BY <2>1, <2>2 DEF j
<1> QED BY <1>1, <1>2, <1>3 DEF Joined

\* Two lines of the start, those of the steps, and those of the end.
LEMMA LinesOfPlan ==
  ASSUME Planned
  PROVE  /\ Count(Done) \in Nat /\ Lines \in Seq(LineRecords) /\ Len(Lines) >= Count(Done) + 3
         /\ Lines[1] = NoteOf(0) /\ Lines[2] = CommandOf(0, <<"modes">>)
         /\ \A k \in 1..Count(Done) : Lines[k + 2] = Written(Done).lines[k]
         /\ Lines[Count(Done) + 3].step >= Done
<1> DEFINE n == Len(plan.steps)
           W == Written(Done).lines
           N == NoteOf(0)
           C == CommandOf(0, <<"modes">>)
           zero == CommandOf(n + 1, <<"zero">>)
           E == CommandOf(n + 2, <<"modes">>)
           Z == When(config.zero, <<zero>>)
<1>1. n \in Nat /\ Done = n + 1 /\ Done \in 1..Done
  BY ToldTrail DEF Done
<1>2. W \in Seq(LineRecords) /\ Len(W) = Count(Done)
  BY <1>1, AllLined DEF Lined, Count
<1>3. <<"modes">> \in Cmds /\ <<"zero">> \in Cmds
  BY DEF Cmds
<1>4. /\ Note(0) = <<N>> /\ N \in LineRecords
      /\ Command(0, <<"modes">>) = <<C>> /\ C \in LineRecords
      /\ Command(n + 1, <<"zero">>) = <<zero>> /\ zero \in LineRecords
      /\ Command(n + 2, <<"modes">>) = <<E>> /\ E \in LineRecords
  <2>1. 0 \in Nat /\ n + 1 \in Nat /\ n + 2 \in Nat
    BY <1>1
  <2> QED BY <1>3, <2>1, LinesAre
<1>5. zero.step = n + 1 /\ E.step = n + 2
  BY DEF CommandOf
<1>6. Lines = Script(config, plan.steps)
  BY DEF Planned, Plan, Lines
<1>7. Script(config, plan.steps) = <<N>> \o <<C>> \o W \o Z \o <<E>>
  BY <1>4 DEF Script, Written, Done
<1>9. Z = <<zero>> \/ Z = <<>>
  BY DEF When
<1> HIDE DEF n, W, N, C, zero, E, Z
<1>10. Z \in Seq(LineRecords) /\ (Len(Z) = 0 \/ (Len(Z) = 1 /\ Z[1] = zero))
  <2>1. <<zero>> \in Seq(LineRecords) /\ Len(<<zero>>) = 1 /\ <<zero>>[1] = zero
    BY <1>4
  <2>2. <<>> \in Seq(LineRecords) /\ Len(<<>>) = 0
    OBVIOUS
  <2> QED BY <1>9, <2>1, <2>2
<1>11. PICK t1 : t1 = <<N>>
  OBVIOUS
<1>12. t1 \in Seq(LineRecords) /\ Len(t1) = 1 /\ t1[1] = N
  BY <1>4, <1>11
<1>13. PICK t2 : t2 = t1 \o <<C>>
  OBVIOUS
<1>14. Added(t2, t1, C)
  BY <1>4, <1>12, <1>13, OneMore
<1>15. t2 \in Seq(LineRecords) /\ Len(t2) = 2 /\ t2[1] = N /\ t2[2] = C
  BY <1>12, <1>14 DEF Added
<1>16. PICK t3 : t3 = t2 \o W
  OBVIOUS
<1>17. Joined(t3, t2, W)
  BY <1>2, <1>15, <1>16, Join
<1> DEFINE m == Count(Done)
<1>18. m \in Nat
  BY <1>2
<1> HIDE DEF m
<1>19. /\ t3 \in Seq(LineRecords) /\ Len(t3) = m + 2 /\ t3[1] = N /\ t3[2] = C
       /\ \A k \in 1..m : t3[2 + k] = W[k]
  BY <1>2, <1>15, <1>17 DEF Joined, m
<1>20. PICK t4 : t4 = t3 \o Z
  OBVIOUS
<1>21. Joined(t4, t3, Z)
  BY <1>10, <1>19, <1>20, Join
<1>22. /\ t4 \in Seq(LineRecords) /\ Len(t4) \in Nat /\ Len(t4) >= m + 2
       /\ \A k \in 1..m + 2 : t4[k] = t3[k]
       /\ Len(t4) # m + 2 => Len(t4) = m + 3 /\ t4[m + 3] = zero
  <2>1. /\ t4 \in Seq(LineRecords) /\ Len(t4) = (m + 2) + Len(Z)
        /\ \A k \in 1..m + 2 : t4[k] = t3[k]
        /\ \A k \in 1..Len(Z) : t4[(m + 2) + k] = Z[k]
    BY <1>19, <1>21 DEF Joined
  <2>2. CASE Len(Z) = 0
    BY <1>18, <2>1, <2>2
  <2>3. CASE Len(Z) = 1 /\ Z[1] = zero
    <3>1. t4[(m + 2) + 1] = zero /\ (m + 2) + 1 = m + 3 /\ Len(t4) = m + 3
      BY <1>18, <2>1, <2>3
    <3> QED BY <1>18, <2>1, <3>1
  <2> QED BY <1>10, <2>2, <2>3
<1>23. Lines = t4 \o <<E>>
  BY <1>6, <1>7, <1>11, <1>13, <1>16, <1>20
<1>24. Added(Lines, t4, E)
  BY <1>4, <1>22, <1>23, OneMore
<1>25. /\ Lines \in Seq(LineRecords) /\ Len(Lines) = Len(t4) + 1 /\ Lines[Len(t4) + 1] = E
       /\ \A k \in 1..Len(t4) : Lines[k] = t4[k]
  BY <1>24 DEF Added
<1>26. Lines[1] = N /\ Lines[2] = C
  BY <1>18, <1>19, <1>22, <1>25
<1>27. ASSUME NEW k \in 1..m PROVE Lines[k + 2] = W[k]
  <2> DEFINE j == 2 + k
  <2>1. j \in 1..m + 2 /\ j \in 1..Len(t4) /\ j = k + 2
    BY <1>18, <1>22
  <2>2. t3[j] = W[k]
    BY <1>19
  <2> HIDE DEF j
  <2> QED BY <1>22, <1>25, <2>1, <2>2
<1>28. Lines[m + 3].step >= Done
  <2>1. CASE Len(t4) = m + 2
    BY <1>1, <1>5, <1>18, <1>25, <2>1
  <2>2. CASE Len(t4) # m + 2
    <3>1. m + 3 \in 1..Len(t4)
      BY <1>18, <1>22, <2>2
    <3>2. Lines[m + 3] = zero
      BY <1>22, <1>25, <2>2, <3>1
    <3> QED BY <1>1, <1>5, <3>2
  <2> QED BY <2>1, <2>2
<1> QED BY <1>18, <1>22, <1>25, <1>26, <1>27, <1>28 DEF m, W, N, C

\* The lines of a step begin at its cue and end before the next one's.
LEMMA CueAt ==
  ASSUME Planned, NEW i \in 1..Len(plan.steps)
  PROVE  /\ Cue(i) \in Nat /\ Cue(i) >= 3 /\ Cue(i + 1) = Cue(i) + Len(Chunk(i))
         /\ \A k \in 1..Len(Chunk(i)) : /\ Cue(i) + k - 1 \in DOMAIN Lines
                                        /\ Lines[Cue(i) + k - 1] = Chunk(i)[k]
         /\ Cue(i + 1) \in DOMAIN Lines /\ Lines[Cue(i + 1)].step > i
<1> DEFINE n == Count(Done)
           W == Written(Done).lines
           t == Chunk(i)
           x == Count(i)
           y == Count(i + 1)
<1>1. i \in Nat /\ i + 1 \in 1..Done /\ i \in 1..Done /\ Done \in 1..Done /\ Done \in Nat
  BY ToldTrail DEF Done
<1>2. Lined(i) /\ Lined(Done)
  BY <1>1, AllLined
<1>3. Kept(i + 1, Done) /\ Kept(i, i)
  BY <1>1, <1>2 DEF Lined
<1>4. x \in Nat /\ y \in Nat /\ y <= n /\ n \in Nat
  BY <1>3, LinesOfPlan DEF Kept
<1>5. \A k \in 1..n : IF k <= y THEN W[k] = Written(i + 1).lines[k] ELSE W[k].step >= i + 1
  BY <1>3 DEF Kept
<1>6. y = x + Len(t) /\ Len(t) \in Nat /\ \A k \in 1..Len(t) : Written(i + 1).lines[x + k] = t[k]
  BY <1>2, ChunkIs, LinedNext
<1>7. /\ Lines \in Seq(LineRecords) /\ Len(Lines) \in Nat /\ Len(Lines) >= n + 3
      /\ \A k \in 1..n : Lines[k + 2] = W[k]
      /\ Lines[n + 3].step >= Done
  BY LinesOfPlan
<1> HIDE DEF n, W, t, x, y
<1>8. DOMAIN Lines = 1..Len(Lines)
  BY <1>7
<1>12. ASSUME NEW k \in DOMAIN Lines PROVE Lines[k].step \in Nat
  <2>1. Lines[k] \in LineRecords
    BY <1>7
  <2> QED BY <2>1 DEF LineRecords
<1>9. ASSUME NEW k \in 1..Len(t)
      PROVE  (x + 3) + k - 1 \in DOMAIN Lines /\ Lines[(x + 3) + k - 1] = t[k]
  <2> DEFINE j == x + k
  <2>1. j \in 1..n /\ j <= y /\ (x + 3) + k - 1 = j + 2 /\ j + 2 \in DOMAIN Lines
    BY <1>4, <1>6, <1>7, <1>8
  <2>2. Written(i + 1).lines[j] = t[k]
    BY <1>6
  <2> HIDE DEF j
  <2> QED BY <1>5, <1>7, <2>1, <2>2
<1>10. y + 3 \in DOMAIN Lines /\ Lines[y + 3].step > i
  <2>1. CASE y = n
    <3>1. n + 3 \in DOMAIN Lines /\ Done > i
      BY <1>1, <1>4, <1>7, <1>8 DEF Done
    <3> QED BY <1>1, <1>7, <1>12, <2>1, <3>1
  <2>2. CASE y # n
    <3> DEFINE j == y + 1
    <3>1. j \in 1..n /\ ~(j <= y) /\ y + 3 = j + 2 /\ j + 2 \in DOMAIN Lines
      BY <1>4, <1>7, <1>8, <2>2
    <3> HIDE DEF j
    <3>2. Lines[y + 3] = W[j] /\ W[j].step >= i + 1
      BY <1>5, <1>7, <3>1
    <3>3. W[j] \in LineRecords
      <4>1. Lines[j + 2] \in LineRecords /\ Lines[j + 2] = W[j]
        BY <1>7, <3>1
      <4> QED BY <4>1
    <3>4. W[j].step \in Nat
      BY <3>3 DEF LineRecords
    <3> QED BY <1>1, <3>1, <3>2, <3>4
  <2> QED BY <2>1, <2>2
<1>11. Cue(i) = x + 3 /\ Cue(i + 1) = y + 3
  BY DEF Cue, x, y
<1> QED BY <1>4, <1>6, <1>9, <1>10, <1>11 DEF t

\* What is left of the lines of a step, from one of them on.
LEMMA LinesLeft ==
  ASSUME Planned, NEW i \in 1..Len(plan.steps), NEW m \in 0..Len(Chunk(i))
  PROVE  LinesOf(i, Cue(i) + m) = (Cue(i) + m)..(Cue(i + 1) - 1)
<1> DEFINE x == Cue(i)
           y == Cue(i + 1)
           t == Chunk(i)
           from == x + m
<1>1. /\ x \in Nat /\ y = x + Len(t)
      /\ \A k \in 1..Len(t) : x + k - 1 \in DOMAIN Lines /\ Lines[x + k - 1] = t[k]
      /\ y \in DOMAIN Lines /\ Lines[y].step > i
  BY CueAt
<1>2. Len(t) \in Nat /\ \A k \in 1..Len(t) : t[k].step = i
  BY ChunkIs
<1>9. m \in 0..Len(t)
  OBVIOUS
<1>3. Lines[y].step # i
  <2>1. Lines \in Seq(LineRecords)
    BY LinesOfPlan
  <2>2. Lines[y] \in LineRecords
    BY <1>1, <2>1
  <2>3. Lines[y].step \in Nat /\ i \in Nat
    BY <2>2 DEF LineRecords
  <2> QED BY <1>1, <2>3
<1>4. DOMAIN Lines \subseteq Nat
  <2>1. Lines \in Seq(LineRecords)
    BY LinesOfPlan
  <2> QED BY <2>1
<1> HIDE DEF x, y, t
<1>5. ASSUME NEW n \in from..(y - 1) PROVE n \in DOMAIN Lines /\ Lines[n].step = i
  <2> DEFINE k == n - x + 1
  <2>1. k \in 1..Len(t) /\ x + k - 1 = n
    BY <1>1, <1>2, <1>9
  <2> HIDE DEF k
  <2> QED BY <1>1, <1>2, <2>1
<1>6. ASSUME NEW n \in LinesOf(i, from) PROVE n \in from..(y - 1)
  <2>1. n \in DOMAIN Lines /\ n >= from /\ \A k \in from..n : Lines[k].step = i
    BY <1>6 DEF LinesOf
  <2>2. n \in Nat /\ from \in Nat /\ y \in Nat /\ from <= y
    BY <1>1, <1>2, <1>4, <1>9, <2>1
  <2>3. ~(y <= n)
    BY <1>3, <2>1, <2>2
  <2> QED BY <2>1, <2>2, <2>3
<1>7. ASSUME NEW n \in from..(y - 1) PROVE n \in LinesOf(i, from)
  <2>1. \A k \in from..n : k \in from..(y - 1)
    BY <1>1, <1>2, <1>9
  <2>2. n >= from
    BY <1>1, <1>2, <1>9
  <2> QED BY <1>5, <2>1, <2>2 DEF LinesOf
<1>8. LinesOf(i, from) = from..(y - 1)
  BY <1>6, <1>7
<1> QED BY <1>8 DEF x, y

LEMMA AfterIs ==
  ASSUME NEW from \in Int, NEW to \in Int, from <= to
  PROVE  After(from..(to - 1), from) = to
<1> DEFINE S == from..(to - 1)
<1>1. CASE S = {}
  BY <1>1 DEF After
<1>2. CASE S # {}
  <2>1. to - 1 \in S /\ \A m \in S : m <= to - 1
    BY <1>2
  <2> DEFINE n == CHOOSE n \in S : \A m \in S : m <= n
  <2>2. n \in S /\ \A m \in S : m <= n
    BY <2>1
  <2>3. After(S, from) = 1 + n
    BY <1>2 DEF After
  <2> HIDE DEF n
  <2>4. n = to - 1
    BY <2>1, <2>2
  <2> QED BY <2>3, <2>4
<1> QED BY <1>1, <1>2

LEMMA FirstIs ==
  ASSUME NEW ns \in SUBSET Int, NEW n \in ns, \A m \in ns : n <= m
  PROVE  First(ns) = n
<1> DEFINE k == CHOOSE k \in ns : \A m \in ns : k <= m
<1>1. k \in ns /\ \A m \in ns : k <= m
  OBVIOUS
<1>2. First(ns) = k
  BY DEF First
<1> HIDE DEF k
<1>3. k = n
  BY <1>1
<1> QED BY <1>2, <1>3

\* A step that has begun at its cue, or gone on to one of its lines, ends at
\* the cue of the next one.
LEMMA AfterStep ==
  ASSUME Planned, NEW i \in 1..Len(plan.steps), NEW m \in 0..Len(Chunk(i)), cursor = Cue(i) + m
  PROVE  After(LinesOf(i, cursor), cursor) = Cue(i + 1)
<1>1. Cue(i) \in Nat /\ Cue(i + 1) = Cue(i) + Len(Chunk(i)) /\ Len(Chunk(i)) \in Nat
  BY CueAt, ChunkIs
<1>2. cursor \in Int /\ Cue(i + 1) \in Int /\ cursor <= Cue(i + 1)
  BY <1>1
<1>3. LinesOf(i, cursor) = cursor..(Cue(i + 1) - 1)
  BY LinesLeft
<1> DEFINE y == Cue(i + 1)
<1> HIDE DEF y
<1>4. After(cursor..(y - 1), cursor) = y
  BY <1>2, AfterIs DEF y
<1> QED BY <1>3, <1>4 DEF y

\* The first line of a stretch that is a command is the next command.
LEMMA NextIs ==
  ASSUME NEW step, NEW to \in Int, cursor \in Int, LinesOf(step, cursor) = cursor..to,
         NEW n \in cursor..to, Lines[n].is = "command",
         \A k \in cursor..(n - 1) : Lines[k].is # "command"
  PROVE  NextCommand(step) # {} /\ First(NextCommand(step)) = n
<1> DEFINE ns == NextCommand(step)
<1>1. ns = {k \in cursor..to : Lines[k].is = "command"}
  BY DEF NextCommand
<1>2. n \in ns /\ ns \in SUBSET Int
  BY <1>1
<1>3. ASSUME NEW k \in ns PROVE n <= k
  <2>1. k \in cursor..to /\ Lines[k].is = "command"
    BY <1>1
  <2>2. ~(k \in cursor..(n - 1))
    BY <2>1
  <2> QED BY <2>1, <2>2
<1> HIDE DEF ns
<1>4. First(ns) = n
  BY <1>2, <1>3, FirstIs
<1> QED BY <1>2, <1>4 DEF ns

\* The routine begins with the command of the second line.
LEMMA BeginCursor ==
  ASSUME Planned, cursor = 1
  PROVE  CursorAfter(0, NextCommand(0)) = Cue(1)
<1>1. /\ Lines \in Seq(LineRecords) /\ Len(Lines) \in Nat
      /\ Lines[1] = NoteOf(0) /\ Lines[2] = CommandOf(0, <<"modes">>)
      /\ Len(Lines) >= Count(Done) + 3 /\ Count(Done) \in Nat
  BY LinesOfPlan
<1>2. /\ Lines[1].step = 0 /\ Lines[1].is = "note" /\ Lines[2].step = 0 /\ Lines[2].is = "command"
  BY <1>1 DEF NoteOf, CommandOf
<1>3. Count(1) = 0
  <2>1. Written(1).lines = <<>>
    BY WrittenIs DEF ScriptOfStart
  <2> QED BY <2>1 DEF Count
<1>4. 3 \in DOMAIN Lines /\ Lines[3].step # 0
  <2>1. Len(plan.steps) \in Nat
    BY ToldTrail
  <2>2. CASE Len(plan.steps) = 0
    <3>1. Done = 1
      BY <2>2 DEF Done
    <3>2. Lines[3].step >= 1 /\ 3 \in DOMAIN Lines
      BY <1>1, <1>3, <3>1, LinesOfPlan
    <3> QED BY <3>2
  <2>3. CASE Len(plan.steps) # 0
    <3>1. 1 \in 1..Len(plan.steps)
      BY <2>1, <2>3
    <3>2. CASE Len(Chunk(1)) = 0
      <4>1. Cue(1) = 3 /\ Cue(1 + 1) = Cue(1) + 0 /\ Cue(1 + 1) \in DOMAIN Lines /\ Lines[Cue(1 + 1)].step > 1
        BY <1>3, <3>1, <3>2, CueAt DEF Cue
      <4>2. 3 \in DOMAIN Lines /\ Lines[3].step > 1
        BY <4>1
      <4> QED BY <4>2
    <3>3. CASE Len(Chunk(1)) # 0
      <4>1. 1 \in 1..Len(Chunk(1))
        BY <3>1, <3>3, ChunkIs
      <4>2. Cue(1) = 3
        BY <1>3 DEF Cue
      <4>3. 3 + 1 - 1 \in DOMAIN Lines /\ Lines[3 + 1 - 1] = Chunk(1)[1]
        BY <3>1, <4>1, <4>2, CueAt
      <4>4. Chunk(1)[1].step = 1
        BY <3>1, <4>1, ChunkIs
      <4> QED BY <4>3, <4>4
    <3> QED BY <3>2, <3>3
  <2> QED BY <2>2, <2>3
<1>5. LinesOf(0, cursor) = cursor..2
  <2>1. DOMAIN Lines = 1..Len(Lines) /\ Len(Lines) >= 3
    BY <1>1
  <2>2. ASSUME NEW n \in LinesOf(0, 1) PROVE n \in 1..2
    <3>1. n \in DOMAIN Lines /\ n >= 1 /\ \A k \in 1..n : Lines[k].step = 0
      BY DEF LinesOf
    <3>2. ~(3 <= n)
      BY <1>4, <2>1, <3>1
    <3> QED BY <2>1, <3>1, <3>2
  <2>3. 1 \in LinesOf(0, 1) /\ 2 \in LinesOf(0, 1)
    BY <1>2, <2>1 DEF LinesOf
  <2> QED BY <2>2, <2>3
<1>6. NextCommand(0) # {} /\ First(NextCommand(0)) = 2
  <2> DEFINE n == 2
  <2>1. /\ n \in Int /\ cursor \in Int /\ n \in cursor..n /\ LinesOf(0, cursor) = cursor..n
        /\ Lines[n].is = "command" /\ \A k \in cursor..(n - 1) : Lines[k].is # "command"
    BY <1>2, <1>5
  <2> HIDE DEF n
  <2>2. NextCommand(0) # {} /\ First(NextCommand(0)) = n
    BY <2>1, NextIs
  <2> QED BY <2>2 DEF n
<1> QED BY <1>3, <1>6 DEF CursorAfter, Cue

\* Where the cursor is in the lines of a contact before each stage.
Offset(st) == CASE st = 1 -> 0 [] st = 2 -> 3 [] st = 3 -> 4 [] st = 4 -> 7 [] st = 5 -> 9
LEMMA ContactCursor ==
  ASSUME Planned, NEW i \in 1..Len(plan.steps), plan.steps[i].kind = "contact",
         NEW st \in 1..4, cursor = Cue(i) + Offset(st)
  PROVE  /\ NextCommand(i) # {}
         /\ Lines[First(NextCommand(i))].cmd = <<Stages[st], {plan.steps[i].axis}>>
         /\ Declared(i, CursorAfter(i, NextCommand(i))) = Cue(i) + Offset(st + 1)
<1> DEFINE x == Cue(i)
           a == plan.steps[i].axis
           t == Chunk(i)
<1>1. a \in Axes /\ i \in Nat
  BY StepShapes
<1>2. t = ContactLines(i, plan.steps[i])
  BY DEF Chunk, LinesOfStep
<1>3. /\ Len(t) = 9 /\ t[1] = NoteOf(i) /\ t[2] = NoteOf(i) /\ t[3] = CommandOf(i, <<"coarse", {a}>>)
      /\ t[4] = CommandOf(i, <<"retract", {a}>>) /\ t[5] = NoteOf(i)
      /\ t[6] = CommandOf(i, <<"fine", {a}>>) /\ t[7] = DeclarationOf(i)
      /\ t[8] = CommandOf(i, <<"retract", {a}>>) /\ t[9] = DeclarationOf(i)
  <2> DEFINE s == plan.steps[i]
  <2>1. s.axis \in Axes
    BY <1>1
  <2> HIDE DEF s
  <2>2. /\ Len(ContactLines(i, s)) = 9
        /\ ContactLines(i, s)[1] = NoteOf(i) /\ ContactLines(i, s)[2] = NoteOf(i)
        /\ ContactLines(i, s)[3] = CommandOf(i, <<"coarse", {s.axis}>>)
        /\ ContactLines(i, s)[4] = CommandOf(i, <<"retract", {s.axis}>>)
        /\ ContactLines(i, s)[5] = NoteOf(i)
        /\ ContactLines(i, s)[6] = CommandOf(i, <<"fine", {s.axis}>>)
        /\ ContactLines(i, s)[7] = DeclarationOf(i)
        /\ ContactLines(i, s)[8] = CommandOf(i, <<"retract", {s.axis}>>)
        /\ ContactLines(i, s)[9] = DeclarationOf(i)
    BY <1>1, <2>1, LinesOfContact
  <2> QED BY <1>2, <2>2 DEF s
<1>4. /\ x \in Nat /\ Cue(i + 1) = x + Len(t)
      /\ \A k \in 1..Len(t) : Lines[x + k - 1] = t[k]
  BY CueAt
<1>5. \A m \in 0..9 : LinesOf(i, x + m) = (x + m)..(x + 8)
  <2>1. \A m \in 0..Len(t) : LinesOf(i, x + m) = (x + m)..(Cue(i + 1) - 1)
    BY LinesLeft
  <2>2. Len(t) = 9 /\ Cue(i + 1) - 1 = x + 8
    BY <1>3, <1>4
  <2> QED BY <2>1, <2>2
<1> HIDE DEF x, t
<1>6. /\ Lines[x] = t[1] /\ Lines[x + 1] = t[2] /\ Lines[x + 2] = t[3] /\ Lines[x + 3] = t[4]
      /\ Lines[x + 4] = t[5] /\ Lines[x + 5] = t[6] /\ Lines[x + 6] = t[7] /\ Lines[x + 7] = t[8]
      /\ Lines[x + 8] = t[9]
  <2>1. ASSUME NEW k \in 1..9 PROVE Lines[x + (k - 1)] = t[k]
    <3>1. x + k - 1 = x + (k - 1) /\ k \in 1..Len(t)
      BY <1>3, <1>4
    <3> QED BY <1>4, <3>1
  <2>2. Lines[x + (1 - 1)] = t[1] /\ Lines[x + (2 - 1)] = t[2] /\ Lines[x + (3 - 1)] = t[3]
        /\ Lines[x + (4 - 1)] = t[4] /\ Lines[x + (5 - 1)] = t[5] /\ Lines[x + (6 - 1)] = t[6]
        /\ Lines[x + (7 - 1)] = t[7] /\ Lines[x + (8 - 1)] = t[8] /\ Lines[x + (9 - 1)] = t[9]
    BY <2>1
  <2> QED BY <1>4, <2>2
<1>7. /\ Lines[x].is = "note" /\ Lines[x + 1].is = "note" /\ Lines[x + 2].is = "command"
      /\ Lines[x + 3].is = "command" /\ Lines[x + 4].is = "note" /\ Lines[x + 5].is = "command"
      /\ Lines[x + 6].is = "declaration" /\ Lines[x + 7].is = "command" /\ Lines[x + 8].is = "declaration"
  BY <1>3, <1>6 DEF NoteOf, CommandOf, DeclarationOf
<1>8. /\ Lines[x + 2].cmd = <<"coarse", {a}>> /\ Lines[x + 3].cmd = <<"retract", {a}>>
      /\ Lines[x + 5].cmd = <<"fine", {a}>> /\ Lines[x + 7].cmd = <<"retract", {a}>>
  BY <1>3, <1>6 DEF CommandOf
<1> HIDE DEF a
\* One stage: line n is its command, and those between it and line to declarations.
<1>9. ASSUME NEW o \in 0..9, cursor = x + o,
             NEW n \in cursor..(x + 8), NEW to \in (n + 1)..(x + 9),
             Lines[n].is = "command", \A k \in cursor..(n - 1) : Lines[k].is # "command",
             \A k \in (n + 1)..(to - 1) : Lines[k].is = "declaration",
             to # x + 9 => Lines[to].is # "declaration"
      PROVE  /\ NextCommand(i) # {} /\ First(NextCommand(i)) = n
             /\ Declared(i, CursorAfter(i, NextCommand(i))) = to
  <2> DEFINE from == n + 1
             last1 == x + 8
  <2>1. cursor \in Int /\ last1 \in Int /\ n \in Int /\ to \in Int /\ x <= cursor
    BY <1>4, <1>9
  <2>2. LinesOf(i, cursor) = cursor..last1
    BY <1>5, <1>9
  <2>3. NextCommand(i) # {} /\ First(NextCommand(i)) = n
    <3> HIDE DEF last1
    <3>1. n \in cursor..last1
      BY <1>9 DEF last1
    <3> QED BY <1>9, <2>1, <2>2, <3>1, NextIs
  <2>4. CursorAfter(i, NextCommand(i)) = from
    BY <2>3 DEF CursorAfter
  <2>5. LinesOf(i, from) = from..last1
    <3> DEFINE m == from - x
    <3>1. m \in 0..9 /\ x + m = from
      BY <1>4, <1>9, <2>1
    <3> HIDE DEF m
    <3> QED BY <1>5, <3>1
  <2>6. from \in Int /\ from <= to /\ to <= last1 + 1
    BY <1>4, <1>9, <2>1
  <2>7. \A k \in from..(to - 1) : Lines[k].is = "declaration"
    BY <1>9
  <2>8. to <= last1 => Lines[to].is # "declaration"
    BY <1>4, <1>9, <2>1
  <2> HIDE DEF from, last1
  <2>9. {k \in LinesOf(i, from) : \A m \in from..k : Lines[m].is = "declaration"} = from..(to - 1)
    <3> DEFINE S == {k \in LinesOf(i, from) : \A m \in from..k : Lines[m].is = "declaration"}
    <3>1. ASSUME NEW k \in S PROVE k \in from..(to - 1)
      <4>1. k \in from..last1 /\ \A m \in from..k : Lines[m].is = "declaration"
        BY <2>5
      <4>2. ~(to <= k)
        BY <2>1, <2>6, <2>8, <4>1
      <4> QED BY <2>1, <2>6, <4>1, <4>2
    <3>2. ASSUME NEW k \in from..(to - 1) PROVE k \in S
      <4>1. k \in from..last1 /\ \A m \in from..k : m \in from..(to - 1)
        BY <2>1, <2>6
      <4> QED BY <2>5, <2>7, <4>1
    <3> QED BY <3>1, <3>2
  <2>10. Declared(i, from) = to
    BY <2>1, <2>6, <2>9, AfterIs DEF Declared
  <2> QED BY <2>3, <2>4, <2>10
<1>10. CASE st = 1
  <2> DEFINE o == 0
             n == x + 2
             to == x + 3
  <2>1. cursor = x + o /\ o \in 0..9 /\ to = x + Offset(st + 1)
    BY <1>4, <1>10 DEF Offset, x
  <2>8. Lines[n].is = "command"
    BY <1>7
  <2>2. n \in cursor..(x + 8) /\ to \in (n + 1)..(x + 9)
    <3>1. x \in Int /\ cursor \in Int /\ cursor <= n
      BY <1>4, <2>1
    <3> QED BY <3>1
  <2>3. \A k \in cursor..(n - 1) : Lines[k].is # "command"
    <3>1. \A k \in cursor..(n - 1) : k = x \/ k = x + 1
      BY <1>4, <2>1
    <3> QED BY <1>7, <3>1
  <2>4. \A k \in (n + 1)..(to - 1) : Lines[k].is = "declaration"
    BY <1>4
  <2>5. to # x + 9 => Lines[to].is # "declaration"
    BY <1>7
  <2>6. Lines[n].cmd = <<Stages[st], {a}>>
    BY <1>8, <1>10, StageNames
  <2> HIDE DEF o, n, to
  <2>7. /\ NextCommand(i) # {} /\ First(NextCommand(i)) = n
        /\ Declared(i, CursorAfter(i, NextCommand(i))) = to
    BY <1>9, <2>1, <2>2, <2>3, <2>4, <2>5, <2>8
  <2> QED BY <2>1, <2>6, <2>7 DEF x, a
<1>11. CASE st = 2
  <2> DEFINE o == 3
             n == x + 3
             to == x + 4
  <2>1. cursor = x + o /\ o \in 0..9 /\ to = x + Offset(st + 1)
    BY <1>4, <1>11 DEF Offset, x
  <2>8. Lines[n].is = "command"
    BY <1>7
  <2>2. n \in cursor..(x + 8) /\ to \in (n + 1)..(x + 9)
    <3>1. x \in Int /\ cursor \in Int /\ cursor <= n
      BY <1>4, <2>1
    <3> QED BY <3>1
  <2>3. \A k \in cursor..(n - 1) : Lines[k].is # "command"
    BY <1>4, <2>1
  <2>4. \A k \in (n + 1)..(to - 1) : Lines[k].is = "declaration"
    BY <1>4
  <2>5. to # x + 9 => Lines[to].is # "declaration"
    BY <1>7
  <2>6. Lines[n].cmd = <<Stages[st], {a}>>
    BY <1>8, <1>11, StageNames
  <2> HIDE DEF o, n, to
  <2>7. /\ NextCommand(i) # {} /\ First(NextCommand(i)) = n
        /\ Declared(i, CursorAfter(i, NextCommand(i))) = to
    BY <1>9, <2>1, <2>2, <2>3, <2>4, <2>5, <2>8
  <2> QED BY <2>1, <2>6, <2>7 DEF x, a
<1>12. CASE st = 3
  <2> DEFINE o == 4
             n == x + 5
             to == x + 7
  <2>1. cursor = x + o /\ o \in 0..9 /\ to = x + Offset(st + 1)
    BY <1>4, <1>12 DEF Offset, x
  <2>8. Lines[n].is = "command"
    BY <1>7
  <2>2. n \in cursor..(x + 8) /\ to \in (n + 1)..(x + 9)
    <3>1. x \in Int /\ cursor \in Int /\ cursor <= n
      BY <1>4, <2>1
    <3> QED BY <3>1
  <2>3. \A k \in cursor..(n - 1) : Lines[k].is # "command"
    <3>1. \A k \in cursor..(n - 1) : k = x + 4
      BY <1>4, <2>1
    <3> QED BY <1>7, <3>1
  <2>4. \A k \in (n + 1)..(to - 1) : Lines[k].is = "declaration"
    <3>1. \A k \in (n + 1)..(to - 1) : k = x + 6
      BY <1>4
    <3> QED BY <1>7, <3>1
  <2>5. to # x + 9 => Lines[to].is # "declaration"
    BY <1>7
  <2>6. Lines[n].cmd = <<Stages[st], {a}>>
    BY <1>8, <1>12, StageNames
  <2> HIDE DEF o, n, to
  <2>7. /\ NextCommand(i) # {} /\ First(NextCommand(i)) = n
        /\ Declared(i, CursorAfter(i, NextCommand(i))) = to
    BY <1>9, <2>1, <2>2, <2>3, <2>4, <2>5, <2>8
  <2> QED BY <2>1, <2>6, <2>7 DEF x, a
<1>13. CASE st = 4
  <2> DEFINE o == 7
             n == x + 7
             to == x + 9
  <2>1. cursor = x + o /\ o \in 0..9 /\ to = x + Offset(st + 1)
    BY <1>4, <1>13 DEF Offset, x
  <2>8. Lines[n].is = "command"
    BY <1>7
  <2>2. n \in cursor..(x + 8) /\ to \in (n + 1)..(x + 9)
    <3>1. x \in Int /\ cursor \in Int /\ cursor <= n
      BY <1>4, <2>1
    <3> QED BY <3>1
  <2>3. \A k \in cursor..(n - 1) : Lines[k].is # "command"
    BY <1>4, <2>1
  <2>4. \A k \in (n + 1)..(to - 1) : Lines[k].is = "declaration"
    <3>1. \A k \in (n + 1)..(to - 1) : k = x + 8
      BY <1>4
    <3> QED BY <1>7, <3>1
  <2>5. to # x + 9 => Lines[to].is # "declaration"
    BY <1>7
  <2>6. Lines[n].cmd = <<Stages[st], {a}>>
    BY <1>8, <1>13, StageNames
  <2> HIDE DEF o, n, to
  <2>7. /\ NextCommand(i) # {} /\ First(NextCommand(i)) = n
        /\ Declared(i, CursorAfter(i, NextCommand(i))) = to
    BY <1>9, <2>1, <2>2, <2>3, <2>4, <2>5, <2>8
  <2> QED BY <2>1, <2>6, <2>7 DEF x, a
<1> QED BY <1>10, <1>11, <1>12, <1>13

\* A move is announced for every axis that the script does not take to be
\* there, and leaves the cursor at the next cue.
LEMMA MoveCursor ==
  ASSUME Planned, NEW i \in 1..Len(plan.steps), plan.steps[i].kind = "move", cursor = Cue(i)
  PROVE  /\ CursorAfter(i, NextCommand(i)) = Cue(i + 1)
         /\ \/ Elsewhere(plan.steps[i], Written(i).pos) = {}
            \/ /\ NextCommand(i) # {}
               /\ \E g \in {"G1", "G38.3"}, A \in SUBSET Axes :
                    /\ Elsewhere(plan.steps[i], Written(i).pos) \subseteq A
                    /\ Lines[First(NextCommand(i))].cmd = <<g, A>>
<1> DEFINE x == Cue(i)
           s == plan.steps[i]
           p == Written(i).pos
           t == Chunk(i)
           els == Elsewhere(s, p)
<1>1. i \in Nat /\ s \in MoveRecords
  <2>1. i \in Nat /\ s \in StepRecords /\ s.kind = "move"
    BY ToldTrail
  <2> HIDE DEF s
  <2> QED BY <2>1 DEF StepRecords, MoveRecords
<1>2. t = MoveLines(config, i, s, p)
  BY <1>1 DEF Chunk, LinesOfStep
<1>3. OfMove(t, i, els)
  <2> HIDE DEF s, p, t
  <2>1. OfMove(MoveLines(config, i, s, p), i, Elsewhere(s, p))
    BY <1>1, LinesOfMove
  <2> QED BY <1>2, <2>1
<1>4. /\ x \in Nat /\ Cue(i + 1) = x + Len(t)
      /\ \A k \in 1..Len(t) : Lines[x + k - 1] = t[k]
  BY CueAt
<1>5. Len(t) \in Nat /\ LinesOf(i, x + 0) = (x + 0)..(Cue(i + 1) - 1)
  BY ChunkIs, LinesLeft
<1> HIDE DEF x, s, p, t, els
<1>6. CASE els = {} /\ t = <<>>
  <2>1. Len(t) = 0
    BY <1>6
  <2>2. Cue(i + 1) = x /\ LinesOf(i, cursor) = cursor..(cursor - 1) /\ cursor \in Nat
    BY <1>4, <1>5, <2>1 DEF x
  <2>3. LinesOf(i, cursor) = {}
    BY <2>2
  <2>4. NextCommand(i) = {}
    BY <2>3 DEF NextCommand
  <2>5. CursorAfter(i, NextCommand(i)) = cursor
    BY <2>3, <2>4 DEF CursorAfter, After
  <2> QED BY <1>6, <2>2, <2>5 DEF x, els, s, p
<1>7. CASE /\ t \in Seq(LineRecords) /\ Len(t) = 2 /\ t[1] = NoteOf(i)
           /\ \E g \in {"G1", "G38.3"}, A \in SUBSET Axes :
                els \subseteq A /\ t[2] = CommandOf(i, <<g, A>>)
  <2>1. PICK g \in {"G1", "G38.3"}, A \in SUBSET Axes : els \subseteq A /\ t[2] = CommandOf(i, <<g, A>>)
    BY <1>7
  <2>2. Lines[x] = t[1] /\ Lines[x + 1] = t[2] /\ Cue(i + 1) = x + 2
    <3>1. x + 1 - 1 = x /\ x + 2 - 1 = x + 1 /\ 1 \in 1..Len(t) /\ 2 \in 1..Len(t)
      BY <1>4, <1>7
    <3> QED BY <1>4, <1>7, <3>1
  <2>3. Lines[x].is = "note" /\ Lines[x + 1].is = "command" /\ Lines[x + 1].cmd = <<g, A>>
    BY <1>7, <2>1, <2>2 DEF NoteOf, CommandOf
  <2> DEFINE n == x + 1
  <2>4. /\ cursor = x /\ n \in Int /\ LinesOf(i, cursor) = cursor..n /\ cursor \in Int /\ n \in cursor..n
        /\ \A k \in cursor..(n - 1) : Lines[k].is # "command"
    <3>1. cursor = x /\ x + 0 = x /\ Cue(i + 1) - 1 = n /\ x \in Int
      BY <1>4, <2>2 DEF x
    <3>2. LinesOf(i, cursor) = cursor..n
      BY <1>5, <3>1
    <3>3. \A k \in cursor..(n - 1) : k = x
      BY <3>1
    <3> QED BY <2>3, <3>1, <3>2, <3>3
  <2>5. Lines[n].is = "command" /\ Lines[n].cmd = <<g, A>> /\ n + 1 = x + 2
    BY <1>4, <2>3
  <2> HIDE DEF n
  <2>6. NextCommand(i) # {} /\ First(NextCommand(i)) = n
    BY <2>4, <2>5, NextIs
  <2>7. CursorAfter(i, NextCommand(i)) = Cue(i + 1)
    BY <2>2, <2>5, <2>6 DEF CursorAfter
  <2> QED BY <2>1, <2>5, <2>6, <2>7 DEF els, s, p
<1> QED BY <1>3, <1>6, <1>7 DEF OfMove

-----------------------------------------------------------------------------
(* What is sent was announced.                                             *)

\* Where the script takes these axes to be before step i, they are, unless it
\* only knows them backed off.
PlaceOf(rf, n) == IF n[1] = "start" THEN plan.start[n[2]] ELSE rf[n]
Symbolic(i, B, p, rf) ==
  \A a \in B : Written(i).pos[a][1] \in MoveNames =>
    p[a] = PlaceOf(rf, Written(i).pos[a][1]) + Written(i).pos[a][2]
\* The cursor keeps up with the steps, and the machine with the script.
Cued ==
  /\ op = "none" => cursor = 1
  /\ pc = "step" => cursor = Cue(index) /\ Symbolic(index, Axes, position, refs)
  /\ pc = "contact" => /\ cursor = Cue(index) + Offset(stage)
                       /\ Symbolic(index, Axes \ {Here.axis}, position, refs)
  /\ MotionIsAnnounced

LEMMA CuedWhen ==
  ASSUME UNCHANGED plan, MotionIsAnnounced', op' # "none",
         pc' = "step" => cursor' = Cue(index') /\ Symbolic(index', Axes, position', refs'),
         pc' = "contact" => /\ cursor' = Cue(index') + Offset(stage')
                            /\ Symbolic(index', Axes \ {plan.steps[index'].axis}, position', refs')
  PROVE  Cued'
<1>1. config' = config
  BY DEF config
<1>2. \A i : Written(i)' = Written(i)
  BY <1>1 DEF Written
<1>3. \A i : Cue(i)' = Cue(i)
  BY <1>2 DEF Cue, Count
<1>4. \A i, B, p, rf : Symbolic(i, B, p, rf)' <=> Symbolic(i, B, p, rf)
  BY <1>2 DEF Symbolic, PlaceOf
<1>5. PICK i : i = index'
  OBVIOUS
<1>6. PICK a : a = plan.steps[i].axis
  OBVIOUS
<1>7. PICK p : p = position'
  OBVIOUS
<1>8. PICK rf : rf = refs'
  OBVIOUS
<1>9. Here'.axis = a
  BY <1>5, <1>6 DEF Here
<1>10. pc' = "step" => cursor' = Cue(i)' /\ Symbolic(i, Axes, p, rf)'
  BY <1>3, <1>4, <1>5, <1>7, <1>8
<1>11. pc' = "contact" => cursor' = Cue(i)' + Offset(stage') /\ Symbolic(i, Axes \ {a}, p, rf)'
  BY <1>3, <1>4, <1>5, <1>6, <1>7, <1>8
<1>12. Cue(index)' = Cue(i)'
  BY <1>5 DEF Cue, Count, Written
<1>13. Symbolic(index, Axes, position, refs)' <=> Symbolic(i, Axes, p, rf)'
  BY <1>5, <1>7, <1>8 DEF Symbolic, Written, PlaceOf
<1>14. Symbolic(index, Axes \ {Here.axis}, position, refs)' <=> Symbolic(i, Axes \ {a}, p, rf)'
  BY <1>5, <1>7, <1>8, <1>9 DEF Symbolic, Written, PlaceOf
<1>15. Offset(stage)' = Offset(stage')
  BY DEF Offset
<1> QED BY <1>10, <1>11, <1>12, <1>13, <1>14, <1>15 DEF Cued

LEMMA LastStays ==
  ASSUME MotionIsAnnounced,
         UNCHANGED last \/ last'[2][1] \notin {"coarse", "fine", "retract", "G1", "G38.3"}
  PROVE  MotionIsAnnounced'
  BY DEF MotionIsAnnounced

\* A value measured by a step is none that places are named by.
LEMMA SymbolsKept ==
  ASSUME Planned, refs \in [Surfaces -> Int \cup {None}],
         NEW i \in 1..Len(plan.steps), NEW n0 \in Surfaces, Measures(plan.steps[i]) = {n0},
         NEW v, NEW rf, rf = [refs EXCEPT ![n0] = v],
         NEW a \in Axes, Written(i).pos[a][1] \in MoveNames
  PROVE  PlaceOf(rf, Written(i).pos[a][1]) = PlaceOf(refs, Written(i).pos[a][1])
<1> DEFINE n == Written(i).pos[a][1]
<1>1. Len(plan.steps) \in Nat
  BY ToldTrail
<1>2. Named(i)
  BY <1>1, AllNamed DEF Done
<1>3. n # n0
  BY <1>1, <1>2 DEF Named
<1>4. n \in Surfaces \cup Starts
  BY NamesAreApart, PlainNames DEF MoveNames
<1> HIDE DEF n
<1>5. CASE n \in Surfaces
  <2>1. rf[n] = refs[n]
    BY <1>3, <1>5
  <2> QED BY <2>1 DEF n, PlaceOf
<1>6. CASE n \in Starts
  <2>1. n[1] = "start"
    BY <1>6 DEF Starts, Start
  <2> QED BY <2>1 DEF n, PlaceOf
<1> QED BY <1>4, <1>5, <1>6

LEMMA CuedBegin ==
  ASSUME RInv, Cued, Begin
  PROVE  Cued'
<1>0. Planned /\ Phases /\ MotionIsAnnounced /\ cursor = 1
  BY DEF RInv, Cued, Begin
<1>1. op' = "run" /\ UNCHANGED <<plan, position, refs>>
      /\ \/ pc' = "over"
         \/ Show(0, <<"modes">>) /\ pc' = "step" /\ index' = 1
  BY DEF Begin, Over
<1>2. MotionIsAnnounced'
  <2>1. UNCHANGED last \/ last' = Sent(NextCommand(0), <<"modes">>)
    BY DEF Begin, Show, streamVars
  <2>2. UNCHANGED last \/ last'[2][1] = "modes"
    BY <2>1 DEF Sent
  <2> QED BY <1>0, <2>2, LastStays
<1>4. position = plan.start /\ plan.start \in Places
  BY <1>0 DEF Begin, Phases, Planned
<1>5. ASSUME NEW a \in Axes
      PROVE  position'[a] = PlaceOf(refs', Written(1).pos[a][1]) + Written(1).pos[a][2]
  <2>1. Written(1).pos = [b \in Axes |-> <<Start(b), 0>>]
    BY <1>0, WrittenIs DEF ScriptOfStart
  <2>2. Written(1).pos[a][1] = Start(a) /\ Written(1).pos[a][2] = 0
    BY <2>1
  <2>3. Start(a)[1] = "start" /\ Start(a)[2] = a
    BY DEF Start
  <2>4. plan.start[a] \in Int
    BY <1>4 DEF Places
  <2> QED BY <1>1, <1>4, <2>2, <2>3, <2>4 DEF PlaceOf
<1>6. Symbolic(1, Axes, position', refs')
  BY <1>5 DEF Symbolic
<1>7. CASE pc' = "over"
  BY <1>1, <1>2, <1>7, CuedWhen
<1>8. CASE Show(0, <<"modes">>) /\ pc' = "step" /\ index' = 1
  <2>1. cursor' = Cue(1)
    BY <1>0, <1>8, BeginCursor DEF Show
  <2>2. cursor' = Cue(index') /\ Symbolic(index', Axes, position', refs')
    BY <1>6, <1>8, <2>1
  <2> QED BY <1>1, <1>2, <1>8, <2>2, CuedWhen
<1> QED BY <1>1, <1>7, <1>8

LEMMA CuedCenter ==
  ASSUME RInv, Cued, CenterStep
  PROVE  Cued'
<1>0. Planned /\ Types /\ Phases /\ MotionIsAnnounced
  BY DEF RInv, Cued
<1>1. /\ pc = "step" /\ Here = plan.steps[index] /\ Here.kind = "center" /\ index \in 1..Len(plan.steps)
      /\ Surface(Here.axis, "whole") \in Surfaces
  BY CenterShape
<1>2. PICK i \in 1..Len(plan.steps) : i = index
  BY <1>1
<1>3. PICK n0 \in Surfaces : n0 = Surface(Here.axis, "whole")
  BY <1>1
<1>4. PICK v : v = (refs[Surface(Here.axis, "low")] + refs[Surface(Here.axis, "high")]) \div 2
  OBVIOUS
<1>5. /\ UNCHANGED <<plan, op, position, last>>
      /\ \/ pc' = "failed"
         \/ /\ pc' = "step" /\ index' = i + 1 /\ refs' = [refs EXCEPT ![n0] = v]
            /\ cursor' = After(LinesOf(i, cursor), cursor)
  BY <1>1, <1>2, <1>3, <1>4 DEF CenterStep, Fail
<1>6. MotionIsAnnounced' /\ op' # "none"
  BY <1>0, <1>1, <1>5, LastStays DEF Phases
<1>7. CASE pc' = "failed"
  BY <1>5, <1>6, <1>7, CuedWhen
<1>8. CASE /\ pc' = "step" /\ index' = i + 1 /\ refs' = [refs EXCEPT ![n0] = v]
           /\ cursor' = After(LinesOf(i, cursor), cursor)
  <2>1. cursor = Cue(i) /\ Symbolic(i, Axes, position, refs)
    BY <1>1, <1>2 DEF Cued
  <2>2. cursor' = Cue(i + 1)
    <3>1. Cue(i) \in Nat /\ 0 \in 0..Len(Chunk(i))
      BY <1>0, CueAt, ChunkIs
    <3>2. cursor = Cue(i) + 0
      BY <2>1, <3>1
    <3> QED BY <1>0, <1>8, <3>1, <3>2, AfterStep
  <2>3. Written(i + 1).pos = Written(i).pos
    <3>1. Written(i + 1).pos = PlaceAfter(plan.steps[i], Written(i).pos)
      BY <1>0, WrittenIs
    <3>2. plan.steps[i].kind = "center"
      BY <1>1, <1>2
    <3> QED BY <3>1, <3>2 DEF PlaceAfter
  <2>4. Measures(plan.steps[i]) = {n0}
    BY <1>1, <1>2, <1>3 DEF Measures
  <2>5. PICK rf : rf = refs'
    OBVIOUS
  <2>6. refs \in [Surfaces -> Int \cup {None}] /\ rf = [refs EXCEPT ![n0] = v]
    BY <1>0, <1>8, <2>5 DEF Types
  <2>7. ASSUME NEW a \in Axes, Written(i).pos[a][1] \in MoveNames
        PROVE  position[a] = PlaceOf(rf, Written(i).pos[a][1]) + Written(i).pos[a][2]
    <3>1. PlaceOf(rf, Written(i).pos[a][1]) = PlaceOf(refs, Written(i).pos[a][1])
      BY <1>0, <2>4, <2>6, <2>7, SymbolsKept
    <3>2. position[a] = PlaceOf(refs, Written(i).pos[a][1]) + Written(i).pos[a][2]
      BY <2>1, <2>7 DEF Symbolic
    <3> QED BY <3>1, <3>2
  <2>8. Symbolic(i + 1, Axes, position, rf)
    BY <2>3, <2>7 DEF Symbolic
  <2>9. cursor' = Cue(index') /\ Symbolic(index', Axes, position', refs')
    BY <1>5, <1>8, <2>2, <2>5, <2>8
  <2> QED BY <1>5, <1>6, <1>8, <2>9, CuedWhen
<1> QED BY <1>5, <1>7, <1>8

LEMMA CuedContactBegin ==
  ASSUME RInv, Cued, ContactBegin
  PROVE  Cued'
<1>0. Planned /\ Types /\ Phases /\ MotionIsAnnounced
  BY DEF RInv, Cued
<1>1. /\ AtStep("contact") /\ pc = "step"
      /\ UNCHANGED <<plan, op, index, position, refs, cursor, last>>
      /\ pc' = "failed" \/ (pc' = "contact" /\ stage' = 1)
  BY DEF ContactBegin, AtStep, Fail, streamVars
<1>2. MotionIsAnnounced' /\ op' # "none"
  BY <1>0, <1>1, LastStays DEF Phases
<1>3. cursor = Cue(index) /\ Symbolic(index, Axes, position, refs)
  BY <1>1 DEF Cued
<1>4. Cue(index) + Offset(1) = Cue(index)
  <2>1. index \in 1..Len(plan.steps)
    BY <1>0, <1>1, ContactShape
  <2>2. Cue(index) \in Nat
    BY <1>0, <2>1, CueAt
  <2> QED BY <2>2 DEF Offset
<1>5. CASE pc' = "failed"
  BY <1>1, <1>2, <1>5, CuedWhen
<1>6. CASE pc' = "contact" /\ stage' = 1
  <2>1. cursor' = Cue(index') + Offset(stage')
    BY <1>1, <1>3, <1>4, <1>6
  <2>2. Symbolic(index', Axes \ {plan.steps[index'].axis}, position', refs')
    BY <1>1, <1>3 DEF Symbolic
  <2> QED BY <1>1, <1>2, <1>6, <2>1, <2>2, CuedWhen
<1> QED BY <1>1, <1>5, <1>6

LEMMA CuedContact ==
  ASSUME RInv, Cued, ContactStage
  PROVE  Cued'
<1>0. Planned /\ Types /\ Phases /\ pc = "contact" /\ stage \in 1..4
  BY StageCases DEF RInv
<1>1. /\ Here = plan.steps[index] /\ index \in 1..Len(plan.steps) /\ Here.kind = "contact"
      /\ Surface(Here.axis, Here.tag) \in Surfaces /\ Here.axis \in Axes
  BY <1>0, ContactShape
<1>2. PICK i \in 1..Len(plan.steps) : i = index
  BY <1>1
<1>3. PICK n0 \in Surfaces : n0 = Surface(Here.axis, Here.tag)
  BY <1>1
<1>4. cursor = Cue(i) + Offset(stage) /\ Symbolic(i, Axes \ {plan.steps[i].axis}, position, refs)
  BY <1>0, <1>1, <1>2 DEF Cued
<1>5. /\ NextCommand(i) # {}
      /\ Lines[First(NextCommand(i))].cmd = <<Stages[stage], {plan.steps[i].axis}>>
      /\ Declared(i, CursorAfter(i, NextCommand(i))) = Cue(i) + Offset(stage + 1)
  <2>1. plan.steps[i].kind = "contact"
    BY <1>1, <1>2
  <2> QED BY <1>0, <1>4, <2>1, ContactCursor
<1>6. /\ UNCHANGED <<plan, op, index>>
      /\ last' = Sent(NextCommand(i), <<Stages[stage], {plan.steps[i].axis}>>)
      /\ pc' = "contact" => cursor' = Declared(i, CursorAfter(i, NextCommand(i)))
  BY <1>1, <1>2 DEF ContactStage
<1>7. MotionIsAnnounced' /\ op' # "none"
  <2> DEFINE c == <<Stages[stage], {plan.steps[i].axis}>>
  <2>1. last' = Sent(NextCommand(i), c) /\ Lines[First(NextCommand(i))].cmd = c
    BY <1>5, <1>6
  <2>2. c[1] \in {"coarse", "retract", "fine"}
    BY <1>0, StageNames
  <2> HIDE DEF c
  <2>3. last' = <<c, c>>
    BY <1>5, <2>1 DEF Sent
  <2>4. last'[1] = c /\ last'[2] = c
    BY <2>3
  <2>5. MotionIsAnnounced'
    BY <2>2, <2>4 DEF MotionIsAnnounced
  <2> QED BY <1>0, <1>6, <2>5 DEF Phases
<1>8. pc' = "failed" \/ pc' = "contact"
  BY <1>0, StageCases DEF Touches, BacksOff, Misses, Breaks
<1>9. CASE pc' = "failed"
  BY <1>6, <1>7, <1>9, CuedWhen
<1>10. CASE pc' = "contact"
  <2>1. stage' = stage + 1
    BY <1>0, <1>10, StageCases DEF Touches, BacksOff, Misses, Breaks
  <2>2. cursor' = Cue(index') + Offset(stage')
    BY <1>2, <1>5, <1>6, <1>10, <2>1
  <2>3. /\ \A b \in Axes \ {Here.axis} : position'[b] = position[b]
        /\ \/ UNCHANGED refs
           \/ \E v \in Int : refs' = [refs EXCEPT ![Surface(Here.axis, Here.tag)] = v]
    BY <1>10, StageKeeps
  <2>4. PICK rf : rf = refs'
    OBVIOUS
  <2>5. PICK v : rf = [refs EXCEPT ![n0] = v] \/ rf = refs
    BY <1>3, <2>3, <2>4
  <2>6. Measures(plan.steps[i]) = {n0}
    BY <1>1, <1>2, <1>3 DEF Measures
  <2>7. refs \in [Surfaces -> Int \cup {None}]
    BY <1>0 DEF Types
  <2>11. ASSUME NEW b \in Axes, Written(i).pos[b][1] \in MoveNames
         PROVE  PlaceOf(rf, Written(i).pos[b][1]) = PlaceOf(refs, Written(i).pos[b][1])
    <3>1. CASE rf = [refs EXCEPT ![n0] = v]
      <4>1. Planned
        BY <1>0
      <4> QED BY <2>6, <2>7, <2>11, <3>1, <4>1, SymbolsKept
    <3>2. CASE rf = refs
      BY <3>2
    <3> QED BY <2>5, <3>1, <3>2
  <2>8. ASSUME NEW a \in Axes \ {plan.steps[i].axis}, Written(i).pos[a][1] \in MoveNames
        PROVE  position'[a] = PlaceOf(rf, Written(i).pos[a][1]) + Written(i).pos[a][2]
    <3>1. PlaceOf(rf, Written(i).pos[a][1]) = PlaceOf(refs, Written(i).pos[a][1])
      BY <2>8, <2>11
    <3>2. position[a] = PlaceOf(refs, Written(i).pos[a][1]) + Written(i).pos[a][2]
      BY <1>4, <2>8 DEF Symbolic
    <3>3. position'[a] = position[a]
      BY <1>1, <1>2, <2>3
    <3> QED BY <3>1, <3>2, <3>3
  <2>9. Symbolic(i, Axes \ {plan.steps[i].axis}, position', rf)
    BY <2>8 DEF Symbolic
  <2>10. Symbolic(index', Axes \ {plan.steps[index'].axis}, position', refs')
    BY <1>2, <1>6, <2>4, <2>9
  <2> QED BY <1>6, <1>7, <1>10, <2>2, <2>10, CuedWhen
<1> QED BY <1>8, <1>9, <1>10

LEMMA CuedContactEnd ==
  ASSUME RInv, Cued, ContactEnd
  PROVE  Cued'
<1>0. Planned /\ Types /\ Phases /\ MotionIsAnnounced /\ pc = "contact" /\ stage = 5
  BY DEF RInv, Cued, ContactEnd
<1>1. Here = plan.steps[index] /\ index \in 1..Len(plan.steps) /\ Here.kind = "contact" /\ Here.axis \in Axes
  BY <1>0, ContactShape
<1>2. PICK i \in 1..Len(plan.steps) : i = index
  BY <1>1
<1>3. /\ UNCHANGED <<plan, op, position, refs, last>> /\ pc' = "step" /\ index' = i + 1
      /\ cursor' = After(LinesOf(i, cursor), cursor)
  BY <1>2 DEF ContactEnd
<1>4. MotionIsAnnounced' /\ op' # "none"
  BY <1>0, <1>3, LastStays DEF Phases
<1>5. cursor = Cue(i) + 9 /\ Symbolic(i, Axes \ {plan.steps[i].axis}, position, refs)
  BY <1>0, <1>1, <1>2 DEF Cued, Offset
<1>6. plan.steps[i].kind = "contact" /\ plan.steps[i] \in StepRecords /\ plan.steps[i].axis \in Axes /\ i \in Nat
  BY <1>0, <1>1, <1>2, ToldTrail
<1>7. cursor' = Cue(i + 1)
  <2>1. Len(ContactLines(i, plan.steps[i])) = 9
    BY <1>6, LinesOfContact
  <2>3. Chunk(i) = ContactLines(i, plan.steps[i])
    BY <1>6 DEF Chunk, LinesOfStep
  <2>2. 9 \in 0..Len(Chunk(i))
    <3>1. Len(Chunk(i)) = 9
      BY <2>1, <2>3
    <3> QED BY <3>1
  <2> QED BY <1>0, <1>3, <1>5, <2>2, AfterStep
<1>8. Written(i).pos \in [Axes -> Symbols]
  BY <1>0, AllNamed, ToldTrail DEF Named, Done
<1>9. Written(i + 1).pos = PlaceAfter(plan.steps[i], Written(i).pos)
  BY <1>0, WrittenIs
<1>10. Symbolic(i + 1, Axes, position, refs)
  <2> DEFINE s == plan.steps[i]
             p == Written(i).pos
             q == Written(i + 1).pos
  <2>1. ASSUME NEW a \in Axes, q[a][1] \in MoveNames
        PROVE  a # s.axis /\ q[a] = p[a]
    <3> HIDE DEF s, p
    <3>1. /\ PlaceAfter(s, p)[s.axis][1] = Backoff(s.axis)
          /\ \A b \in Axes \ {s.axis} : PlaceAfter(s, p)[b] = p[b]
      BY <1>6, <1>8, PlaceAfterIs DEF s, p
    <3>2. Backoff(s.axis) \notin MoveNames
      BY <1>6, BackoffsApart DEF s
    <3> QED BY <1>9, <2>1, <3>1, <3>2 DEF s, p
  <2> QED BY <1>5, <2>1 DEF Symbolic
<1>11. cursor' = Cue(index') /\ Symbolic(index', Axes, position', refs')
  BY <1>3, <1>7, <1>10
<1> QED BY <1>3, <1>4, <1>11, CuedWhen

\* The axes that a move changes are among those its line names.
LEMMA MovesElsewhere ==
  ASSUME RInv, Cued, MoveStep
  PROVE  /\ index \in 1..Len(plan.steps)
         /\ Differing(position, Goal(Here)) \subseteq Elsewhere(plan.steps[index], Written(index).pos)
         /\ Symbolic(index + 1, Axes, Goal(Here), refs)
<1>0. Planned /\ Types /\ Phases /\ Known /\ AtStep("move") /\ pc = "step" /\ Here.kind = "move"
      /\ index < Done
  BY DEF RInv, MoveStep, AtStep
<1>1. /\ \A a \in AxesOf(Here) : a \in Axes /\ TargetOf(Here, a).offset \in Int
      /\ \A a \in Axes :
           Goal(Here)[a] = IF a \in AxesOf(Here)
                             THEN ValueOf(TargetOf(Here, a).name) + TargetOf(Here, a).offset
                             ELSE position[a]
      /\ Len(plan.steps) \in Nat
  BY <1>0, GoalOfMove
<1>2. index \in 1..Len(plan.steps)
  BY <1>0, <1>1 DEF Phases, Done
<1>3. PICK i \in 1..Len(plan.steps) : i = index /\ Here = plan.steps[i]
  BY <1>2 DEF Here
<1>4. Symbolic(i, Axes, position, refs)
  BY <1>0, <1>3 DEF Cued
<1>5. Written(i).pos \in [Axes -> Symbols]
  BY <1>0, AllNamed, ToldTrail DEF Named, Done
<1>6. Written(i + 1).pos = PlaceAfter(plan.steps[i], Written(i).pos)
  BY <1>0, WrittenIs
<1> DEFINE s == plan.steps[i]
           p == Written(i).pos
           q == Written(i + 1).pos
           goal == Goal(s)
<1>7. s \in StepRecords /\ s.kind = "move"
  BY <1>0, <1>3, ToldTrail
<1>8. ASSUME NEW a \in Axes
      PROVE  IF a \in AxesOf(s) THEN /\ q[a][1] = TargetOf(s, a).name
                                     /\ q[a][2] = TargetOf(s, a).offset
                                     /\ TargetOf(s, a).name \in MoveNames
             ELSE q[a] = p[a]
  <2> HIDE DEF s, p
  <2>1. IF a \in AxesOf(s) THEN /\ PlaceAfter(s, p)[a][1] = TargetOf(s, a).name
                                /\ PlaceAfter(s, p)[a][2] = TargetOf(s, a).offset
                                /\ TargetOf(s, a).name \in Uses(s) \cap MoveNames
        ELSE PlaceAfter(s, p)[a] = p[a]
    <3>1. CASE a \in AxesOf(s)
      BY <1>5, <1>7, <3>1, PlaceAfterIs DEF p
    <3>2. CASE a \notin AxesOf(s)
      BY <1>5, <1>7, <3>2, PlaceAfterIs DEF p
    <3> QED BY <3>1, <3>2
  <2> QED BY <1>6, <2>1 DEF s, p
<1>9. \A a \in Axes : goal[a] = IF a \in AxesOf(s)
                                  THEN PlaceOf(refs, TargetOf(s, a).name) + TargetOf(s, a).offset
                                  ELSE position[a]
  BY <1>1, <1>3 DEF ValueOf, PlaceOf
<1> HIDE DEF s, p, q, goal
<1>10. ASSUME NEW a \in Axes, q[a][1] \in MoveNames
       PROVE  goal[a] = PlaceOf(refs, q[a][1]) + q[a][2]
  <2>1. CASE a \in AxesOf(s)
    BY <1>8, <1>9, <2>1
  <2>2. CASE a \notin AxesOf(s)
    <3>1. q[a] = p[a] /\ goal[a] = position[a]
      BY <1>8, <1>9, <2>2
    <3>2. p[a][1] \in MoveNames => position[a] = PlaceOf(refs, p[a][1]) + p[a][2]
      BY <1>4 DEF Symbolic, p
    <3> QED BY <1>10, <3>1, <3>2
  <2> QED BY <2>1, <2>2
<1>11. ASSUME NEW a \in Axes, position[a] # goal[a] PROVE a \in Elsewhere(s, p)
  <2>1. a \in AxesOf(s) /\ goal[a] = PlaceOf(refs, TargetOf(s, a).name) + TargetOf(s, a).offset
    BY <1>9, <1>11
  <2>2. ASSUME <<TargetOf(s, a).name, TargetOf(s, a).offset>> = p[a] PROVE FALSE
    <3>1. p[a][1] = TargetOf(s, a).name /\ p[a][2] = TargetOf(s, a).offset
      BY <2>2
    <3>2. p[a][1] \in MoveNames
      BY <1>8, <2>1, <3>1
    <3>3. position[a] = PlaceOf(refs, p[a][1]) + p[a][2]
      BY <1>4, <3>2 DEF Symbolic, p
    <3> QED BY <1>11, <2>1, <3>1, <3>3
  <2> QED BY <2>1, <2>2 DEF Elsewhere
<1>12. Differing(position, goal) \subseteq Elsewhere(s, p)
  BY <1>11 DEF Differing
<1>13. Symbolic(i + 1, Axes, goal, refs)
  BY <1>10 DEF Symbolic, q
<1> QED BY <1>2, <1>3, <1>12, <1>13 DEF goal, s, p

LEMMA CuedMove ==
  ASSUME RInv, Cued, MoveStep
  PROVE  Cued'
<1>0. Planned /\ Phases /\ MotionIsAnnounced /\ pc = "step" /\ Here.kind = "move" /\ Here = plan.steps[index]
  BY MoveCases DEF RInv, Cued, Here
<1>1. PICK i \in 1..Len(plan.steps) : i = index
  BY MovesElsewhere
<1>2. PICK goal : goal = Goal(Here)
  OBVIOUS
<1>3. /\ Differing(position, goal) \subseteq Elsewhere(plan.steps[i], Written(i).pos)
      /\ Symbolic(i + 1, Axes, goal, refs)
  BY <1>1, <1>2, MovesElsewhere
<1>4. cursor = Cue(i) /\ plan.steps[i].kind = "move"
  BY <1>0, <1>1 DEF Cued
<1>5. /\ CursorAfter(i, NextCommand(i)) = Cue(i + 1)
      /\ \/ Elsewhere(plan.steps[i], Written(i).pos) = {}
         \/ /\ NextCommand(i) # {}
            /\ \E g \in {"G1", "G38.3"}, A \in SUBSET Axes :
                 /\ Elsewhere(plan.steps[i], Written(i).pos) \subseteq A
                 /\ Lines[First(NextCommand(i))].cmd = <<g, A>>
  BY <1>0, <1>4, MoveCursor
<1>6. /\ UNCHANGED <<plan, op, refs>> /\ cursor' = CursorAfter(i, NextCommand(i))
      /\ \/ goal = position /\ UNCHANGED last
         \/ goal # position /\ last' = Sent(NextCommand(i), CommandFor(position, goal))
  BY <1>1, <1>2 DEF MoveStep, Show, ShowOnly
<1>7. \/ position' = goal /\ index' = i + 1 /\ pc' = "step"
      \/ pc' = "failed"
  BY <1>0, <1>1, <1>2, MoveCases DEF Stopped
<1>8. MotionIsAnnounced'
  <2>1. CASE UNCHANGED last
    BY <1>0, <2>1, LastStays
  <2>2. CASE goal # position /\ last' = Sent(NextCommand(i), CommandFor(position, goal))
    <3> DEFINE D == Differing(position, goal)
               els == Elsewhere(plan.steps[i], Written(i).pos)
               f == Lines[First(NextCommand(i))].cmd
    <3>1. D # {}
      <4>1. position \in [Axes -> Int] /\ goal \in [Axes -> Int]
        BY <1>2, GoalOfMove DEF RInv, Types, Places, MoveStep
      <4> QED BY <2>2, <4>1 DEF Differing
    <3>2. PICK g2 \in {"G1", "G38.3"} : CommandFor(position, goal) = <<g2, D>>
      BY DEF CommandFor, MoveCommand
    <3> HIDE DEF D, els, f
    <3>3. D \subseteq els
      BY <1>3 DEF D, els
    <3>4. NextCommand(i) # {} /\ \E g \in {"G1", "G38.3"}, A \in SUBSET Axes : els \subseteq A /\ f = <<g, A>>
      BY <1>5, <3>1, <3>3 DEF els, f
    <3>5. PICK g \in {"G1", "G38.3"}, A \in SUBSET Axes : els \subseteq A /\ f = <<g, A>>
      BY <3>4
    <3>6. last' = <<f, <<g2, D>>>>
      BY <2>2, <3>2, <3>4 DEF Sent, f
    <3>7. last'[1][1] = g /\ last'[1][2] = A /\ last'[2][1] = g2 /\ last'[2][2] = D
      BY <3>5, <3>6
    <3> QED BY <3>2, <3>3, <3>5, <3>7 DEF MotionIsAnnounced
  <2> QED BY <1>6, <2>1, <2>2
<1>9. op' # "none"
  BY <1>0, <1>6 DEF Phases
<1>10. CASE pc' = "failed"
  BY <1>6, <1>8, <1>9, <1>10, CuedWhen
<1>11. CASE position' = goal /\ index' = i + 1 /\ pc' = "step"
  <2>1. cursor' = Cue(index') /\ Symbolic(index', Axes, position', refs')
    BY <1>3, <1>5, <1>6, <1>11
  <2> QED BY <1>6, <1>8, <1>9, <1>11, <2>1, CuedWhen
<1> QED BY <1>7, <1>10, <1>11

\* What does not go on with the steps.
LEMMA CuedOther ==
  ASSUME RInv, Cued, op' # "none", pc' \notin {"step", "contact"},
         UNCHANGED last \/ last'[2][1] \notin {"coarse", "fine", "retract", "G1", "G38.3"}
  PROVE  Cued'
<1>1. MotionIsAnnounced'
  BY LastStays DEF Cued
<1> QED BY <1>1 DEF Cued

LEMMA CuedStep == RInv /\ Cued /\ [Next]_vars => Cued'
<1> SUFFICES ASSUME RInv, Cued, [Next]_vars PROVE Cued'
  OBVIOUS
<1>0. Phases
  BY DEF RInv
<1>1. CASE Begin \/ CenterStep \/ ContactBegin \/ ContactStage \/ ContactEnd \/ MoveStep
  BY <1>1, CuedBegin, CuedCenter, CuedContactBegin, CuedContact, CuedContactEnd, CuedMove
<1>2. CASE StepRefused \/ StageRefused \/ StepsDone
  <2>1. op' # "none" /\ pc' \notin {"step", "contact"} /\ UNCHANGED last
    BY <1>0, <1>2 DEF StepRefused, StageRefused, StepsDone, Fail, streamVars, Phases
  <2> QED BY <2>1, CuedOther
<1>3. CASE ZeroQuery \/ WriteZero \/ Finish
  <2>1. op' # "none" /\ pc' \notin {"step", "contact"}
    BY <1>0, <1>3 DEF ZeroQuery, WriteZero, Finish, Fail, Over, Phases
  <2>2. \/ UNCHANGED last \/ last'[2] = <<"$#">> \/ last'[2] = <<"zero">> \/ last'[2] = <<"modes">>
    <3>1. ZeroQuery => UNCHANGED last \/ last'[2] = <<"$#">>
      BY DEF ZeroQuery, Show, Sent, streamVars
    <3>2. WriteZero => UNCHANGED last \/ last'[2] = <<"zero">>
      BY DEF WriteZero, Sent, streamVars
    <3>3. Finish => last'[2] = <<"modes">>
      BY DEF Finish, Show, Sent
    <3> QED BY <1>3, <3>1, <3>2, <3>3
  <2>3. UNCHANGED last \/ last'[2][1] \notin {"coarse", "fine", "retract", "G1", "G38.3"}
    BY <2>2
  <2> QED BY <2>1, <2>3, CuedOther
<1>4. CASE RaiseAfterMiss \/ RestoreAfterFailure
  <2>1. op' # "none" /\ pc' \notin {"step", "contact"} /\ UNCHANGED last
    BY <1>0, <1>4 DEF RaiseAfterMiss, RestoreAfterFailure, Over, streamVars, Phases
  <2> QED BY <2>1, CuedOther
<1>5. CASE Report
  <2>1. op' # "none" /\ pc' \notin {"step", "contact"} /\ last' = <<NoLine, NoLine>>
    BY <1>0, <1>5 DEF Report, Phases
  <2>2. last'[2][1] \notin {"coarse", "fine", "retract", "G1", "G38.3"}
    BY <2>1 DEF NoLine
  <2> QED BY <2>1, <2>2, CuedOther
<1>6. CASE ReturnToStart \/ (\E z \in Clearances : GoToMeasured(z)) \/ ZeroResult
  <2>1. op' # "none" /\ pc' \notin {"step", "contact"} /\ UNCHANGED last
    BY <1>6 DEF ReturnToStart, GoToMeasured, ZeroResult, Act, Over, streamVars
  <2> QED BY <2>1, CuedOther
<1>7. CASE Leg \/ LegsDone \/ ZeroApplied \/ ActionFailed
  <2>1. op' # "none" /\ pc' \notin {"step", "contact"} /\ UNCHANGED last
    BY <1>0, <1>7, LegCases DEF LegsDone, ZeroApplied, ActionFailed, Over, streamVars, Phases, Stopped
  <2> QED BY <2>1, CuedOther
<1>8. CASE Jog
  <2>1. UNCHANGED <<plan, op, pc, last>> /\ pc = "idle" /\ result.settled
    BY <1>8 DEF Jog, streamVars
  <2>2. op # "none"
    BY <1>0, <2>1 DEF Phases
  <2> QED BY <2>1, <2>2, CuedOther
<1>9. CASE UNCHANGED vars \/ \E what \in Changes : Disturb(what)
  <2>1. UNCHANGED <<plan, pc, op, index, stage, position, refs, cursor, last>>
    BY <1>9 DEF vars, Disturb, localVars, streamVars
  <2>2. MotionIsAnnounced'
    BY <2>1, LastStays DEF Cued
  <2>3. CASE op = "none"
    <3>1. pc = "idle"
      BY <1>0, <2>3 DEF Phases
    <3> QED BY <2>1, <2>2, <3>1 DEF Cued
  <2>4. CASE op # "none"
    <3>1. pc' = "step" => cursor' = Cue(index') /\ Symbolic(index', Axes, position', refs')
      BY <2>1 DEF Cued
    <3>2. pc' = "contact" => /\ cursor' = Cue(index') + Offset(stage')
                             /\ Symbolic(index', Axes \ {plan.steps[index'].axis}, position', refs')
      BY <2>1 DEF Cued, Here
    <3> QED BY <2>1, <2>2, <2>4, <3>1, <3>2, CuedWhen
  <2> QED BY <2>3, <2>4
<1> QED BY <1>1, <1>2, <1>3, <1>4, <1>5, <1>6, <1>7, <1>8, <1>9 DEF Next

\* Every motion of a routine is announced by its line of the script, for the
\* same axes, before it is sent (Stream::command, Observed::send).
THEOREM MotionsAreAnnounced == Spec => []MotionIsAnnounced
<1>1. Init => RInv /\ Cued
  <2>1. ASSUME Init PROVE Cued
    <3>1. op = "none" /\ cursor = 1 /\ pc = "idle" /\ last = <<NoLine, NoLine>>
      BY <2>1 DEF Init
    <3>2. last[2][1] = "none"
      BY <3>1 DEF NoLine
    <3> QED BY <3>1, <3>2 DEF Cued, MotionIsAnnounced
  <2> QED BY <2>1, InitRInv
<1>2. RInv /\ Cued /\ [Next]_vars => RInv' /\ Cued'
  BY PlannedStep, TypesStep, PhasesStep, FreshStep, KnownStep, EndingsStep, LegsStep, CuedStep DEF RInv
<1>3. RInv /\ Cued => MotionIsAnnounced
  BY DEF Cued
<1> QED BY <1>1, <1>2, <1>3, PTL DEF Spec

=============================================================================
