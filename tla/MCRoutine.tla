------------------------------- MODULE MCRoutine -------------------------------
(* Small routines of every family, each at the ends of the starts it fits, and *)
(* two starts that review refuses.  Lengths are in quarters of a millimetre.   *)
EXTENDS Routine

Options(family, feature, x, y, search, zero) ==
  [family |-> family, feature |-> feature, x |-> x, y |-> y, z |-> x = 0 /\ y = 0,
   zero |-> zero, depth |-> 4, searchX |-> search, searchY |-> search, retract |-> 2, radius |-> 1]
At(x, y, z) == [a \in Axes |-> CASE a = "X" -> x [] a = "Y" -> y [] OTHER -> z]
Case(config_, start) == [config |-> config_, start |-> start]

MCLimits == [a \in Axes |-> 22]
MCProbeOffset == [a \in Axes |-> IF a = "Z" THEN 3 ELSE -2]

MCCases ==
  LET angle(f, x, y) == Options("angle", f, x, y, 4, FALSE)
      center(f, x, y, search, zero) == Options("center", f, x, y, search, zero)
  IN {Case(center("boss", 1, 1, 2, FALSE), At(-14, -6, -16)),
      Case(center("y-valley", 0, 1, 4, FALSE), At(-10, -6, 0)),
      Case(center("y-valley", 0, 1, 4, FALSE), At(-10, -12, -20)),
      Case(center("x-ridge", 1, 0, 4, TRUE), At(-8, -4, 0)),
      Case(center("z", 0, 0, 4, FALSE), At(-4, -4, -14)),
      Case(angle("x-plus", 1, 0), At(-16, -4, -8)),
      Case(angle("z-y", 0, 0), At(-8, -18, -4)),
      Case(Options("inside", "none", 1, 1, 4, FALSE), At(-6, -16, -2)),
      Case(Options("inside", "none", 0, 0, 4, TRUE), At(-6, -6, -4)),
      Case(Options("outside", "none", 1, -1, 4, FALSE), At(-12, -8, -16)),
      Case(Options("inside", "none", 0, 0, 4, TRUE), At(-6, -6, -2)),
      Case(Options("outside", "none", 1, -1, 4, FALSE), At(-12, -8, -18))}

MCClearances == {4}
MCJogs == {At(-10, -10, -20), At(0, -20, -2)}
MCOffsets == {0, 2}
================================================================================
