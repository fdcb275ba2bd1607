----------------------------- MODULE MachineOwner -----------------------------
(***************************************************************************)
(* What the application promises about machine motion, without saying how: *)
(* one operation at a time owns the machine, it is given a machine that    *)
(* stands still, and it keeps the machine until that stands still again.   *)
(* Only a service that is stopping may let go of a moving machine, and     *)
(* then nobody is given the machine any more until the motion has ended.   *)
(***************************************************************************)
CONSTANTS Tasks, NoOne

VARIABLES
  owner,    \* the operation that owns the machine
  mover,    \* the operation whose motion the machine carries out
  leaving,  \* the service is stopping
  gone      \* the connection to the machine is closed

ownerVars == <<owner, mover, leaving, gone>>

Init == owner = NoOne /\ mover = NoOne /\ leaving = FALSE /\ gone = FALSE

Take(t) ==
  /\ owner = NoOne /\ mover = NoOne
  /\ owner' = t /\ UNCHANGED <<mover, leaving, gone>>
Move(t) ==
  /\ owner = t /\ ~gone
  /\ mover' = t /\ UNCHANGED <<owner, leaving, gone>>
Rest ==
  /\ mover' = NoOne /\ UNCHANGED <<owner, leaving, gone>>
Release(t) ==
  /\ owner = t /\ (mover = NoOne \/ leaving)
  /\ owner' = NoOne /\ UNCHANGED <<mover, leaving, gone>>
Leaving ==
  /\ leaving' = TRUE /\ UNCHANGED <<owner, mover, gone>>
Close ==
  /\ leaving /\ owner = NoOne
  /\ gone' = TRUE /\ UNCHANGED <<owner, mover, leaving>>

Next == Rest \/ Leaving \/ Close \/ \E t \in Tasks : Take(t) \/ Move(t) \/ Release(t)

Spec == Init /\ [][Next]_ownerVars
===============================================================================
