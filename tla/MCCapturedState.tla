---- MODULE MCCapturedState ----
(* CapturedState with the machine found in inches and in metric modes. *)
EXTENDS CapturedState
MCFound == {[modes |-> "inch", rotation |-> "R1", plane |-> 18],
            [modes |-> "metric", rotation |-> "R0", plane |-> 17]}
====
