------------------------------ MODULE RecordLog ------------------------------
(***************************************************************************)
(* What the store of the history promises: records are read back in the    *)
(* order they were appended; a record whose append was confirmed is among  *)
(* them, one whose append failed may be; nothing but a clear takes any     *)
(* record away.                                                            *)
(***************************************************************************)
EXTENDS Sequences

CONSTANT Records

VARIABLES
  log,    \* the records a reader gets
  saved   \* those whose append was confirmed

Init == log = <<>> /\ saved = <<>>

Save(r) == log' = Append(log, r) /\ saved' = Append(saved, r)
Leave(r) == log' = Append(log, r) /\ UNCHANGED saved
Clear == log' = <<>> /\ saved' = <<>>

\* One record at a time, at the end.
Add(r) == r \in Records /\ (Save(r) \/ Leave(r))
Next == Clear \/ (log' # <<>> /\ Add(log'[Len(log')]))

Spec == Init /\ [][Next]_<<log, saved>>
==============================================================================
