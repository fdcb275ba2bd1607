------------------------------- MODULE History -------------------------------
(***************************************************************************)
(* The history of runs: records appended to a file of lines                *)
(* (crates/service/src/logs.rs), folded into entries                       *)
(* (crates/probe-app/src/history.rs), and results reopened from it         *)
(* (crates/probe-app/src/history_results.rs), with the operations that     *)
(* write the records.                                                      *)
(*                                                                         *)
(* An append may be cut short at any byte, by an error of the file system  *)
(* or by a crash. A line that is not a record is passed over by the        *)
(* reader, so a file is its records in order, what its last line is, and   *)
(* whether it can be read at all: a line cut inside a character of several *)
(* bytes is not UTF-8, and the reader gives up at it.                      *)
(***************************************************************************)
EXTENDS Naturals, Sequences, FiniteSets

CONSTANTS
  Runs,         \* identifiers of runs
  Clients,      \* clients that open results
  Wcs,          \* work coordinate systems
  Kinds,        \* what may be applied of a result: work zero, rotation
  NoRun, NoResult,
  Shown,        \* entries a history shows (100 in the code)
  MaxRecords,   \* bound: records in the file
  MaxEvents     \* bound: failures, crashes, clears and changes on the panel

\* A result: the run it measures, the coordinate system it is shown in, what
\* was applied there, and whether the measurement is one that may be applied.
Results == [id : Runs, wcs : Wcs, done : SUBSET Kinds, can : BOOLEAN]
Records == [event : {"start", "finish", "action"}, id : Runs,
            status : {"none", "success", "failed"}, result : Results \cup {NoResult}]
Shapes == [status : {"interrupted", "success", "failed"}, result : Results \cup {NoResult}]

ASSUME HistoryAssumption ==
  /\ Kinds \subseteq {"zero", "rotation"} /\ Wcs # {} /\ NoRun \notin Runs /\ NoResult \notin Results
  /\ Shown \in Nat \ {0} /\ MaxRecords \in Nat /\ MaxEvents \in Nat

VARIABLES
  file,       \* history.jsonl: records, last, broken
  guard,      \* who holds the guard of ProbeApp: "none", "run", "apply" or "clear"
  running,    \* the run under way
  wiper,      \* the blocking thread of clear_logs: "none", "owned", or "left" by its client
  op,         \* the action on a result under way
  opening,    \* results that clients have read and not stored yet
  opened,     \* history_result
  completed,  \* the result the reviews hold
  wcs,        \* the active coordinate system of the machine
  origin,     \* whose measurement each work zero is
  ended,      \* history: how each run ended
  saved,      \* history: records whose append was confirmed, since the last clear
  could,      \* history: what the entry of a run may say; {} when nothing was promised
  orphans,    \* history: runs that were under way when a clear came that its client had left
  events

memoryVars == <<guard, running, wiper, op, opening, opened, completed>>
machineVars == <<wcs, origin>>
promiseVars == <<ended, could, orphans>>
vars == <<file, memoryVars, machineVars, promiseVars, saved, events>>

NoOp == [stage |-> "none", from |-> "none", id |-> NoRun, kind |-> "none",
         copy |-> NoResult, to |-> CHOOSE w \in Wcs : TRUE]
Nobody == [c \in Clients |-> NoResult]

Init ==
  /\ file = [records |-> <<>>, last |-> "ended", broken |-> FALSE]
  /\ guard = "none" /\ running = NoRun /\ wiper = "none" /\ op = NoOp
  /\ opening = Nobody /\ opened = NoResult /\ completed = NoResult
  /\ wcs \in Wcs /\ origin = [w \in Wcs |-> NoRun]
  /\ ended = [i \in Runs |-> "new"] /\ could = [i \in Runs |-> {}] /\ orphans = {}
  /\ saved = <<>> /\ events = 0

Event == events < MaxEvents /\ events' = events + 1
Counted(ok) == IF ok THEN UNCHANGED events ELSE Event

-----------------------------------------------------------------------------
(* logs.rs: the file.                                                      *)

\* Bytes are added to the last line: a record that follows it on the same line
\* is lost, and so is the record that the line held.
Put(f, r) ==
  CASE f.last = "ended" -> [f EXCEPT !.records = Append(@, r)]
    [] f.last = "torn" -> [f EXCEPT !.last = "ended"]
    [] f.last = "record" -> [f EXCEPT !.last = "ended", !.records = SubSeq(@, 1, Len(@) - 1)]
\* A line without its end is ended first.
RepairedAsFound(f) == f  \* mutant
Repaired(f) == [f EXCEPT !.last = "ended"]
Whole(f, r) == Put(Repaired(f), r)
\* What an append that fails, or that a crash interrupts, may leave.
Cut(f, r) ==
  {f, Repaired(f), Whole(f, r), [Whole(f, r) EXCEPT !.last = "record"]}
  \cup {[Repaired(f) EXCEPT !.last = "torn", !.broken = @ \/ b] : b \in BOOLEAN}

\* Records::append: the record and its trace; an error of either is the error
\* of both.
Appended(r, ok) ==
  /\ Len(file.records) < MaxRecords /\ Counted(ok)
  /\ IF ok THEN file' = Whole(file, r) /\ saved' = Append(saved, r)
           ELSE file' \in Cut(file, r) /\ UNCHANGED saved

Start(i) == [event |-> "start", id |-> i, status |-> "none", result |-> NoResult]
Finish(i, s, r) == [event |-> "finish", id |-> i, status |-> s, result |-> r]
Action(i, r) == [event |-> "action", id |-> i, status |-> "none", result |-> r]

-----------------------------------------------------------------------------
(* history.rs: the entries.                                                *)

Last(K) == {k \in K : \A j \in K : j <= k}
Starts(log) == {k \in DOMAIN log : log[k].event = "start"}
\* The records an entry is folded from: those that follow the start of its run.
Of(log, i, event) ==
  {k \in DOMAIN log : /\ log[k].event = event /\ log[k].id = i
                      /\ \E s \in Starts(log) : s < k /\ log[s].id = i}
Statuses(log, i) ==
  IF Of(log, i, "finish") = {} THEN {"interrupted"}
  ELSE {log[k].status : k \in Last(Of(log, i, "finish"))}
\* A finish sets the result whatever it is, an action only to a result.
Sets(log, i) ==
  Of(log, i, "finish") \cup {k \in Of(log, i, "action") : log[k].result # NoResult}
ResultsOf(log, i) ==
  IF Sets(log, i) = {} THEN {NoResult} ELSE {log[k].result : k \in Last(Sets(log, i))}

\* history(): the newest entries.
Entries(log) ==
  {log[s].id : s \in {k \in Starts(log) : Cardinality({j \in Starts(log) : j > k}) < Shown}}

-----------------------------------------------------------------------------
(* A run: start_motion(), run_rotary(), repeatability().                   *)

Promise(i, ok, e) ==
  could' = [could EXCEPT ![i] = IF ok THEN {e} ELSE @ \cup {e}]

\* A run that the history cannot begin does not begin. Its review has taken
\* the last result away.
StartRun(i, ok) ==
  /\ guard = "none" /\ ended[i] = "new"
  /\ Appended(Start(i), ok)
  /\ completed' = NoResult
  /\ IF ok THEN /\ guard' = "run" /\ running' = i
                /\ ended' = [ended EXCEPT ![i] = "running"]
                /\ could' = [could EXCEPT ![i] = {[status |-> "interrupted", result |-> NoResult]}]
           ELSE /\ ended' = [ended EXCEPT ![i] = "refused"]
                /\ UNCHANGED <<guard, running, could>>
  /\ UNCHANGED <<wiper, op, opening, opened, machineVars, orphans>>

\* A run that failed may still record what it measured; only one that
\* succeeded leaves a result to the reviews.
Measured(i) == [id |-> i, wcs |-> wcs, done |-> {}, can |-> TRUE]
FinishRun(s, ok) ==
  /\ running # NoRun
  /\ \E r \in IF s = "success" THEN {Measured(running)} ELSE {NoResult, Measured(running)} :
       /\ Appended(Finish(running, s, r), ok)
       /\ Promise(running, ok, [status |-> s, result |-> r])
  /\ completed' = IF s = "success" THEN Measured(running) ELSE completed
  /\ ended' = [ended EXCEPT ![running] = s]
  /\ guard' = "none" /\ running' = NoRun
  /\ UNCHANGED <<wiper, op, opening, opened, machineVars, orphans>>

-----------------------------------------------------------------------------
(* open_history_result(): no guard; what was read is stored later.         *)

Succeeded(log, i) == "success" \in Statuses(log, i)
OpenRead(c, i) ==
  /\ opening[c] = NoResult /\ ~file.broken
  /\ i \in Entries(file.records) /\ NoResult \notin ResultsOf(file.records, i)
  /\ opening' = [opening EXCEPT ![c] =
       [id |-> i, wcs |-> wcs, done |-> {}, can |-> Succeeded(file.records, i)]]
  /\ UNCHANGED <<file, guard, running, wiper, op, opened, completed, machineVars,
                 promiseVars, saved, events>>
OpenStore(c) ==
  /\ opening[c] # NoResult
  /\ opened' = opening[c] /\ opening' = [opening EXCEPT ![c] = NoResult]
  /\ UNCHANGED <<file, guard, running, wiper, op, completed, machineVars,
                 promiseVars, saved, events>>
OpenLeave(c) ==
  /\ opening[c] # NoResult /\ opening' = [opening EXCEPT ![c] = NoResult]
  /\ UNCHANGED <<file, guard, running, wiper, op, opened, completed, machineVars,
                 promiseVars, saved, events>>

-----------------------------------------------------------------------------
(* An action on a result: apply_history_result() on the opened one, zero(),*)
(* rotate_result() and select_result_wcs() on the completed one.           *)

SameAny(result, i) == result # NoResult  \* mutant: whatever is open
Same(result, i) == result # NoResult /\ result.id = i
Begin(from, i, kind, to) ==
  /\ guard = "none"
  /\ LET held == IF from = "opened" THEN opened ELSE completed
     IN  /\ Same(held, i) /\ held.can
         /\ op' = [stage |-> "begun", from |-> from, id |-> i, kind |-> kind,
                   copy |-> held, to |-> to]
  /\ completed' = IF from = "completed" THEN NoResult ELSE completed
  /\ guard' = "apply"
  /\ UNCHANGED <<file, running, wiper, opening, opened, machineVars, promiseVars,
                 saved, events>>

SelectWcs ==
  /\ op.stage = "begun" /\ op.kind = "wcs" /\ wcs' = op.to
  /\ op' = [op EXCEPT !.stage = "acted", !.copy.wcs = op.to,
                      !.copy.done = IF op.copy.wcs = op.to THEN @ ELSE {}]
  /\ UNCHANGED <<file, guard, running, wiper, opening, opened, completed, origin,
                 promiseVars, saved, events>>

\* Zero and rotation are for the active coordinate system, which is looked at
\* first, and written to the one of the result.
CheckWcs ==
  /\ op.stage = "begun" /\ op.kind \in Kinds /\ wcs = op.copy.wcs
  /\ op' = [op EXCEPT !.stage = "checked"]
  /\ UNCHANGED <<file, guard, running, wiper, opening, opened, completed, machineVars,
                 promiseVars, saved, events>>
Written ==
  IF op.kind = "zero" THEN [origin EXCEPT ![op.copy.wcs] = op.copy.id] ELSE origin
Write ==
  /\ op.stage = "checked" /\ origin' = Written
  /\ op' = [op EXCEPT !.stage = "acted", !.copy.done = @ \cup {op.kind}]
  /\ UNCHANGED <<file, guard, running, wiper, opening, opened, completed, wcs,
                 promiseVars, saved, events>>

\* The action is refused, or fails when its line may have been read. A result
\* of the reviews comes back after some errors; most leave a record.
ActFails ==
  /\ op.stage \in {"begun", "checked"}
  /\ origin' \in {origin, IF op.stage = "checked" THEN Written ELSE origin}
  /\ op' = NoOp /\ guard' = "none"
  /\ \/ op.kind # "zero" /\ UNCHANGED <<file, saved, events>>
        /\ completed' = IF op.from = "completed" THEN op.copy ELSE completed
     \/ op.from = "opened" /\ UNCHANGED <<completed, file, saved, events>>
     \/ op.from = "completed" /\ op.kind # "wcs" /\ completed' \in {op.copy, NoResult}
        /\ \E ok \in BOOLEAN : Appended(Action(op.id, NoResult), ok)
  /\ UNCHANGED <<running, wiper, opening, opened, wcs, promiseVars>>

\* The result goes back to where it was taken from, whoever has opened another
\* one meanwhile, and the action is recorded.
Keep(ok) ==
  /\ op.stage = "acted"
  /\ Appended(Action(op.id, op.copy), ok)
  /\ could' = [could EXCEPT ![op.id] =
       LET new == {[e EXCEPT !.result = op.copy] : e \in @} IN IF ok THEN new ELSE @ \cup new]
  /\ opened' = IF op.from = "opened" THEN op.copy ELSE opened
  /\ completed' = IF op.from = "completed" THEN op.copy ELSE completed
  /\ op' = NoOp /\ guard' = "none"
  /\ UNCHANGED <<running, wiper, opening, machineVars, ended, orphans>>

-----------------------------------------------------------------------------
(* clear_logs(): a blocking thread clears the files while the request waits*)
(* with the guard; a client that leaves drops the guard, not the thread.   *)
(* clear at a time.                                                        *)

ClearAnyTime == TRUE  \* mutant: no guard
ClearFree == guard = "none"
ClearBegin ==
  /\ ClearFree /\ wiper = "none" /\ Event
  /\ wiper' = "owned" /\ guard' = IF guard = "none" THEN "clear" ELSE guard
  /\ UNCHANGED <<file, running, op, opening, opened, completed, machineVars,
                 promiseVars, saved>>
ClearLeave ==
  /\ wiper = "owned" /\ wiper' = "left"
  /\ guard' = IF guard = "clear" THEN "none" ELSE guard
  /\ UNCHANGED <<file, running, op, opening, opened, completed, machineVars,
                 promiseVars, saved, events>>
Wipe(ok) ==
  /\ wiper # "none" /\ wiper' = "none" /\ Counted(ok)
  /\ guard' = IF wiper = "owned" /\ guard = "clear" THEN "none" ELSE guard
  /\ \E emptied \in {TRUE, ok} :
       IF emptied
         THEN /\ file' = [records |-> <<>>, last |-> "ended", broken |-> FALSE]
              /\ saved' = <<>> /\ could' = [i \in Runs |-> {}]
              /\ orphans' = orphans \cup IF wiper = "left" THEN {running} \ {NoRun} ELSE {}
         ELSE UNCHANGED <<file, saved, could, orphans>>
  /\ UNCHANGED <<running, op, opening, opened, completed, machineVars, ended>>

-----------------------------------------------------------------------------
(* The machine's own panel, and a crash with its restart.                  *)

Panel ==
  /\ Event /\ \E w \in Wcs \ {wcs} : wcs' = w
  /\ UNCHANGED <<file, memoryVars, origin, promiseVars, saved>>

Crash ==
  /\ Event
  /\ guard' = "none" /\ running' = NoRun /\ wiper' = "none" /\ op' = NoOp
  /\ opening' = Nobody /\ opened' = NoResult /\ completed' = NoResult
  /\ ended' = [i \in Runs |-> IF ended[i] = "running" THEN "crashed" ELSE ended[i]]
  /\ UNCHANGED <<file, machineVars, could, orphans, saved>>

Client(c) == OpenStore(c) \/ OpenLeave(c) \/ \E i \in Runs : OpenRead(c, i)
Run(ok) == (\E i \in Runs : StartRun(i, ok)) \/ \E s \in {"success", "failed"} : FinishRun(s, ok)
Apply ==
  \/ \E from \in {"opened", "completed"}, i \in Runs, k \in Kinds : Begin(from, i, k, NoOp.to)
  \/ \E from \in {"opened", "completed"}, i \in Runs, w \in Wcs : Begin(from, i, "wcs", w)
  \/ SelectWcs \/ CheckWcs \/ Write \/ ActFails \/ \E ok \in BOOLEAN : Keep(ok)
Clear == ClearBegin \/ ClearLeave \/ \E ok \in BOOLEAN : Wipe(ok)
Next ==
  \/ \E c \in Clients : Client(c)
  \/ \E ok \in BOOLEAN : Run(ok)
  \/ Apply \/ Clear \/ Panel \/ Crash

Spec == Init /\ [][Next]_vars

-----------------------------------------------------------------------------
(* Properties.                                                             *)

TypeOK ==
  /\ file \in [records : Seq(Records), last : {"ended", "torn", "record"}, broken : BOOLEAN]
  /\ running \in Runs \cup {NoRun}
  /\ op \in [stage : {"none", "begun", "checked", "acted"}, from : {"none", "opened", "completed"},
             id : Runs \cup {NoRun}, kind : Kinds \cup {"none", "wcs"},
             copy : Results \cup {NoResult}, to : Wcs]
  /\ op.stage # "none" => op.id \in Runs /\ op.copy \in Results
  /\ op.stage = "checked" => op.kind \in Kinds
  /\ opening \in [Clients -> Results \cup {NoResult}]
  /\ opened \in Results \cup {NoResult} /\ completed \in Results \cup {NoResult}
  /\ wcs \in Wcs /\ origin \in [Wcs -> Runs \cup {NoRun}]
  /\ ended \in [Runs -> {"new", "refused", "running", "crashed", "success", "failed"}]
  /\ could \in [Runs -> SUBSET Shapes]

\* Whatever is torn by errors and crashes, the file is the log that RecordLog
\* promises: no record is lost with a torn line before it, none is read twice
\* or out of order (append, HistoryStore: "Record order must be preserved").
Log == INSTANCE RecordLog WITH log <- file.records
LogIsKept == Log!Spec

\* A run that was recorded reads in the history as what was recorded of it: as
\* interrupted while its end is not recorded, then with its status, and with
\* the result as the last action that was confirmed, or one that was not, left
\* it. Two cases are lost: a file cut inside a character is not read at all,
\* and a clear whose client left may come while a run is under way.
SavedRunIsShown ==
  \A i \in Runs :
    (could[i] # {} /\ i \notin orphans /\ ~file.broken) =>
      /\ \E s \in Starts(file.records) : file.records[s].id = i
      /\ \E e \in could[i] : /\ Statuses(file.records, i) = {e.status}
                             /\ ResultsOf(file.records, i) = {e.result}

\* A work zero written from a result is the one of the run that was asked for,
\* and of a run that succeeded, whatever other clients open, apply and record
\* between the request and the write (apply_history_result, zero).
ZeroIsOfAskedRun ==
  [][\A w \in Wcs : origin'[w] # origin[w] =>
       origin'[w] = op.id /\ ended[op.id] = "success"]_vars
==============================================================================
