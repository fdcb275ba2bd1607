--------------------------- MODULE History_proofs ---------------------------
(***************************************************************************)
(* The history keeps the log that RecordLog promises, and a work zero      *)
(* written from a result is of the run that was asked for.                 *)
(***************************************************************************)
EXTENDS History, TLAPS

\* What a result that may be applied is worth, wherever a copy of it is kept:
\* its run ended in success.
Good(r) == r # NoResult /\ r.can => ended[r.id] = "success"

\* A finish in the file that says success is of a run that ended in success.
Ends(f, e) ==
  \A k \in DOMAIN f.records :
    (f.records[k].event = "finish" /\ f.records[k].status = "success")
      => e[f.records[k].id] = "success"

Successes ==
  /\ Ends(file, ended)
  /\ running # NoRun => ended[running] = "running"
  /\ \A c \in Clients : Good(opening[c])
  /\ Good(opened) /\ Good(completed)
  /\ op.stage # "none" => op.copy.id = op.id /\ op.copy.can /\ ended[op.id] = "success"

HInv == TypeOK /\ Successes

Files == [records : Seq(Records), last : {"ended", "torn", "record"}, broken : BOOLEAN]

-----------------------------------------------------------------------------
\* A whole append puts the record at the end, whatever the last line was.
LEMMA WholeAppends ==
  ASSUME NEW f \in Files, NEW r \in Records
  PROVE  /\ Whole(f, r) \in Files
         /\ Whole(f, r).records = Append(f.records, r)
<1>1. Repaired(f) \in Files /\ Repaired(f).last = "ended" /\ Repaired(f).records = f.records
  BY DEF Repaired, Files
<1>2. Whole(f, r) = [Repaired(f) EXCEPT !.records = Append(@, r)]
  BY <1>1 DEF Whole, Put
<1>3. Append(f.records, r) \in Seq(Records)
  BY DEF Files
<1> QED
  BY <1>1, <1>2, <1>3 DEF Files

\* What an append that is cut short leaves has that record at the end or nothing.
LEMMA CutKeeps ==
  ASSUME NEW f \in Files, NEW r \in Records, NEW g \in Cut(f, r)
  PROVE  g \in Files /\ g.records \in {f.records, Append(f.records, r)}
<1>1. Repaired(f) \in Files /\ Repaired(f).records = f.records
  BY DEF Repaired, Files
<1>2. Whole(f, r) \in Files /\ Whole(f, r).records = Append(f.records, r)
  BY WholeAppends
<1>3. CASE g \in {f, Repaired(f), Whole(f, r)}
  BY <1>1, <1>2, <1>3
<1>4. CASE g = [Whole(f, r) EXCEPT !.last = "record"]
  BY <1>2, <1>4 DEF Files
<1>5. CASE \E b \in BOOLEAN : g = [Repaired(f) EXCEPT !.last = "torn", !.broken = @ \/ b]
  <2>1. PICK b \in BOOLEAN : g = [Repaired(f) EXCEPT !.last = "torn", !.broken = @ \/ b]
    BY <1>5
  <2>2. Repaired(f).broken \/ b \in BOOLEAN
    BY <1>1 DEF Files
  <2> QED
    BY <1>1, <2>1, <2>2 DEF Files
<1> QED
  BY <1>3, <1>4, <1>5 DEF Cut

\* An append adds its record at the end or nothing, and surely if it succeeds.
LEMMA AppendedAdds ==
  ASSUME file \in Files, NEW r \in Records, NEW ok \in BOOLEAN, Appended(r, ok)
  PROVE  /\ file' \in Files
         /\ file'.records \in {file.records, Append(file.records, r)}
         /\ IF ok THEN file'.records = Append(file.records, r) /\ saved' = Append(saved, r)
                  ELSE saved' = saved
<1>1. CASE ok
  BY <1>1, WholeAppends DEF Appended
<1>2. CASE ~ok
  BY <1>2, CutKeeps DEF Appended
<1> QED
  BY <1>1, <1>2

\* The records that the runs and the actions write.
LEMMA RecordsWritten ==
  /\ \A i \in Runs : Start(i) \in Records /\ Action(i, NoResult) \in Records
  /\ \A i \in Runs, r \in Results : Action(i, r) \in Records
  /\ \A i \in Runs, s \in {"success", "failed"}, r \in Results \cup {NoResult} :
       Finish(i, s, r) \in Records
BY DEF Start, Action, Finish, Records

LEMMA MeasuredType ==
  ASSUME TypeOK, NEW i \in Runs
  PROVE  Measured(i) \in Results /\ Measured(i).id = i
BY DEF TypeOK, Measured, Results

LEMMA NoOpType ==
  /\ NoOp.stage = "none"
  /\ NoOp \in [stage : {"none", "begun", "checked", "acted"}, from : {"none", "opened", "completed"},
               id : Runs \cup {NoRun}, kind : Kinds \cup {"none", "wcs"},
               copy : Results \cup {NoResult}, to : Wcs]
<1>1. (CHOOSE w \in Wcs : TRUE) \in Wcs
  BY HistoryAssumption
<1> QED
  BY <1>1 DEF NoOp

-----------------------------------------------------------------------------
LEMMA InitHInv == Init => HInv
<1> SUFFICES ASSUME Init PROVE HInv
  OBVIOUS
<1>1. file \in Files /\ file.records = <<>>
  BY DEF Init, Files
<1>2. TypeOK
  BY <1>1, NoOpType DEF Init, Nobody, TypeOK, Files
<1>3. Successes
  BY <1>1, NoOpType DEF Init, Nobody, Successes, Ends, Good
<1> QED
  BY <1>2, <1>3 DEF HInv

\* Every action leaves the variables in their types.
LEMMA TypeOKStep == TypeOK /\ [Next]_vars => TypeOK'
<1> SUFFICES ASSUME TypeOK, [Next]_vars PROVE TypeOK'
  OBVIOUS
<1> USE DEF TypeOK
<1>0. file \in Files
  BY DEF Files
<1>a. ASSUME NEW r \in Records, NEW ok \in BOOLEAN, Appended(r, ok)
      PROVE  file' \in Files
  BY <1>0, <1>a, AppendedAdds
<1>1. ASSUME NEW c \in Clients, Client(c) PROVE TypeOK'
  <2>1. ASSUME NEW i \in Runs, OpenRead(c, i) PROVE TypeOK'
    <3>1. [id |-> i, wcs |-> wcs, done |-> {}, can |-> Succeeded(file.records, i)] \in Results
      BY DEF Results, Succeeded
    <3> QED
      BY <2>1, <3>1 DEF OpenRead, promiseVars, machineVars
  <2>2. CASE OpenStore(c)
    BY <2>2 DEF OpenStore, promiseVars, machineVars
  <2>3. CASE OpenLeave(c)
    BY <2>3 DEF OpenLeave, promiseVars, machineVars
  <2> QED
    BY <1>1, <2>1, <2>2, <2>3 DEF Client
<1>2. ASSUME NEW ok \in BOOLEAN, NEW i \in Runs, StartRun(i, ok) PROVE TypeOK'
  <2>1. file' \in Files
    BY <1>2, <1>a, RecordsWritten DEF StartRun
  <2> DEFINE e == [status |-> "interrupted", result |-> NoResult]
  <2>a. e \in Shapes
    BY DEF Shapes
  <2>b. could' = could \/ could' = [could EXCEPT ![i] = {e}]
    BY <1>2 DEF StartRun
  <2> HIDE DEF e
  <2>2. could' \in [Runs -> SUBSET Shapes]
    BY <2>a, <2>b
  <2> QED
    BY <1>2, <2>1, <2>2 DEF StartRun, Files, machineVars
<1>3. ASSUME NEW ok \in BOOLEAN, NEW s \in {"success", "failed"}, FinishRun(s, ok) PROVE TypeOK'
  <2>1. running \in Runs /\ Measured(running) \in Results
    BY <1>3, MeasuredType DEF FinishRun
  <2>2. PICK r \in Results \cup {NoResult} :
          /\ Appended(Finish(running, s, r), ok)
          /\ Promise(running, ok, [status |-> s, result |-> r])
    BY <1>3, <2>1 DEF FinishRun
  <2>3. file' \in Files
    BY <2>1, <2>2, <1>a, RecordsWritten
  <2> DEFINE e == [status |-> s, result |-> r]
  <2>4. e \in Shapes
    BY <2>2 DEF Shapes
  <2>5. could' = [could EXCEPT ![running] = {e}] \/ could' = [could EXCEPT ![running] = @ \cup {e}]
    BY <2>2 DEF Promise
  <2> HIDE DEF e
  <2>6. could' \in [Runs -> SUBSET Shapes]
    BY <2>1, <2>4, <2>5
  <2> QED
    BY <1>3, <2>1, <2>3, <2>6 DEF FinishRun, Files, machineVars
<1>4. ASSUME NEW from \in {"opened", "completed"}, NEW i \in Runs,
             NEW kind \in Kinds \cup {"wcs"}, NEW to \in Wcs, Begin(from, i, kind, to)
      PROVE  TypeOK'
  BY <1>4 DEF Begin, Same, promiseVars, machineVars
<1>5. CASE SelectWcs
  <2>1. op'.copy \in Results
    BY <1>5 DEF SelectWcs, Results
  <2>2. op' \in [stage : {"none", "begun", "checked", "acted"}, from : {"none", "opened", "completed"},
                 id : Runs \cup {NoRun}, kind : Kinds \cup {"none", "wcs"},
                 copy : Results \cup {NoResult}, to : Wcs]
    BY <1>5, <2>1 DEF SelectWcs
  <2> QED
    BY <1>5, <2>1, <2>2 DEF SelectWcs, promiseVars
<1>6. CASE CheckWcs
  BY <1>6 DEF CheckWcs, promiseVars, machineVars
<1>7. op.stage # "none" => Written \in [Wcs -> Runs \cup {NoRun}]
  BY DEF Written, Results
<1>8. CASE Write
  <2>1. [op.copy EXCEPT !.done = @ \cup {op.kind}] \in Results
    BY <1>8 DEF Write, Results
  <2>2. op' = [op EXCEPT !.stage = "acted", !.copy = [op.copy EXCEPT !.done = @ \cup {op.kind}]]
    BY <1>8 DEF Write
  <2> QED
    BY <1>7, <1>8, <2>1, <2>2 DEF Write, promiseVars
<1>9. CASE ActFails
  <2>1. file' \in Files
    BY <1>0, <1>9, <1>a, RecordsWritten DEF ActFails
  <2> QED
    BY <1>7, <1>9, <2>1, NoOpType DEF ActFails, Files, promiseVars
<1>10. ASSUME NEW ok \in BOOLEAN, Keep(ok) PROVE TypeOK'
  <2>1. op.id \in Runs /\ op.copy \in Results
    BY <1>10 DEF Keep
  <2>2. file' \in Files
    BY <1>10, <1>a, <2>1, RecordsWritten DEF Keep
  <2>3. could' \in [Runs -> SUBSET Shapes]
    BY <1>10, <2>1 DEF Keep, Shapes
  <2> QED
    BY <1>10, <2>1, <2>2, <2>3, NoOpType DEF Keep, Files, machineVars
<1>11. CASE ClearBegin
  BY <1>11 DEF ClearBegin, promiseVars, machineVars
<1>12. CASE ClearLeave
  BY <1>12 DEF ClearLeave, promiseVars, machineVars
<1>13. ASSUME NEW ok \in BOOLEAN, Wipe(ok) PROVE TypeOK'
  <2>1. [records |-> <<>>, last |-> "ended", broken |-> FALSE] \in Files
    BY DEF Files
  <2>2. file' \in Files
    BY <1>0, <1>13, <2>1 DEF Wipe
  <2>3. could' = could \/ could' = [i \in Runs |-> {}]
    BY <1>13 DEF Wipe
  <2> QED
    BY <1>13, <2>2, <2>3 DEF Wipe, Files, machineVars
<1>14. CASE Panel
  BY <1>14 DEF Panel, memoryVars, promiseVars
<1>15. CASE Crash
  BY <1>15, NoOpType DEF Crash, Nobody, machineVars
<1>16. CASE UNCHANGED vars
  BY <1>16 DEF vars, memoryVars, machineVars, promiseVars
<1> QED
  BY <1>1, <1>2, <1>3, <1>4, <1>5, <1>6, <1>8, <1>9, <1>10, <1>11, <1>12, <1>13, <1>14,
     <1>15, <1>16, NoOpType DEF Next, Run, Apply, Clear

LEMMA EndsAppended ==
  ASSUME NEW f \in Files, NEW g \in Files, NEW e, NEW r \in Records, Ends(f, e),
         g.records \in {f.records, Append(f.records, r)},
         r.event # "finish" \/ r.status # "success" \/ e[r.id] = "success"
  PROVE  Ends(g, e)
<1> SUFFICES ASSUME NEW k \in DOMAIN g.records, g.records[k].event = "finish",
                    g.records[k].status = "success"
             PROVE  e[g.records[k].id] = "success"
  BY DEF Ends
<1>1. f.records \in Seq(Records)
  BY DEF Files
<1>2. \/ k \in DOMAIN f.records /\ g.records[k] = f.records[k]
      \/ g.records[k] = r
  BY <1>1
<1> QED
  BY <1>2 DEF Ends

LEMMA EndsLater ==
  ASSUME NEW f \in Files, NEW e, NEW later, Ends(f, e),
         \A j \in Runs : e[j] = "success" => later[j] = "success"
  PROVE  Ends(f, later)
<1> SUFFICES ASSUME NEW k \in DOMAIN f.records, f.records[k].event = "finish",
                    f.records[k].status = "success"
             PROVE  later[f.records[k].id] = "success"
  BY DEF Ends
<1>0. f.records[k] \in Records
  BY DEF Files
<1>1. f.records[k].id \in Runs
  BY <1>0 DEF Records
<1> QED
  BY <1>1 DEF Ends

-----------------------------------------------------------------------------
\* A result that may be applied is of a run that ended in success, wherever a
\* copy of it is: its finish is in the file, and runs do not end twice.
LEMMA SuccessesStep == HInv /\ [Next]_vars => Successes'
<1> SUFFICES ASSUME TypeOK, Successes, [Next]_vars PROVE Successes'
  BY DEF HInv
<1>0. file \in Files /\ Ends(file, ended)
  BY DEF TypeOK, Files, Successes
<1>a. ASSUME NEW r \in Records, NEW ok \in BOOLEAN, Appended(r, ok),
             r.event # "finish" \/ r.status # "success" \/ ended[r.id] = "success"
      PROVE  Ends(file', ended)
  <2>1. file' \in Files /\ file'.records \in {file.records, Append(file.records, r)}
    BY <1>0, <1>a, AppendedAdds
  <2> QED
    BY <1>0, <1>a, <2>1, EndsAppended
<1>1. ASSUME NEW c \in Clients, Client(c) PROVE Successes'
  <2>1. ASSUME NEW i \in Runs, OpenRead(c, i) PROVE Successes'
    <3>1. ASSUME Succeeded(file.records, i) PROVE ended[i] = "success"
      <4>1. "success" \in {file.records[k].status : k \in Last(Of(file.records, i, "finish"))}
        BY <3>1 DEF Succeeded, Statuses
      <4>2. PICK k \in Of(file.records, i, "finish") : file.records[k].status = "success"
        BY <4>1 DEF Last
      <4> QED
        BY <1>0, <4>2 DEF Of, Ends
    <3>2. Good(opening[c])'
      BY <2>1, <3>1 DEF OpenRead, Good, TypeOK, promiseVars
    <3> QED
      BY <2>1, <3>2 DEF OpenRead, Good, Successes, TypeOK, promiseVars
  <2>2. CASE OpenStore(c)
    BY <2>2 DEF OpenStore, Successes, Good, TypeOK, promiseVars
  <2>3. CASE OpenLeave(c)
    BY <2>3 DEF OpenLeave, Successes, Good, TypeOK, promiseVars
  <2> QED
    BY <1>1, <2>1, <2>2, <2>3 DEF Client
<1>2. ASSUME NEW ok \in BOOLEAN, NEW i \in Runs, StartRun(i, ok) PROVE Successes'
  <2>1. Ends(file', ended)
    BY <1>2, <1>a, RecordsWritten DEF StartRun, Start
  <2>2. \A j \in Runs : ended[j] = "success" => ended'[j] = "success"
    BY <1>2 DEF StartRun, TypeOK
  <2>3. file' \in Files
    BY <1>0, <1>2, AppendedAdds, RecordsWritten DEF StartRun
  <2>4. Ends(file', ended')
    BY <2>1, <2>2, <2>3, EndsLater
  <2> QED
    BY <1>2, <2>2, <2>4 DEF StartRun, Successes, Good, TypeOK, Results
<1>3. ASSUME NEW ok \in BOOLEAN, NEW s \in {"success", "failed"}, FinishRun(s, ok)
      PROVE  Successes'
  <2>1. running \in Runs /\ Measured(running) \in Results /\ Measured(running).id = running
    BY <1>3, MeasuredType DEF FinishRun, TypeOK
  <2>2. PICK r \in Results \cup {NoResult} : Appended(Finish(running, s, r), ok)
    BY <1>3, <2>1 DEF FinishRun
  <2>3. /\ file' \in Files
        /\ file'.records \in {file.records, Append(file.records, Finish(running, s, r))}
    BY <1>0, <2>1, <2>2, AppendedAdds, RecordsWritten
  <2>4. /\ ended'[running] = s
        /\ \A j \in Runs : ended[j] = "success" => ended'[j] = "success"
    BY <1>3, <2>1 DEF FinishRun, TypeOK, Successes
  <2>5. Ends(file, ended')
    BY <1>0, <2>4, EndsLater
  <2>6. Ends(file', ended')
    BY <1>0, <2>1, <2>3, <2>4, <2>5, EndsAppended, RecordsWritten DEF Finish
  <2> QED
    BY <1>3, <2>1, <2>4, <2>6, HistoryAssumption DEF FinishRun, Successes, Good, TypeOK, Results
<1>4. ASSUME NEW from \in {"opened", "completed"}, NEW i \in Runs,
             NEW kind \in Kinds \cup {"wcs"}, NEW to \in Wcs, Begin(from, i, kind, to)
      PROVE  Successes'
  BY <1>4 DEF Begin, Same, Successes, Good, TypeOK, promiseVars
<1>5. CASE SelectWcs
  BY <1>5 DEF SelectWcs, Successes, Good, TypeOK, Results, promiseVars
<1>6. CASE CheckWcs
  BY <1>6 DEF CheckWcs, Successes, Good, TypeOK, promiseVars
<1>7. CASE Write
  BY <1>7 DEF Write, Successes, Good, TypeOK, Results, promiseVars
<1>8. CASE ActFails
  <2>1. Ends(file', ended)
    BY <1>0, <1>8, <1>a, RecordsWritten DEF ActFails, Action, TypeOK
  <2> QED
    BY <1>8, <2>1, NoOpType DEF ActFails, Successes, Good, TypeOK, promiseVars
<1>9. ASSUME NEW ok \in BOOLEAN, Keep(ok) PROVE Successes'
  <2>1. Ends(file', ended)
    BY <1>9, <1>a, RecordsWritten DEF Keep, Action, TypeOK
  <2> QED
    BY <1>9, <2>1, NoOpType DEF Keep, Successes, Good, TypeOK
<1>10. CASE ClearBegin
  BY <1>10 DEF ClearBegin, Successes, Good, promiseVars
<1>11. CASE ClearLeave
  BY <1>11 DEF ClearLeave, Successes, Good, promiseVars
<1>12. ASSUME NEW ok \in BOOLEAN, Wipe(ok) PROVE Successes'
  <2>1. file'.records = <<>> \/ file' = file
    BY <1>12 DEF Wipe
  <2> QED
    BY <1>12, <2>1 DEF Wipe, Successes, Ends, Good
<1>13. CASE Panel
  BY <1>13 DEF Panel, memoryVars, promiseVars, Successes, Good
<1>14. CASE Crash
  <2>1. \A j \in Runs : ended[j] = "success" => ended'[j] = "success"
    BY <1>14 DEF Crash, TypeOK
  <2>2. Ends(file', ended')
    BY <1>0, <1>14, <2>1, EndsLater DEF Crash
  <2> QED
    BY <1>14, <2>2, NoOpType DEF Crash, Nobody, Successes, Good
<1>15. CASE UNCHANGED vars
  BY <1>15 DEF vars, memoryVars, machineVars, promiseVars, Successes, Good
<1> QED
  BY <1>1, <1>2, <1>3, <1>4, <1>5, <1>6, <1>7, <1>8, <1>9, <1>10, <1>11, <1>12, <1>13,
     <1>14, <1>15, NoOpType DEF Next, Run, Apply, Clear

\* The histories of the service are well typed and its results good.
THEOREM HistoryTypeOK == Spec => []HInv
<1>1. HInv /\ [Next]_vars => HInv'
  BY TypeOKStep, SuccessesStep DEF HInv
<1> QED
  BY <1>1, InitHInv, PTL DEF Spec

\* A work zero written from a result is of the run that was asked for, and that
\* run ended in success, whatever other clients do meanwhile.
THEOREM AskedRun == Spec => ZeroIsOfAskedRun
<1>1. HInv /\ [Next]_vars =>
        [\A w \in Wcs : origin'[w] # origin[w] =>
           origin'[w] = op.id /\ ended[op.id] = "success"]_vars
  <2> SUFFICES ASSUME TypeOK, Successes, Next, NEW w \in Wcs, origin'[w] # origin[w]
               PROVE  origin'[w] = op.id /\ ended[op.id] = "success"
    BY DEF HInv
  <2>1. Write \/ ActFails
    BY DEF Next, Client, Run, Apply, Clear, OpenRead, OpenStore, OpenLeave, StartRun, FinishRun,
           Begin, SelectWcs, CheckWcs, Keep, ClearBegin, ClearLeave, Wipe, Panel, Crash, machineVars
  <2>2. origin' = Written /\ op.stage # "none"
    BY <2>1 DEF Write, ActFails
  <2> QED
    BY <2>2 DEF Written, TypeOK, Successes, Results
<1> QED
  BY <1>1, HistoryTypeOK, PTL DEF Spec, ZeroIsOfAskedRun

\* The store keeps the log that RecordLog promises: what is confirmed is in it,
\* in order, and only a clear takes anything away.
THEOREM KeepsLog == Spec => LogIsKept
<1>1. Init => Log!Init
  BY DEF Init, Log!Init
<1>2. HInv /\ [Next]_vars => [Log!Next]_<<file.records, saved>>
  <2> SUFFICES ASSUME TypeOK, [Next]_vars, <<file.records, saved>>' # <<file.records, saved>>
               PROVE  Log!Next
    BY DEF HInv
  <2>0. file \in Files
    BY DEF TypeOK, Files
  <2>1. ASSUME NEW r \in Records, NEW ok \in BOOLEAN, Appended(r, ok) PROVE Log!Next
    <3>1. /\ file'.records = Append(file.records, r)
          /\ saved' \in {saved, Append(saved, r)}
      BY <2>0, <2>1, AppendedAdds
    <3>2. file'.records # <<>> /\ file'.records[Len(file'.records)] = r
      BY <2>0, <3>1 DEF Files
    <3> QED
      BY <2>1, <3>1, <3>2 DEF Log!Next, Log!Add, Log!Save, Log!Leave
  <2>2. ASSUME NEW ok \in BOOLEAN, NEW i \in Runs, StartRun(i, ok) PROVE Log!Next
    BY <2>1, <2>2, RecordsWritten DEF StartRun
  <2>3. ASSUME NEW ok \in BOOLEAN, NEW s \in {"success", "failed"}, FinishRun(s, ok)
        PROVE  Log!Next
    <3>1. running \in Runs /\ Measured(running) \in Results
      BY <2>3, MeasuredType DEF FinishRun, TypeOK
    <3>2. PICK r \in Results \cup {NoResult} : Appended(Finish(running, s, r), ok)
      BY <2>3, <3>1 DEF FinishRun
    <3> QED
      BY <2>1, <3>1, <3>2, RecordsWritten
  <2>4. CASE ActFails
    BY <2>1, <2>4, RecordsWritten DEF ActFails, TypeOK
  <2>5. ASSUME NEW ok \in BOOLEAN, Keep(ok) PROVE Log!Next
    BY <2>1, <2>5, RecordsWritten DEF Keep, TypeOK
  <2>6. ASSUME NEW ok \in BOOLEAN, Wipe(ok) PROVE Log!Next
    BY <2>6 DEF Wipe, Log!Next, Log!Clear
  <2> QED
    BY <2>2, <2>3, <2>4, <2>5, <2>6
       DEF Next, Client, Run, Apply, Clear, OpenRead, OpenStore, OpenLeave, Begin, SelectWcs,
           CheckWcs, Write, ClearBegin, ClearLeave, Panel, Crash, vars
<1> QED
  BY <1>1, <1>2, HistoryTypeOK, PTL DEF LogIsKept, Log!Spec, Spec
-----------------------------------------------------------------------------
(* What the history shows of a run.                                        *)

Started(log, i) == \E s \in Starts(log) : log[s].id = i
Reads(log, i, e) == Statuses(log, i) = {e.status} /\ ResultsOf(log, i) = {e.result}

\* Who holds the guard. A run under way has its promise, unless a clear that its
\* client had left came since it began: a clear that still waits holds the guard.
Owned ==
  /\ wiper \in {"none", "owned", "left"}
  /\ running # NoRun => guard = "run" /\ (running \in orphans \/ could[running] # {})
  /\ wiper = "owned" => guard = "clear"
  /\ op.stage # "none" => guard = "apply"

\* Nothing is promised of a run that has not begun, and no record starts it.
Unused == \A i \in Runs : ended[i] = "new" => could[i] = {} /\ ~Started(file.records, i)

\* A promise is kept by the records, whether the file can be read or not.
ShowsRun(i) ==
  (could[i] # {} /\ i \notin orphans) =>
    Started(file.records, i) /\ \E e \in could[i] : Reads(file.records, i, e)
Shows == \A i \in Runs : ShowsRun(i)

ShownInv == HInv /\ Owned /\ Unused /\ Shows

\* The records an entry is folded from, when one more is appended.
LEMMA OfAppended ==
  ASSUME NEW log \in Seq(Records), NEW r \in Records, NEW i \in Runs, NEW event
  PROVE  /\ Of(log, i, event) \subseteq 1..Len(log)
         /\ Of(Append(log, r), i, event) =
              Of(log, i, event) \cup
              {k \in {Len(log) + 1} : r.event = event /\ r.id = i /\ Started(log, i)}
<1> DEFINE more == Append(log, r)
           n == Len(log) + 1
<1>1. /\ DOMAIN log = 1..Len(log) /\ DOMAIN more = 1..n /\ n \in Nat /\ Len(log) \in Nat
      /\ more[n] = r /\ \A k \in 1..Len(log) : more[k] = log[k]
  OBVIOUS
<1> HIDE DEF more
<1>2. \A s \in 1..Len(log) : s \in Starts(more) <=> s \in Starts(log)
  BY <1>1 DEF Starts
<1>3. \A k \in 1..Len(log) : k \in Of(more, i, event) <=> k \in Of(log, i, event)
  <2> SUFFICES ASSUME NEW k \in 1..Len(log)
               PROVE  k \in Of(more, i, event) <=> k \in Of(log, i, event)
    OBVIOUS
  <2>1. \A s \in Starts(more) : s < k => s \in 1..Len(log)
    BY <1>1 DEF Starts
  <2>2. \A s \in Starts(log) : s \in 1..Len(log)
    BY <1>1 DEF Starts
  <2>3. (\E s \in Starts(more) : s < k /\ more[s].id = i)
          <=> (\E s \in Starts(log) : s < k /\ log[s].id = i)
    BY <1>1, <1>2, <2>1, <2>2
  <2> QED
    BY <1>1, <2>3 DEF Of
<1>4. n \in Of(more, i, event) <=> r.event = event /\ r.id = i /\ Started(log, i)
  <2>1. \A s \in Starts(more) : s < n => s \in 1..Len(log)
    BY <1>1 DEF Starts
  <2>2. \A s \in Starts(log) : s \in 1..Len(log) /\ s < n
    BY <1>1 DEF Starts
  <2>3. (\E s \in Starts(more) : s < n /\ more[s].id = i) <=> Started(log, i)
    BY <1>1, <1>2, <2>1, <2>2 DEF Started
  <2> QED
    BY <1>1, <2>3 DEF Of
<1>5. Of(log, i, event) \subseteq 1..Len(log) /\ Of(more, i, event) \subseteq 1..n
  BY <1>1 DEF Of
<1>6. Of(more, i, event) =
        Of(log, i, event) \cup {k \in {n} : r.event = event /\ r.id = i /\ Started(log, i)}
  BY <1>1, <1>3, <1>4, <1>5
<1> QED
  BY <1>5, <1>6 DEF more

\* The last of some records is the one appended, if it is one of them.
LEMMA LastOfAppended ==
  ASSUME NEW n \in Nat, NEW K \in SUBSET (1..n)
  PROVE  Last(K \cup {n + 1}) = {n + 1}
<1> DEFINE L == K \cup {n + 1}
<1>1. n + 1 \in L /\ \A k \in L : k \in Nat /\ k <= n + 1
  <2>1. \A k \in K : k \in 1..n
    OBVIOUS
  <2>2. \A k \in 1..n : k \in Nat /\ k <= n + 1
    OBVIOUS
  <2>3. \A k \in L : k \in 1..n \/ k = n + 1
    BY <2>1
  <2> QED
    BY <2>2, <2>3
<1> HIDE DEF L
<1>2. \A k \in L : (\A j \in L : j <= k) <=> k = n + 1
  BY <1>1
<1>3. {k \in L : \A j \in L : j <= k} = {n + 1}
  BY <1>1, <1>2
<1> QED
  BY <1>3 DEF Last, L

LEMMA StartedAppended ==
  ASSUME NEW log \in Seq(Records), NEW r \in Records, NEW i \in Runs
  PROVE  Started(Append(log, r), i) <=> Started(log, i) \/ (r.event = "start" /\ r.id = i)
<1> DEFINE more == Append(log, r)
           n == Len(log) + 1
<1>1. /\ DOMAIN log = 1..Len(log) /\ DOMAIN more = 1..n /\ n \in Nat /\ Len(log) \in Nat
      /\ more[n] = r /\ \A k \in 1..Len(log) : more[k] = log[k]
  OBVIOUS
<1> HIDE DEF more
<1>2. 1..n = 1..Len(log) \cup {n}
  BY <1>1
<1>3. Started(more, i) <=> Started(log, i) \/ (r.event = "start" /\ r.id = i)
  BY <1>1, <1>2 DEF Started, Starts
<1> QED
  BY <1>3 DEF more

\* A record of another run, or one that says nothing of this run, changes nothing
\* of what the history reads of it.
LEMMA OthersRead ==
  ASSUME NEW log \in Seq(Records), NEW r \in Records, NEW i \in Runs,
         \/ r.id # i \/ ~Started(log, i) \/ r.event = "start"
         \/ r.event = "action" /\ r.result = NoResult
  PROVE  /\ Statuses(Append(log, r), i) = Statuses(log, i)
         /\ ResultsOf(Append(log, r), i) = ResultsOf(log, i)
<1> DEFINE more == Append(log, r)
           n == Len(log) + 1
<1>1. /\ more[n] = r /\ n \notin 1..Len(log) /\ \A k \in 1..Len(log) : more[k] = log[k]
  OBVIOUS
<1>2. /\ \A event : Of(log, i, event) \subseteq 1..Len(log)
      /\ \A event : Of(more, i, event) =
           Of(log, i, event) \cup {k \in {n} : r.event = event /\ r.id = i /\ Started(log, i)}
  BY OfAppended
<1> HIDE DEF more, n
<1>3. Of(more, i, "finish") = Of(log, i, "finish")
  BY <1>2
<1>4. \/ Of(more, i, "action") = Of(log, i, "action")
      \/ Of(more, i, "action") = Of(log, i, "action") \cup {n} /\ r.result = NoResult
  BY <1>2
<1>5. Sets(more, i) = Sets(log, i)
  BY <1>1, <1>2, <1>3, <1>4 DEF Sets
<1>6. Sets(log, i) \subseteq 1..Len(log)
  BY <1>2 DEF Sets
<1>7. \A K \in SUBSET (1..Len(log)) :
        /\ {more[k].status : k \in Last(K)} = {log[k].status : k \in Last(K)}
        /\ {more[k].result : k \in Last(K)} = {log[k].result : k \in Last(K)}
  BY <1>1 DEF Last
<1>8. Statuses(more, i) = Statuses(log, i)
  BY <1>2, <1>3, <1>7 DEF Statuses
<1>9. ResultsOf(more, i) = ResultsOf(log, i)
  BY <1>5, <1>6, <1>7 DEF ResultsOf
<1> QED
  BY <1>8, <1>9 DEF more

\* A run reads as its last finish says.
LEMMA FinishReads ==
  ASSUME NEW log \in Seq(Records), NEW r \in Records, NEW i \in Runs,
         Started(log, i), r.id = i, r.event = "finish"
  PROVE  Reads(Append(log, r), i, r)
<1> DEFINE more == Append(log, r)
           n == Len(log) + 1
<1>1. more[n] = r /\ n = Len(log) + 1 /\ Len(log) \in Nat
  OBVIOUS
<1>2. /\ \A event : Of(log, i, event) \subseteq 1..Len(log)
      /\ \A event : Of(more, i, event) =
           Of(log, i, event) \cup {k \in {n} : r.event = event /\ r.id = i /\ Started(log, i)}
  BY OfAppended
<1> HIDE DEF more, n
<1>3. Of(more, i, "finish") = Of(log, i, "finish") \cup {n}
  BY <1>2
<1>4. Of(more, i, "action") = Of(log, i, "action")
  BY <1>2
<1> DEFINE K == Of(log, i, "finish") \cup {k \in Of(log, i, "action") : more[k].result # NoResult}
<1>5. Sets(more, i) = K \cup {n} /\ K \in SUBSET (1..Len(log))
  BY <1>2, <1>3, <1>4 DEF Sets
<1> HIDE DEF K
<1>6. Last(Sets(more, i)) = {n} /\ Last(Of(more, i, "finish")) = {n}
  BY <1>1, <1>2, <1>3, <1>5, LastOfAppended
<1>7. Statuses(more, i) = {r.status}
  BY <1>1, <1>3, <1>6 DEF Statuses
<1>8. ResultsOf(more, i) = {r.result}
  BY <1>1, <1>5, <1>6 DEF ResultsOf
<1> QED
  BY <1>7, <1>8 DEF more, Reads

\* An action that has a result changes the result and leaves the status.
LEMMA ActionReads ==
  ASSUME NEW log \in Seq(Records), NEW r \in Records, NEW i \in Runs,
         Started(log, i), r.id = i, r.event = "action", r.result # NoResult
  PROVE  /\ Statuses(Append(log, r), i) = Statuses(log, i)
         /\ ResultsOf(Append(log, r), i) = {r.result}
<1> DEFINE more == Append(log, r)
           n == Len(log) + 1
<1>1. /\ more[n] = r /\ n = Len(log) + 1 /\ Len(log) \in Nat
      /\ \A k \in 1..Len(log) : more[k] = log[k]
  OBVIOUS
<1>2. /\ \A event : Of(log, i, event) \subseteq 1..Len(log)
      /\ \A event : Of(more, i, event) =
           Of(log, i, event) \cup {k \in {n} : r.event = event /\ r.id = i /\ Started(log, i)}
  BY OfAppended
<1> HIDE DEF more, n
<1>3. Of(more, i, "finish") = Of(log, i, "finish")
  BY <1>2
<1>4. Of(more, i, "action") = Of(log, i, "action") \cup {n}
  BY <1>2
<1> DEFINE K == Of(log, i, "finish") \cup {k \in Of(log, i, "action") : more[k].result # NoResult}
<1>5. Sets(more, i) = K \cup {n} /\ K \in SUBSET (1..Len(log))
  BY <1>1, <1>2, <1>3, <1>4 DEF Sets
<1> HIDE DEF K
<1>6. Last(Sets(more, i)) = {n}
  BY <1>1, <1>5, LastOfAppended
<1>7. ResultsOf(more, i) = {r.result}
  BY <1>1, <1>5, <1>6 DEF ResultsOf
<1>8. {more[k].status : k \in Last(Of(log, i, "finish"))}
        = {log[k].status : k \in Last(Of(log, i, "finish"))}
  BY <1>1, <1>2 DEF Last
<1>9. Statuses(more, i) = Statuses(log, i)
  BY <1>3, <1>8 DEF Statuses
<1> QED
  BY <1>7, <1>9 DEF more

\* A run that has just started reads as interrupted, with no result.
LEMMA StartReads ==
  ASSUME NEW log \in Seq(Records), NEW i \in Runs, ~Started(log, i)
  PROVE  /\ Statuses(Append(log, Start(i)), i) = {"interrupted"}
         /\ ResultsOf(Append(log, Start(i)), i) = {NoResult}
<1>1. \A event : Of(log, i, event) = {}
  BY DEF Of, Started
<1>2. Statuses(log, i) = {"interrupted"} /\ ResultsOf(log, i) = {NoResult}
  BY <1>1 DEF Statuses, ResultsOf, Sets
<1> QED
  BY <1>2, OthersRead, RecordsWritten DEF Start

\* What the history shows of a run stays as it is when a record that says nothing
\* of that run is appended, or when nothing is.
LEMMA StaysShown ==
  ASSUME TypeOK, NEW i \in Runs, ShowsRun(i), could'[i] = could[i], orphans \subseteq orphans',
         \/ file'.records = file.records
         \/ \E r \in Records :
              /\ file'.records = Append(file.records, r)
              /\ \/ r.id # i \/ r.event = "start"
                 \/ r.event = "action" /\ r.result = NoResult
  PROVE  ShowsRun(i)'
<1>1. file.records \in Seq(Records)
  BY DEF TypeOK
<1>2. /\ Started(file.records, i) => Started(file'.records, i)
      /\ Statuses(file'.records, i) = Statuses(file.records, i)
      /\ ResultsOf(file'.records, i) = ResultsOf(file.records, i)
  <2>1. CASE file'.records = file.records
    BY <2>1
  <2>2. ASSUME NEW r \in Records, file'.records = Append(file.records, r),
               r.id # i \/ r.event = "start" \/ (r.event = "action" /\ r.result = NoResult)
        PROVE  /\ Started(file.records, i) => Started(file'.records, i)
               /\ Statuses(file'.records, i) = Statuses(file.records, i)
               /\ ResultsOf(file'.records, i) = ResultsOf(file.records, i)
    BY <1>1, <2>2, OthersRead, StartedAppended
  <2> QED
    BY <2>1, <2>2
<1>3. \A e : Reads(file.records, i, e) => Reads(file'.records, i, e)
  BY <1>2 DEF Reads
<1> QED
  BY <1>2, <1>3 DEF ShowsRun

\* A run that is not new stays so, and an append of a record that starts no run
\* starts none.
LEMMA StaysUnused ==
  ASSUME TypeOK, NEW i \in Runs, ended[i] = "new" => could[i] = {} /\ ~Started(file.records, i),
         ended'[i] = "new" => ended[i] = "new" /\ could'[i] = {},
         \/ file'.records = file.records
         \/ \E r \in Records :
              /\ file'.records = Append(file.records, r)
              /\ r.id # i \/ r.event # "start"
  PROVE  ended'[i] = "new" => could'[i] = {} /\ ~Started(file'.records, i)
<1>1. file.records \in Seq(Records)
  BY DEF TypeOK
<1>2. Started(file'.records, i) => Started(file.records, i)
  <2>1. ASSUME NEW r \in Records, file'.records = Append(file.records, r),
               r.id # i \/ r.event # "start"
        PROVE  Started(file'.records, i) => Started(file.records, i)
    BY <1>1, <2>1, StartedAppended
  <2> QED
    BY <2>1
<1> QED
  BY <1>2

-----------------------------------------------------------------------------
LEMMA OwnedStep == HInv /\ Owned /\ [Next]_vars => Owned'
<1> SUFFICES ASSUME TypeOK, Successes, Owned, [Next]_vars PROVE Owned'
  BY DEF HInv
<1>1. ASSUME NEW c \in Clients, Client(c) PROVE Owned'
  BY <1>1 DEF Client, OpenRead, OpenStore, OpenLeave, Owned, promiseVars
<1>2. ASSUME NEW ok \in BOOLEAN, NEW i \in Runs, StartRun(i, ok) PROVE Owned'
  <2>1. guard = "none" /\ wiper # "owned" /\ op.stage = "none" /\ running = NoRun
    BY <1>2 DEF StartRun, Owned
  <2>2. UNCHANGED <<wiper, op>>
    BY <1>2 DEF StartRun
  <2>3. CASE ok
    <3>1. could \in [Runs -> SUBSET Shapes]
      BY DEF TypeOK
    <3>2. guard' = "run" /\ running' = i /\ could'[i] # {}
      BY <1>2, <2>3, <3>1 DEF StartRun
    <3> QED
      BY <2>1, <2>2, <3>2 DEF Owned
  <2>4. CASE ~ok
    BY <1>2, <2>1, <2>2, <2>4 DEF StartRun, Owned
  <2> QED
    BY <2>3, <2>4
<1>3. ASSUME NEW ok \in BOOLEAN, NEW s \in {"success", "failed"}, FinishRun(s, ok) PROVE Owned'
  BY <1>3 DEF FinishRun, Owned
<1>4. ASSUME NEW from \in {"opened", "completed"}, NEW i \in Runs,
             NEW kind \in Kinds \cup {"wcs"}, NEW to \in Wcs, Begin(from, i, kind, to)
      PROVE  Owned'
  BY <1>4 DEF Begin, Owned, promiseVars
<1>5. CASE SelectWcs
  BY <1>5 DEF SelectWcs, Owned, TypeOK, promiseVars
<1>6. CASE CheckWcs
  BY <1>6 DEF CheckWcs, Owned, TypeOK, promiseVars
<1>7. CASE Write
  BY <1>7 DEF Write, Owned, TypeOK, promiseVars
<1>8. CASE ActFails
  BY <1>8, NoOpType DEF ActFails, Owned, promiseVars
<1>9. ASSUME NEW ok \in BOOLEAN, Keep(ok) PROVE Owned'
  BY <1>9, NoOpType DEF Keep, Owned
<1>10. CASE ClearBegin
  BY <1>10 DEF ClearBegin, ClearFree, Owned, promiseVars
<1>11. CASE ClearLeave
  BY <1>11 DEF ClearLeave, Owned, promiseVars
<1>12. ASSUME NEW ok \in BOOLEAN, Wipe(ok) PROVE Owned'
  <2>1. running # NoRun => guard = "run" /\ wiper = "left"
    BY <1>12 DEF Wipe, Owned
  <2>2. UNCHANGED <<running, op>> /\ wiper' = "none" /\ (op.stage # "none" => guard' = guard)
    BY <1>12 DEF Wipe, Owned
  <2>3. running # NoRun => running' \in orphans' \/ could'[running'] # {}
    BY <1>12, <2>1 DEF Wipe, Owned
  <2> QED
    BY <1>12, <2>1, <2>2, <2>3 DEF Wipe, Owned
<1>13. CASE Panel
  BY <1>13 DEF Panel, memoryVars, promiseVars, Owned
<1>14. CASE Crash
  BY <1>14, NoOpType DEF Crash, Owned
<1>15. CASE UNCHANGED vars
  BY <1>15 DEF vars, memoryVars, promiseVars, Owned
<1> QED
  BY <1>1, <1>2, <1>3, <1>4, <1>5, <1>6, <1>7, <1>8, <1>9, <1>10, <1>11, <1>12, <1>13,
     <1>14, <1>15, NoOpType DEF Next, Run, Apply, Clear

\* A run begins with its start in the file and reads as interrupted; its finish
\* and its actions set what they say; what else is appended says nothing of it.
LEMMA ShowsStep == ShownInv /\ [Next]_vars => Unused' /\ Shows'
<1> SUFFICES ASSUME TypeOK, Successes, Owned, Unused, Shows, [Next]_vars PROVE Unused' /\ Shows'
  BY DEF ShownInv, HInv
<1>0. file \in Files /\ file.records \in Seq(Records)
  BY DEF TypeOK, Files
<1>a. ASSUME NEW i \in Runs,
             file'.records = file.records, could'[i] = could[i], ended'[i] = "new" => ended[i] = "new",
             orphans \subseteq orphans'
      PROVE  (ended'[i] = "new" => could'[i] = {} /\ ~Started(file'.records, i)) /\ ShowsRun(i)'
  BY <1>a, StaysShown, StaysUnused DEF Unused, Shows
<1>1. CASE UNCHANGED <<file, could, ended, orphans>>
  BY <1>1, <1>a DEF Unused, Shows
<1>2. ASSUME NEW ok \in BOOLEAN, NEW i \in Runs, StartRun(i, ok) PROVE Unused' /\ Shows'
  <2>1. /\ Start(i) \in Records /\ Start(i).id = i /\ Start(i).event = "start"
        /\ ended[i] = "new" /\ could[i] = {} /\ ~Started(file.records, i)
    BY <1>2, RecordsWritten DEF StartRun, Start, Unused
  <2>2. /\ file'.records \in {file.records, Append(file.records, Start(i))}
        /\ ok => file'.records = Append(file.records, Start(i))
    BY <1>0, <1>2, <2>1, AppendedAdds DEF StartRun
  <2>3. ASSUME NEW j \in Runs, j # i
        PROVE  (ended'[j] = "new" => could'[j] = {} /\ ~Started(file'.records, j)) /\ ShowsRun(j)'
    <3>1. could'[j] = could[j] /\ ended'[j] = ended[j] /\ orphans' = orphans
      BY <1>2, <2>3 DEF StartRun, TypeOK
    <3> QED
      BY <2>1, <2>2, <2>3, <3>1, StaysShown, StaysUnused DEF Unused, Shows
  <2>4. ended'[i] # "new"
    BY <1>2 DEF StartRun, TypeOK
  <2>5. ShowsRun(i)'
    <3> DEFINE e == [status |-> "interrupted", result |-> NoResult]
    <3>1. CASE ok
      <4>1. could'[i] = {e} /\ file'.records = Append(file.records, Start(i))
        BY <1>2, <2>2, <3>1 DEF StartRun, TypeOK
      <4>2. Started(file'.records, i)
        BY <1>0, <2>1, <4>1, StartedAppended
      <4>3. Reads(file'.records, i, e)
        BY <1>0, <2>1, <4>1, StartReads DEF Reads
      <4> QED
        BY <4>1, <4>2, <4>3 DEF ShowsRun
    <3>2. CASE ~ok
      BY <1>2, <2>1, <3>2 DEF StartRun, ShowsRun
    <3> QED
      BY <3>1, <3>2
  <2> QED
    BY <2>3, <2>4, <2>5 DEF Unused, Shows
<1>3. ASSUME NEW ok \in BOOLEAN, NEW s \in {"success", "failed"}, FinishRun(s, ok)
      PROVE  Unused' /\ Shows'
  <2>1. /\ running \in Runs /\ Measured(running) \in Results
        /\ ended[running] = "running" /\ (running \in orphans \/ could[running] # {})
    BY <1>3, MeasuredType DEF FinishRun, TypeOK, Successes, Owned
  <2>2. PICK r \in Results \cup {NoResult} :
          /\ Appended(Finish(running, s, r), ok)
          /\ Promise(running, ok, [status |-> s, result |-> r])
    BY <1>3, <2>1 DEF FinishRun
  <2> DEFINE e == [status |-> s, result |-> r]
  <2>3. PICK x \in Records : x = Finish(running, s, r)
    BY <2>1, <2>2, RecordsWritten
  <2>4. x.id = running /\ x.event = "finish" /\ x.status = s /\ x.result = r
    BY <2>3 DEF Finish
  <2>5. /\ file'.records \in {file.records, Append(file.records, x)}
        /\ ok => file'.records = Append(file.records, x)
    BY <1>0, <2>2, <2>3, AppendedAdds
  <2>6. orphans' = orphans /\ ended' = [ended EXCEPT ![running] = s]
    BY <1>3 DEF FinishRun
  <2>7. ASSUME NEW j \in Runs, j # running
        PROVE  (ended'[j] = "new" => could'[j] = {} /\ ~Started(file'.records, j)) /\ ShowsRun(j)'
    <3>1. could'[j] = could[j] /\ ended'[j] = ended[j]
      BY <2>1, <2>2, <2>6, <2>7 DEF Promise, TypeOK
    <3> QED
      BY <2>4, <2>5, <2>6, <2>7, <3>1, StaysShown, StaysUnused DEF Unused, Shows
  <2>8. ASSUME NEW j \in Runs, j = running
        PROVE  ended'[j] # "new" /\ ShowsRun(j)'
    <3>1. ended'[j] # "new"
      BY <2>1, <2>6, <2>8 DEF TypeOK
    <3>2. could'[j] = IF ok THEN {e} ELSE could[j] \cup {e}
      BY <2>1, <2>2, <2>8 DEF Promise, TypeOK
    <3>3. ASSUME j \notin orphans'
          PROVE  Started(file'.records, j) /\ \E d \in could'[j] : Reads(file'.records, j, d)
      <4>1. Started(file.records, j) /\ \E d \in could[j] : Reads(file.records, j, d)
        BY <2>1, <2>6, <2>8, <3>3 DEF Shows, ShowsRun
      <4>2. CASE file'.records = Append(file.records, x)
        <5>1. Reads(file'.records, j, x)
          BY <1>0, <2>4, <2>8, <4>1, <4>2, FinishReads
        <5>2. Reads(file'.records, j, e)
          BY <2>4, <5>1 DEF Reads
        <5>3. Started(file'.records, j)
          BY <1>0, <4>1, <4>2, StartedAppended
        <5> QED
          BY <3>2, <5>2, <5>3
      <4>3. CASE file'.records = file.records /\ ~ok
        BY <3>2, <4>1, <4>3
      <4> QED
        BY <2>5, <4>2, <4>3
    <3> QED
      BY <3>1, <3>3 DEF ShowsRun
  <2> QED
    BY <2>7, <2>8 DEF Unused, Shows
<1>4. CASE ActFails
  <2>1. UNCHANGED <<could, ended, orphans>> /\ op.id \in Runs
    BY <1>4 DEF ActFails, promiseVars, TypeOK
  <2>2. \/ file'.records = file.records
        \/ \E ok \in BOOLEAN : Appended(Action(op.id, NoResult), ok)
    BY <1>4 DEF ActFails
  <2>3. PICK x \in Records : x = Action(op.id, NoResult)
    BY <2>1, RecordsWritten
  <2>4. x.event = "action" /\ x.result = NoResult
    BY <2>3 DEF Action
  <2>5. file'.records \in {file.records, Append(file.records, x)}
    BY <1>0, <2>2, <2>3, AppendedAdds
  <2> QED
    BY <2>1, <2>4, <2>5, StaysShown, StaysUnused DEF Unused, Shows
<1>5. ASSUME NEW ok \in BOOLEAN, Keep(ok) PROVE Unused' /\ Shows'
  <2>1. op.id \in Runs /\ op.copy \in Results /\ ended[op.id] = "success"
    BY <1>5 DEF Keep, TypeOK, Successes
  <2>2. PICK x \in Records : x = Action(op.id, op.copy)
    BY <2>1, RecordsWritten
  <2>3. x.id = op.id /\ x.event = "action" /\ x.result = op.copy /\ x.result # NoResult
    BY <2>1, <2>2, HistoryAssumption DEF Action
  <2>4. /\ file'.records \in {file.records, Append(file.records, x)}
        /\ ok => file'.records = Append(file.records, x)
    BY <1>0, <1>5, <2>2, AppendedAdds DEF Keep
  <2>5. orphans' = orphans /\ ended' = ended
    BY <1>5 DEF Keep
  <2>6. ASSUME NEW j \in Runs, j # op.id
        PROVE  (ended'[j] = "new" => could'[j] = {} /\ ~Started(file'.records, j)) /\ ShowsRun(j)'
    <3>1. could'[j] = could[j]
      BY <1>5, <2>6 DEF Keep, TypeOK
    <3> QED
      BY <2>3, <2>4, <2>5, <2>6, <3>1, StaysShown, StaysUnused DEF Unused, Shows
  <2>7. ASSUME NEW j \in Runs, j = op.id
        PROVE  ended'[j] # "new" /\ ShowsRun(j)'
    <3>1. ended'[j] # "new"
      BY <2>1, <2>5, <2>7
    <3> DEFINE New == {[e EXCEPT !.result = op.copy] : e \in could[j]}
    <3>2. could'[j] = IF ok THEN New ELSE could[j] \cup New
      BY <1>5, <2>7 DEF Keep, TypeOK
    <3>3. ASSUME could'[j] # {}, j \notin orphans'
          PROVE  Started(file'.records, j) /\ \E d \in could'[j] : Reads(file'.records, j, d)
      <4>1. could[j] # {}
        BY <3>2, <3>3
      <4>2. Started(file.records, j)
        BY <2>5, <3>3, <4>1 DEF Shows, ShowsRun
      <4>3. PICK e \in could[j] : Reads(file.records, j, e)
        BY <2>5, <3>3, <4>1 DEF Shows, ShowsRun
      <4>4. CASE file'.records = Append(file.records, x)
        <5> DEFINE d == [e EXCEPT !.result = op.copy]
        <5>1. d \in could'[j]
          BY <3>2
        <5>2. e \in Shapes
          BY DEF TypeOK
        <5>3. d.status = e.status /\ d.result = op.copy
          BY <5>2 DEF Shapes
        <5>4. /\ Statuses(file'.records, j) = Statuses(file.records, j)
              /\ ResultsOf(file'.records, j) = {op.copy}
          BY <1>0, <2>3, <2>7, <4>2, <4>4, ActionReads
        <5> HIDE DEF d
        <5>5. Reads(file'.records, j, d)
          BY <4>3, <5>3, <5>4 DEF Reads
        <5>6. Started(file'.records, j)
          BY <1>0, <4>2, <4>4, StartedAppended
        <5> QED
          BY <5>1, <5>5, <5>6
      <4>5. CASE file'.records = file.records /\ ~ok
        BY <3>2, <4>2, <4>3, <4>5
      <4> QED
        BY <2>4, <4>4, <4>5
    <3> QED
      BY <3>1, <3>3 DEF ShowsRun
  <2> QED
    BY <2>6, <2>7 DEF Unused, Shows
<1>6. ASSUME NEW ok \in BOOLEAN, Wipe(ok) PROVE Unused' /\ Shows'
  <2>1. CASE UNCHANGED <<file, could, orphans>>
    BY <1>1, <1>6, <2>1 DEF Wipe
  <2>2. CASE file'.records = <<>> /\ could' = [i \in Runs |-> {}]
    BY <2>2 DEF Unused, Shows, ShowsRun, Started, Starts
  <2> QED
    BY <1>6, <2>1, <2>2 DEF Wipe
<1>7. CASE Crash
  <2>1. /\ UNCHANGED <<file, could, orphans>>
        /\ \A i \in Runs : ended'[i] = "new" => ended[i] = "new"
    BY <1>7 DEF Crash, TypeOK
  <2> QED
    BY <2>1, <1>a DEF Unused, Shows
<1> QED
  BY <1>1, <1>2, <1>3, <1>4, <1>5, <1>6, <1>7
     DEF Next, Client, Run, Apply, Clear, OpenRead, OpenStore, OpenLeave, Begin, SelectWcs,
         CheckWcs, Write, ClearBegin, ClearLeave, Panel, promiseVars, vars

\* A run that was recorded reads in the history as what was recorded of it, its
\* status and the result the last action left, whatever appends are cut short,
\* fail or follow a restart; runs under which the history was cleared by a client
\* that had left, and files that cannot be read, are excepted.
THEOREM RecordedRunIsShown == Spec => []SavedRunIsShown
<1>1. Init => ShownInv
  <2> SUFFICES ASSUME Init PROVE ShownInv
    OBVIOUS
  <2>1. HInv
    BY InitHInv
  <2> QED
    BY <2>1, NoOpType DEF Init, ShownInv, Owned, Unused, Shows, ShowsRun, Started, Starts
<1>2. ShownInv /\ [Next]_vars => ShownInv'
  BY TypeOKStep, SuccessesStep, OwnedStep, ShowsStep DEF ShownInv, HInv
<1>3. ShownInv => SavedRunIsShown
  BY DEF ShownInv, Shows, ShowsRun, SavedRunIsShown, Started, Reads
<1> QED
  BY <1>1, <1>2, <1>3, PTL DEF Spec
==============================================================================
