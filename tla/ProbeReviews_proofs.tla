-------------------------- MODULE ProbeReviews_proofs --------------------------
(***************************************************************************)
(* Reviews and results as one-shot authorizations, for any number of       *)
(* requests, reviews and connections.                                      *)
(***************************************************************************)
EXTENDS ProbeApp_proofs

(* A request that has taken a review or a result works with its copy.      *)
Users == Results \cup {"run"}
Uses(t) == pc[t] = "working" /\ Kind(t) \in Users

(* What a plan was read on, from the review to the run.                    *)
Fresh ==
  /\ \A s \in Stores : /\ pending[s] = Nothing \/ completed[s] = Nothing
                       /\ pending[s].read = pending[s].session
  /\ \A t \in Tasks :
       /\ pc[t] = "taking" => Kind(t) \in Users
       /\ Kind(t) \in Users => call[t].id \in 1..issued
       /\ pc[t] \in {"reading", "checking"} => epoch[t] <= session
       /\ pc[t] = "checking" =>
            took[t].session = epoch[t] /\ epoch[t] <= took[t].read /\ took[t].read <= session
       /\ pc[t] = "working" /\ Kind(t) = "run" => took[t].read = epoch[t]
       /\ Uses(t) => pending[Store(t)] = Nothing /\ completed[Store(t)] = Nothing

(* An id is at one place at a time, and a result remembers its motions.    *)
Ids(s) == {pending[s].id, completed[s].id} \ {0}
Remembers(e, k) ==
  /\ "return" \in begun[e.id] /\ k # "return" => e.returned
  /\ "measured" \in begun[e.id] /\ k # "measured" => e.positioned
Once ==
  /\ \A i \in 1..MaxReviews : i > issued => begun[i] = {}
  /\ \A s \in Stores :
       /\ pending[s].id <= issued /\ completed[s].id <= issued
       /\ pending[s].id # 0 => begun[pending[s].id] = {}
       /\ completed[s].id # 0 => Remembers(completed[s], "none")
       /\ \A r \in Stores : r # s => Ids(r) \cap Ids(s) = {}
  /\ \A t \in Tasks : Uses(t) =>
       /\ took[t].id = call[t].id
       /\ \A s \in Stores : took[t].id \notin Ids(s)
       /\ Kind(t) = "run" => begun[took[t].id] = {"run"}
       /\ Remembers(took[t], Kind(t))

-----------------------------------------------------------------------------
(* What a plan was read on.                                                *)

\* A request that is over.
LEMMA FreshLeaving ==
  ASSUME TypeOK, Fresh, NEW t \in Tasks, Leave(t),
         UNCHANGED <<pending, completed, issued, session>>
  PROVE  Fresh'
BY DEF Fresh, TypeOK, Uses, Users, Kind, Store, Leave, Go, NoCall, Results

\* A request that goes on to where it neither reads nor uses a plan.
LEMMA FreshPassing ==
  ASSUME TypeOK, Fresh, NEW t \in Tasks, NEW where,
         where \notin {"reading", "checking", "taking", "working"}, Go(t, where),
         UNCHANGED <<pending, completed, issued, session, call, epoch, took>>
  PROVE  Fresh'
BY DEF Fresh, TypeOK, Uses, Kind, Store, Go

\* The stores are empty while their review or result is being used.
LEMMA Alone ==
  ASSUME IInv, NEW t \in Tasks, pc[t] \in Held, NEW u \in Tasks, u # t
  PROVE  pc[u] \notin Held
BY DEF IInv, Guarded

\* A run works by a plan of the connection it was accepted on.
LEMMA FreshKept == ASSUME IInv, Fresh, [Next]_vars PROVE Fresh'
<1>0. TypeOK /\ Paths /\ Guarded
  BY DEF IInv
<1>1. ASSUME NEW t \in Tasks, NEW k \in Kinds, NEW s \in Stores \cup {"none"},
             NEW i \in 0..issued, Request(t, k, s, i)
      PROVE  Fresh'
  BY <1>0, <1>1 DEF Request, Fresh, TypeOK, Uses, Users, Kind, Store, Go, machineVars, storeVars
<1>2. ASSUME NEW t \in Tasks, Acquire(t) PROVE Fresh'
  <2>1. UNCHANGED <<pending, completed, issued, session>>
    BY <1>2 DEF Acquire, storeVars, machineVars
  <2>2. CASE Leave(t)
    BY <1>0, <2>1, <2>2, FreshLeaving
  <2>3. CASE ~Leave(t)
    BY <1>0, <1>2, <2>1, <2>3 DEF Acquire, Fresh, TypeOK, Uses, Users, Results, Kind, Store, Go
  <2>. QED BY <2>2, <2>3
<1>3. ASSUME NEW t \in Tasks, ReadSession(t) PROVE Fresh'
  <2>1. Kind(t) \in Users \cup {"review"}
    BY <1>0, <1>3 DEF ReadSession, Paths, TypeOK, Calls, Kind, AllKinds, Streams, Users, Results
  <2>2. pc[t] = "holding" /\ session \in Nat /\ UNCHANGED <<pending, completed, issued, call, took, session>>
    BY <1>0, <1>3 DEF ReadSession, storeVars, machineVars, TypeOK
  <2>. QED BY <1>0, <1>3, <2>1, <2>2 DEF ReadSession, Fresh, TypeOK, Uses, Kind, Store, Go
<1>4. ASSUME NEW t \in Tasks, ReadMachine(t) PROVE Fresh'
  <2>1. /\ pc[t] = "reading" /\ session \in Nat /\ epoch[t] \in Nat
        /\ UNCHANGED <<pending, completed, issued, call, epoch, session>>
    BY <1>0, <1>4 DEF ReadMachine, storeVars, machineVars, TypeOK
  <2>2. took'[t].session = epoch[t] /\ took'[t].read = session
    BY <1>0, <1>4 DEF ReadMachine, TypeOK, Nothing
  <2>. QED BY <1>0, <1>4, <2>1, <2>2 DEF ReadMachine, Fresh, TypeOK, Uses, Kind, Store, Go
<1>5. ASSUME NEW t \in Tasks, Review(t) PROVE Fresh'
  <2>1. /\ pc[t] = "checking" /\ session = epoch[t] /\ issued' = issued + 1
        /\ Leave(t) /\ UNCHANGED session
    BY <1>5 DEF Review, SameSession, machineVars
  <2>2. took[t].session = epoch[t] /\ took[t].read = epoch[t]
    <3>1. epoch[t] <= took[t].read /\ took[t].read <= session /\ took[t].session = epoch[t]
      BY <2>1 DEF Fresh
    <3>2. epoch[t] \in Nat /\ took[t].read \in Nat
      BY <1>0 DEF TypeOK, Entries
    <3>. QED BY <2>1, <3>1, <3>2
  <2>3. ASSUME NEW s \in Stores
        PROVE  /\ pending'[s] = Nothing \/ completed'[s] = Nothing
               /\ pending'[s].read = pending'[s].session
    <3>1. CASE s = Store(t)
      BY <1>0, <1>5, <2>2, <3>1 DEF Review, Put, TypeOK, Entries
    <3>2. CASE s # Store(t)
      BY <1>0, <1>5, <3>2 DEF Review, Put, TypeOK, Fresh
    <3>. QED BY <3>1, <3>2
  <2>4. \A u \in Tasks : u # t => ~Uses(u) /\ pc'[u] = pc[u] /\ pc[u] \notin Held
    BY <1>0, <2>1, Alone DEF Leave, Go, TypeOK, Uses, Held
  <2>5. \A u \in Tasks : Kind(u)' \in Users => call'[u].id \in 1..issued'
    BY <1>0, <2>1 DEF Leave, TypeOK, Kind, Fresh, NoCall, Users, Results
  <2>6. pc'[t] = "idle"
    BY <1>0, <2>1 DEF Leave, Go, TypeOK
  <2>. QED BY <2>3, <2>4, <2>5, <2>6 DEF Fresh, Uses, Held
<1>6. ASSUME NEW t \in Tasks, Take(t) PROVE Fresh'
  <2>1. /\ pc[t] = "taking" /\ Kind(t) \in Users /\ Store(t) \in Stores
        /\ UNCHANGED <<issued, call, epoch, session>>
    BY <1>0, <1>6 DEF Take, Fresh, Paths, Users, Results, machineVars
  <2>2. Source(t).id = call[t].id /\ Source(t).session = epoch[t] /\ call[t].id # 0
    BY <1>0, <1>6, <2>1 DEF Take, Matches, Fresh, TypeOK
  <2>3. Source(t) # Nothing
    BY <2>2 DEF Nothing
  <2>4. pending'[Store(t)] = Nothing /\ completed'[Store(t)] = Nothing
    BY <1>0, <1>6, <2>1, <2>3 DEF Take, Removed, Source, Fresh, TypeOK
  <2>5. \A s \in Stores : s # Store(t) => pending'[s] = pending[s] /\ completed'[s] = completed[s]
    BY <1>0, <1>6 DEF Take, Removed, TypeOK
  <2>6. Kind(t) = "run" => took'[t].read = epoch[t]
    BY <1>0, <1>6, <2>1, <2>2 DEF Take, Source, Fresh, TypeOK
  <2>7. \A u \in Tasks : u # t => pc'[u] = pc[u] /\ pc[u] \notin Held
    BY <1>0, <1>6, Alone DEF Take, Go, TypeOK, Held
  <2>8. pc'[t] = "working"
    BY <1>0, <1>6 DEF Take, Go, TypeOK
  <2>9. \A s \in Stores : /\ pending'[s] = Nothing \/ completed'[s] = Nothing
                          /\ pending'[s].read = pending'[s].session
    BY <2>4, <2>5 DEF Fresh, Nothing
  <2>. QED BY <2>1, <2>4, <2>6, <2>7, <2>8, <2>9 DEF Fresh, Uses, Held, Kind, Store
<1>7. ASSUME NEW t \in Tasks, TakeInVain(t) PROVE Fresh'
  <2>1. \A u \in Tasks : u # t => pc'[u] = pc[u] /\ pc[u] \notin Held
    BY <1>0, <1>7, Alone DEF TakeInVain, Leave, Go, TypeOK, Held
  <2>2. pc'[t] = "idle" /\ UNCHANGED <<issued, session>>
    BY <1>0, <1>7 DEF TakeInVain, Leave, Go, TypeOK, machineVars
  <2>3. \A u \in Tasks : Kind(u)' \in Users => call'[u].id \in 1..issued'
    BY <1>0, <1>7, <2>2 DEF TakeInVain, Leave, TypeOK, Kind, Fresh, NoCall, Users, Results
  <2>4. \A s \in Stores : /\ pending'[s] = Nothing \/ completed'[s] = Nothing
                          /\ pending'[s].read = pending'[s].session
    <3>1. UNCHANGED completed /\ pending' = [pending EXCEPT ![Store(t)] = Nothing]
      BY <1>7 DEF TakeInVain, Removed
    <3>. QED BY <1>0, <3>1 DEF Fresh, TypeOK, Nothing
  <2>. QED BY <2>1, <2>2, <2>3, <2>4 DEF Fresh, Uses, Held
<1>8. ASSUME NEW t \in Tasks, StartRepeat(t) PROVE Fresh'
  <2>1. Kind(t) = "repeat" /\ UNCHANGED <<pending, completed, issued, call, epoch, took, session>>
    BY <1>0, <1>8 DEF StartRepeat, Paths, storeVars, machineVars
  <2>. QED BY <1>0, <1>8, <2>1 DEF StartRepeat, Fresh, TypeOK, Uses, Users, Results, Kind, Store, Go
<1>9. ASSUME NEW t \in Tasks, Succeed(t) \/ FailAtRest(t) \/ Fail(t) PROVE Fresh'
  <2>1. /\ pc[t] = "working" /\ UNCHANGED <<pending, issued, session>>
        /\ completed' # completed => Uses(t)
        /\ \A s \in Stores : s # Store(t) => completed'[s] = completed[s]
    BY <1>0, <1>9
    DEF Succeed, FailAtRest, Fail, Finish, Uses, Users, Results, machineVars, TypeOK
  <2>2. Leave(t) \/ (pc'[t] \in {"ending", "failed"} /\ UNCHANGED <<call, epoch, took>>)
    BY <1>0, <1>9 DEF Succeed, FailAtRest, Fail, Settled, Go, TypeOK
  <2>3. \A u \in Tasks : u # t => pc'[u] = pc[u] /\ pc[u] \notin Held
    BY <1>0, <1>9, <2>1, Alone DEF Succeed, FailAtRest, Fail, Settled, Leave, Go, TypeOK, Held
  <2>4. pc'[t] \notin {"reading", "checking", "taking", "working"}
    BY <1>0, <2>2 DEF Leave, Go, TypeOK
  <2>5. \A u \in Tasks : Kind(u)' \in Users => call'[u].id \in 1..issued'
    <3>1. CASE Leave(t)
      BY <1>0, <2>1, <3>1 DEF Leave, TypeOK, Kind, Fresh, NoCall, Users, Results
    <3>2. CASE UNCHANGED call
      BY <2>1, <3>2 DEF Kind, Fresh
    <3>. QED BY <2>2, <3>1, <3>2
  <2>6. \A s \in Stores : pending'[s] = Nothing \/ completed'[s] = Nothing
    BY <2>1 DEF Fresh
  <2>. QED BY <2>1, <2>3, <2>4, <2>5, <2>6 DEF Fresh, Uses, Held
<1>10. ASSUME NEW t \in Tasks,
              \/ Decline(t) \/ TakeNothing(t) \/ Release(t) \/ Forget(t)
       PROVE  Fresh'
  <2>1. /\ UNCHANGED <<pending, completed, issued, session>>
        /\ Leave(t) \/ (Go(t, "done") /\ UNCHANGED <<call, epoch, took>>)
    BY <1>10 DEF Decline, TakeNothing, Release, Forget, Refuse, storeVars, machineVars
  <2>2. CASE Leave(t)
    BY <1>0, <2>1, <2>2, FreshLeaving
  <2>3. CASE Go(t, "done") /\ UNCHANGED <<call, epoch, took>>
    BY <1>0, <2>1, <2>3, FreshPassing
  <2>. QED BY <2>1, <2>2, <2>3
<1>11. ASSUME NEW t \in Tasks, Recovery(t) \/ End(t) \/ Report(t) PROVE Fresh'
  <2>1. PICK where \in {"stopping", "waiting", "ending", "releasing", "reporting"} :
          /\ Go(t, where)
          /\ UNCHANGED <<pending, completed, issued, session, call, epoch, took>>
    BY <1>11
    DEF Recovery, LookForAlarm, StopSucceeds, StopFails, RetryStop, StopWaiting, GivesUp,
        Recovered, RecoverStep, End, Report, storeVars, machineVars
  <2>. QED BY <1>0, <2>1, FreshPassing
<1>12. ASSUME UNCHANGED <<pending, completed, issued, pc, call, epoch, took>>,
              session' \in Nat, session <= session'
       PROVE  Fresh'
  <2>1. /\ \A t \in Tasks : epoch[t] \in Nat /\ took[t].read \in Nat
        /\ session \in Nat
    BY <1>0 DEF TypeOK, Entries
  <2>2. \A t \in Tasks : /\ epoch[t] <= session => epoch[t] <= session'
                         /\ took[t].read <= session => took[t].read <= session'
    BY <1>12, <2>1
  <2>. QED BY <1>12, <2>2 DEF Fresh, Uses, Kind, Store
<1>13. ASSUME NEW t \in Tasks,
              \/ Move(t) \/ Progress(t) \/ Receive(t) \/ CancelOperation(t)
              \/ DropOperation(t) \/ StopRepeat(t)
       PROVE  Fresh'
  <2>1. UNCHANGED <<pending, completed, issued, pc, call, epoch, took, session>>
    BY <1>13
    DEF Move, Progress, Receive, CancelOperation, DropOperation, StopRepeat,
        storeVars, taskVars, machineVars
  <2>. QED BY <1>0, <1>12, <2>1 DEF TypeOK
<1>14. CASE Shutdown \/ Machine \/ UNCHANGED vars
  <2>1. /\ UNCHANGED <<pending, completed, issued, pc, call, epoch, took>>
        /\ session' \in {session, session + 1}
    BY <1>14
    DEF Shutdown, Cancel, Lock, CloseDevice, Machine, MachineRests, Alarm, AlarmCleared,
        Reconnect, Environment, vars, storeVars, taskVars, machineVars
  <2>. QED BY <1>0, <1>12, <2>1 DEF TypeOK
<1>. QED
  BY <1>1, <1>2, <1>3, <1>4, <1>5, <1>6, <1>7, <1>8, <1>9, <1>10, <1>11, <1>13, <1>14
  DEF Next, Begin, Work, Client

-----------------------------------------------------------------------------
(* Each authorization is used once.                                        *)

\* Steps that leave the stores alone and begin no use of a plan.
LEMMA OncePassing ==
  ASSUME TypeOK, Once, UNCHANGED <<pending, completed, issued, begun>>,
         \A u \in Tasks : Uses(u)' =>
           Uses(u) /\ Kind(u)' = Kind(u) /\ UNCHANGED <<call[u].id, took[u]>>
  PROVE  Once'
<1>1. ASSUME NEW s \in Stores
      PROVE  /\ Ids(s)' = Ids(s)
             /\ Remembers(completed[s], "none")' <=> Remembers(completed[s], "none")
  BY DEF Ids, Remembers
<1>2. ASSUME NEW u \in Tasks, Uses(u)'
      PROVE  /\ took'[u].id = call'[u].id
             /\ \A s \in Stores : took'[u].id \notin Ids(s)'
             /\ Kind(u)' = "run" => begun'[took'[u].id] = {"run"}
             /\ Remembers(took[u], Kind(u))'
  <2>1. Uses(u) /\ Kind(u)' = Kind(u) /\ UNCHANGED <<call[u].id, took[u]>>
    BY <1>2
  <2>2. Remembers(took[u], Kind(u))' <=> Remembers(took[u], Kind(u))
    BY <2>1 DEF Remembers
  <2>. QED BY <1>1, <2>1, <2>2 DEF Once
<1>. QED BY <1>1, <1>2 DEF Once

\* A step of a request that did not use a plan and does not start to.
LEMMA OnceElsewhere ==
  ASSUME TypeOK, Once, NEW t \in Tasks, NEW where, Go(t, where),
         UNCHANGED <<pending, completed, issued, begun>>,
         \A u \in Tasks : u # t => call'[u] = call[u] /\ took'[u] = took[u],
         ~Uses(t)'
  PROVE  Once'
<1>. SUFFICES ASSUME NEW u \in Tasks, Uses(u)'
              PROVE  Uses(u) /\ Kind(u)' = Kind(u) /\ UNCHANGED <<call[u].id, took[u]>>
  BY OncePassing
<1>1. u # t /\ pc'[u] = pc[u] /\ call'[u] = call[u] /\ took'[u] = took[u]
  BY DEF Go, TypeOK
<1>. QED BY <1>1 DEF Uses, Kind

\* A result, new or put back, goes to the empty store it was taken from.
LEMMA OncePut ==
  ASSUME TypeOK, Once, NEW t \in Tasks, NEW result \in Entries, Uses(t),
         Store(t) \in Stores, Finish(Store(t), result), result.id = took[t].id,
         call[t].id \in 1..issued, Remembers(result, "none"),
         UNCHANGED <<pending, issued, begun>>, \A u \in Tasks : ~Uses(u)'
  PROVE  Once'
<1>1. /\ completed'[Store(t)] = result
      /\ \A s \in Stores : s # Store(t) => completed'[s] = completed[s]
  BY DEF Finish, TypeOK
<1>2. result.id <= issued
  BY DEF Once, TypeOK
<1>3. \A s \in Stores : result.id \notin Ids(s)
  BY DEF Once
<1>4. ASSUME NEW s \in Stores
      PROVE  /\ completed'[s].id <= issued'
             /\ completed'[s].id # 0 => Remembers(completed[s], "none")'
  <2>1. CASE s = Store(t)
    BY <1>1, <1>2, <2>1 DEF Remembers
  <2>2. CASE s # Store(t)
    BY <1>1, <2>2 DEF Once, Remembers
  <2>. QED BY <2>1, <2>2
<1>5. ASSUME NEW r \in Stores, NEW s \in Stores, r # s PROVE Ids(r)' \cap Ids(s)' = {}
  BY <1>1, <1>3, <1>5 DEF Once, Ids
<1>. QED BY <1>4, <1>5 DEF Once

\* Nobody else uses a plan next to a request that holds the guard.
LEMMA NoOtherUse ==
  ASSUME IInv, NEW t \in Tasks, pc[t] \in Held, NEW where, Go(t, where), NEW u \in Tasks, u # t
  PROVE  ~Uses(u) /\ ~Uses(u)'
<1>1. pc[u] \notin Held /\ pc'[u] = pc[u]
  BY Alone DEF IInv, TypeOK, Go
<1>. QED BY <1>1 DEF Uses, Held

\* A review or a result is never at two places.
LEMMA OnceKept == ASSUME IInv, Fresh, Once, [Next]_vars PROVE Once'
<1>0. TypeOK /\ Paths /\ Guarded
  BY DEF IInv
<1>1. ASSUME NEW t \in Tasks, Leave(t), UNCHANGED <<pending, completed, issued, begun>>
      PROVE  Once'
  <2>1. /\ Go(t, "idle") /\ ~Uses(t)'
        /\ \A u \in Tasks : u # t => call'[u] = call[u] /\ took'[u] = took[u]
    BY <1>0, <1>1 DEF Leave, Go, TypeOK, Uses
  <2>. QED BY <1>0, <1>1, <2>1, OnceElsewhere
<1>2. ASSUME NEW t \in Tasks, NEW where, Go(t, where),
             where # "working" \/ Kind(t) \notin Users,
             UNCHANGED <<pending, completed, issued, begun, call, took>>
      PROVE  Once'
  <2>1. ~Uses(t)'
    BY <1>0, <1>2 DEF Go, TypeOK, Uses, Kind
  <2>. QED BY <1>0, <1>2, <2>1, OnceElsewhere
<1>3. ASSUME UNCHANGED <<pending, completed, issued, begun, pc, call, took>> PROVE Once'
  BY <1>0, <1>3, OncePassing DEF Uses, Kind
<1>4. ASSUME NEW t \in Tasks, NEW k \in Kinds, NEW s \in Stores \cup {"none"},
             NEW i \in 0..issued, Request(t, k, s, i)
      PROVE  Once'
  <2>1. /\ Go(t, "entering") /\ ~Uses(t)'
        /\ UNCHANGED <<pending, completed, issued, begun, took>>
        /\ \A u \in Tasks : u # t => call'[u] = call[u]
    BY <1>0, <1>4 DEF Request, Go, TypeOK, Uses, storeVars
  <2>. QED BY <1>0, <2>1, OnceElsewhere
<1>5. ASSUME NEW t \in Tasks, Acquire(t) PROVE Once'
  <2>1. \/ Leave(t)
        \/ /\ UNCHANGED <<call, took>>
           /\ Go(t, "starting") \/ Go(t, "holding") \/ (Go(t, "working") /\ Kind(t) = "other")
    BY <1>5 DEF Acquire
  <2>2. UNCHANGED <<pending, completed, issued, begun>>
    BY <1>5 DEF Acquire, storeVars
  <2>. QED BY <1>1, <1>2, <2>1, <2>2 DEF Users, Results
<1>6. ASSUME NEW t \in Tasks, ReadSession(t) PROVE Once'
  <2>1. /\ Go(t, "reading") \/ Go(t, "taking")
        /\ UNCHANGED <<pending, completed, issued, begun, call, took>>
    BY <1>6 DEF ReadSession, storeVars
  <2>. QED BY <1>2, <2>1
<1>7. ASSUME NEW t \in Tasks, ReadMachine(t) PROVE Once'
  <2>1. /\ Go(t, "checking") /\ ~Uses(t)'
        /\ UNCHANGED <<pending, completed, issued, begun, call>>
        /\ \A u \in Tasks : u # t => took'[u] = took[u]
    BY <1>0, <1>7 DEF ReadMachine, Go, TypeOK, Uses, storeVars
  <2>. QED BY <1>0, <2>1, OnceElsewhere
<1>8. ASSUME NEW t \in Tasks, Review(t) PROVE Once'
  <2>1. /\ Go(t, "idle") /\ pc[t] \in Held /\ issued' = issued + 1 /\ issued + 1 \in 1..MaxReviews
        /\ UNCHANGED begun /\ issued \in Nat
        /\ Store(t) \in Stores /\ Put(Store(t), [took[t] EXCEPT !.id = issued + 1])
    BY <1>0, <1>8, AppAssumption DEF Review, Leave, Held, TypeOK, Paths
  <2>2. \A u \in Tasks : ~Uses(u)'
    <3>1. ~Uses(t)'
      BY <1>0, <2>1 DEF Uses, Go, TypeOK
    <3>. QED BY <2>1, <3>1, NoOtherUse
  <2>3. /\ pending'[Store(t)].id = issued + 1 /\ completed'[Store(t)].id = 0
        /\ \A s \in Stores : s # Store(t) =>
             pending'[s] = pending[s] /\ completed'[s] = completed[s]
    BY <1>0, <2>1 DEF Put, TypeOK, Nothing, Entries
  <2>4. \A s \in Stores : /\ pending[s].id \in Nat /\ completed[s].id \in Nat
                          /\ pending[s].id <= issued /\ completed[s].id <= issued
    BY <1>0 DEF Once, TypeOK, Entries
  <2>5. begun[issued + 1] = {} /\ \A i \in 1..MaxReviews : i > issued' => begun'[i] = {}
    BY <2>1, AppAssumption DEF Once
  <2>6. ASSUME NEW s \in Stores
        PROVE  /\ pending'[s].id <= issued' /\ completed'[s].id <= issued'
               /\ pending'[s].id # 0 => begun'[pending'[s].id] = {}
               /\ completed'[s].id # 0 => Remembers(completed[s], "none")'
    <3>1. CASE s = Store(t)
      BY <2>1, <2>3, <2>5, <3>1
    <3>2. CASE s # Store(t)
      <4>1. /\ pending[s].id # 0 => begun[pending[s].id] = {}
            /\ completed[s].id # 0 => Remembers(completed[s], "none")
        BY DEF Once
      <4>2. pending'[s] = pending[s] /\ completed'[s] = completed[s] /\ begun' = begun
        BY <2>1, <2>3, <3>2
      <4>3. pending[s].id <= issued + 1 /\ completed[s].id <= issued + 1
        BY <2>1, <2>4
      <4>. QED BY <2>1, <4>1, <4>2, <4>3 DEF Remembers
    <3>. QED BY <3>1, <3>2
  <2>7. ASSUME NEW r \in Stores, NEW s \in Stores, r # s PROVE Ids(r)' \cap Ids(s)' = {}
    <3>1. \A q \in Stores : issued + 1 \notin Ids(q)
      BY <2>1, <2>4 DEF Ids
    <3>2. Ids(r) \cap Ids(s) = {}
      BY <2>7 DEF Once
    <3>3. \A q \in Stores : Ids(q)' = IF q = Store(t) THEN {issued + 1} ELSE Ids(q)
      BY <2>1, <2>3 DEF Ids
    <3>. QED BY <2>7, <3>1, <3>2, <3>3
  <2>. QED BY <2>2, <2>5, <2>6, <2>7 DEF Once
<1>9. ASSUME NEW t \in Tasks, Take(t) PROVE Once'
  <2>. DEFINE i == call[t].id
  <2>1. /\ pc[t] = "taking" /\ Kind(t) \in Users /\ Store(t) \in Stores
        /\ i \in 1..issued /\ i \in 1..MaxReviews /\ i # 0 /\ pc[t] \in Held /\ Go(t, "working")
        /\ UNCHANGED <<issued, call>> /\ took'[t] = Source(t) /\ Source(t).id = i
    BY <1>0, <1>9, AppAssumption
    DEF Take, Fresh, Paths, Users, Results, Held, TypeOK, Matches
  <2>2. /\ \A j \in 1..MaxReviews : j # i => begun'[j] = begun[j]
        /\ begun'[i] = begun[i] \cup {Kind(t)}
    BY <1>0, <1>9, <2>1 DEF Take, TypeOK
  <2>3. Source(t) # Nothing
    BY <2>1 DEF Nothing
  <2>4. pending'[Store(t)] = Nothing /\ completed'[Store(t)] = Nothing
    BY <1>0, <1>9, <2>1, <2>3 DEF Take, Removed, Source, Fresh, TypeOK
  <2>5. \A s \in Stores : s # Store(t) => pending'[s] = pending[s] /\ completed'[s] = completed[s]
    BY <1>0, <1>9 DEF Take, Removed, TypeOK
  <2>6. i \in Ids(Store(t))
    BY <2>1 DEF Source, Ids
  <2>7. \A s \in Stores : i \notin Ids(s)' /\ Ids(s)' \subseteq Ids(s)
    <3>1. ASSUME NEW s \in Stores, s # Store(t) PROVE i \notin Ids(s) /\ Ids(s)' = Ids(s)
      BY <2>1, <2>5, <2>6, <3>1 DEF Once, Ids
    <3>2. \A s \in Stores : s = Store(t) => Ids(s)' = {}
      BY <2>4 DEF Ids, Nothing
    <3>. QED BY <3>1, <3>2
  <2>8. \A s \in Stores :
          /\ pending[s].id \in Nat /\ completed[s].id \in Nat
          /\ pending[s].id <= issued /\ completed[s].id <= issued /\ issued <= MaxReviews
          /\ MaxReviews \in Nat /\ issued \in Nat
    BY <1>0, AppAssumption DEF Once, TypeOK, Entries
  <2>9. ASSUME NEW s \in Stores
        PROVE  /\ pending'[s].id <= issued' /\ completed'[s].id <= issued'
               /\ pending'[s].id # 0 => begun'[pending'[s].id] = {}
               /\ completed'[s].id # 0 => Remembers(completed[s], "none")'
    <3>1. CASE s = Store(t)
      BY <2>1, <2>4, <2>8, <3>1 DEF Nothing
    <3>2. CASE s # Store(t)
      <4>1. pending'[s] = pending[s] /\ completed'[s] = completed[s]
        BY <2>5, <3>2
      <4>2. pending[s].id # 0 => pending[s].id \in 1..MaxReviews /\ pending[s].id # i
        BY <2>7, <2>8, <4>1 DEF Ids
      <4>3. completed[s].id # 0 => completed[s].id \in 1..MaxReviews /\ completed[s].id # i
        BY <2>7, <2>8, <4>1 DEF Ids
      <4>. QED BY <2>1, <2>2, <2>8, <4>1, <4>2, <4>3 DEF Once, Remembers
    <3>. QED BY <3>1, <3>2
  <2>10. \A r, s \in Stores : r # s => Ids(r)' \cap Ids(s)' = {}
    BY <2>7 DEF Once
  <2>11. \A j \in 1..MaxReviews : j > issued' => begun'[j] = {}
    BY <2>1, <2>2, <2>8 DEF Once
  <2>12. Kind(t) = "run" => begun'[i] = {"run"}
    BY <2>1, <2>2 DEF Source, Once
  <2>13. Remembers(took[t], Kind(t))'
    <3>1. CASE Kind(t) = "run"
      BY <2>1, <2>12, <3>1 DEF Remembers
    <3>2. CASE Kind(t) # "run"
      BY <2>1, <2>2, <3>2 DEF Source, Once, Remembers, Kind
    <3>. QED BY <3>1, <3>2
  <2>14. /\ took'[t].id = call'[t].id
         /\ \A s \in Stores : took'[t].id \notin Ids(s)'
         /\ Kind(t)' = "run" => begun'[took'[t].id] = {"run"}
    BY <2>1, <2>7, <2>12 DEF Kind
  <2>15. \A u \in Tasks : u # t => ~Uses(u)'
    BY <2>1, NoOtherUse
  <2>. QED BY <2>9, <2>10, <2>11, <2>13, <2>14, <2>15 DEF Once
<1>10. ASSUME NEW t \in Tasks, TakeInVain(t) PROVE Once'
  <2>1. /\ Go(t, "idle") /\ pc[t] \in Held /\ UNCHANGED <<issued, begun, completed>>
        /\ pending' = [pending EXCEPT ![Store(t)] = Nothing]
    BY <1>10 DEF TakeInVain, Leave, Removed, Held
  <2>2. \A u \in Tasks : ~Uses(u)'
    <3>1. ~Uses(t)'
      BY <1>0, <2>1 DEF Uses, Go, TypeOK
    <3>. QED BY <2>1, <3>1, NoOtherUse
  <2>3. \A s \in Stores : pending'[s] = pending[s] \/ pending'[s].id = 0
    BY <1>0, <2>1 DEF TypeOK, Nothing
  <2>4. \A s \in Stores : Ids(s)' \subseteq Ids(s)
    BY <2>1, <2>3 DEF Ids
  <2>5. 0 <= issued
    BY <1>0, AppAssumption DEF TypeOK
  <2>6. \A r, s \in Stores : r # s => Ids(r)' \cap Ids(s)' = {}
    BY <2>4 DEF Once
  <2>. QED BY <2>1, <2>2, <2>3, <2>5, <2>6 DEF Once, Remembers
<1>11. ASSUME NEW t \in Tasks, StartRepeat(t) PROVE Once'
  <2>1. /\ Kind(t) = "repeat" /\ Go(t, "working")
        /\ UNCHANGED <<pending, completed, issued, begun, call, took>>
    BY <1>0, <1>11 DEF StartRepeat, Paths, storeVars
  <2>. QED BY <1>2, <2>1 DEF Users, Results
<1>12. ASSUME NEW t \in Tasks, Succeed(t) \/ FailAtRest(t) \/ Fail(t) PROVE Once'
  <2>1. /\ pc[t] = "working" /\ pc[t] \in Held /\ UNCHANGED <<pending, issued, begun>>
        /\ \/ Leave(t)
           \/ (Go(t, "ending") \/ Go(t, "failed")) /\ UNCHANGED <<call, took>>
    BY <1>12 DEF Succeed, FailAtRest, Fail, Settled, Held
  <2>2. \/ UNCHANGED completed
        \/ /\ Uses(t)
           /\ \E result \in Outcomes(t) : Finish(Store(t), result)
    BY <1>12, <2>1 DEF Succeed, FailAtRest, Fail, Outcomes, Uses, Users, Results
  <2>3. CASE UNCHANGED completed
    BY <1>1, <1>2, <2>1, <2>3
  <2>4. ASSUME Uses(t), NEW result \in Outcomes(t), Finish(Store(t), result) PROVE Once'
    <3>1. took[t] \in Entries /\ Kind(t) \in Users /\ Store(t) \in Stores /\ call[t].id \in 1..issued
      BY <1>0, <2>4 DEF Uses, Users, Results, Paths, Fresh, TypeOK
    <3>2. /\ result.id = took[t].id /\ result \in Entries
          /\ result.returned = took[t].returned \/ Kind(t) \in {"run", "return"}
          /\ result.positioned = took[t].positioned \/ Kind(t) = "measured"
          /\ Kind(t) = "return" => result.returned
          /\ Kind(t) = "measured" => result.positioned
      BY <2>4, <3>1 DEF Outcomes, Entries
    <3>3. Remembers(result, "none")
      BY <2>4, <3>1, <3>2 DEF Once, Remembers
    <3>4. \A u \in Tasks : ~Uses(u)'
      <4>1. PICK where \in {"idle", "ending", "failed"} : Go(t, where)
        BY <2>1 DEF Leave
      <4>2. ~Uses(t)'
        BY <1>0, <4>1 DEF Uses, Go, TypeOK
      <4>. QED BY <2>1, <4>1, <4>2, NoOtherUse
    <3>. QED BY <1>0, <2>1, <2>4, <3>1, <3>2, <3>3, <3>4, OncePut
  <2>. QED BY <2>2, <2>3, <2>4
<1>13. ASSUME NEW t \in Tasks,
              \/ Decline(t) \/ TakeNothing(t) \/ Release(t) \/ Forget(t)
       PROVE  Once'
  <2>1. /\ UNCHANGED <<pending, completed, issued, begun>>
        /\ Leave(t) \/ (Go(t, "done") /\ UNCHANGED <<call, took>>)
    BY <1>13 DEF Decline, TakeNothing, Release, Forget, Refuse, storeVars
  <2>. QED BY <1>1, <1>2, <2>1
<1>14. ASSUME NEW t \in Tasks, Recovery(t) \/ End(t) \/ Report(t) PROVE Once'
  <2>1. PICK where \in {"stopping", "waiting", "ending", "releasing", "reporting"} :
          Go(t, where) /\ UNCHANGED <<pending, completed, issued, begun, call, took>>
    BY <1>14
    DEF Recovery, LookForAlarm, StopSucceeds, StopFails, RetryStop, StopWaiting, GivesUp,
        Recovered, RecoverStep, End, Report, storeVars
  <2>. QED BY <1>2, <2>1
<1>15. ASSUME NEW t \in Tasks,
              \/ Move(t) \/ Progress(t) \/ Receive(t) \/ CancelOperation(t)
              \/ DropOperation(t) \/ StopRepeat(t)
       PROVE  Once'
  BY <1>3, <1>15
  DEF Move, Progress, Receive, CancelOperation, DropOperation, StopRepeat, storeVars, taskVars
<1>16. CASE Shutdown \/ Machine \/ UNCHANGED vars
  BY <1>3, <1>16
  DEF Shutdown, Cancel, Lock, CloseDevice, Machine, MachineRests, Alarm, AlarmCleared,
      Reconnect, Environment, vars, storeVars, taskVars
<1>. QED
  BY <1>4, <1>5, <1>6, <1>7, <1>8, <1>9, <1>10, <1>11, <1>12, <1>13, <1>14, <1>15, <1>16
  DEF Next, Begin, Work, Client

-----------------------------------------------------------------------------
(* The theorems.                                                           *)

\* A new service has neither reviews nor results.
LEMMA InitReviews == Init => Fresh /\ Once
<1>. SUFFICES ASSUME Init PROVE Fresh /\ Once
  OBVIOUS
<1>1. Fresh
  BY DEF Init, Fresh, Uses, Users, Results, Kind, NoCall, Nothing
<1>2. Once
  BY DEF Init, Once, Ids, Uses, Nothing
<1>. QED BY <1>1, <1>2

\* The stores, what their reviews were read on, and what they were used for.
THEOREM ReviewsInductive == Spec => [](IInv /\ Fresh /\ Once)
<1>1. IInv /\ Fresh /\ Once /\ [Next]_vars => (IInv /\ Fresh /\ Once)'
  BY IInvKept, FreshKept, OnceKept
<1>. QED BY <1>1, InitIInv, InitReviews, PTL DEF Spec

\* A store never holds a review to run next to a result to apply.
THEOREM ReviewReplacesResult == Spec => []ReviewSupersedesResult
<1>1. Fresh => ReviewSupersedesResult
  BY DEF Fresh, ReviewSupersedesResult
<1>. QED BY <1>1, ReviewsInductive, PTL

\* A run moves by what was read on its own connection.
THEOREM RunsByItsReview == Spec => []RunsAsReviewed
<1>1. Fresh => RunsAsReviewed
  BY DEF Fresh, RunsAsReviewed
<1>. QED BY <1>1, ReviewsInductive, PTL

\* No review is run twice, and no result is used twice for the same motion.
THEOREM OneMotionEach == Spec => MotionsAreOneShot
<1>. DEFINE Step == \A t \in Tasks : Kind(t) \in {"run", "return", "measured"}
                      /\ pc[t] = "taking" /\ pc'[t] = "working" => Kind(t) \notin begun[call[t].id]
<1>1. ASSUME IInv, Fresh, Once, [Next]_vars, NEW t \in Tasks,
             Kind(t) \in {"run", "return", "measured"}, pc[t] = "taking", pc'[t] = "working"
      PROVE  Kind(t) \notin begun[call[t].id]
  <2>1. Take(t)
    <3>1. TypeOK
      BY <1>1 DEF IInv
    <3>2. pc' # pc /\ \A where : \A u \in Tasks : Go(u, where) => u = t /\ where = "working"
      BY <1>1, <3>1 DEF Go, TypeOK
    <3>3. ASSUME NEW u \in Tasks, Begin(u) PROVE Take(t)
      <4>1. pc[u] = "taking" /\ u = t
        BY <1>1, <3>2, <3>3
        DEF Begin, Acquire, ReadSession, ReadMachine, Review, Decline, Take, TakeNothing,
            TakeInVain, StartRepeat, Leave, Refuse
      <4>2. ~Leave(t)
        BY <3>2 DEF Leave
      <4>. QED
        BY <3>3, <4>1, <4>2
        DEF Begin, Acquire, ReadSession, ReadMachine, Review, Decline, TakeNothing,
            TakeInVain, StartRepeat, Refuse
    <3>4. ASSUME NEW u \in Tasks, Work(u) \/ Recovery(u) \/ End(u) \/ Report(u) \/ Release(u)
          PROVE  FALSE
      BY <1>1, <3>2, <3>4
      DEF Work, Recovery, End, Report, Release, Move, Progress, Succeed, FailAtRest, Fail,
          Settled, LookForAlarm, StopSucceeds, StopFails, RetryStop, StopWaiting, Recovered,
          RecoverStep, Leave, taskVars
    <3>5. ASSUME NEW u \in Tasks, Client(u) PROVE FALSE
      BY <1>1, <3>2, <3>5
      DEF Client, Request, Receive, CancelOperation, DropOperation, StopRepeat, Forget,
          Leave, taskVars
    <3>6. ~Shutdown /\ ~Machine /\ ~UNCHANGED vars
      BY <3>2
      DEF Shutdown, Cancel, Lock, CloseDevice, Machine, MachineRests, Alarm, AlarmCleared,
          Reconnect, Environment, vars, taskVars
    <3>. QED BY <1>1, <3>3, <3>4, <3>5, <3>6 DEF Next
  <2>2. /\ Source(t).id = call[t].id /\ ~AlreadyDone(t) /\ Store(t) \in Stores
        /\ call[t].id # 0
    BY <1>1, <2>1 DEF Take, Matches, IInv, Paths, Fresh, Users, Results, TypeOK
  <2>. QED BY <1>1, <2>2 DEF Source, AlreadyDone, Once, Remembers
<1>2. IInv /\ Fresh /\ Once /\ [Next]_vars => [Step]_vars
  BY <1>1
<1>. QED BY <1>2, ReviewsInductive, PTL DEF Spec, MotionsAreOneShot

===============================================================================
