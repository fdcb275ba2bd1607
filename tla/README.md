# PIMProbe in TLA+

PIMProbe measures workpieces with a touch probe on a CNC machine. A service
written in Rust talks to the machine through a plugin of the vendor's
application, runs probing routines, and serves a touch-screen interface over
HTTP. This directory holds specifications of the service's core, model-checked
by TLC, and theorems about them, proved by TLAPS. Every definition is a
translation of code under `src/`; `PROJECT.json` maps each to its lines.

What can go wrong here is motion: a spindle that moves while the software
believes that it rests, a command sent to a machine that has not finished the
previous one, a coordinate taken for a surface that is none, two requests that
drive the machine at the same time, a review made for one situation and run in
another. The specifications are built around that.

## 1. The system

    interface (QML) --HTTP--> service --> probe-app --> probe-core
                                             |              |
                                             +--> controller client
                                                      | framed socket
                                              controller bridge (plugin)
                                                      |
                                                   machine

### Controller client (`crates/controller`)

State: the writer slot (`writer: Mutex<Option<OwnedWriteHalf>>`), the stored
snapshot with the session id, the broadcast channel of events, the action
mutex, the actuator's pending movement. One reconnect task connects, greets,
publishes the writer, reads frames and applies their records. Callers write
frames: `send`, `stop`, `select_wcs`, `set_probe_extended`; `shutdown` ends the
task. Hard: writes that are cut short or cancelled, a session that ends while
a write or a wait is under way, a channel that overflows, a task that holds
the mutex when the service stops. Correct when a torn stream is not written to
again, a confirmation comes from the connection its command went out on, the
stored state of a lost session is not used, and shutdown ends.

### Motion (`crates/probe-core/src/motion.rs`, `lib.rs`)

`execute` sends one stage (a G38 search or a G1 move) and waits for what ends
it; a contact cycle is coarse search, retract, fine search, retract; a guarded
move is a search that must meet nothing. State: locals of an `async` function
and the snapshot it starts from. Hard: reports come before, after or instead
of each other, a status may be older than the command, a search can stop
short, the machine passes the contact before it stops. Correct when no command
goes to a moving machine, a measured surface is the workpiece, and no path
leaves the travel limits.

### Routines (`runtime.rs`, `rotary.rs`, `rotary/level.rs`, `repeatability.rs`, `angle.rs`)

Sequences of contact cycles and positioning moves. They save and restore the
machine's modes and work rotation, write work zeros, extend and retract the
probe. Hard: what is restored when a step fails or the run is cancelled.

### Plans (`plan.rs`, `script.rs`, `parameters.rs`)

Pure: which stages a routine consists of, the points it can reach, the program
shown to the operator. Correct when every reachable point is inside the
envelope that was reviewed.

### Application (`crates/probe-app`)

State: the action guard (a mutex), `active`, `recovery_failed`, the stop token
of the repeatability check, two stores of reviews with one pending review and
one completed result each, operations with a channel to their client, the
settings, the history. Operations: review, run, repeat, return to start, go to
a measured point, write zero, apply or keep a result, select a WCS, extend the
probe, clear the logs, shut down. Hard: clients that vanish or are slow,
cancellation at any await, a recovery that fails and is retried, a shutdown in
the middle of it. Correct when the guard outlives the motion, each review and
result is used as often as it was authorized, and the service can stop.

### Stores (`history.rs`, `history_results.rs`, `settings.rs`, service `logs.rs`, `settings.rs`)

Append-only history, rotated diagnostics, settings replaced as a whole. Hard:
a crash between two writes; torn lines.

### Service (`crates/service`)

HTTP routes, device selection (machine or mock), log export, updates: a check
stores candidates, an installation uses one, verifies it, looks at the machine
again and starts the installer. Hard: a long download between the checks and
their use.

### Plugins (`plugins/src`)

The bridge turns the vendor's signals into frames and frames into commands,
for one client, with a limit on pending output. The launcher and the proxy are
glue.

### Interface, packaging, tools

QML pages and their clients, install scripts, tools and documents. Their part
in the models is the environment: requests in any order, slow or gone clients.

`PROJECT.json` lists each component with what is modelled of it, and under
`hazards` the places where the code is exposed, with the properties that cover
each or the reason that none does yet.

## 2. Plan

| # | Module | Stands for | State |
|---|--------|-----------|-------|
| 1 | `SocketController` | sessions, writer, waits for confirmation | modelled, proved |
| 2 | `MachineOwner` | abstract: one owner, machine at rest when it changes | stated |
| 2 | `ProbeApp` | guard, reviews, operations, recovery, shutdown | modelled, proved; implements `MachineOwner` |
| 3 | `Motion` | stages, contact cycle, guarded moves | modelled, proved |
| 4 | `Actuator` | pending movement of the probe, `actuate` | modelled, proved |
| 5 | `RoutinePlan`, `Routine` | review and envelope; `run_inner`, its script, the actions on its result | modelled, proved |
| 6 | `CapturedState` | modes, rotation and plane that operations set and give back, on each way out | modelled, proved |
| 7 | `RecordLog` | abstract: a log that keeps what was confirmed | stated |
| 7 | `History` | torn appends, crashes, entries, reopened results, clear | modelled, proved; implements `RecordLog` |
| 8 | proof of `MotionIsAnnounced` | the script of every plan | proved |
| 9 | `Rotary` | tracking loop of the rotary routines | wanted; its geometry is out of reach |
| 10 | `Updates`, `ControllerBridge` | see section 7 | not planned |

The modules meet at three seams. `ProbeApp` takes `probe-core` at its results:
an operation that ends with `Ok`, or with an error that `recover` lets pass,
leaves the machine at rest, and a `stop` that returns `Ok` has seen it at rest.
`Motion!SafeOutcomesAtRest` discharges the first for the stages of contact
cycles and guarded moves, and is proved; short lifts are an exception (section 6).
`SocketController` models the wait of `stop`, and `ConfirmedByOwnConnection` is
proved of it. `Routine` takes a stage at its results, which are `Motion`'s, and `CapturedState` takes a routine as one move
between what it sets and what it gives back.

## 3. The modules

### `SocketController`

`worker` is the place of the reconnect task in `session` and `reconnect_loop`:
`connect`, `greet`, `publish`, `read`, `apply` and the steps of `disconnect`.
`slot` is `inner.writer`; a caller that writes has taken the socket out of it
(`taken`), as `write_all` does. `WriterFree` stands for the mutex, `action`
for the action mutex. Sockets are numbered by connection; `torn` remembers
those that carry part of a frame. `Write`, `BeginSelect`, `CheckSelect`,
`TakeSocket`, `FrameWritten` and `FrameCut` are the steps between the awaits
of a caller; `Abandon` is its future being dropped at one of them.
`Confirm`, `Refuse` and `PassOver` treat one event of a wait.
`FrameDone` ends a frame and `SessionFails` a session in each of its places.
A frame is whole or cut; which bytes are missing makes no difference to the
code. `Stale` is the age of the last status. `set_probe_extended` has a module
of its own (`Actuator`).

### `MachineOwner` and `ProbeApp`

`MachineOwner` says in a few actions what the application promises: an
operation gets a machine that stands still and keeps it until it does so
again; a stopping service may let go of a moving machine, and then nobody gets
it. `ProbeApp` instantiates it with the holder of the guard as `owner`.

In `ProbeApp` a request goes through `pc`: `entering` (before the guard),
`checking` (with it), `working`, `failed`, `stopping` and `waiting` (the
attempts of `recover` and the pauses between them), `ending` (what follows the
routine), `reporting` (the terminal event), `releasing`, `done`. `holder` is the guard, `closing` the
progress of `shutdown`. `moving` names the request whose motion the machine
carries out; the code does not see it. `Entries` are reviews and results;
`begun` remembers which motions were begun for which review. `queued` and
`terminal` are the event channel of an operation, `handle` its client.
`Recovery` is `recover` with its retries, cancellation and the flag
`recovery_failed`. A client that leaves drops its `Operation` (`Drop`), which
cancels the run; the spawned task goes on to recover and to let the guard go.

### `Motion`

One axis, units of 0.05 mm. `Begin` is the preview and the first look at the
state, `Submit` and `Send` the start of a stage, the `Receive...` actions the
arms of the loop in `execute`, `Conclude` its verdict, `Advance` the step of
the cycle, `BackOff` the way out of a contact in a guarded move. The machine
starts an order late, touches, overshoots, halts, stops short or alarms;
reports come in any order, repeated statuses included, in a channel of
`Capacity` events whose overflow is `lagged`. `check_path`, `extent` and
`preview_contact` are the code's, along one axis.

### `Actuator`

`Call`, `Refuse`, `AlreadyThere`, `Mark`, `Send` are `set_probe_extended`;
`Receive`, `GiveUp` the wait of `actuate`; `Apply` the arrival of a status.
The machine accepts an order, starts to move some time later, and may report
the end position in between (`early`), as a test of the controller has it do.
A report of 0 is in, 1 out, 2 and 3 in transition.

Orders are taken to be quick: no motion ends while one is on its way. Early
reports are checked within one session only: after a reconnect in the middle
of a motion the transition of the previous order counts for the next one
(`lib.rs:306`), and with an early report in addition the new order would count
as done too soon.

### `RoutinePlan` and `Routine`

`RoutinePlan` is pure: the steps of every family of routines, `validate`,
`review`, the envelope, and the script, over integer coordinates (quarters of
a millimetre in the instance). `Routine` runs a reviewed plan: `Begin`, one
action per step and stage of `run_inner`, `write_zero`, and the two actions on
a result that move (`return_to_start`, `go_to_measured`) with the recorded
work zero. The loops of `validate_envelope` and `script` are recursive functions
over the steps (`Envelopes`, `Writing`): what is known before each step, and
after the last one. A surface is named by its axis and by which of its contacts
it is, `"whole"` where there is one, or the center of two. `Cases` are the
options and starts to be reviewed; `RoutineAssumption` asks of them only that
they are options (`Configs`) and places.
A stage is one step, with the outcomes that `Motion` gives it: it
arrives, meets something, or fails on the way. An operator may jog, select
other coordinates, change the tool, the calibration or the zero at one point
of a run (`changed`). `last` pairs the line of the script that was shown with
the command that was sent.

### `CapturedState`

Every operation that sets something which it did not find: `review`, the runs
(`routine`, `angle`, `rotary`, `repeat`), the actions on results (`measured`,
`return`, `zero`) and the writes (`recorded`, `rotaryzero`, `levelzero`,
`align`, `rotate`). Each is a program of asks, sets, moves and writes
(`Program`, `Run`, `RunRotary`, `OneMove`, ...) with the code's parts after it:
what restores, on which error, and what the spawned run does once more
(`RestoreAgain`). Lines wait on the `wire`, answers carry no identity, so an
answer that comes late answers whoever asks next; here it is lost instead, and
the stored contact that ends the coordinates is the one line that could be
mistaken (`NoOldContactInMotion`). `reviewed` is `plan.start`. `Found` is what machines are
found like: any modes and plane (`FoundAssumption`), and rotations that are not
called like the places an instruction takes one from (`RotationsAssumption`).

A motion is one move, which ends as `Motion` says (`MoveEnds`): at rest, with the
outcomes of `execute`, or `Failed`. It can fail at any time after its line was
sent, on an error of the machine, a contact or a coordinate system that do not
fit, an event that was missed or a time limit. The machine may then be moving,
or not have read the line yet, and the last status may be the one from before
the move, which says ready. The repeatability check is two measurements with the jog near
home between them (`Jog`, whose lines carry their own `G90`), after which the
modes are set again, and with its looks at the stop button (`CheckStop`).
`StopPressed` is that button; `stop` is "late" once a motion was begun after it.
A contact with its retraction counts as one motion. Homing, which follows the
jog where it is asked for, is left out.

Simplifications: a lift that the status from before it confirms (section 6) is
not among the moves here; an alarm is unlocked only between operations; a machine that
somebody rotates between a review and its rotary run gets the reviewed rotation
back, which is what the code promises; a status that confirms a stop is taken
to be of after it (they are half a second apart).

### `RecordLog` and `History`

`RecordLog` is the promise of `HistoryStore`: records in order, none lost that
was confirmed, none removed but by a clear. In `History` the file is its
records, the shape of its last line, and whether it can be read. `Cut` is what
an append that fails or is interrupted may leave. `Of`, `Statuses`,
`ResultsOf` and `Entries` are the fold of `Records::history`. `OpenRead` and
`OpenStore` are the two halves of `open_history_result`, which holds no guard;
`Begin`, `SelectWcs`, `CheckWcs`, `Write`, `ActFails`, `Keep` are an action on
an opened result (`apply_history_result`) or a completed one (`zero`,
`rotate_result`, `select_result_wcs`, `apply_rotary`). `ClearBegin`,
`ClearLeave`, `Wipe` are `clear_logs`, whose blocking thread goes on when its
client leaves. `ended`, `saved`, `could` and `orphans` are history variables.

`SavedRunIsShown` excepts two cases that the code loses: a file cut inside a
character of several bytes (the label "X− face angle", `lib.rs:245`) is not
UTF-8, and `read` gives up at it until the history is cleared; and a run that
begins after the client of a clear has left may lose its start to that clear.

## 4. The runs

| Run | Question | Bounds |
|-----|----------|--------|
| `controller` | writer, stored state, session id and confirmations belong to one connection | 2 callers, 2 connections, 1 event |
| `controller_live` | shutdown, replacement of a poisoned session, waits end | 2 callers, 1 connection |
| `app` | reviews, motions, recovery, streams; implements `MachineOwner` | 2 requests, 1 review, 2 sessions, 1 event |
| `app_live` | shutdown and dropped operations end | 2 requests |
| `motion` | commands wait for rest, surfaces are real, paths stay in | see below |
| `motion_live` | no stage waits for a report that was lost on the way | 2 operations |
| `actuator` | early reports do not count as movements, a pending movement does not block for ever | 2 sessions, 2 events |
| `routine` | envelope, script, changes by the operator, what a result says | 12 routines, every 2nd stop, 2 actions |
| `captured` | modes, rotation, plane and zero on every way out, rest before what is given back, the stop button | 4 operations of 13 kinds, 1 lost answer, 1 lost connection, 1 alarm |
| `history` | torn and lost records, entries, reopened results | 2 runs, 3 records, 2 faults, clears or panel changes |
| `captured_rotation` | violation | 2 operations, no fault |
| `captured_measured` | violation | 3 operations, no fault |

Why these bounds are enough for the interesting cases:

* Two callers and two connections are the least in which a write of one
  session meets the writer of the next, and in which a second write queues
  behind a stalled one. One slot in the event channel makes every further
  event an overflow.
* Two requests are the least that compete for the guard. A request that gets
  it next to a running one, or next to `shutdown`, is the case at stake; a
  third would only repeat the second. `Capacity` 1 makes the slot for the
  terminal event contended. The instance has the kinds `review`, `run`,
  `return`, `keep`, `repeat` and `zero` on the routine store; `measured`,
  `apply` and `other`, and the rotary store, take the same actions.
* In `motion` the backoff is longer than the tolerance and not longer than the
  overshoot, so the probe can still touch after a retract; one surface is at
  the start of the travel, one close to the end of the coarse search and one
  beyond reach; the travel limits cut off part of the longest guarded move.
* In `actuator` two reports in the channel are enough for a report from before
  an order to lie in front of the one that confirms it.
* In `routine` each family starts at the ends of the starts that fit its
  envelope, and two starts are refused: a point more and it would leave the
  travel. Contacts and collisions happen at every second coordinate.
* In `captured` an operation can follow one that failed, which followed a
  review; the fourth finds what the third left. The machine is found in inches
  and rotated, or metric and not.
* In `history` one fault can tear a record and the other crash the service or
  clear the file, and a clear makes room for the second run; `Shown` 1 (100 in
  the code) makes the second run push the first out of the list.

Sessions, reviews, sockets, operations, records and faults are counted up to a
bound that stands in the guards (`MaxSockets`, `MaxSessions`, `MaxReviews`,
`MaxJobs`, `MaxOps`, `MaxActions`, `MaxRecords`, `MaxEvents`, ...). The
theorems hold for every value of them.

Each module states its types (`TypeOK`). They are proved where there is a
module of proofs, and left out of the runs, which are about what could be
wrong.

Deadlock is not checked: the service may stop, bounds may be used up, and an
idle client need not ask for anything.

### Fairness

* `SocketController`: every await of the reconnect task and of a write has a
  time limit (`IO_TIMEOUT` and the session's reading limit), so their steps are
  weakly fair. Steps that need the writer mutex are strongly fair, since
  tokio's mutex is first come, first served; so is `Preempt`, since `select!`
  polls its branches in random order. New calls, dropped futures and the time
  limits of confirmations are not assumed to happen.
* `ProbeApp`: every wait of a request has a time limit, so `Proceed` is weakly
  fair. The routine itself is not assumed to end unless its token is cancelled
  (`Obey`): the runs are one branch of a `select!` on that token. Of the stop
  button nothing is assumed; what a check does about it is in `CapturedState`.
  Nothing is assumed of clients.
* `Motion`: `HealthySpec` leaves out alarms, stops at the machine and
  cancellation, and assumes that the machine carries out its orders and reports
  periodically. The code's part, the loop of `execute`, is woken by each event.
  The time limit of a stage is left out on purpose: the property is that it
  is not needed.
* `Actuator`: the machine moves and reports; `sampled` says that a movement
  lasts until one status has been reported in it, and `PendingClears` is about
  behaviours of that kind. The code needs that: without
  a status in transition `actuator_pending` is not cleared in this session.

## 5. What is proved

TLAPS proves every safety property of the passing runs,
for every number of callers, requests, reports, reviews, connections, faults,
operations and records, every channel capacity, every distance, workpiece,
travel and set of options:

* `SocketController_proofs`: `TypeCorrect`, `WriterStaysInSession`,
  `NoReuseOfTornSocket`, `NeverConnectedButMute`, `NoStaleStatus`,
  `FinalShutdown`, `SessionIdentity`, `OwnConnectionConfirms`.

  The conjunction of the properties is not inductive: it says nothing about
  what a task at a given place may rely on. `Support` adds that: at most one
  frame is being written, and from a real socket; a reconnect task without a
  published session, or between the two steps of `disconnect`, leaves an empty
  slot and no write under way; only a socket that was dialed can be torn, and
  the newest only after its session was invalidated. `SessionIdentity` is a
  property of steps and follows from the invariant and `Next`.

  `OwnConnectionConfirms` (`ConfirmedByOwnConnection`) is about the queues of
  events, which lag behind the connection. `Linked` says what saves it: wherever
  a queue passes from the events of one connection to those of a later one, it
  holds a "lost" or a "lagged" between them, and there a wait ends. `Heard` adds
  what each wait has taken from its queue.

* `ProbeApp_proofs`: `TypeCorrect`, `GuardOutlivesMotion`, `ExclusiveMachine`,
  `NoForgottenRecovery`, `StopReachesItsRun`, `TerminalEventDelivered`,
  and `Implements`: `Spec` implements `MachineOwner` with the guard's holder
  as the owner.

  The inductive invariant is `TypeOK`, `Paths` (what `pc` allows a request to
  have), `Guarded` (who is past the lock holds the guard), `Leftover` (a
  machine moves on without a guard only under a stopping service, and then
  nobody works), `Contact` (the flags belong to the holder) and `Channels` (the
  bound on progress events leaves the slot of the terminal one). `Leftover` is
  the part that is easy to get wrong: a request may have passed the shutdown
  check before the service began to stop, and it is the second look after the
  lock that makes the invariant hold.

* `ProbeReviews_proofs`, on top of `ProbeApp_proofs`: `RunsByItsReview`,
  `OneMotionEach`, `ReviewReplacesResult`.

  `Fresh` follows a plan from the reading to the run: a review that is taken
  names the connection of its reading, the run compares it with the one it was
  accepted on, and connections only grow. `Once` says where an id can be: in
  one store, or with the one request that took it out, and a copy that is put
  back remembers the motions begun for it.

* `Actuator_proofs`: `TypeCorrect`, `OutWhenExtended`, `RetractsFirst`,
  `ActuateArrives`.

  The stored state says little; what makes it true is which orders can be on
  their way under it. `Known` has that: with no pending movement nothing is
  under way but orders to retract a probe that is in, a pending one agrees
  with the orders sent, and an order to extend comes last. `Waited` adds what `actuate` has heard and what
  that says of the probe.

* `Motion_proofs`: `TypeCorrect`, `RestBeforeCommands`,
  `RestAfterSafeOutcomes`, `LimitsKept` (`StaysInLimits`), `SurfaceMeasured`
  (`MeasuredSurface`) and `MissesAreTrue` (`NoFalseMiss`), for every distance,
  tolerance, workpiece, overshoot, capacity and order of reports.

  The condition is `LongLifts`: no lift is as short as the tolerance; section 6
  has what happens otherwise. A stage ends at a status at rest, and the proof is
  about what makes such a status one from after the motion. `NotBegun` says that
  an order which has not begun leaves only statuses at rest at the start, and no
  probe report. So a status that shows a `Trace` of the motion, by its position
  or by what came before it, is from after it, and a move longer than the
  tolerance cannot end without one (`Follows`). A stage that searches lets the
  cycle go on only after a probe report, which `Reported` shows to be the last
  one the machine owed.

  The other three stand on that invariant. `Allowed` follows a checked path from
  where the check saw the machine, which is where it stands, to the end of the
  stage. `Approach` keeps a search in front of the workpiece, and `Contacts` then
  has every contact the host knows of at its surface, on a machine that reports
  its probe input (`TriggerKnown`). `Misses` and `Searches` say that a miss
  was owed by a machine that has not touched, at the end of a search over the
  whole travel. Without the probe input `NoFalseMiss` needs a travel longer than
  the tolerance: a shorter search may begin on the workpiece and end where it
  began.

* `Routine_proofs`: `PlansAreInOrder`, `EndsAsReviewed` (`EndsWhereReviewed`),
  `ChangesStopIt` (`StopsAfterChange`), `FlagsAreTrue` (`FlagsSayWhereItIs`),
  `ZeroIsAsMeasured` (`ZeroIsWhereMeasured`), `ReviewIsEnough`
  (`ReviewCoversPreview`), `CarriageStaysInTravel` (`StaysInTravel`) and
  `MotionsAreAnnounced` (`MotionIsAnnounced`), for every option, start, travel,
  probe offset and disturbance.

  `PlansAreInOrder` is about `review` alone: a plan of any family is a path of
  facts. `Begun` and `Ended` say which surfaces are known and which axes stand
  over what, `Told` is that record before each step, and no step uses a value
  that none before it has measured. The invariant `RInv` ties the run to it:
  `Known` says that the locals of `run_inner` are what `Told` says of its step,
  `Fresh` that a change by the operator shows in what the next look compares,
  `Phases`, `Endings` and `Legs` what the places of the code have established.
  For `ReviewIsEnough`, `Bounded` ties it to the envelope: each position and each
  measured value lies between the bounds that `validate_envelope` computed for
  that step, in every stage of a contact. `CarriageStaysInTravel` adds `Inside`,
  under the hypothesis `StartsInTravel`: a machine is within its travel when it
  is reviewed, and is jogged within it. That is the machine's part, whose own
  limits the code relies on. `EnvelopesAre` and `WritingIs` give the recursive
  functions their equations; their existence is shown by induction over sets of
  numbers (`SetInduction`), from `WFMin` of the library.

  `MotionsAreAnnounced` compares two walks over a plan, that of `script` and that
  of `run_inner`, line by line. The lines written for a step are counted and named
  (`LinesOfContact`, `LinesOfMove`), put together with those before and after
  (`LinesOfPlan`), and so each step has the place in the program where its lines
  begin (`Cue`). The invariant `Cued` says that the cursor is at the cue of the
  step that is due, or so far past it as the stage of a contact is, and that the
  machine stands where the script names its place, once the names are given the
  values measured so far (`Symbolic`). It needs an order of the plan that
  `PlansAreInOrder` does not state: no step measures a value that one before it
  went by (`PlanOrder`), so a place once named does not shift under the machine.
  TLC has checked `Cued` over the states of the run `routine`.

* `CapturedState_proofs`, every property of the run `captured`:
  `OldContactsAreTaken` (`NoOldContactInMotion`), `NumbersReadInMetric`
  (`NumbersAreMetric`), `RestoresWhenAtRest` (`RestoresAtRest`),
  `SuccessIsGivenBack` (`SuccessGivesBack`), `ErrorIsGivenBackOrSaid`
  (`ErrorGivesBackOrSays`) and `StopIsSeen` (`StopIsHeeded`), for all operations in every order, and any number of
  alarms, lost answers and lost connections that the property allows.

  The invariant follows what is on the wire, since a line may wait there longer
  than the operation that sent it. `Base` has the flow of an operation through
  its parts, the questions on their way and which modes the machine will be in
  when it has read the wire (`ModesIn`). `Resting` says where a move may be in
  progress: while it is waited for, and behind an error that does not say that
  it is over, until the machine is stopped. The restoration of a rotary run is
  one of these places, and the exception of `RestoresAtRest`; the others begin
  behind an error at rest or behind the stop. `Halting` has, for `StopIsSeen`, that a
  look at the button comes before each motion of the check, `Untouched` that a write which asks for no change of modes makes none,
  `Chain` that a rotary run gives back the rotation, then the plane, then the
  modes. `Returned`, `Rotating`, `Succeeded` and `Recovering` say what has been
  given back at the end of each part, and which errors leave nothing out.

* `History_proofs`: `KeepsLog`, that `History` implements `RecordLog`,
  `AskedRun`, that a work zero is of the run that was asked for, and
  `RecordedRunIsShown` (`SavedRunIsShown`).

  `KeepsLog` rests on `WholeAppends` and `CutKeeps`: since a line without its
  end is ended before the next record, an append changes the readable records
  by its own or not at all, however it is cut. `AskedRun` needs `Successes`: a
  finish that says success stays true because no run ends twice, and each copy
  of a result that may be applied (the opened one, those of clients that have
  read and not stored yet, the completed one, the one under way) is of a run
  that ended in success.

  `RecordedRunIsShown` is about the fold of the whole file. `Shows` says that the
  records of a run, whether the file can be read or not, give the entry that it
  promised or one of those an interrupted finish may leave; the lemmas from
  `OfAppended` to `StaysShown` are what one more record does to a fold. `Owned`
  keeps a clear and a run apart by the guard, and `Unused` that nothing is
  recorded of a run that has not begun.

Assumptions are those on the constants (`ConstantsAssumption`,
`AppAssumption`, `ActuatorAssumption`, `MotionAssumption`, `PlanAssumption`,
`RoutineAssumption`, `OperationsAssumption`, `FoundAssumption`,
`RotationsAssumption`, `HistoryAssumption`): distinct names, natural bounds,
capacities of at least one, a positive travel, places and options of the right
form. Hypotheses beyond them stand in the theorems: `LongLifts`, `TriggerKnown`
and `StartsInTravel`.

Only model-checked: liveness and ENABLED, which the prover cannot reason about
under fairness, and the two properties that section 6 finds violated. No module
declares a RECURSIVE operator, which would end the use of the SMT prover.

## 6. Findings

* `captured_rotation`: an angle cancelled right after its first move was sent
  writes the rotation back behind the move. The last status is from before the
  move and still says ready, so `run` takes the machine for one at rest; the
  confirmation is awaited for up to three seconds before `recover` stops it.
  The test `cancellation_stops_submission_and_never_restores_unsettled_motion`
  has no rotation.
* `captured_measured`: a move over the measured point cancelled between the
  line that sets the modes and the query that reads them back restores nothing:
  the snapshot still has the old modes, and the machine stays in G91. The test
  `cancelled_result_move_restores_parser_modes_after_stopping` waits for the
  snapshot before it cancels.

Observed while modelling, and not kept as runs:

* A rotary run whose move fails right after its line was sent restores on the
  same stale status as an angle does: `execute` can return an error of the
  machine, of the contact or of the coordinate system before any status of the
  move (`motion.rs:252`, `motion.rs:332`, `motion.rs:344`), `preflight_machine`
  in `restore_rotary_state` then finds the machine ready (`rotary.rs:650`), and
  the rotation, plane and modes are written behind a move that goes on.
  `RestoresAtRest` states this as its one exception (`Overlooked`). What is
  written is still confirmed, so the settings are given back: `ErrorGivesBackOrSays`
  holds of these runs as well.

* A Z lift of at most 0.05 mm is confirmed by the status from before it
  (`motion.rs:357`); the test `unchanged_ready_before_motion_is_ignored` is of
  probing stages.
* `actuate` of the repeatability check returns at the first status with the
  end position, which the controller does not count as the end of the movement
  without a transition before it.
* The script announces `G1` and "Raise Z" for every Z move of a Z routine.
  After a contact within the backoff of the start the move goes down, and
  `G38.3`, or nothing, is sent (`script.rs:318`). The direction of a motion is
  the only thing `MotionIsAnnounced` does not hold the script to.
* A rotation of the diagnostics whose append then fails leaves no
  `diagnostics.jsonl`; `metadata()?` fails from then on, and no run can begin
  until the logs are cleared or the service starts again (`logs.rs:80`).
* `zero_recorded_result` compares the coordinate system with the result's and
  then queries the coordinates of the active one; a change at the machine's
  panel in between mixes two systems (`runtime.rs:628`).

## 7. What is not modelled, and why

* Text: records, frames byte by byte, the wording of programs, settings
  schemas. The modules keep what a record or frame means to the control flow.
* Geometry over floating-point numbers: rotary tracking, angles, radius
  compensation. `Motion` keeps one axis in units of the tolerance, `Routine`
  three in whole units.
* Probe settings: sequential, under one mutex; a file is replaced by a rename.
* The rotation and the export of the diagnostics: nothing is read back from
  them. `History` takes their errors for errors of the append.
* Updates: downloads, an installer and a unit of systemd, whose states are not
  the service's. `install_update` holds the guard of `ProbeApp` until the unit
  has been started.
* Homing in the repeatability check, and which statuses end a jog near home:
  `CapturedState` lets it end or fail at any time. Coordinates, a view of the
  snapshot.
* The HTTP routes: each calls one operation of `ProbeApp`; their clients are its
  environment.
* The controller bridge (C++ inside the vendor's application): the peer of
  `SocketController`. A service that reads slowly fills its output, and the
  abort of the connection inside a write calls back into the client in use.
* The mock controller: it stands for the machine, which is the environment.
* The interface, the launcher and proxy plugins, packaging and tools.
