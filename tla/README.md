# Formal models of the 74000M robot program

TLA+ modules, TLC configurations and TLAPS proofs about the VEX V5 robot program of
this repository: the PROS application in `src/src`, whose logic is in the headers under
`src/include/robot`. The models are translated from the code; where a comment, a
document or a test says something else, a run shows the difference and the section
*Findings* describes it.

Paths below are relative to the repository.

## 1. The system

Three tasks run on one core, scheduled by priority:

| Task | Priority | Runs | Period |
| --- | --- | --- | --- |
| output task | highest | `OutputTask::tickOnce`, `OutputService::tick` | 5 ms |
| competition task | default | `ControlLoop::run` (opcontrol) or `RobotRuntime::forceDisabled` (initialize, disabled, autonomous) | 10 ms |
| telemetry task | low | `RecordingWorker::tickOnce` | polls |

The operating system deletes the competition task at every change of the competition
state and starts the one of the new state. All objects are globals of `main.cpp`, so
they outlive the task and carry what a deleted tick left in them.

A tick of the control loop reads the competition status, moves the mode
(`ModeManager`), reads the sensors and the controller, runs the commissioning cycle
(coast button, drive lease, stick mapper, request sink, arbiter, safety gate with its
slew, lift), publishes an `ActuatorFrame` in a mailbox, acknowledges the boundary stop
of a new mode epoch, and captures a frame for the flight recorder. The output task reads
the frame and the mode from their mailboxes and writes either the voltages or a stop.

### Inventory

| Component | State | Operations | Hard behaviour | What makes it correct |
| --- | --- | --- | --- | --- |
| Mode manager and mailboxes (`mode_manager.hpp`, `mailbox.hpp`, `snapshot_box.hpp`) | mode snapshot, pending enable, boundary epoch, two mutexes | `transitionTo`, `acknowledgeBoundaryStop`, publish, read | readers between any two steps; deletion inside a transition or a critical section | an enabled mode has a frame of its own epoch; a revoked mode stops |
| Control loop (`control_loop.hpp`) | sequence counter, wake time | `run`, `tickOnce` | late ticks that catch up, deletion anywhere, restart with old state | sequences never regress; break before make |
| Output task and service (`output_task.hpp`, `output_service.hpp`) | last epoch and sequence | `tick` | frame, mode and clock read apart; the publisher may stop | no voltage older than the TTL |
| Commissioning cycle (`commissioning_curvature.hpp`, `global_control_event.hpp`, `request_sink.hpp`, `drive_request_arbiter.hpp`, `safety_gate.hpp`, `output_slew.hpp`) | detector, lease owner, pending coast, slew | one tick | controller lost, mode revoked or task deleted between any two parts; memory in four objects | drive only under the current lease; nothing remembered across a stop; one coast per press |
| Command scheduler and groups (`scheduler.hpp`, `command_groups.hpp`) | slots, leases, epoch; flags of groups | `schedule`, `tick`, `cancel`, `cancelAll` | conflicts, interruption, mode boundaries and completion in one tick | each command ends once; subsystems are exclusive; no command of an old epoch |
| Lift (`lift_control.hpp`) | filters and zero offsets | map, gate | time stamps of two clocks readings | a raised stick raises the lift off its limits |
| Flight recorder (`recording.hpp`, `flight_recorder.hpp`, `recording_codec.hpp`, `pros_recording_sink.cpp`) | session state, press detector, ring, open file | observe, capture, request stop, worker tick | button, competition and worker move one state; card failures; full ring | files exact; state keeps its cycle; openings and closings end |
| SPSC ring (`spsc_ring.hpp`) | slots, head, tail, counters | `tryPush`, `tryPop` | every interleaving of loads and stores, producer deleted | no torn element; a bounded queue |
| Output status (`output_status.hpp`) | sequence lock | publish, read | relaxed loads of the payload; the reader sleeps in the middle or is deleted | a reader never mixes two publications and returns one that was current while it read |
| Timing monitor (`timing_monitor.hpp`) | statistics, clamped period | observe | late and repeated wakes | numbers for the log only |
| HMI sessions (`edit_lease.hpp`, `parameter_transaction.hpp`, `persistence.hpp`, `event_queue.hpp`) | edit leases, open transaction, two profile slots, event queue | acquire, refresh, stage, commit, roll back, save, load, push | time-outs and mode epochs against open edits; power lost while saving; a full queue | one editor per domain; the last complete profile survives; critical events are kept |
| Selection and routes (`selection_manager.hpp`, `route_registry.hpp`) | draft, confirmed choice, lock | stage, confirm, lock, resolve | edits, mode boundaries and lease reuse between confirmation and start | the route that runs is the one that was confirmed |
| Fault manager (`fault_manager.hpp`) | evidence, delays, latches | update, clear | latches against recoveries in any order | a latch stays until it is cleared where that is allowed |
| Sensors (`sensor_validator.hpp`) | last accepted sample, recovery and freeze of each channel | update, reset | duplicate, late, frozen and calibrating samples, epochs | a rejected channel is Good only after its full recovery |
| Autonomy supervisor (`autonomy_safety.hpp`) | route, retries, leases | evaluate, retry, skip | time-outs, repeated failures, old leases | an end is final; retries are bounded |
| Autonomous motion (`motion_commands.hpp`, `motion_termination.hpp`) | timing of settle, stall and time-out; what was published | initialize, execute, end | a sink that takes one request in a frame; groups that end a motion in its own frame | a motion ends; a velocity belongs to a running motion |
| Odometry (`odometry.hpp`) | a baseline for each input, slip count, pending reset | update, request a reset, reset | wheels and IMU lost, found and restarted between frames; refused frames; epochs; resets | a pose that is called Good is exact |
| Manual drive (`manual_drive.hpp`, `heading_assist.hpp`, `input_shaping.hpp`) | two slews, heading hold | update, reset | faults, epochs and pose resets between frames of a drive | nothing of a drive outlives a fault or an epoch |
| Startup self check and alerts (`hardware_self_test.hpp`, `main.cpp`) | devices seen, alert numbers | poll, publish, rumble | three tasks meet in one number; alerts on top of each other | what goes wrong is felt by the operator |
| Control laws, trajectories, filters | numbers | update, reset | floating point | numerical accuracy, not a question for TLC |
| Motor protection (`motor_protection.hpp`) | three hystereses for each motor | update | motors that fall silent beside others that answer | no motor in trouble is forgotten |
| Calibration (`calibration/`) | phase of a characterization | start, update, abort | abort in every phase | rests between runs |
| PROS adapters (`pros_adapters.cpp`) | device handles | read, write, delay | device I/O | external: what the calls mean to the program |
| Configuration, core types | constants | validation at start | none | sizes and ranges |
| Replay, recording reader, status monitor | none that lasts | parse | corrupted files | a verifier accepts what the recorder wrote |
| Vendored PROS, LVGL, firmware | - | - | - | third-party |

`PROJECT.json` has the same list with the status of each, and under `hazards` each
place in the code where these behaviours bite, with the properties that cover it.

## 2. What is modelled

| Module | Models | Proofs | Runs |
| --- | --- | --- | --- |
| `DriveRuntime` | modes, mailboxes, control loop, output task, deletion of the competition task | `DriveRuntimeProofs` | `runtime_nominal`, `runtime_stalls`, `runtime_catchup`, `runtime_orphan` |
| `MotorContract` | abstract: what the motors are promised | `DriveRuntimeProofs` | refined in `runtime_nominal` |
| `CommissioningCycle` | the computation of one control tick | `CycleProofs` | `cycle_drive`, `cycle_lift` |
| `CommandScheduler` | scheduler and groups | `CommandProofs` | `procedures` |
| `AutonomousMotion` | the motion commands under the scheduler, with sink and arbiter | `CommandProofs` | `procedures`, `motion_brake` |
| `RouteSelection` | the operator's choice of a route, up to the command that runs | `CommandProofs` | `procedures` |
| `FlightRecorder` | recording sessions, producer, worker, card | `FlightRecorderProofs` | `recorder_sessions`, `recorder_leak` |
| `SpscRing` | the ring, load by load | `TransportProofs` | `procedures` |
| `BoundedQueue` | abstract: a bounded queue that may refuse | `TransportProofs` | refined in `procedures` |
| `OutputStatus` | the sequence lock of the output status, load by load | `TransportProofs` | `procedures` |
| `StartupAlerts` | the passive self check and the three tasks that pass on alerts | `TransportProofs` | `procedures` |
| `SensorValidator` | which samples are believed | `TransportProofs` | `procedures` |
| `Odometry` | baselines, sources and qualities of the pose | `EstimateProofs` | `components` |
| `ManualDrive` | slews and heading assist of the driver's request | `EstimateProofs` | `components` |
| `EditSession` | edit leases and parameter transactions | `HmiProofs` | `components` |
| `ProfileStore` | the two slots of a parameter profile | `HmiProofs` | `components` |
| `HmiEvents` | the operator's event queue | `HmiProofs` | `components` |
| `FaultManager` | fault delays and latches | `SafetyProofs` | `components` |
| `MotorProtection` | the motors' hystereses, and the fault manager with their evidence | `SafetyProofs` | `components` |
| `AutonomySupervisor` | failures, retries and skips of an autonomous route | `SafetyProofs` | `components`, `supervisor_old_lease` |
| `ModeAndTime` | the clock and the mode snapshot, for components that only read them | `DriveRuntimeProofs` (that the runtime moves its mode so) | with the three that extend it |

Each `MC...` module extends one or several of these and gives the structured constants their values.

How they compose: `DriveRuntime` leaves open which voltage a tick publishes (at rest or
not, and at rest when the mode is not enabled); `CommissioningCycle` opens up exactly
that step, with the mode transitions of `DriveRuntime` as single steps.
`CommissioningCycle` uses the one slot of the scheduler that the program uses;
`CommandScheduler` models the scheduler in full. `FlightRecorder` uses a queue for its
ring; `SpscRing` is shown, and proved, to implement such a queue. `AutonomousMotion` and
`RouteSelection` extend `CommandScheduler`: the first decides how an `execute()` of a
leaf comes out, the second which command is scheduled and when. `MotorProtection` extends
`FaultManager` and gives it the evidence it computes from the motors.

Where one component is checked with assumptions about another, a theorem about the other states them:

| Assumes | Of | What | Proved in |
| --- | --- | --- | --- |
| `Odometry` (`Qualities`) | `SensorValidator` | a device that was rejected is not Good in the next frame that odometry takes | `ProbationIsServed` |
| `ManualDrive` (`Estimates`) | `Odometry` | the frame of a reset has no Good heading | `RenewedHeadingIsNotGood` |
| `EditSession`, `FaultManager`, `AutonomySupervisor` (`ModeAndTime`) | `DriveRuntime` | epochs and enabling of the mode | `ModeMovesAsAssumed` |
| `FlightRecorder` (its ring is a queue) | `SpscRing` | every step is one of `BoundedQueue` or a stutter | `RingIsQueue` |

Components that do not run together are checked in one run, one active in each behaviour,
so that their states add and do not multiply: `MCProcedures` has what the tasks exchange
and run beside the control cycle, `MCComponents` what the program does not connect to
anything yet.

### DriveRuntime

A unit of time is one period of the output task (5 ms), so `ControlPeriod` is 2 and the
30 ms TTL of `main.cpp` would be 6. Voltages are 0 or 1: drive and lift at rest, or not.

`pc` is the place of the competition task in its tick. The writer's critical sections
of the two mailboxes are two steps each (lock; store and unlock), since the task can be
deleted between them. The output task has the highest priority and is never deleted:
its critical sections are one step, and between reading the mode and writing the motors
nothing of the program can run, so `OutputWrite` is one step too. It reads the frame in
a step of its own. `sequence`, `pendingEnable`, `boundary`, `lastEpoch`, `lastSequence`
are the members of the same names. `Advance` lets time pass when the output task has
done its period (or waits for a mutex nobody will give back).

Parameters stand for what the environment does: `MaxLate` is how late a tick or a
callback may end; `RestartGap` is the least time between two competition changes;
`KillHoldingLock` says whether a deletion may fall inside a critical section of a
mailbox; `DirectRestart` whether opcontrol may follow opcontrol with no callback
between, which a quick change of the competition state would give and the
program's three callbacks normally prevent.

| Action | Code |
| --- | --- |
| `StartTick`, `TransitionUnneeded`, `LockForTransition`, `PublishEntering`, `ArmBoundary` | start of `ControlLoop::tickOnce`, `ModeManager::transitionTo` |
| `LockForFrame`, `PublishFrame` | the control cycle's frame, `ActuatorStore::publish` |
| `NothingToAcknowledge`, `LockForEnable`, `PublishEnable`, `ClearBoundary` | `acknowledgeBoundaryStop`, the end of the tick |
| `Kill`, `Boot` | the operating system deletes and starts the competition task |
| `OutputReadFrame`, `OutputWrite` | `OutputTask::tickOnce`, `OutputService::tick` |

### CommissioningCycle

The tick is cut where a deletion leaves different state behind: after the detector and
`acceptGlobalEvent` (`Begin`), between the scheduler's slot and `initialize()` of the
lease command (`ScheduleLease`, `InitializeLease`), after mapper, sink and arbiter
(`Map`), after the safety gate (`Gate`), at publication (`Publish`) and at the
acknowledgement (`Acknowledge`). `Kill` deletes the task in any of these; its successor
runs `forceDisabled`, whose transition to Disabled it makes. Voltages are integers from
`-Top` to `Top` for each wheel; shaping, curvature and desaturation only choose the
target voltages, so every pair that is not zero is a possible target.

### CommandScheduler

Each call of `StaticScheduler` is one step. A scheduled command is a single leaf or one
of the groups, whose `started` and `finished` flags are `phase`. `execute()` of a leaf
answers whatever the step chooses. `live` counts, for each leaf, calls of
`initialize()` less calls of `end()`; it and `ran` (what the last call executed) are
history variables. The mode moves through epochs between the calls. The flags of a
group are reset when it leaves its slot rather than at its next `initialize()`, which no
call can tell apart and which keeps the state space small.

### FlightRecorder

`state` is the session state of `RecordingControl`; its terminal answers are Idle with
an alert. The worker (`wpc`) runs only while the competition task sleeps or has returned, as its
priority is lower, but is preempted between any two of its own steps. `SinkBegin`,
`WriteBatch` and `SinkFinish` may each fail. A frame is its session, its number in the
session and its recording event. `captured` and `early` are history variables that
`FilesExact` compares a file with.

### SpscRing

One step for each load and store of `tryPush` and `tryPop`. The indices are acquire and
release in the code, and each is written by one side only, so steps in program order
under sequential consistency are faithful. A deletion of the producer may come between
any two of its steps. The elements in transit make up the refinement: the queue is what
lies between `head` and `tail`.

### AutonomousMotion

A frame is `BeginFrame` (`DriveRequestSink::beginFrame`), then any calls of `schedule()`
and `cancel()` around one `tick()`, then `Select` (the arbiter). `sink` is the one
request a frame may carry. What a call finds in the robot state is a *reading*: whether
`validContext` and `calculate()` accept it, and whether the robot is in the error and
velocity bands, or stalled. `motion` is `initialized_` and the three timings of the
termination monitor, counted in frames. That a command has braked in this frame
(`last_brake_sequence_`) is no variable: it has exactly if the sink holds its Brake.

### RouteSelection

`draft`, `choice` and `lockedSnapshot` are the members of `SelectionManager`; staging,
confirming and the disabled boundary are actions of the operator and the caller, in any
order. `LockForEnable` is the lock at the enable of a mode; `StartRoute` is `resolve()`
and the `schedule()` of the command it gives. Its inputs that depend on the robot (pose, quality, a factory that returns a command) are one bit.
The scheduler then runs as in `CommandScheduler`.

### OutputStatus

One step for each load and store of `publish` and `readLatest`. The steps are in program
order: both tasks run on one core, and the compiler is taken to keep the order of atomic
accesses, which `memory_order_relaxed` alone does not promise; this is the one assumption
of the model the language does not give. The generation counts modulo
`GenerationModulus`, and fewer than half of all generations pass during one read.

### StartupAlerts

The check runs before a competition task exists; a poll is a unit of time. The task that
runs `initialize()`, the telemetry task and the controller task meet in
`hmi_alert_sequence_`, whose reads and publications are a step each, so an alert can be
published between a task's read and its comparison. `owed` is history: something is wrong
that no rumble has followed.

### SensorValidator

A channel is one `ScalarValidator`, and time is counted in frames; instead of time stamps
a bank keeps ages, which up to `Horizon` are exact (an assumption says that no check can tell
later ones apart). `Frame` validates a sample of every channel, in a new epoch or not;
`RefusedFrame` is an `update()` that refuses the frame as a whole. `streak` and `stuck`
are history.

### Odometry

The robot moves along its axis, turns, and a driven wheel may skid. The levers of the wheels are 1,
so every sum of the code is one over small integers. A baseline keeps, instead of the
reading taken, how far its input has gone from there; the pose is not kept either: `estimate` says of the
last `PoseEstimate` its qualities and whether the pose advanced by the motion since the last
accepted frame. A driven wheel is the mean of its motors, each of which may be lost, and
one of which may come back with a new count: a device that was Invalid in the last accepted
frame, or is in this one, may have restarted. A frame takes any qualities the validator could
give (`Qualities`); a motor that was Invalid is not Good in the next accepted frame,
which `SensorValidator` gives (`ProbationIsServed`) as long as odometry refuses fewer frames in a row than
a recovery takes. A frame the validator refuses as a whole puts nothing on probation; every device is
Invalid in it and every baseline unset, so it makes no difference whether they are Good or Degraded in the next. A skid is larger than `heading_disagreement_rad`: one below it is by
design taken for a turn.

### ManualDrive

One action for `update()` with a fault and one for a frame that drives; a frame is a
control period. Sticks are what the shaping makes of them: full, centred, off the
centre within the dead band, or turned. Both slews have the same rates. The
qualities the assist requires are Good. `driven`, `calm` and `renewed` are history: since
when the driver drives, since when nothing gave a reason to release the heading, and
whether the pose was reset since the heading to hold was taken.

### EditSession

`leases` and `generation` are `EditLeaseManager`; `held` is what each editor keeps of the
last lease it was given, which may have lapsed, been released or been replaced since. Every call of the
manager and of `ParameterTransaction` is an action that any editor may take at any time with
its copy. The values of a parameter are `0..Top` and a stage moves one step, with
`clamp`. The context bits of `apply` that do not depend on the session (unlocked,
stationary, fresh model) are one input. `OtherWrite` is the backend changed by somebody
else. `basis` and `alone`, in `transaction`, are history: the values it began with, and whether the other
editor has held the lease since.

### ProfileStore

A slot holds a frame that decodes under one registry revision, or something torn.
`save` is three steps (`BeginSave`: both reads and the choice; `Write`; `Verify`), with a
`Restart` possible between any two, with the same registry or another. Each read may be refused,
and a write may be refused, torn, complete, or without effect, and may claim success
whatever it did. `saved` and `tried` are history. `BeginSave` clears `saved`
when it could not read a slot that is valid: the code then takes the slot for broken,
and may overwrite the newest profile. That is the code's choice, and recorded under the hazards.

### MotorProtection

A reading says, for one motor and one fault, whether the value meets the threshold to
enter, the one to exit, neither, or is unknown; a stall needs the current as well. Each
behaviour watches the faults of one set of `Reports`, since the faults are independent.
`heard` is history: what each motor's own readings last said, and since when.

### HmiEvents, FaultManager, AutonomySupervisor

`HmiEvents` numbers the events in the order of the calls; `owed` is the list of accepted
events other than navigation. `FaultManager` has one action for `update`, with every set
of known and of asserted faults, and one for an authorised `clearLatched`; `steady` is
history and says since when what is known of a fault is the same. `AutonomySupervisor`
takes the first check of `evaluate` that fails as an input, but computes the mode check,
the grace of degraded sensors, retry counts and leases; the acknowledgement of the
brake and the absence of the cause are guards of the environment. `granted` is history.

## 3. Runs

Every run but `components` deadlock-checks; the program never stops by itself. In
`components` a behaviour ends when time, generations, revisions or calls reach their bound.

| Run | Instance | Shows |
| --- | --- | --- |
| `runtime_nominal` | period 2, TTL 3, no lateness, 2 deletions, 8 units | `RevokedStops`: a revoked mode has lost its voltage within one output period. `TickEnables`: the first tick of a control task that ends leaves its mode enabled, wherever the task before it was deleted. `KeepsContract`: break before make at the motors, refining `MotorContract` |
| `runtime_stalls` | TTL 2, lateness up to 6 (longer than TTL), 1 deletion with direct restart, 5 units | `DeadManStop`, `EnabledHasOwnFrame`, `NoFalseRegression` under stalls and restarts |
| `runtime_catchup` | one tick up to 15 ms late, TTL 8 | violates `BreakBeforeMake` (finding 1) |
| `runtime_orphan` | a deletion inside a critical section | violates `DeadManStop` (finding 2) |
| `cycle_drive` | two wheels, voltages -2..2, slew 1, lease numbers modulo 3, 3 epochs | `LeaseKept` (`DriveNeedsLease` and `LeaseAgrees`), `CoastOncePerPress`, `SlewBounded` |
| `cycle_lift` | a raised stick, samples taken after the header | violates `LiftRaises` (finding 4) |
| `recorder_sessions` | ring of 2, batches of 2, 2 sessions, 3 frames, 1 competition change | `WorkerAgrees`, `FilesExact`, `SessionCycle`, and `SessionEnds` under fairness |
| `recorder_leak` | the same | violates `OwnFramesOnly` (finding 3) |
| `procedures` | scheduler: one command of every kind, 2 slots, 2 subsystems, lease numbers modulo 4, 3 epochs (4 with routes); motions in a sequence and in a race with the lift; 3 routes from 2 sides; a ring of 3 slots; statuses of 2 fields; 2 devices and 2 recorder failures; one wheel or one gyro with 4 levels | see below |
| `motion_brake` | the motions of `procedures` | violates `BrakeOnEnd` (finding 6) |
| `components` | two editors, one parameter, leases and transactions of 1 unit in 3; two profiles, two registries, generations to 3; a queue of 3 with 5 pushes; a latched stop and a derating, alone and fed by two motors; a policy with a line of each kind and three leases; three layouts of odometry with two motors on a side; sticks of -3..3 | see below |
| `supervisor_old_lease` | two leases, the same policy | violates `FailedLeaseStaysDead` (finding 5) |

`components` shows, over 584838 distinct states:

* of `EditSession`, that what is committed was edited alone (`EditorAlone`) and on the
  parameters it was begun with (`NoLostUpdate`; both are `CommitIsolated`), and that a void copy of a lease never comes
  back to life (`LeaseStaysVoid`);
* of `ProfileStore`, that `load` finds the last profile stored, or a later one, whatever
  was torn or cut off (`SavedIsLoaded`);
* of `HmiEvents`, that merging and evicting navigation loses, doubles and reorders
  nothing else (`NoneLost` and `InOrder`, together `EventsKept`);
* of `FaultManager`, that faults enter and clear only after being steady for their delay
  (`Debounced`) and that latches outlive their cause (`LatchHolds`);
* of `MotorProtection`, that a fault stays asserted while the last word of any motor is trouble, and
  ends only when every motor has said that it is calm, for the delay to clear
  (`NoMotorForgotten`, in the run `MotorsRemembered`);
* of `AutonomySupervisor`, that retries stay within the policy in whatever order
  failures come (`RetriesBounded`) and that an end of the route is final (`EndsForGood`);
* of `Odometry`, that an update which calls translation or heading Good has advanced the
  pose by exactly what the robot did since the last accepted frame, whatever was lost,
  found, restarted, refused or reset in between (`GoodIsExact`);
* of `ManualDrive`, that no stick counts for more than the slew allows since the last
  fault or epoch, and that a heading is held only after the lock delay of straight driving
  since then, against a reference of the present pose (`NothingRemembered`).

`procedures` shows, over 83536 distinct states:

* of `CommandScheduler`, `EndedOnce`, `NoSharedSubsystem` and `RunsInItsEpoch`: whatever
  finishes, fails, is interrupted or crosses a boundary, no command is initialized twice without an end,
  no two that run need one subsystem, and none executes in another epoch than its lease's;
* of `AutonomousMotion`, that a velocity the arbiter selects belongs to a motion that
  still runs (`VelocityOfRunningMotion`) and that every motion ends (`MotionsEnd`);
* of `RouteSelection`, that the route which runs is the one confirmed when its mode was
  enabled (`RouteIsConfirmed`);
* of `OutputStatus`, that a read that succeeds returns one status whole, and one that was
  published last at some moment of the read (`ReadIsCurrent`);
* of `SpscRing`, `NoTornElement`, and that it refines `BoundedQueue` (`IsQueue`), with
  the producer deleted anywhere;
* of `StartupAlerts`, that whatever goes wrong is followed by a rumble (`AlertIsFelt`);
* of `SensorValidator`, that a Good channel has had its full recovery and has not stood
  still while it was expected to move (`GoodIsEarned`).

Every passing run checks the type invariant of its module as well, except
`runtime_stalls`, whose module's invariant `runtime_nominal` checks.

### Bounds

* `MaxTime` (with `Horizon`, where time stops) lets a mode be entered, enabled, driven
  and revoked and a successor enabled: entering takes one control period and the
  revocation shows one output period later. In `runtime_stalls` the time is more than
  twice the TTL, so a frame goes stale, the motors stop, and the loop comes back.
* `MaxKills` 2 allows a deletion of a callback's successor; one deletion at a time is
  all a single deletion can leave behind, since `forceDisabled` runs in between.
* `MaxEpoch` 4 in the scheduler and the cycle is a lease of an epoch, one of the next
  and one after the lease numbers have wrapped (`LeaseModulus`).
* `Capacity` 2 with `BatchSize` 2 and 3 frames fill the ring, overflow it and need two
  blocks. Two sessions are what a leak from one to the other needs.
* A ring of three slots is full with two elements and wraps in the third push; a status
  of two fields can be torn, and eight generations let a reader sleep through several publications.
* Motions of a time-out of 3 frames with one frame of settling and of stalling can end by
  each of the three, begin to settle and leave the band, and be ended by their group, a cancel,
  an interruption or a boundary in any of their frames.
* A self check of three polls with a dwell of two lets a device answer before, at and
  after the dwell, or never; two recorder failures let one alert overtake another.
* Four levels with a rate of 1 have a sample in range, one too high and one too far from the
  last; `Horizon` 5 is past every age that a check compares.
* In `Odometry`, a restarted count lies 4 units off, more than any motion; slip is
  confirmed in the second frame in a row; one frame may be refused between two accepted ones.
* In `ManualDrive`, a full stick of 3 takes three periods to build up and two to fall; a
  lock takes two.
* In `components`, `MaxTime` 2 with durations of 1 lets a lease or a transaction be alive, be in its
  last unit and lapse. Three lease generations are a lease, one of the other editor, and a
  second one of the first; two epochs are one boundary. `LastGeneration` 3 lets both slots
  be written, one be overwritten, and the generation reach its limit. A queue of 3 can hold navigation
  in its middle, and five pushes fill it, evict and merge. Three leases are one
  failed, one retried and one more. Editors and profiles are symmetric.

Mode epochs, frame sequences and times are naturals: the code's counters are 32 and 64
bits wide and advance at most once in 10 ms, so no match wraps them. The scheduler's lease
generations do wrap in the models, since the code handles it; an edit lease is taken by
hand, so `EditSession` does not wrap its generations. A profile's generation stops at its largest
value, `LastGeneration`, as in the code.

### Fairness

`SessionEnds`, `AlertIsFelt` and `MotionsEnd` need it. `FairSpec` of `FlightRecorder` assumes weak fairness of the steps inside a
tick or callback of the competition task (it is runnable until it sleeps or returns) and strong
fairness of the worker: the competition task takes the processor again and again but
sleeps most of its 10 ms, so a worker that is enabled again and again runs. Calls to the card
are assumed to return. Nothing is assumed of the button, the competition or the control
loop's next tick.

`AlertSpec` assumes weak fairness of each of the three tasks, which loop for ever and are
never deleted, and strong fairness of a rumble that is felt: the controller may be out of reach
again and again, but not whenever it is tried. `MotionSpec` assumes that the frames of the control
loop go on while the motions run; in `procedures` this is two formulas `[]<>`, since
one step of the frame is always possible. It is not assumed that any motion reaches
its band, that readings are usable or that the sink takes a request.

## 4. Proofs

TLAPS proves the following for every value of the constants that satisfies the modules'
assumptions, so for every period, TTL, ring size, batch size, number of deletions, set of
commands, motors, faults or editors. Where a theorem needs more, it says so.

| Module | Theorem | Says |
| --- | --- | --- |
| `DriveRuntimeProofs` | `TypeCorrect` | type invariant |
| | `NeverFalselyRegresses` | a frame in hand is never older than what was last accepted |
| | `EnabledAlwaysHasOwnFrame` | an enabled mode has a frame of its own epoch in the mailbox |
| | `MotorsDeadManStop` | no voltage older than TTL plus one output period, if no deletion falls in a critical section |
| | `ModeMovesAsAssumed` | the mode only moves to the next epoch, not enabled, or is enabled in its epoch; without any assumption on deletions and lateness |
| | `RevokedModeStops` | a revoked mode loses its voltage in one output period (plus lateness), under the same assumption |
| | `FirstTickEnables` | `TickEnables`: the first tick of a control task that ends leaves its mode enabled, if besides opcontrol never follows opcontrol directly and lateness stays below the gap of two competition changes |
| | `RuntimeKeepsContract` | `KeepsContract`: `DriveRuntime` implements `MotorContract`, if besides `MaxLate + 1 < ControlPeriod` |
| | `MotorsBreakBeforeMake` | `BreakBeforeMake`, under the same assumptions |
| `FlightRecorderProofs` | `TypeCorrect`, `WorkerAlwaysAgrees`, `StateKeepsCycle` | types; worker and control agree; the state's cycle |
| | `CommittedFilesAreExact` | `FilesExact`: a committed file is in order, of its own session, and accounts for every captured frame |
| `CycleProofs` | `CycleTypeCorrect`, `LeaseIsKept`, `PressCoastsOnce`, `FramesAreSlewed` | types; `LeaseKept`, `CoastOncePerPress` and `SlewBounded` for every voltage, slew, lift input and lease modulus, wherever the task is deleted |
| `CommandProofs` | `SchedulerTypeCorrect`, `CommandsEndOnce`, `SubsystemsAreExclusive`, `CommandsRunInTheirEpoch` | types; `EndedOnce`, `NoSharedSubsystem` and `RunsInItsEpoch` for every set of commands, groups of any length, subsystems and slots |
| | `ConfirmedRouteAlwaysRuns` | `ConfirmedRouteRuns` for any routes, sides and epochs |
| | `MotionTypeCorrect`, `MotionsAreCommands` | types of the motions; the three properties of the scheduler under `AutonomousMotion` |
| | `MotionsAgeToTheirEnd` | a motion that goes on loses no frame of its time, and goes on only while it is not over, for every time-out |
| | `ProceduresTypeCorrect`, `RouteStaysConfirmed` | `TypeOK` and `RouteIsConfirmed` of `MCProcedures`, so of any of its seven components |
| | `VelocityHasItsMotion` | `VelocityOfRunningMotion`, if no owner token is handed out again while the sink holds a request under it (`NoTokenTwice`) |
| `TransportProofs` | `RingTypeCorrect`, `NeverTorn`, `RingIsQueue` | types; no torn element; refinement of `BoundedQueue` |
| | `StatusTypeCorrect`, `AlwaysCurrent` | types; a successful read is one status, whole and current, for any number of fields and any even modulus |
| | `TrustIsEarned`, `ProbationIsServed` | `GoodIsEarned` for every recovery, freeze time, range and rate; no frame makes a channel Good without its recovery |
| | `AlertsAreNotLost` | an alert that is owed is delivered or on its way (`OwedIsOnItsWay`), for every number of devices and failures |
| `HmiProofs` | `StoreTypeCorrect`, `StoredProfileSurvives` | types; what was stored is loaded, for every set of profiles and registries |
| | `EditTypeCorrect` | types of leases and transactions: no stage leaves a parameter's range |
| | `CommitsAreIsolated`, `VoidLeasesStayVoid` | `CommitIsolated` and `LeaseStaysVoid` for every set of editors and domains and every duration |
| | `EventsAreKept` | `EventsKept` for every capacity |
| `SafetyProofs` | `LatchesHold`, `FaultsAreDebounced` | `LatchHolds` and `Debounced` for every set of fault rules |
| | `MonitorImplementsFaults`, `MotorsAreRemembered` | the motors feed a fault manager like any other; `NoMotorForgotten` for every set of motors |
| | `RetriesAreBounded`, `FinalFailuresAreFinal` | `RetriesBounded` and `EndsForGood` for every failure policy |
| | `MotorTypeCorrect`, `SupervisorTypeCorrect` | types of the motor protection and of the supervisor |
| `EstimateProofs` | `OdometryTypeCorrect`, `RenewedHeadingIsNotGood` | types; the frame of a reset has no Good heading |
| | `ComponentsTypeCorrect`, `MotorsStayRemembered` | `TypeOK` and `MotorsRemembered` of `MCComponents`, so of any of its eight components |
| | `GoodPoseIsExact` | `GoodIsExact` for every number of motors, size of a motion and restarted count |
| | `FreshStartForgets` | `NothingRemembered` for every rate, delay and stick |

How they go:

* `DriveRuntime`. The properties speak of the output task's copies, the invariants of
  where they came from. `SequencesOrdered` orders the counters: what the output task last accepted
  is at most its copy, that at most the mailbox's frame, and that at most the loop's
  counter, and below it between counting and publishing; with it a copy can never
  regress. `OwnFramePublished` follows a
  transition: while the boundary is acknowledged the mailbox holds a frame of the mode's
  epoch, and entering a new epoch disables the mode in the same store. `DeadMan` bounds the motors' frame by the clock and where
  the output task is, and needs that it is never blocked (`NoOrphan`), which is what
  `KillHoldingLock = FALSE` gives; finding 2 is the case in which it does not hold.
* `TickEnables`. A deletion may leave a mode that is entered and neither armed nor enabled. `EnableInv` lists who may
  still put that right: the task that is about to arm it, or a callback that is about to
  leave the mode. That the callback has left it before the next control task starts needs
  that it is less late than the two changes are apart.
* `MotorContract`. Break before make is an argument over time. `MakeInv` says that while the
  motors hold a voltage of another epoch than the mode's, whatever could give them one of
  the mode's is due, or was published, a control period after they were last written, less the lateness. A new voltage can
  then meet an old one only if lateness and the period of the output task make up a control period:
  `MaxLate + 1 < ControlPeriod` excludes it. The bound is sharp: TLC finds `BreakBeforeMake` violated
  with a period of 2 and a lateness of 1 (`runtime_catchup`, finding 1), and not with a period of 3.
* `FlightRecorder`. `SessionCycle` alone is not inductive: that a stop is never undone
  depends on where the worker is. `WorkerInv` says, for each place of the worker, which
  states are possible and whether the file is open; `PressInv` that only an idle or recording session
  begins a press, so a release can neither open a closing session nor close an opening one.
  For `FilesExact`, `PipelineInv` looks at all frames of a session at once: file, batch and ring in
  this order are the captured frames that were not dropped, in order and led by that of the Start (`Accounted`).
  A pop, a block and an append then leave this sequence as it is (`PopMoves`, `CaptureAppends`), and
  the file is closed only when batch and ring are empty. All of this is said until the
  first failure; finding 3 is what comes after one.
* `CommissioningCycle`. `LeaseInv` says when scheduler and lease command may disagree: between
  slot and `initialize()`, or, after a deletion there, in an epoch that has passed. `SlewInv` ties
  the slew's memory to the last published frame, or says that the memory will be reset,
  for each place in the tick where a deletion may separate the two. `ButtonInv` follows a press from the detector to the mapper.
* `SpscRing`. `PushingInv` and `PoppingInv` say what each side's local copies are worth:
  the other side's index may have moved, but only to make more room, or more elements.
  With that, storing the tail is an enqueue, storing the head a dequeue and everything else a stutter.
* `OutputStatus`. The invariant says, for each place of the writer, which fields are
  new, and of the reader, that as long as the generation has not moved since it was read
  the fields copied so far are those of the status published then. The last comparison
  can only be deceived by half of all generations passing, which the assumption excludes.
* `SensorValidator`. The validator counts from the last rejection, the history up to now; the invariant relates
  the two for each channel, and a time of standing still with the age at which it began.
* `ProfileStore`. That `load` finds the right profile says nothing of the other slot. The
  invariant adds what the choice of the target gives while a save is under way: the two
  generations differ when both slots are valid (`Apart`), the frame to be written keeps them apart and is the newest
  (`KeepsApart`), and the slot that is spared holds a profile that may be loaded (`Spared`).
  A torn write then leaves the spared slot, a complete one the new profile, which `tried` allows.
* `EditSession`. A copy is compared by owner, generation and epoch. `LeaseInv` says that no generation
  or epoch is ahead of the counters and that a generation has one owner, so a later lease never
  equals an earlier copy; `TransactionInv` that a transaction whose lease somebody else has taken holds one that
  will not be current again, and that an unchanged revision means unchanged values.
* `HmiEvents`. `EventsKept` says the same events, both lists ascending, which is the same list; numbers below the next
  push keep it inductive. What merging and evicting removes is shown to be navigation, wherever it stands in the queue.
* `CommandScheduler`. `EndedOnce` speaks of what a call does to `live`; the invariant
  ties `live` to the flags of the groups: a leaf is live exactly while its flags say that
  it runs (`LiveRuns`), only leaves of a command in a slot have flags (`Owned`), no two
  slots are of one command or share a subsystem (`Apart`), a command that runs one leaf at a time
  runs the current one (`OneAtATime`), and a group whose leaves would share a subsystem
  starts none (`NoneTogether`). A call is then taken apart into what it does to each
  command, one lemma for each kind.
* `RouteSelection`. The invariant adds that a lock of the present epoch is of what is
  confirmed, which then cannot change (`LockHolds`), and that a slot of the present epoch
  is of an enabled mode and holds the command of the confirmed choice or the one that
  does nothing (`SlotsConfirmed`). With the invariant of the scheduler no older slot executes.
* `AutonomousMotion`. The request in the sink outlives the motion that made it, so the
  invariant is about the slot: while a slot still has the token of a velocity in the sink, a motion
  of its command runs (`Drives`). That holds as long as the token is not given out again under
  the request. It would take all the other 2^32 leases given out in one epoch while one command holds its own,
  and that command ended and scheduled anew in the very frame in which the numbers have come round. The
  theorem takes this as its premise (`NoTokenTwice`), since the models' lease numbers wrap earlier. For
  `MotionsAgeToTheirEnd` each kind of command is followed through its tick: it initializes
  a leaf or executes it once, and what it executes with its time over has ended.
* `FaultManager`. `LatchHolds` compares a latch with what was last known, so the invariant ties
  `raw_asserted` to the history, and says that a latched fault is active: a latch is
  set with the activation, and an active fault that is latched does not clear. For `Debounced`, `TimerInv` says that
  a running timer began no earlier than the evidence has been the same.
* `MotorProtection`. Its steps are steps of `FaultManager` with the motors' evidence, so what is proved of any evidence
  holds of theirs. `HeardInv` relates each hysteresis with the last word of its motor, and a fault that is
  absent with how long all motors have been calm.
* `AutonomySupervisor`. The code counts retries per command and limits them per outcome.
  The invariant ties the count to the history, and says that a pending retry was decided
  while the count was below the limit of some line, which is still true when it is granted. An end is final
  because no command is active while the latch that ends the route is set.
* `StartupAlerts`. `OwedIsOnItsWay` names the four places from which an owed alert reaches the controller: a self check
  that has not ended, a recorder failure not yet handed on, a number in the box that differs from what the controller task
  will have handled, and a rumble under way. The invariant adds that what is owed of the self check is what it found
  (`CheckingInv`), and that no task has handled a number ahead of the one it read (`HandingOnInv`), so a number that is
  published is always new to the controller task.
* `DriveRuntime` as an environment. `ModeMoves` says of the mode snapshot what `ModeAndTime` lets it do. The
  invariant (`PendingInv`) is about what a deletion leaves behind: a boundary is of this epoch or an older one, and
  if it is of this one, what is pending is what its mode allows; so an acknowledgement enables nothing but the epoch it was armed for.
* The compositions. In `MCComponents` and `MCProcedures` one component runs in each behaviour. The others stand still, or only
  see the environment of the one that moves, so the invariant of a component is spoken of only while it is the one that
  runs (`ComponentInv`), and only its own steps have to keep it.
* `Odometry`. `BaselineInv` says of a baseline none of whose devices was rejected in the last accepted
  frame that it is as far from the present reading as the robot has moved since that frame, but for
  where its restarted counts stood (`Bias`). A reading that is Good has the same devices and the same bias, so their
  difference is the motion; a skid shows as a disagreement of headings, so it is never Good.
* `ManualDrive`. `NothingRemembered` is nearly inductive; what is added is that an assist which is not yet locked has
  counted no more straight driving than there was. A lemma bounds what one step of the slew adds.

The proofs asked for a few changes of the models, none of which removes a
behaviour of the program. `Odometry` let a device restart unseen that no frame had rejected; it now restarts only
devices that are Invalid in this frame or were in the last accepted one, which is what `SensorValidator` shows.
Its assumption also names that motors are finite in number and that a skid exceeds the tolerance, that of
`CommissioningCycle` that there is a largest slew step and some lift input, and that of `EditSession` that
no editor is called `"none"`. `NoneLost` and `InOrder` of `HmiEvents` are stated by sets and order
instead of a filtered sequence, which the provers cannot unfold.

Model-checked only: `SessionEnds`, `AlertIsFelt` and `MotionsEnd`. Liveness under fairness and
ENABLED are outside what the prover does, as are induction over data and RECURSIVE operators, which
no module here uses. What their steps must not do is proved: the recorder's state keeps its cycle
(`StateKeepsCycle`), an alert that is owed is never lost (`AlertsAreNotLost`), and a motion's
time is never given back (`MotionsAgeToTheirEnd`). Every safety property and every type invariant
that a passing run checks is proved.

## 5. Findings

1. **Break before make after a late tick** (`runtime_catchup`). `ControlLoop::tickOnce`
   enables a mode as soon as the stop frame of its epoch is published. Normally the
   output task writes that stop before the next control tick. After a late tick,
   `delayUntil` returns at once, and a tick that changes the mode and the tick after it run without
   the output task in between: the motors go from one epoch's voltage to the next one's without a stop.
   `docs/SYSTEM_CONTRACT.md` promises break before make for mode changes.
2. **A deletion in a critical section** (`runtime_orphan`). Mailboxes are read with a
   mutex and no time-out. A competition task deleted while it holds one leaves the output
   task waiting for ever, and the motors keep their voltage past the TTL that
   `docs/HARDWARE_COMMISSIONING.md` and `74000pros.md` rely on. (The window is a few
   instructions; that the operating system does not give the mutex back is what PROS
   documents for deleted tasks.)
3. **Frames of an abandoned session** (`recorder_leak`). A session stopped while its
   file is being opened ends with `control_.fail()` without the emptying of the ring that
   every other failure has; its frames are written to the next session's file.
4. **The lift's clock** (`cycle_lift`). The lift gate compares samples with the time of
   the tick's header, which was read before them, and takes a sample that is newer as bad:
   with the real adapter the lift stays at 0 V. The tests stamp their samples with the header's time.
5. **An old lease is new again** (`supervisor_old_lease`). `authorizeRetry` refuses the lease
   that failed last; after a second failure, the lease of the first is accepted again, and the
   command runs under it. `docs/AUTONOMY_SAFETY_OFFLINE.md` says that an old lease is always
   refused. The program's scheduler would not hand out a generation twice before it wraps.
6. **A motion that ends in its own frame does not brake** (`motion_brake`). The sink takes
   one request in a frame. A motion that has published its velocity and is then ended in
   the same frame, by its race or deadline group, a cancel or an interruption, is refused its Brake.
   The velocity is not driven, since the arbiter no longer finds its lease
   (`VelocityOfRunningMotion`), so the frame carries no request at all.
   `docs/MOTION_PRIMITIVES_OFFLINE.md:13` promises a Brake at every end. The publisher of
   the unit tests accepts every request.

## 6. Left out, and the plan

Not modelled on purpose: numerical control laws, trajectories and filters (floating
point), rendering and parsing without state, the timing monitor's statistics,
configuration constants, mechanism commands that no program builds, device I/O,
vendored code. Nearly all lines of `src` are vendored headers and sources of LVGL and PROS;
the program itself is the 81 headers under `src/include/robot` and the few files
in `src/src`. Device ports are held by the control loop only while it reads sensors and
delay the output task by less than a period. Groups inside groups are left out: every
group here holds leaves.

Seen in the code and not stated as a property, because nothing in the repository promises
or denies it:

* `Odometry` averages the motors that are there. When a motor whose count restarted is lost or
  returns, the mean jumps; the step is integrated under a Degraded quality, so `GoodIsExact`
  holds and the pose is wrong nevertheless.
* Its velocities divide by the period of the last frame, also after refused frames,
  when the distance is that of several.
* Its slip counter is 16 bits wide: after 65536 frames of slip in a row it
  starts again at 0, and the slip is only suspected until it is confirmed anew.
* `ManualDrive` does not look at the lease's generation: a new lease in the same epoch
  continues the old slews unless its caller resets it.
* `ParameterTransaction::begin` looks at the copy of the lease it is given and not at the
  manager, and the recorder's footer does not count what was dropped between the press
  and the return of `begin()`; both are listed under the hazards.

Next, in this order:

1. `GoodIsEarned` as the assumption under which `Odometry` is composed with `SensorValidator`
   in one run instead of by assumption.
2. `OutputStatus` with the reorderings that relaxed loads allow.
3. The direction self test and the characterization runner: a phase each and an abort anywhere.
4. `ProfileStore` as an implementation of a register that holds the old or the new profile.
5. The recording verifier as operators over files, checked against what `FlightRecorder` commits.

New components without calls to others join `MCComponents` or `MCProcedures`; runs that
answer the same question with other bounds are merged rather than added.
