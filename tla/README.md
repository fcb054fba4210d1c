# TLA+ models of NeverFastEnough

This directory holds TLA+ models of the NFE race-car stack (`packages/`), the
TLC configurations that check them on small instances, and TLAPS proofs of
theorems about them for every instance. Paths below are relative to the
repository; `nfe-runtime/x.rs` stands for `packages/nfe-runtime/src/x.rs`.

## 1. The system

One process drives the car. Its **control thread** (`nfe-car/control_loop.rs`)
takes, every tick, a snapshot of the sensors, runs the **pipeline**
(`nfe-runtime/pipeline.rs`) on it, and sends the pipeline's command to the
**actuators** unless one of four guards overrules it. Two **worker threads**
serve the pipeline: the **mapping worker** integrates LiDAR scans into an
occupancy grid, the **race-line planner worker** solves for a race line on each
complete map. **Sensor threads** write the shared sensor state; a **recorder**
thread drains the telemetry bus. The same control loop runs on the simulator
and on a recording, and the **tuner** runs the pipeline in many simulated
episodes to find its parameters.

| Component | State it keeps | Operations | Interacts through |
| --- | --- | --- | --- |
| Planner worker (`raceline_worker.rs`) | `SharedState` under a mutex, condition variable, event channel | `submit_latest`, `poll_event`, `shutdown`, `worker_loop` | mutex, condition variable, unbounded channel |
| Mapping worker (`mapping_worker.rs`) | bounded channel, shared status, shared map | `submit`, `mark_lap_complete`, `latest_status`, `latest_map`, `shutdown`, the loop | bounded channel in, two mutexes out |
| Pipeline (`pipeline.rs`) | planner state, last localization, supervisor, EKF, trackers | `step`, `reset` | calls everything else |
| Supervisor (`nfe-algo/supervisor`) | mode, lap, two streaks, map-quality latch | `step` | called by the pipeline |
| Start gate (`start_gate.rs`) | open or closed, first timestamp, last transition | `observe_tick` | UDP socket, GPIO interrupts |
| Control loop (`control_loop.rs`, `control/*`) | blind time, estop latch and count, last steering, watchdog bucket | `run`, `calibrate_imu` | all of the above, signals, PWM |
| Live session (`modes/live.rs`, `init.rs`, `sensors/*`, `state.rs`) | sensor threads, health flags, shutdown flag, recorder | `run`, `spawn_all`, the sensors' `run` | starts and joins threads |
| Telemetry and recording (`telemetry_bus.rs`, `sinks/mcap.rs`) | subscriber queues, the file | `publish`, `write_event`, `finish` | bounded channels |
| Replay (`input_replay.rs`, `modes/replay.rs`) | position in the file, the snapshot being assembled, one prefetched | `next_snapshot` | decoder thread, bounded channel |
| Race-line solver (`nfe-algo/raceline`) | none between calls | `solve_min_curvature` | called by the planner worker |
| Perception (`nfe-algo/perception`) | tracked apex, last estimate | `estimate`, `reset` | called every tick |
| Controllers (`nfe-algo/control`, `raceline/controller.rs`) | target speed, PID integral | `compute`, `reset` | called every tick |
| Simulator (`nfe-sim`) | vehicle, latency queue, progress | `next_snapshot`, `drive` | called by the loop or the tuner |
| Tuner (`nfe-tuner`, `bin/tune.rs`) | best configuration, best episode | four modes | command line, CMA-ES |
| Estimation, localization (`nfe-algo`) | numeric state | one call per tick or scan | called by the pipeline |

### What is hard, and what correct means

* **Planner worker.** A condition variable with two reasons to wake, a slot
  that is replaced while a solve runs outside the lock, events sent after the
  unlock. Correct: no lost wakeup, revisions never go backwards, every solve is
  answered once and in order, `shutdown` returns.
* **Mapping worker.** A queue that refuses work when it is full, a status that
  both threads write, two separately locked publications. Correct: no scan
  disappears unaccounted for, a status is never older than the map read before
  it, a lap mark that was accepted takes effect, `shutdown` returns.
* **Pipeline and supervisor.** Every tick combines what the workers have
  published at different moments. Correct: a line is never driven on a map it
  is not for, a stale line only within all three limits of the policy, the race
  line only after the laps and the dwell, and the planner ends up with the
  last map once the map stops changing.
* **Start gate.** Commands pile up between ticks and come from two sources.
  Correct: a disarm always wins its tick, the switch's last position prevails.
* **Control loop.** Guards that skip one another, latches that have to survive
  the skipped ticks, errors and signals anywhere. Correct: closed gate, blind
  car, latched estop and overrunning loop each mean neutral outputs, and
  whatever way `run` ends, the outputs are neutral.
* **Live session.** Threads that wait for devices, and an order of joins and
  drops. Correct: a shutdown ends everything, nothing is left behind, a fault
  flag does not stick.
* **Recording and replay.** Events lost by a full channel, writes that fail
  half-way, a process that is killed. Correct: a replay gives the readings of
  the recorded snapshots or nothing (a snapshot's two flags are recorded by no
  message), every message fits its channel, both sessions end.
* **Solver.** Discrete geometry with ties, edges and seams. Correct: the
  contour separates the two walls, cleaning digs through no wall, distances are
  the nearest, the speed profile can be driven across its seam.
* **Perception and controllers.** Memory between scans, and sign conventions
  between modules. Correct: what is held is near what is seen, an obstacle
  counts at once, the race-line controller steers back to its line.
* **Simulator and tuner.** A measure that parameters are chosen by. Correct: it
  senses the walls, counts laps that were driven, hides no failure of one seed
  behind the others, and writes the best configuration it measured.

The hazards, each at its line and with the properties that watch it, are listed
in `PROJECT.json`.

## 2. Modules

```
 LatestWins <--implements-- RacelineWorker      MapFeed <--implements-- MappingWorker
     |                                             |
     +-----> Pipeline <-- Planner, Supervisor <----+

 StartGate --> ControlLoop            LiveSession            Topics --> Recording

 DistanceTransform --> TrackMask --> Separatrix --> Solver
 TrackWorld --> Vehicle --> Simulator --> Tuner
 Angles --> ApexScan --> ApexPerception --+
        --> ReactiveControl --------------+--> Driving
        --> RaceLineControl --------------+
```

An arrow is EXTENDS, or INSTANCE where an abstract specification stands for a
worker. `MC_X` gives `X` its constants for TLC; `X_proofs` proves theorems
about it, `Raceline_proofs` about `RacelineWorker` and about `Solver`, which is what
the worker's thread runs.

| Module | Stands for | State and actions |
| --- | --- | --- |
| `LatestWins` | what the planner worker promises | the newest revision wanted, the one in work, the newest done, the answers not yet read |
| `RacelineWorker` | `raceline_worker.rs` | the fields of `SharedState`, the thread's program counter and local map, the channel; one action per critical section or channel operation |
| `MapFeed` | what the mapping worker promises | the published map and whether the line was crossed |
| `MappingWorker` | `mapping_worker.rs`, and what `OccupancyGridMapper` does to revision, scan count, completeness and closure verdict | channel, sender, thread, mapper, status, map; `submit` is two actions, for the drop is counted after the refusal, and so is the loop's publication, one per lock |
| `Planner` | `PlannerState`'s methods | operators on a record |
| `Supervisor` | `RaceSupervisor::step` | an operator on a record |
| `Pipeline` | `Pipeline::step` and `reset`, as far as they decide the mode | a tick is the phases idle, read, drain, ensure, decide; the workers, represented by `MapFeed` and `LatestWins`, move between any two of them |
| `StartGate` | `start_gate.rs` | gate, first timestamp, last published transition; the socket and the interrupts that wait for a poll, the switch |
| `ControlLoop` | `control_loop.rs::run`, `control/safety.rs`, `control/watchdog.rs`, the writes of `control/actuate.rs` | a tick is the phases top, gate, blind, estop, actuate, watchdog; signals, datagrams and the end of the input fall between any two |
| `LiveSession` | `modes/live.rs`, `init.rs`, the life of the threads in `sensors/*.rs`, the flags of `state.rs` | where `run` is, where each sensor thread is, its device, its fault flag, who holds the bus, the recorder |
| `Topics` | TOPICS of `sinks/mcap.rs` and what `write_event` writes for each event | operators |
| `Recording` | the bus, the recorder thread, the replay's decoder, source and prefetch | the events of a tick, the channel, the file's sensor messages, footer; then the decoder's position, its channel, the snapshot being assembled |
| `DistanceTransform` | `raceline/edt.rs` | the two passes of the lower envelope, as operators |
| `TrackMask` | `raceline/grid.rs` | erosion, dilation, components |
| `Separatrix` | `raceline/watershed.rs`, `raceline/contour.rs` | choice of markers, marching squares, stitching |
| `Solver` | `raceline/solver.rs` with `reference.rs`, `savgol.rs`, `min_curvature.rs`, `qp.rs`, `velocity.rs` | a stage per step of the solve; the optimization's iterations and the profile's passes are steps |
| `TrackWorld` | `nfe-sim/world.rs`, `progress.rs` | walls, rays, the footprint, progress along the waypoints |
| `Vehicle` | `nfe-sim/model.rs` | a step of the kinematic and the dynamic bicycle |
| `Simulator` | `nfe-sim/source.rs` and the episode loop of `nfe-tuner/evaluate.rs` | the car, commands on their way, the score; a tick is an action |
| `Tuner` | `bin/tune.rs`, `candidate.rs`, `space.rs`, `score.rs`, aggregation in `evaluate.rs` | the job, the configuration that is tried, the best so far, what is written |
| `ApexScan`, `Angles` | `perception/apex/scan.rs`, `geometry.rs` | operators: from a cloud to an apex and its opposite point |
| `ApexPerception` | `perception/apex.rs`, `apex/tracking.rs` | the tracker, the last estimate, timestamps |
| `ReactiveControl` | `control/reactive_stanley.rs`, `stanley.rs`, `speed.rs`, `pid.rs` | target speed, integral, last error |
| `RaceLineControl` | `raceline/controller.rs`, `lateral.rs`, `steering.rs`, `longitudinal.rs` | operators |
| `Driving` | their use in `pipeline.rs` | scans arrive; a tick perceives the scan it finds and lets one controller drive |

Conventions. An operator `X_Something`, or one its comment calls a mutant, is
`X` with a plausible mistake in it; it is not used by the specification, and
exists to show that a property notices the mistake (`mutants` in
`PROJECT.json`). A variable marked *history* records what happened and
influences nothing. `None` is below every revision.

### Abstractions worth knowing

* A map is its revision and its complete flag; a race line is the revision of
  its map; for the workers the solver succeeds or fails after finite time
  (`Solver` looks inside it).
* The pipeline's health inputs (estimate confidence, divergence, loop closure)
  are free every tick; localization is low or good whenever it runs. The number
  thresholds of the supervisor become booleans. `latest_map`'s `try_lock` may
  fail in any tick.
* `Pipeline` composes with `MapFeed` and `LatestWins` instead of the detailed
  workers; `ImplementsMapFeed` and `ImplementsLatestWins` justify this. One
  thing remains visible: an answer is recorded before it is sent, so `DrainDone`
  may leave the last one behind.
* Counters that saturate at `u32::MAX` saturate, in the planner, right above the
  limit they are compared with, and in the supervisor at `Saturation`.
* Distances, commands and times in `ControlLoop` are small integers. The cloud
  is its nearest point in the collision channel. `blind_ms` is counted in ticks
  up to the grace, beyond which it is compared with nothing.
* A datagram is arm, disarm or junk. `require_first_pipeline_cycle` never holds
  the gate back, because `run` passes `true`; it is left out.
* In `LiveSession` the three sensor threads have one shape and differ where the
  code does: the LiDAR looks at the flag again after its reset and skips failed
  reads, the sonar never reopens.
* In `Recording` a snapshot is told apart by the times of its readings and its
  two flags, which are free every tick although the simulator raises neither
  and the car only the fault flag; a
  message by topic, encoding, time and what a reader could confuse; only sensor
  messages and the mode transitions are kept in the model's file, the others
  give the replay nothing.
* `Solver`'s grid part is exact, with squared distances and with breaks of the
  envelope that are fractions where the code rounds to `f32`. `INF` is a constant, for
  TLC's integers are smaller than 1e20. From the reference on
  the widths, the program's solutions, the linearization errors and the
  curvatures are any of small sets, and the code's tests of them are kept.
* The profile of `Solver` has one distance between its samples and a pass that
  changes nothing; the code has a length per edge and a tolerance
  (`velocity.rs:35, 123, 180, 203`). The argument for the seam goes edge by edge.
* `Simulator` moves in cells and quarter turns; ray casting and the crash test
  use exact fractions. Tyre forces and noise are any of small sets or left out.
  The roughness of a drive is summed as the code sums it and has no bound; the
  weights of its four terms are constants (`Weights`), in the units of the model.
* The drives of the run keep to the lane, so that the nearest segment of a car
  that cuts a corner, which may jump (`progress.rs:104-112`), does not occur in it.
* `Driving` computes in centimetres, whole degrees and thousandths; the sine is
  a rational approximation that is exact at 0, 30 and 90 degrees. The choice
  between the controllers and the car's place are free every tick.

## 3. Runs

| Run | Instance | Asks |
| --- | --- | --- |
| `raceline_worker` | 4 revisions, submissions while at most 3 events are unread | `RevisionOrder`, `NoLostWakeup`, `EventsFaithful`, `ShutdownReturns`, `ImplementsLatestWins` |
| `mapping_worker` | queue of 2, 4 scans, any number of lap marks | `EveryScanAccounted`, `StatusLeadsMap`, `ShutdownReturns`, `QueuedLapMarkTakesEffect`, `ImplementsMapFeed` |
| `pipeline` | 3 revisions, 1 reset, each planner limit at its smallest, dwells of 2 ticks | `LineNeverAheadOfMap`, `UsableLineIsRecent`, `RaceLineIsEarned`, `SolvedAtMostOnce`, `PlannerCatchesUp` |
| `start_gate` | all configurations of the three entry points, 4 timestamps, 3 waiting datagrams and edges | `SwitchGoverns`, `DisarmWins` |
| `control_loop` | car armed over UDP and simulator with a delay; grace 2, 2 clean ticks, one failing call | `ClosedGateIsNeutral`, `EstopLatched`, `BlindIsBounded`, `OverrunsReachSafeState`, `ReturnsNeutral`, `ShutdownReturns` |
| `estop_clearing` | the same | violated: `ClearsForADocumentedReason` |
| `live_session` | three sensors, any of them found, 2 changes of what answers, all command lines | `FaultWhileWaiting`, `NothingLeftBehind`, `ShutdownEndsSession` |
| `live_session_failed` | the same | violated: `FailedSessionEnds` |
| `recording` | 2 ticks, a channel of 1, a replay channel of 2, 1 failed write, a kill, 1 revision | `MessagesMatchSchema`, `ReplayFaithful`, `SessionsEnd` |
| `solver` | an 11 by 11 grid, ring track with one or two cells blocked, odd islands, invalid grids; then 3 samples | `DistancesAreNearest`, `ThickObstaclesStay`, `ContourSeparatesWalls`, `ProfileIsDriveable` |
| `tuner` | a square lane, 3 starts, 4 modes, episodes of 6 ticks, configurations that switch the mapper on | `SensesTheWalls`, `LapsAreDriven`, `ScoresTellOutcomes`, `BestOfTheSpaceIsWritten` |
| `driving` | 7 scans, 3 of them in a run, 3 cars, a line of 3 points, resets | `AimsNearTheApex`, `TurnsBackToTheLine`, `BrakesForWhatIsAhead` |

The type invariants of the concurrent components are proved (section 4) and not
checked again by the runs.

### Why the bounds are enough

* *Planner worker*: one revision in work, one waiting, one that replaces it and
  one that is refused as outdated exist at once; three unread events are the
  Started and the result of one solve and the Started of the next.
* *Mapping worker*: a queue of two is the smallest that holds a scan and a lap
  mark in either order; with four scans it is full, drained and full again.
* *Pipeline*: with a lag limit of 1, three revisions trip the lag; with a limit
  of one outdated tick and no failure, each of the other limits is the first to
  trip in some behaviour. A reset happens with the map in any state. The bound on
  the revisions stops the mapper, so the condition of `PlannerCatchesUp` (the
  map and the resets stop) is met in every behaviour of the run; of a car that
  maps on for ever the property says nothing, as each occupied scan is a new
  revision (`mapping/mod.rs:186`) and the planner may always be behind it.
* *Start gate*: three waiting datagrams hold any command with one before and
  junk after it; four timestamps go below, to and beyond the delay of 2.
* *Control loop*: a grace of 2 ticks has a coasting tick and a stopping one; a
  clearing of 2 ticks can be interrupted between them; the bucket goes one miss
  above the escalation level of 6. `MaxLeaky` is where the model stops overruns.
* *Live session*: two changes let a device go and come back, or a second one go
  while the first is away, at any place of every thread.
* *Recording*: a tick publishes more events than the channel holds, so that any
  subset may be lost; the second tick has the old cloud or a new one; a failed
  write stops at each message of its event. A replay channel of two holds less
  than a snapshot, so the decoder waits for the reader.
* *Solver*: the lane is three cells wide, so one blocked cell leaves it
  connected and two may pinch it, at every place around the island, with the
  radii 0 and 1 of the cleaning. Three samples are the fewest of a closed line:
  each is a neighbour of the seam.
* *Tuner*: six ticks reach a lap of the square, and from the wrong side of the
  start line and against the lane; latencies are 0, 2 and 3 ticks, so commands
  are still on their way when the episode ends. Two individuals and two
  seeds suffice for one to be better and one to fail.
* *Driving*: three bends whose corner wanders by less than the switching
  threshold each, a wall, an opening, and a scan with too few points; three
  scans in a row are what it takes to drift beyond the threshold. One car crawls
  where rounding and the fade hide the distance, one has to turn back to a line on
  its right, one to a line on its left, so that the strict parts of
  `TurnsBackToTheLine` apply on both sides. The steering of the reactive controller
  is in the model and has no property: it takes the target's side in both its
  terms, and that the target lies on the right side is not a matter of signs.

### Fairness

* Worker threads: weak fairness of the thread's steps, because the operating
  system schedules it, and both a scan and a solve end (the solver's iterations
  are capped). A caller is never forced to call anything, but a call it has
  begun goes on. No spurious wakeup is assumed to happen.
* Pipeline: weak fairness of the control thread, which ticks for ever, and of
  the workers; strong fairness of the drain (an answer is sent right after it is
  recorded, so polling does not miss it for ever) and of the uncontended read
  (the mapper holds the map's lock only to store a map).
* Control loop: weak fairness of the thread. The ticker always fires, the socket
  does not block, the gate's poll has a zero timeout. Signals are not forced.
* Live session: weak fairness of every thread: opening and reading have
  timeouts, waits are sleeps. Signals, devices and errors are not forced.
* Recording: weak fairness of the threads of both sessions; that the loop ends,
  and that a replay is stopped before its end, is not forced.
* `Solver`, `Tuner`, `Driving`: no liveness is asked of them; that the
  stitching of the contour ends is part of `ContourSeparatesWalls`.

### What the violated properties show

1. `ClearsForADocumentedReason`: the documentation asks for two things before an
   active estop clears, room beyond its length by `rearm_gap_m` and
   *consecutive* clean ticks (`docs/config-parameters.md:169-170`). The code
   can clear with neither. `rearm_gap_m` has no effect, as the points it would be
   compared with were filtered out before (`control_loop.rs:264`); and a tick
   that the closed gate or blindness ends early leaves the count of clean ticks
   standing (`control_loop.rs:230`). The trace has both: two clean checks with
   an obstacle in the gap and a blind tick between them. The property is the
   disjunction of the two conditions, so that one trace shows both disagreements.
   `EstopLatched`, which holds, counts checks, as the code does.
2. `FailedSessionEnds` (`modes/live.rs:131`): a session whose loop returns an
   error never returns, because nothing tells the sensor threads to stop before
   they are joined; a session refused for `--force-arm` with `--record` never
   returns, because its recorder is joined while its bus is alive.

Behaviours of the code that the models contain and that no run complains about,
because nothing in the repository promises otherwise:

* A start-line crossing reported while the mapping queue is full is lost
  (`mapping_worker.rs:79`).
* When the mapper holds the map's lock for the instant of one `try_lock`, that
  tick does not see a poor localization (`pipeline.rs:461`).
* A switch edge that waited behind datagrams is applied ticks later and
  overrides a newer UDP command (`start_gate.rs:116`).
* A NaN throttle with a stale IMU becomes the creeping throttle
  (`control_loop.rs:291`).
* A recording holds no message for a snapshot's `sensor_fault` and
  `start_line_crossed` (`sinks/mcap.rs:455-481`), and a replay gives both as
  false (`input_replay.rs:98-99, 112-113`). "Reconstructs `SensorSnapshot` input"
  (`src/README.md:254`) is true of the readings only: the replay of a session
  with a sensor fault, which made the supervisor fall back (`pipeline.rs:473`),
  takes other decisions than that session did. `ReplayFaithful` compares the
  readings and says that the flags come back lowered.
* A configuration that car-tune writes switches the mapper off, whatever the file it
  was made from says (`bin/tune.rs:319`, written at 554-557 and 710-712). That a
  tuned file is no drop-in replacement for a car that maps is said nowhere.
* A finished episode may cost more than a failed one: the terms of its roughness have
  no bound (`evaluate.rs:229-234`). Throttle and steering that flip from stop to stop
  in every tick of 5 ms cost 800 and more than 200, a failure late in its last lap
  little more than 1000. The test `completed_episode_scores_below_failed_episode_band`
  has one smooth drive. `ScoresTellOutcomes` therefore compares no finish with a
  failure; it says where a failure shows in a verdict.
* `REQUIRED` is empty (`init.rs:39`), so the barrier opens at once; in live mode
  `start_line_crossed` is always false (`state.rs:193`), so the car itself never
  counts a lap; `arm` and `disarm` are single datagrams (`bin/arm.rs:60`).

## 4. Proofs

Eight modules hold proofs, for every value of the constants. What they assume is
named where the constants are declared: `BoundsAssumption`
(planner worker), `CapacityAssumption` and `ScansAssumption` (a queue of at
least one, which `queue_capacity.max(1)` guarantees), `SetupsAssumption` and
`GateBoundsAssumption` (only the live entry point builds an armed car),
`LoopAssumption` (a grace of at least one tick: even with `blind_grace_ms` 0 the
first blind tick uses it up), `PolicyAssumption`, `DwellAssumption` and
`PipelineBounds` (limits and dwells are unsigned), `GridSize` (a grid has cells, and
`INF`, 1e20 in the code, is beyond three times its squared diagonal), `LiveBounds` (the required
sensors are sensors), `RecordingBounds` (both channels hold at least one
message), `LateralAssumption` and `SteeringAssumption` (gains and limits of the
race-line controller are not negative, the speeds it divides by are positive),
`SolverSizes` (of the solver's parameters; caps are squares of speeds, the acceleration
limits are validated not to be negative), `CarsAssumption`, `LineAssumption` and `CloudsAssumption` (poses, lines and the
points of a scan are numbers), `ApexIsTyped` and `SpeedIsTyped` (so are the
parameters of perception and of the speed caps). For the
tuner: `FootprintIsNat`, `RangeIsPositive`, `WallsArePoints`, `WorldHasTrack`,
`WaypointsArePoints`, `WaypointsAlongAxes` (the model's worlds), `VehicleIsTyped`, `EpisodeBounds`,
`CommandsAreNumbers`, `SpaceAssumption` (a range is not empty, every tunable key is
a key of the configuration, the mapper's switch is a key and none of them) and `JobsAssumption` (a search has at least one
generation and individual: the library evaluates a generation before it looks at
the number asked for, and its populations have at least four; the number of seeds
is natural; the tables of a car's file have the fields of `CarConfigCompat` and its parts). All are evaluated by TLC in
the runs.

**`Raceline_proofs`.** Of the worker: `TypeCorrect`, `RevisionsStayOrdered`,
`NoWakeupIsLost`, `EventsTellTheTruth`, `WorkerImplementsLatestWins`. The
invariant `IInv` is `TypeOK /\ RevisionOrder /\ NoLostWakeup /\ ThreadInv`.
`ThreadInv` ties the thread's place in its loop to `SharedState`: without it
nothing says that the local job is the revision marked as being solved, or that
only the owner of the handle sets the shutdown flag. `EventInv` adds what the
channel's last event is at each place of the loop, and that the newest success
recorded was read or is still in the channel. The refinement maps the instant
between taking a map and announcing it to a server that is already busy with it.
Then what the worker's thread computes. `EveryDistanceIsNearest`, for every grid and
every set of sites, is the exactness of
the distance transform. `EnvelopeOf` says what the envelope under construction is: its vertices
and breaks increase, each break is where a vertex overtakes the one before, and
between two breaks no parabola added so far is lower. `HideKeeps` shows that one
more parabola keeps this; a vertex may go only because the new parabola overtakes the
vertex below it no later than the one above it (`OvertakesInBetween`, a fact about
mediants of fractions). `Edt1dIsExact` needs the bound on `INF`: a line without a
site never costs less than one that has one.

`ThickObstaclesRemain` and `TheFieldsAreExact` hold on every grid and for every
radius. The invariant `GridInv` says what mask, markers and fields are at each
stage. Under it lies that the components of a set of cells are a partition of it
(`ComponentsPartition`): floods and components are recursive functions over subsets,
`GatheringExists` shows that a function defined along a falling rank exists and
`RankInduction` what all its values have. From there the largest component, the
longest wall and so the markers exist (of equal walls one is found first, for no two
cells have the same index), are not empty and lie in the grid.

`ContourStaysOnTheTrack` is the part `ContourIsFree` of `ContourSeparatesWalls`: the
contour is closed and each of its lines lies in one square of free cells, on every
grid and however the saddles are decided. All that marching through a free square gives are lines of that
square (`LinesOfASquare`), and so is every segment of the whole grid
(`SegmentsAreFree`; `FoldingExists` and `FoldingStays` are what a fold needs).
`TraceDescends` gives the walk a rank: every step uses a new edge, or takes one in a
direction it has not taken since, or is the last. By induction over that rank the
points visited are a chain, each joined to the next, and a walk that comes back to its
first point has closed it (`TraceIsALoop`). The invariant `ContourInv` carries this from
the extraction of the cycles to the contour.

`SpeedsAreDriveable`: for every number of samples, all caps and limits. The code
stops when a pass changes nothing, or after `closed_passes`; that two passes always
suffice is stated nowhere. The argument is about sample 0, where a pass begins and
ends: every other edge holds when the pass in its direction ends (`ForwardGives`,
`BackwardGives`), a pass keeps what the other direction has established
(`ForwardKeeps`, `BackwardKeeps`), and once all edges but the one that leaves sample 0
hold, the next pass does not lower sample 0 any more (`ForwardSettled`,
`BackwardSettled`), so that this last edge holds as well. `ProfileInv` counts the
passes.

**`MappingWorker_proofs`.** `TypeCorrect`, `ScansAreAccounted`, `StatusIsAhead`,
`WorkerImplementsMapFeed`. The lemmas `ScansAppend` and `ScansTail` count the
scans of a queue that grows or shrinks by one, the latter with a bijection between
the positions before and after. `IInv` adds to the properties `PublicationInv` (how
far mapper, status and map are apart at each point of the loop: `StatusLeadsMap`
alone does not survive the next publication), `LapInv` (a complete flag goes back
to a mark, through queue, mapper and map) and `OfferedInv`.

**`Pipeline_proofs`.** `TypeCorrect`, `LinesStayBehindTheMap`,
`DrivenLinesAreRecent`, `RaceLineHasToBeEarned`, `NoRevisionIsSolvedTwice`, for
every policy, dwell and number of laps. What is not inductive by itself is the
chain from the mapper to the line: `SeenInv` and `BehindInv` keep every revision
on its way (read, attempted, wanted, solved, answered, in the planner's hands)
behind the published map, `OutboxInv` orders the answers and ties each to what
the worker has done, `AttemptsInv` ties the solver's attempts to what the
pipeline recorded, `ModeInv` ties the driven mode to the supervisor's. For the dwell
`StreakSound` says that the supervisor's streak of healthy steps is at most the number
of steps it has been reactive (`reactive`, a history variable), so that whoever
engages by the streak has been reactive for the dwell. The planner's methods have a lemma each, and so has every action.

**`ControlLoop_proofs`.** First the start gate by itself: `GateTypeCorrect`,
`SwitchHasItsWay`, `DisarmAlwaysWins`, `OpensForAReason`. The invariant
`SwitchInv` says that the last waiting interrupt tells where the switch is, which
makes `SwitchGoverns` inductive, and that gates which nobody can arm never receive a
signal, so that an `AlwaysOpen` gate stays open. Then the loop: `TypeCorrect`, `GateIsObeyed`, `EstopHolds`,
`CoastingEnds`, `WatchdogEscalates`, `LoopEndsNeutral`, and `LoopImplementsGate`:
the loop's steps are steps of `GateSpec` or leave the gate alone, so that the
theorems about the gate hold in the loop (`LoopHeedsDisarm`). Each guard has its
part of the invariant, one lemma per action shows that all parts survive it:
`GuardInv` (past the gate it is open), `EstopInv` (the counted clean ticks are at
most those since the last threat, which is why the code's counter cannot clear
an estop early; `interrupted`, which remembers a tick without a check between them, is
a history variable of the violated property alone), `BlindInv` (the counted blind ticks are at least those in a
row), `WatchdogInv` (the bucket holds twice the overruns in a row), `ReturnInv`
(outputs that are not neutral at the return have cost a failed call).

**`LiveSession_proofs`.** `TypeCorrect`, `FaultsDoNotStick`, `SessionsCleanUp`.
`EndInv` says which handles on the bus exist, and which threads have ended, at
each place of `run`: the recorder ends with the last handle, and that the last
handle goes after the joins is what makes its end the session's.

**`Recording_proofs`.** `SessionIsTyped`, `MessagesFitTheirChannels`,
`ReplayGivesWhatWasRecorded`, for every capacity, number of ticks and of failing
writes: the readings come back, the flags never (`FlagsAreNotWritten`). `FileInv` places the recorded snapshots in the file: the readings of each
stand one behind the other, its cloud last, and no cloud stands anywhere else,
whatever events were lost or cut off in between. `Reads` says the same of a replay
under way, with the positions the channel's frames came from and the position the
source has seen the file up to: the snapshots before it have left the source, and the
readings it holds are those of the next one. `Handed` keeps a cloud from leaving
twice.

**`Driving_proofs`.** `HeldTargetsAreNear`, for all scans, cars, lines and
parameters. `TrackedIsAimed` is what makes it inductive: whenever an apex is
tracked, the angle kept for the hysteresis is the one the remembered estimate was
made of. `SteersBackToTheLine`: the property judges the car's side and heading by the
line alone, so the proof first shows that the reference handed over and the
controller's heading error agree with them (`ReferenceFits`, `HeadingFromTheLine`).
Every step from there to the wheels' angle (sine, division towards zero, fade, clamp,
arctangent) is monotone and has the sign of its argument, although each is rounded; the
command is compared with that of the same car on the line (`SteersBack`). For the
strict part, in `Matters`, the pull is followed through the same steps with what each
rounding may take from it: a whole unit in the acceleration (`FeedbackPulls`), another
in the curvature (`CurvaturePulls`) and in the yaw rate, and at the wheels 36 mrad
outweigh the step of the angles (`SteersForMore`). `BrakesInTime`:
a speed cap that is no number would make the least of the caps anything, so the
proof first shows that perception gives numbers for every scan and every memory of
earlier ones (`SeenIsTyped`): the median of a window (`NthIsThere`), the centroid of
a wall (`CentroidIsTyped`: in front of the car the cosines add up to a positive
sum), the interpolated angle, the midpoint, the square root of the curvature cap.
Then each way to an estimate reports an obstacle no farther away than the nearest
ahead in this scan, a nearer obstacle gives no higher a cap (`ObstacleCapInOrder`),
and the rate limit either lets the target through or falls by a whole step.

**`Tuner_proofs`.** `SearchIsTyped`, `TheBestIsWritten`, `VerdictsTellOutcomes`
and `SensingIsExact`, for every track, vehicle, space and
population. Costs can only be compared when they are numbers, so half of
the proof leads there: projections onto the track, the vehicle's step for any
outcome of the forces, the latency buffer, progress, the score of an episode and of
several (`VerdictIsTyped`; sums over finite sets are shown to exist first). `IInv` adds
`DrivenIsValid` (what is driven or judged was validated and is in the search
space), `JudgedAreTuned` (it differs from the file in its space and in the mapper's
switch only), `BestIsCheapest` (the best is among the judged, cheaper
than all others, and there as soon as there is one) and `SimBestIsCheapest`: the
separately kept best episode is the best of those that were driven, which may be
fewer than the individuals, and this is enough for it to be the winner's.
`OutcomesAreTold` follows the outcome of an episode into its score: a crash comes
before the lap it would have ended, a lap that counts was gone (`LapsAreCompleted`),
and what is no finish costs at least the failed band (`TellsItsOutcome`). Of several
scores the fewest laps are those of one of them (`FewestLaps`), and as no cost is
negative, the mean is at least the failed one's share of it (`CostTells`), for any
number of seeds and however rough the others drove.

`SensingIsExact`: the clipping code and the reference `SensesTheWalls` decide by
different means, so the proof is of their agreement, for walls of any direction and
length. `ClipIsExact` says what one call of `clip_segment` leaves of the part of a
segment between its bounds, as fractions; four of them leave something if and only if no
lower bound is above an upper one (`BoxIsClipped`), and that is so if and only if no side
of the box and no side of the segment has the other one entirely beyond it
(`BoxIsMet`, where the products of the coordinates meet, in one quadrant for all
of them by mirroring). `ClearIsApart` turns it back into the world's frame, `FarIsClear`
shows that the query of the spatial index misses no wall, and `CrashIsExact` joins
them. For the rays: a hit is a weighted mean of the wall's ends (`HitIsBetween`), so
its wall is in the query's envelope (`HitIsNear`), the least of finitely many fractions
exists (`LeastFraction`), and a hit up to some distance is the same as a change of the
orientation up to there (`CrossingIsAHit`). `CrashIsKnown` is the invariant: a source is
exhausted by a crash alone, and one that is not has either not looked yet or touches
nothing. The hypothesis `StartsOffTheWalls` is about the one place nobody looks at:
the code tests no start pose, and a footprint without extent is never tested. It
is evaluated for the run's jobs (`MCStartsOffTheWalls`).

Only model-checked: everything about liveness (`ShutdownReturns`,
`QueuedLapMarkTakesEffect`, `PlannerCatchesUp`, `ShutdownEndsSession`,
`SessionsEnd`), which the prover's fragment does not reach; `LapsAreDriven`, for the nearest segment of
a car that leaves its lane may jump and the progress with it, so that the property holds
only of drives like the run's; of the solver
`ContourSeparatesWalls` but for `ContourIsFree`: that one wall is inside the contour
and the other outside (that a closed contour has an inside is the Jordan curve
theorem), that no point is visited twice and that the walk meets its start rather than
circle elsewhere. The last two are no matter of the stitching: on some graph of
segments either would fail, and that the zero set of two distances gives no such graph
is geometry.

## 5. Not modelled, and why

* EKF, scan matching, particle filter, RANSAC, the LQR's gain iteration, splines
  and the linear algebra of the quadratic program, tyre forces: floating-point
  results with no finite abstraction that would say something. Their verdicts
  are free inputs of the models that use them.
* The grid, the submaps and the loop closure's geometry inside the mapper.
* Device protocols (the LiDAR's packets, the IMU's registers, the sonar's echo
  times) and the pulse widths of the PWM.
* The contents of Foxglove scenes, metrics files, command-line parsing, logging:
  output that no other part reads back.
* What a snapshot of the shared state combines: it takes one lock per sensor, so
  its readings may be of any age; `ControlLoop` leaves each of them free.
* The start-line debouncer, which no session builds; `run_loop.rs`, of which the
  tuner's replay evaluation alone makes use; the diagnostic tools and benches;
  the NixOS modules.
* `RaceLinePlannerWorker::status`, which nothing but tests calls, and the
  disabled variants of both workers, which do nothing.
* A panic of a worker thread: the models know of errors, not of bugs.

## 6. What could come next

1. The mapper's submaps and loop closure as a discrete structure (which scan
   belongs to which submap, what a closure moves), with only the poses abstract.
2. Which graphs of segments the zero set of two distances gives, so that the walk of
   `Trace` is shown to come back to its start and to visit no point twice.
3. The RANSAC corridor with its sampling as a free choice, beside the apex
   perception in `Driving`.
