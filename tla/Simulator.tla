------------------------------ MODULE Simulator ------------------------------
(***************************************************************************)
(* An episode in the simulator (nfe-sim/src/source.rs driven by            *)
(* evaluate_sim_laps of nfe-tuner/src/evaluate.rs): in every tick the      *)
(* source applies the command that is due, moves the car and looks for a   *)
(* crash; the pipeline answers the snapshot with a command, which the      *)
(* actuator leaves for a later tick; progress and score are kept; and the  *)
(* episode ends by a crash, by the laps asked for or after max_ticks.      *)
(*                                                                         *)
(* An episode shares nothing with another one and runs on one thread: its  *)
(* ticks are atomic.  The pipeline's command is any of Commands.           *)
(***************************************************************************)
EXTENDS Vehicle

CONSTANTS
  Commands,        (* what the pipeline answers: [steer, throttle, available] *)
  TickUs,          (* tick_us                                               *)
  MaxTicks,        (* max_ticks                                             *)
  TargetLaps,
  TargetSpeed,     (* in cells per tick, as the next one                    *)
  MinAvgSpeed,
  Weights          (* what the square of one unit costs, in hundredths, of  *)
                   (* [lateral, heading, steering, throttle], the last two  *)
                   (* between one tick and the next: a rate's square is the *)
                   (* change's over dt_s's                                  *)

ASSUME EpisodeBounds ==
  /\ TickUs \in Nat \ {0} /\ MaxTicks \in Nat \ {0}
  /\ TargetLaps \in Nat \ {0} /\ TargetSpeed \in Nat \ {0} /\ MinAvgSpeed \in Nat \ {0}
  /\ {Weights.lateral, Weights.heading, Weights.steering, Weights.throttle} \subseteq Nat

ASSUME CommandsAreNumbers ==
  \A cmd \in Commands : cmd.steer \in Int /\ cmd.throttle \in Int

VARIABLES
  model,     (* VehicleModel: [kind, params], params of a dynamic bicycle   *)
  latency,   (* latency_us                                                  *)
  start,     (* the start pose of the world: [x, y, yaw]                    *)
  car,       (* SimulatorSource: state                                      *)
  memory,    (* what the model remembers: its servo and its motor           *)
  cell,      (* cmd, which the actuator writes                              *)
  queue,     (* LatencyBuffer: commands and when they are due               *)
  applied,   (* applied_cmd                                                 *)
  simUs,
  exhausted,
  progress,
  score,     (* SimScoreAccumulator                                         *)
  driven     (* auxiliary, see Drove                                        *)

source == <<car, memory, cell, queue, applied, simUs, exhausted>>
world == <<model, latency, start>>
episode == <<world, source, progress, score, driven>>

Neutral == [steer |-> 0, throttle |-> 0]
Required == TargetLaps * TrackLength

NoScore == [ticks |-> 0, best |-> 0, laps |-> 0, speed |-> 0, off |-> 0, rates |-> 0,
            last |-> << >>, unavailable |-> 0, finish |-> << >>, crashed |-> FALSE]

(* A new SimulatorSource and actuator, progress and accumulator; the world, *)
(* the model and the latency are those of the process.                      *)
AtStart(s) == [x |-> s.x, y |-> s.y, yaw |-> s.yaw, v |-> 0, rate |-> 0]
AtRest == [steer |-> 0, accel |-> 0]

SourceInit(m, l, s) ==
  /\ model = m /\ latency = l /\ start = s
  /\ car = AtStart(start) /\ memory = AtRest
  /\ cell = Neutral /\ applied = Neutral /\ queue = << >>
  /\ simUs = 0 /\ exhausted = FALSE
  /\ progress = NoProgress /\ score = NoScore /\ driven = 0

NewEpisode ==
  /\ car' = AtStart(start) /\ memory' = AtRest
  /\ cell' = Neutral /\ applied' = Neutral /\ queue' = << >>
  /\ simUs' = 0 /\ exhausted' = FALSE
  /\ progress' = NoProgress /\ score' = NoScore /\ driven' = 0

-----------------------------------------------------------------------------
(* SimulatorSource::step                                                    *)

Due(q, now) == {i \in DOMAIN q : q[i].at <= now}

(* push and poll_due: everything that is due leaves the queue, the newest   *)
(* of it is applied.                                                        *)
PollDue ==
  LET q == Append(queue, [cmd |-> cell, at |-> simUs + latency])
      due == Due(q, simUs)
  IN /\ queue' = SubSeq(q, Max(due \cup {0}) + 1, Len(q))
     /\ applied' = IF due = {} THEN applied ELSE q[Max(due)].cmd

Drive ==
  IF model.kind = "kinematic"
  THEN car' = KinematicStep(car, applied') /\ UNCHANGED memory
  ELSE LET params == FromParamsWithBase(model.params)
           input == UpdateActuators(params, memory, applied')
       IN /\ memory' = input
          /\ car' \in {DynamicStep(params, car, input, f) : f \in Forces(car, input)}

(* What the car has driven with its lane, less what it has driven against   *)
(* it: an auxiliary variable, counted from the moves and not from places.   *)
LaneOf(p, q) == {HeadingOf(i) : i \in {j \in Segments : ProjectOnto(j, p).dist2 = 0
                                                        /\ ProjectOnto(j, q).dist2 = 0}}
Drove(from, to) ==
  IF <<from.x, from.y>> = <<to.x, to.y>> THEN 0
  ELSE MapThenSumSet(LAMBDA h : (to.x - from.x) * Cos(h) + (to.y - from.y) * Sin(h),
                     LaneOf(from, to))

-----------------------------------------------------------------------------
(* evaluate_sim_laps                                                        *)

(* The loop goes on.                                                        *)
Running == ~ exhausted /\ score.finish = << >> /\ score.ticks < MaxTicks

(* SimActuator::apply                                                       *)
Apply(cmd) ==
  cell' = [steer |-> cmd.steer, throttle |-> Clamp(cmd.throttle, -FullThrottle, FullThrottle)]

Square(n) == n * n

(* SimScoreAccumulator::update.  The squares of lateral and heading error   *)
(* are one sum, those of the changes of the command another one, weighted   *)
(* as finish does it.                                                       *)
Off(place) ==
  Weights.lateral * place.dist2 + Weights.heading * Square(HeadingError(car'.yaw, place))
Change(cmd) ==
  IF score.last = << >> THEN 0
  ELSE Weights.steering * Square(cmd.steer - score.last[1].steer)
         + Weights.throttle * Square(cmd.throttle - score.last[1].throttle)

Accumulate(cmd, place) ==
  score' = [score EXCEPT
    !.ticks = @ + 1,
    !.best = Max({@, progress'.unwrapped, 0}),
    !.laps = Lap(progress'),
    !.speed = @ + Max({car'.v, 0}),
    !.off = @ + Off(place),
    !.rates = @ + Change(cmd),
    !.last = <<[steer |-> cmd.steer, throttle |-> cmd.throttle]>>,
    !.unavailable = @ + IF cmd.available THEN 0 ELSE 1,
    !.finish = IF progress'.unwrapped >= Required THEN <<simUs'>> ELSE << >>]

(* next_snapshot, the pipeline's answer and the bookkeeping.  A tick that   *)
(* crashes gives no snapshot, so nothing else of it takes place.            *)
Tick ==
  /\ Running
  /\ PollDue
  /\ Drive
  /\ simUs' = simUs + TickUs
  /\ exhausted' = (exhausted \/ FootprintIntersectsWall(car'))
  /\ IF exhausted'
     THEN score' = [score EXCEPT !.crashed = TRUE] /\ UNCHANGED <<cell, progress, driven>>
     ELSE LET place == Project(Point(car'.x, car'.y))
          IN /\ progress' = Advance(progress, place)
             /\ driven' = driven + Drove(car, car')
             /\ \E cmd \in Commands : Apply(cmd) /\ Accumulate(cmd, place)
  /\ UNCHANGED world

-----------------------------------------------------------------------------
(* SimScoreAccumulator::finish.  Costs are in hundredths, rounded down.     *)

InvalidCost == 900000000      (* stands for 1.0e9                           *)
FailedBand == 100000          (* 1000.0                                     *)

FinishedCost(s) ==
  (100 * s.finish[1] * TargetSpeed * Cell) \div (TickUs * Required)
    + s.off \div s.ticks + s.rates \div Max({s.ticks - 1, 1})
    + (1000 * s.unavailable) \div s.ticks

(* progress_ratio in hundredths                                             *)
Ratio(s) == Clamp((100 * s.best) \div Required, 0, 100)

FailedCost(s) ==
  FailedBand + 5 * Square(100 - Ratio(s))
    + (IF s.crashed THEN 10000 ELSE 0)
    + (5000 * Max({MinAvgSpeed * s.ticks - s.speed, 0})) \div (MinAvgSpeed * s.ticks)
    + (1000 * s.unavailable) \div s.ticks

Finish(s) ==
  [cost |-> IF s.ticks = 0 THEN InvalidCost
            ELSE IF s.finish # << >> THEN FinishedCost(s) ELSE FailedCost(s),
   finish |-> s.finish, laps |-> s.laps, crashed |-> s.crashed, ticks |-> s.ticks]

-----------------------------------------------------------------------------
(* aggregate_sim_scores.  The standard deviation is half of the distance of *)
(* the extreme costs: exactly so for two episodes, at most so for more.     *)

Cheapest(scores) ==
  scores[CHOOSE i \in DOMAIN scores :
           \A j \in DOMAIN scores \ {i} : \/ scores[i].cost < scores[j].cost
                                          \/ scores[i].cost = scores[j].cost /\ i < j]

(* Mutant: the crash flag is the one of the cheapest episode.               *)
Aggregate_BestOnly(scores, weight) ==
  IF scores = << >>
  THEN [cost |-> InvalidCost, finish |-> << >>, laps |-> 0, crashed |-> FALSE, ticks |-> 0]
  ELSE Cheapest(scores)
Aggregate(scores, weight) ==
  LET costs == {scores[i].cost : i \in DOMAIN scores}
      mean == SumFunction([i \in DOMAIN scores |-> scores[i].cost]) \div Len(scores)
  IN IF scores = << >>
     THEN [cost |-> InvalidCost, finish |-> << >>, laps |-> 0, crashed |-> FALSE, ticks |-> 0]
     ELSE [cost |-> mean + weight * ((Max(costs) - Min(costs)) \div 2),
           finish |-> Cheapest(scores).finish,
           laps |-> Min({scores[i].laps : i \in DOMAIN scores}),
           crashed |-> \E i \in DOMAIN scores : scores[i].crashed,
           ticks |-> SumFunction([i \in DOMAIN scores |-> scores[i].ticks]) \div Len(scores)]

(* CandidateScore::from_sim_episode                                         *)
Status(s) == IF s.crashed THEN "crashed"
             ELSE IF s.finish # << >> THEN "finished" ELSE "incomplete"
=============================================================================
