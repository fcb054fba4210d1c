------------------------------- MODULE Tuner -------------------------------
(***************************************************************************)
(* car-tune (nfe-car/src/bin/tune.rs with nfe-tuner's candidate.rs,        *)
(* space.rs and score.rs): candidates are applied to the base              *)
(* configuration, validated, driven through one episode per seed and       *)
(* scored; CMA-ES keeps the cheapest individual of all generations, whose  *)
(* configuration is written at the end.  With --candidate one candidate is *)
(* scored instead, and --dump-search-space writes the keys and their       *)
(* ranges.                                                                 *)
(*                                                                         *)
(* With --parallel the individuals of a generation are evaluated on many   *)
(* threads, which share sim_best alone and touch it once, under its lock,  *)
(* at the end: they are evaluated here one after another, and since each   *)
(* of them may be any individual, in any order.                            *)
(***************************************************************************)
EXTENDS Simulator

CONSTANTS
  Jobs,        (* command lines: [kind, source, seeds, generations,         *)
               (*   population, weight, candidates, model, latency, start,  *)
               (*   file, space]; file is --config, space are the keys that *)
               (*   --param-prefix leaves                                   *)
  Params,      (* ParamSpec of every tunable key: [kind, lo, hi, default]   *)
  Overrides,   (* the ranges apply_search_overrides gives some keys         *)
  Defaults,    (* RuntimeConfig::default, of every key of a configuration   *)
  CompatDefaults,    (* CarConfigCompat::default, of the keys that the      *)
                     (* tables [control] and [mapping] of a car's file hold *)
  MapperKey,   (* mapping.enabled: 0 or 1                                   *)
  RawValues,   (* values CMA-ES samples, in halves                          *)
  MinKey, MaxKey,    (* algo.apex.min_lookahead_m and max_lookahead_m       *)
  ReplayCosts  (* costs of an episode over recorded input                   *)

Keys == DOMAIN Params
ControlKeys == DOMAIN CompatDefaults

IsRange(range) == range.lo \in Int /\ range.hi \in Int /\ range.lo <= range.hi
IsNumbers(values) == \A k \in DOMAIN values : values[k] \in Int
(* The tables of a car's file have the fields of CarConfigCompat.           *)
IsFile(file) == /\ IsNumbers(file.algo) /\ IsNumbers(file.control)
                /\ DOMAIN file.control \subseteq ControlKeys
IsModel(vehicle) ==
  /\ "servo" \in DOMAIN vehicle.params => vehicle.params.servo \in ServoParams
  /\ "low_speed" \in DOMAIN vehicle.params => vehicle.params.low_speed \in LowSpeedParams

ASSUME SpaceAssumption ==
  /\ Keys \subseteq DOMAIN Defaults /\ MinKey \in Keys /\ MaxKey \in Keys
  /\ MapperKey \in DOMAIN Defaults \ Keys
  /\ IsNumbers(Defaults) /\ IsNumbers(CompatDefaults)
  /\ \A k \in Keys : IsRange(Params[k]) /\ Params[k].default \in Int
  /\ \A k \in DOMAIN Overrides : IsRange(Overrides[k])
  /\ RawValues \subseteq Int /\ ReplayCosts \subseteq Int

(* CMA-ES evaluates one generation before it looks at the number asked for, *)
(* and its population is at least four.                                     *)
ASSUME JobsAssumption ==
  \A j \in Jobs :
    /\ j.space \subseteq Keys /\ \A params \in j.candidates : IsNumbers(params)
    /\ j.kind = "cma" => j.generations \in Nat \ {0} /\ j.population \in Nat \ {0}
    /\ IsFile(j.file) /\ IsModel(j.model)
    /\ j.latency \in Nat /\ j.weight \in Int /\ j.seeds \in Nat
    /\ j.start.x \in Int /\ j.start.y \in Int /\ j.start.yaw \in Int

VARIABLES
  job,
  stage,       (* "next", "episode", "replay", "judge", "done" or "failed"  *)
  config,      (* the configuration under evaluation                        *)
  scores,      (* finished episodes of it                                   *)
  simBest,     (* sim_best, << >> for None                                  *)
  best,        (* CMA-ES: overall_best, << >> before the first              *)
  tried,       (* number of individuals                                     *)
  judged,      (* auxiliary: [config, cost] of every individual             *)
  out          (* what is written to --out and --score-out                  *)

vars == <<episode, job, stage, config, scores, simBest, best, tried, judged, out>>

-----------------------------------------------------------------------------
(* Configurations                                                           *)

(* f64::round of a number of halves, half away from zero                    *)
Round(halves) == 2 * Quotient(halves + Sign(halves), 2)
(* ParamSpec::clamp                                                         *)
ClampSpec(spec, raw) ==
  Clamp(IF spec.kind = "int" THEN Round(raw) ELSE raw, spec.lo, spec.hi)

(* apply_to_runtime_config: an unknown key is an error, keys that are not   *)
(* named keep the base's value.                                             *)
Applies(params) == DOMAIN params \subseteq Keys
ApplyToRuntimeConfig(base, params) ==
  [k \in DOMAIN base |-> IF k \in DOMAIN params THEN ClampSpec(Params[k], params[k]) ELSE base[k]]

(* validate_runtime_config                                                  *)
ValidateRuntimeConfig(cfg) == cfg[MinKey] <= cfg[MaxKey]

Overlaid(values, by) == [k \in DOMAIN values |-> IF k \in DOMAIN by THEN by[k] ELSE values[k]]

(* runtime_config_from_car_compat: the [algo] overlay is merged first; then *)
(* every key of [control] and [mapping] is assigned, given in the file or   *)
(* not.                                                                     *)
Compat(control) == Overlaid(CompatDefaults, control)
RuntimeFromCar(file) == Overlaid(Overlaid(Defaults, file.algo), Compat(file.control))

(* load_runtime_config of candidate.rs and its caller of the same name in   *)
(* tune.rs: a file that is not there or is no TOML, such as a configuration *)
(* car-tune has written, leaves the defaults; and no mapper runs beside an  *)
(* evaluation, whatever the file says.                                      *)
LoadRuntimeConfig(file) ==
  CASE file.kind = "car"     -> RuntimeFromCar(file)
    [] file.kind = "runtime" -> Overlaid(Defaults, file.algo)
    [] OTHER                 -> Defaults
BaseConfig == [LoadRuntimeConfig(job.file) EXCEPT ![MapperKey] = 0]

(* search_space_entries_for_config: SearchSpaceEntry of a key               *)
Entry(k) ==
  LET range == IF k \in DOMAIN Overrides THEN Overrides[k] ELSE Params[k]
      clamp(v) == ClampSpec([kind |-> Params[k].kind, lo |-> range.lo, hi |-> range.hi], v)
  IN [key |-> k, low |-> range.lo, high |-> range.hi,
      default |-> clamp(Params[k].default), current |-> clamp(BaseConfig[k])]

-----------------------------------------------------------------------------
Init ==
  /\ job \in Jobs /\ stage = "next"
  /\ SourceInit(job.model, job.latency, job.start)
  /\ config = BaseConfig /\ scores = << >>
  /\ simBest = << >> /\ best = << >> /\ tried = 0 /\ judged = {} /\ out = << >>

(* Mutant: CMA-ES is asked for the best of the last generation.             *)
Remember_Current(cost) == best' = <<[config |-> config', cost |-> cost]>>
(* The end of a candidate's evaluation: the objective returns the cost to   *)
(* CMA-ES, which keeps the cheapest individual; --candidate writes it.      *)
Remember(cost) ==
  best' = IF best = << >> \/ cost < best[1].cost
          THEN <<[config |-> config', cost |-> cost]>> ELSE best

Return(cost) ==
  /\ Remember(cost)
  /\ tried' = tried + 1
  /\ judged' = judged \cup {[config |-> config', cost |-> cost]}

(* A configuration that fails the validation, or whose vehicle cannot be    *)
(* built, is not driven.                                                    *)
VehicleBuilds == model.kind # "missing"
(* 1.0e9 and the length of the error's text                                 *)
ErrorCost == InvalidCost + 1

Evaluate(params) ==
  /\ config' = ApplyToRuntimeConfig(BaseConfig, params)
  /\ scores' = << >>
  /\ IF ~ ValidateRuntimeConfig(config') \/ (job.source = "sim" /\ ~ VehicleBuilds)
     THEN /\ \/ job.kind = "cma" /\ Return(ErrorCost)
                  /\ stage' = "next" /\ UNCHANGED out
             \/ /\ job.kind = "candidate"
                /\ IF ~ ValidateRuntimeConfig(config')
                   THEN /\ stage' = "done"
                        /\ out' = <<[status |-> "invalid", config |-> config',
                                     cost |-> InvalidCost]>>
                   ELSE stage' = "failed" /\ UNCHANGED out
                /\ UNCHANGED <<best, tried, judged>>
          /\ UNCHANGED episode
     ELSE /\ stage' = IF job.source = "sim" THEN "episode" ELSE "replay"
          /\ NewEpisode
          /\ UNCHANGED <<world, best, tried, judged, out>>

(* CMA-ES samples an individual: config_from_named_vector.                  *)
Sample ==
  /\ stage = "next" /\ job.kind = "cma" /\ tried < job.generations * job.population
  /\ \E params \in [job.space -> RawValues] : Evaluate(params)
  /\ UNCHANGED <<job, simBest>>

(* --candidate                                                              *)
ReadCandidate ==
  /\ stage = "next" /\ job.kind = "candidate"
  /\ \E params \in job.candidates :
       IF Applies(params) THEN Evaluate(params)
       ELSE stage' = "failed"
            /\ UNCHANGED <<episode, config, scores, best, tried, judged, out>>
  /\ UNCHANGED <<job, simBest>>

(* write_search_space                                                       *)
DumpSearchSpace ==
  /\ stage = "next" /\ job.kind = "dump"
  /\ out' = <<[status |-> "space", entries |-> {Entry(k) : k \in job.space}]>>
  /\ stage' = "done"
  /\ UNCHANGED <<episode, job, config, scores, simBest, best, tried, judged>>

-----------------------------------------------------------------------------
(* Evaluation                                                               *)

Drives ==
  /\ stage = "episode" /\ Tick
  /\ UNCHANGED <<job, stage, config, scores, simBest, best, tried, judged, out>>

(* evaluate_sim_candidate: the episode's source is dropped; the next seed   *)
(* gets a new one, or the verdict follows.                                  *)
EndEpisode ==
  /\ stage = "episode" /\ ~ Running
  /\ scores' = Append(scores, Finish(score))
  /\ stage' = IF Len(scores') < Max({job.seeds, 1}) THEN "episode" ELSE "judge"
  /\ NewEpisode
  /\ UNCHANGED <<world, job, config, simBest, best, tried, judged, out>>

Verdict == Aggregate(scores, job.weight)

JudgeSim ==
  /\ stage = "judge"
  /\ IF job.kind = "cma"
     THEN /\ simBest' = IF simBest = << >> \/ Verdict.cost < simBest[1].cost
                        THEN <<Verdict>> ELSE simBest
          /\ UNCHANGED config /\ Return(Verdict.cost)
          /\ stage' = "next" /\ UNCHANGED out
     ELSE /\ out' = <<[status |-> Status(Verdict), config |-> config, cost |-> Verdict.cost]>>
          /\ stage' = "done" /\ UNCHANGED <<config, simBest, best, tried, judged>>
  /\ UNCHANGED <<episode, job, scores>>

(* evaluate_episode_with_limit over recorded input: no tick at all is the   *)
(* invalid cost, input that cannot be read is an error.                     *)
JudgeReplay ==
  /\ stage = "replay"
  /\ \E cost \in ReplayCosts \cup {InvalidCost, ErrorCost} :
       IF job.kind = "cma"
       THEN /\ UNCHANGED config /\ Return(cost)
            /\ stage' = "next" /\ UNCHANGED out
       ELSE /\ IF cost = ErrorCost
               THEN stage' = "failed" /\ UNCHANGED out
               ELSE /\ out' = <<[status |-> IF cost = InvalidCost THEN "empty" ELSE "evaluated",
                                 config |-> config, cost |-> cost]>>
                    /\ stage' = "done"
            /\ UNCHANGED <<config, best, tried, judged>>
  /\ UNCHANGED <<episode, job, scores, simBest>>

(* run_cma has returned: the best individual is applied again and written.  *)
WriteTuned ==
  /\ stage = "next" /\ job.kind = "cma" /\ tried = job.generations * job.population
  /\ out' = <<[status |-> "tuned", config |-> best[1].config, cost |-> best[1].cost]>>
  /\ stage' = "done"
  /\ UNCHANGED <<episode, job, config, scores, simBest, best, tried, judged>>

Next == \/ DumpSearchSpace \/ Sample \/ ReadCandidate \/ Drives \/ EndEpisode
        \/ JudgeSim \/ JudgeReplay \/ WriteTuned

Done == stage \in {"done", "failed"} /\ UNCHANGED vars

Spec == Init /\ [][Next \/ Done]_vars

-----------------------------------------------------------------------------
(* The reference for what the simulator senses: footprint and wall are      *)
(* separated by an axis, crossings are decided by orientation.              *)
Separated(seg) ==
  LET corners == FootprintCorners(car)
      side(p) == (seg.b.x - seg.a.x) * (p.y - seg.a.y) - (seg.b.y - seg.a.y) * (p.x - seg.a.x)
      Before(f(_)) == \/ \A p \in corners : f(p) < f(seg.a) /\ f(p) < f(seg.b)
                      \/ \A p \in corners : f(p) > f(seg.a) /\ f(p) > f(seg.b)
  IN \/ Before(LAMBDA p : p.x) \/ Before(LAMBDA p : p.y)
     \/ (\A p \in corners : side(p) > 0) \/ (\A p \in corners : side(p) < 0)
Orientation(p, q, r) == (q.x - p.x) * (r.y - p.y) - (q.y - p.y) * (r.x - p.x)
Opposite(s, t) == (s <= 0 /\ t >= 0) \/ (s >= 0 /\ t <= 0)
(* p and q, in units of 1/k, are joined by a line that crosses the wall.    *)
Crosses(seg, p, q, k) ==
  LET a == Point(k * seg.a.x, k * seg.a.y)
      b == Point(k * seg.b.x, k * seg.b.y)
  IN /\ Orientation(a, b, p) # Orientation(a, b, q)
     /\ Opposite(Orientation(a, b, p), Orientation(a, b, q))
     /\ Opposite(Orientation(p, q, a), Orientation(p, q, b))
RangeIsExact(scan, angle) ==
  LET found == {pt.dist : pt \in {q \in scan : q.angle = angle}}
      dist == IF found = {} THEN <<LidarRange, 1>> ELSE CHOOSE f \in found : TRUE
      k == 4 * dist[2]
      d == Ahead(car.yaw + angle)
      origin == Point(k * car.x, k * car.y)
      end(n) == Point(origin.x + n * d.x, origin.y + n * d.y)
  IN /\ found # {} => \E seg \in Walls : Crosses(seg, origin, end(4 * dist[1]), k)
     /\ \A seg \in Walls : ~ Crosses(seg, origin, end(4 * dist[1] - 1), k)

(* The crash test and the LiDAR agree with the walls: a car that still      *)
(* drives touches none, a crashed one does, a range ends on a wall, and no  *)
(* wall crosses a ray before its range, or at all if it has no return       *)
(* (world.rs: footprint_intersects_wall, ray_intersect).                    *)
SensesTheWalls ==
  IF exhausted THEN \E seg \in Walls : ~ Separated(seg)
  ELSE /\ simUs > 0 => \A seg \in Walls : Separated(seg)
       /\ LET scan == SynthesizeLidar(car)
          IN \A angle \in -2..1 : RangeIsExact(scan, angle)

(* What the footprint and the starts have to be like for this: a car with   *)
(* no extent never crashes, and a ray from a wall itself ends where it      *)
(* begins.                                                                  *)
LiesOn(p, seg) == /\ Orientation(seg.a, seg.b, p) = 0
                  /\ Opposite(seg.a.x - p.x, seg.b.x - p.x)
                  /\ Opposite(seg.a.y - p.y, seg.b.y - p.y)
StartsOffTheWalls ==
  /\ HalfLength > 0 /\ HalfWidth > 0
  /\ \A j \in Jobs, seg \in Walls : ~ LiesOn(j.start, seg)

(* Laps come from driving them: the unwrapped progress is what was driven   *)
(* with the lane less what was driven against it, whatever side of the      *)
(* start line the car crosses, and an episode that is finished has driven   *)
(* all its laps and touched nothing (progress.rs, evaluate.rs).             *)
LapsAreDriven ==
  /\ progress.unwrapped = driven
  /\ score.finish # << >> => driven >= TargetLaps * TrackLength /\ ~ exhausted

(* The verdict on several seeds hides no failure of one of them: a crash    *)
(* with any seed shows in the status, the laps are all there only if every  *)
(* episode was finished, a finished one touched nothing, and one that was   *)
(* not finished is a completed trial whose objective score stays high       *)
(* whatever the others cost (src/README.md:421; evaluate.rs: finish and     *)
(* aggregate_sim_scores, score.rs).                                         *)
ScoresTellOutcomes ==
  stage = "judge" =>
    LET finished(i) == scores[i].finish # << >>
    IN /\ Status(Verdict) = "crashed" <=> \E i \in DOMAIN scores : scores[i].crashed
       /\ Verdict.laps >= TargetLaps <=> \A i \in DOMAIN scores : finished(i)
       /\ \A i \in DOMAIN scores :
            IF finished(i) THEN ~ scores[i].crashed
            ELSE job.weight >= 0 => Verdict.cost >= FailedBand \div Len(scores)

(* The cheapest configuration of the whole search, valid if any evaluation  *)
(* had a cost of its own, with the episode that is shown as the best one    *)
(* its own                                                                  *)
IsTheBest(result) ==
  /\ [config |-> result.config, cost |-> result.cost] \in
       {i \in judged : \A o \in judged : i.cost <= o.cost}
  /\ (\E j \in judged : j.cost < InvalidCost) => ValidateRuntimeConfig(result.config)
  /\ simBest # << >> /\ simBest[1].cost < InvalidCost => simBest[1].cost = result.cost

(* What a file says of a key: a car's tables go before its [algo] overlay,  *)
(* even where they are silent; what a runtime configuration does not say is *)
(* the default.                                                             *)
Said(file, k) ==
  IF file.kind = "car" /\ k \in ControlKeys
  THEN IF k \in DOMAIN file.control THEN file.control[k] ELSE CompatDefaults[k]
  ELSE IF file.kind \in {"car", "runtime"} /\ k \in DOMAIN file.algo
  THEN file.algo[k] ELSE Defaults[k]

(* A key that was searched, or that the candidate names, is within its      *)
(* range; every other key of the configuration, tunable or not, is what the *)
(* file says; and the mapper is off, whatever the file says.                *)
OnlyTheSpaceIsTuned(written) ==
  /\ \E tuned \in IF job.kind = "cma" THEN {job.space}
                  ELSE {DOMAIN params : params \in job.candidates} :
       \A k \in DOMAIN Defaults \ {MapperKey} :
         IF k \in tuned THEN written[k] \in Params[k].lo .. Params[k].hi
         ELSE written[k] = Said(job.file, k)
  /\ written[MapperKey] = 0

(* What is written at the end: a search writes the best of all its          *)
(* evaluations, whatever their order and failures, every mode that writes   *)
(* a configuration changes nothing but the search space and switches the    *)
(* mapper off, and a dumped range holds the values dumped with it (tune.rs: *)
(* load_runtime_config, run_cma and main, candidate.rs, space.rs).          *)
BestOfTheSpaceIsWritten ==
  stage = "done" =>
    IF job.kind = "dump"
    THEN \A e \in out[1].entries : {e.default, e.current} \subseteq e.low .. e.high
    ELSE /\ job.kind = "cma" => IsTheBest(out[1])
         /\ OnlyTheSpaceIsTuned(out[1].config)
=============================================================================
