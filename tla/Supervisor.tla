----------------------------- MODULE Supervisor -----------------------------
(***************************************************************************)
(* RaceSupervisor of nfe-algo (supervisor/mod.rs): the hysteresis between  *)
(* reactive driving and tracking the race line.  SupervisorStep maps a     *)
(* supervisor record and a health report to the next record; the mode to   *)
(* drive is its mode field.                                                *)
(***************************************************************************)
EXTENDS Integers

CONSTANTS
  EngageDwell,     (* params.engage_dwell_ticks                             *)
  FallbackDwell,   (* params.fallback_dwell_ticks                           *)
  MinLap,          (* params.min_lap_for_raceline                           *)
  Saturation       (* where the u32 counters saturate (a bound: u32::MAX in
                      the code)                                             *)

ASSUME DwellAssumption ==
  /\ EngageDwell \in Nat /\ FallbackDwell \in Nat
  /\ MinLap \in Nat /\ Saturation \in Nat \ {0}
  /\ EngageDwell <= Saturation /\ FallbackDwell <= Saturation
  /\ MinLap <= Saturation

Modes == {"Reactive", "RaceLine"}

NewSupervisor ==
  [mode |-> "Reactive", lap |-> 0, healthy |-> 0, unhealthy |-> 0,
   mapOk |-> FALSE]

SaturatingInc(n) == IF n < Saturation THEN n + 1 ELSE n

(* The lap count and the map-quality latch come first in step().            *)
LapsAfter(s, h) == IF h.crossed THEN SaturatingInc(s.lap) ELSE s.lap

MapOkAfter(s, h) == h.mapping /\ (s.mapOk \/ h.closure)

(* Eligible for the race line, and the estimate can be trusted.             *)
IsHealthy(s, h) ==
  /\ h.mapping /\ h.ready /\ MapOkAfter(s, h) /\ LapsAfter(s, h) >= MinLap
  /\ ~h.diverged /\ h.confident

(* A long enough streak, to which this tick belongs, changes the mode.      *)
NextMode(s, h, healthyTicks, unhealthyTicks) ==
  CASE s.mode = "Reactive" /\ IsHealthy(s, h) /\ healthyTicks >= EngageDwell ->
         "RaceLine"
    [] s.mode = "RaceLine" /\ ~IsHealthy(s, h)
         /\ unhealthyTicks >= FallbackDwell -> "Reactive"
    [] OTHER -> s.mode

(* step(): one streak grows and the other one starts again.                 *)
SupervisorStep(s, h) ==
  LET healthy   == IF IsHealthy(s, h) THEN SaturatingInc(s.healthy) ELSE 0
      unhealthy == IF IsHealthy(s, h) THEN 0 ELSE SaturatingInc(s.unhealthy)
  IN  [mode      |-> NextMode(s, h, healthy, unhealthy),
       lap       |-> LapsAfter(s, h),
       healthy   |-> healthy,
       unhealthy |-> unhealthy,
       mapOk     |-> MapOkAfter(s, h)]
=============================================================================
