----------------------------- MODULE ControlLoop -----------------------------
(***************************************************************************)
(* nfe-car's control loop (control_loop.rs, control/safety.rs, control/    *)
(* watchdog.rs, control/actuate.rs): one thread that, tick after tick,     *)
(* takes a snapshot of the sensors, steps the pipeline, and lets four      *)
(* guards in a row (start gate, blindness, collision stop, watchdog)       *)
(* overrule what the pipeline wants to send to the servo and the ESC.      *)
(* A tick is cut at the points where those guards act, so that signals,    *)
(* datagrams and switch edges fall anywhere inside it.                     *)
(*                                                                         *)
(* Readings are chosen where the code looks at them: the sensors are free. *)
(* Distances, commands and durations are small integers; blind_ms counts   *)
(* ticks and stops at Grace, which is all it is compared with.             *)
(***************************************************************************)
EXTENDS StartGate, Integers

CONSTANTS
  Grace,         \* safety.blind_grace_ms, in ticks
  CleanTicks,    \* safety.n_clean_ticks
  RearmGap,      \* safety.rearm_gap_m
  EstopLens,     \* the values estop_len takes as speed and steering vary
  EstopMin,      \* safety.estop_min_m, which bounds them at speed 0
  Distances,     \* of the nearest point in the channel
  Throttles,     \* what the pipeline may ask of the ESC, neutral is 0
  Steerings,     \* what the pipeline may ask of the servo, neutral is 0
  Samples,       \* bound of the model: snapshots of the IMU calibration (200)
  MaxLeaky,      \* bound of the model: overruns the leaky bucket remembers
  MaxFaults      \* bound of the model: calls that return an error

Creep == 1          \* throttle 0.05
NaN == 99           \* a command that is not finite
EscalateAt == 6     \* watchdog.rs ESCALATE_AT
Infinity == 1000    \* f32::INFINITY

ASSUME LoopAssumption ==
  /\ Grace \in Nat \ {0} /\ CleanTicks \in Nat /\ RearmGap \in Nat
  /\ EstopLens \subseteq 1..(Infinity - 1) /\ EstopMin \in EstopLens
  /\ Distances \subseteq 1..Infinity
  /\ Throttles \subseteq Int /\ Steerings \subseteq Int
  /\ Samples \in Nat \ {0} /\ MaxFaults \in Nat
  /\ MaxLeaky \in Nat /\ MaxLeaky >= EscalateAt

VARIABLES
  phase,        \* where the thread is
  samples,      \* snapshots taken by calibrate_imu
  signalled,    \* a SIGTERM or SIGINT has arrived
  exhausted,    \* SensorSource::is_exhausted; never in live mode
  imuStale,     \* this tick's imu_stale
  blindTicks,   \* BlindState::blind_ms
  estopActive,  \* estop_active
  cleanCount,   \* estop_clean_count
  lastSteering, \* last_steering
  leaky,        \* the watchdog's leaky bucket
  out,          \* the pulses the ESC and the servo are held at
  faults,       \* calls that have failed
  blindRun,     \* history: blind ticks in a row with the gate open
  sinceThreat,  \* history: estop checks since the last threat
  interrupted,  \* history: a tick without a check fell between the clean
                \* checks counted so far
  headroom,     \* history: room beyond estop_len seen by this tick's check
  overruns      \* history: overrun ticks in a row

tickVars == <<imuStale, blindTicks, estopActive, cleanCount, lastSteering, leaky>>
histVars == <<blindRun, sinceThreat, interrupted, headroom, overruns>>
loopVars ==
  <<phase, samples, signalled, exhausted, tickVars, out, faults, histVars>>
vars == <<gateVars, loopVars>>

Phases ==
  {"calibrate", "top", "gate", "blind", "estop", "actuate", "watchdog",
   "returning", "failed", "stopped"}
Live == setup.mode = "Live"
Neutral == [esc |-> 0, servo |-> 0]
Driven == (Throttles \cup {0, Creep}) \ {NaN}
Turned == (Steerings \cup {0}) \ {NaN}
AtMost(n, bound) == IF n > bound THEN bound ELSE n

TypeOK ==
  /\ GateTypeOK
  /\ phase \in Phases
  /\ samples \in 0..Samples
  /\ signalled \in BOOLEAN
  /\ exhausted \in BOOLEAN /\ (Live => ~exhausted)
  /\ imuStale \in BOOLEAN
  /\ blindTicks \in 0..Grace
  /\ estopActive \in BOOLEAN
  /\ cleanCount \in 0..CleanTicks
  /\ lastSteering \in Turned
  /\ leaky \in 0..MaxLeaky
  /\ out \in [esc : Driven, servo : Turned]
  /\ faults \in 0..MaxFaults
  /\ blindRun \in 0..Grace
  /\ sinceThreat \in 0..CleanTicks
  /\ interrupted \in BOOLEAN
  /\ headroom \in 0..(RearmGap + 1)
  /\ overruns \in 0..3

-----------------------------------------------------------------------------
(* Actuator writes. RealActuator::safe_state writes the ESC, then the       *)
(* servo; set_steering comes before set_throttle. When a write fails the    *)
(* next one is not tried, and `?` leaves run. Only PWM writes can fail.     *)
Write(result, halfway, next) ==
  \/ (out' = result /\ phase' = next /\ UNCHANGED faults)
  \/ /\ Live /\ faults < MaxFaults
     /\ out' \in {out, halfway}
     /\ faults' = faults + 1
     /\ phase' = "failed"

WriteSafe(next) == Write(Neutral, [out EXCEPT !.esc = 0], next)
WriteDrive(esc, servo, next) ==
  Write([esc |-> esc, servo |-> servo], [out EXCEPT !.servo = servo], next)
Proceed(next) == phase' = next /\ UNCHANGED <<out, faults>>

(* A `?` on the sensor source or on the arm socket.                         *)
Fault ==
  /\ faults < MaxFaults
  /\ faults' = faults + 1
  /\ phase' = "failed"
  /\ UNCHANGED out

-----------------------------------------------------------------------------
Init ==
  /\ GateInit
  /\ phase = "calibrate"
  /\ samples = 0
  /\ signalled = FALSE
  /\ exhausted = FALSE
  /\ imuStale = FALSE
  /\ blindTicks = 0
  /\ estopActive = FALSE
  /\ cleanCount = 0
  /\ lastSteering = 0
  /\ leaky = 0
  /\ out = Neutral
  /\ faults = 0
  /\ blindRun = 0
  /\ sinceThreat = CleanTicks
  /\ interrupted = FALSE
  /\ headroom = 0
  /\ overruns = 0

(* calibrate_imu: the end of the input aborts it, and in live mode the      *)
(* shutdown flag, which the signal task sets some time after the signal.    *)
(* Any error in it makes run return Ok.                                     *)
AbortCalibration ==
  /\ phase = "calibrate"
  /\ exhausted \/ (Live /\ signalled)
  /\ Proceed("failed")
  /\ UNCHANGED <<gateVars, samples, signalled, exhausted, tickVars, histVars>>

Calibrate ==
  /\ phase = "calibrate"
  /\ ~exhausted
  /\ samples' = samples + 1
  /\ WriteSafe(IF samples' = Samples THEN "top" ELSE "calibrate")
  /\ UNCHANGED <<gateVars, signalled, exhausted, tickVars, histVars>>

(* Mutant: only the end of the input stops the loop.                        *)
Done_SignalIgnored == exhausted

(* The shutdown check at the top of the loop.                               *)
Done == signalled \/ exhausted

Shutdown ==
  /\ phase = "top"
  /\ Done
  /\ WriteSafe("returning")
  /\ UNCHANGED <<gateVars, samples, signalled, exhausted, tickVars, histVars>>

(* next_snapshot and Pipeline::step. The IMU's age matters in live mode.    *)
Sense ==
  /\ phase = "top"
  /\ ~Done
  /\ imuStale' \in IF Live THEN BOOLEAN ELSE {FALSE}
  /\ Proceed("gate")
  /\ UNCHANGED <<gateVars, samples, signalled, exhausted, blindTicks,
                 estopActive, cleanCount, lastSteering, leaky, histVars>>

SourceFails ==
  /\ (phase = "calibrate" /\ ~exhausted) \/ (phase = "top" /\ ~Done)
  /\ Fault
  /\ UNCHANGED <<gateVars, samples, signalled, exhausted, tickVars, histVars>>

ArmSourceFails ==
  /\ phase = "gate"
  /\ HasUdp \/ HasGpio
  /\ Fault
  /\ UNCHANGED <<gateVars, samples, signalled, exhausted, tickVars, histVars>>

(* Mutant: a closed gate writes the neutral pulses, and the tick goes on.   *)
AfterClosedGate_NoSkip == "blind"

(* A closed gate skips the rest of the tick but the watchdog.               *)
AfterClosedGate == "watchdog"

ConsultGate(now) ==
  /\ phase = "gate"
  /\ ObserveTick(now)
  /\ IF gate' = "Open"
     THEN Proceed("blind") /\ UNCHANGED <<blindRun, interrupted>>
     ELSE /\ WriteSafe(AfterClosedGate)
          /\ blindRun' = 0
          /\ interrupted' = (cleanCount > 0)
  /\ UNCHANGED <<samples, signalled, exhausted, tickVars, sinceThreat, headroom,
                 overruns>>

(* BlindState::update, then the action it asks for: go on, coast on the     *)
(* last steering, or stop.                                                  *)
BlindTicks(blind) == IF blind THEN AtMost(blindTicks + 1, Grace) ELSE 0

(* Mutant: the grace window is one tick longer.                             *)
MayCoast_OffByOne(ticks) == ticks <= Grace

(* BlindAction::Coast rather than SafeState.                                *)
MayCoast(ticks) == ticks < Grace

CheckBlind(blind) ==
  /\ phase = "blind"
  /\ blindTicks' = BlindTicks(blind)
  /\ CASE blindTicks' = 0 -> Proceed("estop")
       [] blindTicks' > 0 /\ MayCoast(blindTicks') ->
            WriteDrive(0, lastSteering, "watchdog")
       [] OTHER -> WriteSafe("watchdog")
  /\ blindRun' = IF blind THEN AtMost(blindRun + 1, Grace) ELSE 0
  /\ interrupted' = (interrupted \/ (blind /\ cleanCount > 0))
  /\ UNCHANGED <<gateVars, samples, signalled, exhausted, imuStale, estopActive,
                 cleanCount, lastSteering, leaky, sinceThreat, headroom,
                 overruns>>

(* estop_threat_cloud: a point of the channel no farther than estop_len. A  *)
(* stale IMU counts as speed 0, which gives the shortest length.            *)
Lengths == {len \in EstopLens : imuStale => len <= EstopMin}
Threat(distance, len) == distance <= len

(* The nearest point the clearing check sees: it looks no farther than      *)
(* estop_len either.                                                        *)
MinForward(distance, len) == IF distance <= len THEN distance ELSE Infinity

CountedClean(distance, len) ==
  IF MinForward(distance, len) > len + RearmGap THEN cleanCount + 1 ELSE 0

(* Mutant: a new threat does not start the count of clean ticks again.      *)
CountAfterThreat_Kept == cleanCount

(* A threat starts it again.                                                *)
CountAfterThreat == 0

CheckEstop(distance, len) ==
  LET threat == Threat(distance, len)
      count == CountedClean(distance, len)
      holds == threat \/ (estopActive /\ count < CleanTicks)
  IN  /\ phase = "estop"
      /\ estopActive' = holds
      /\ cleanCount' = CASE threat -> CountAfterThreat
                          [] ~threat /\ holds -> count
                          [] OTHER -> IF estopActive THEN 0 ELSE cleanCount
      /\ IF holds THEN WriteSafe("watchdog") ELSE Proceed("actuate")
      /\ sinceThreat' = IF threat THEN 0 ELSE AtMost(sinceThreat + 1, CleanTicks)
      /\ interrupted' = (interrupted /\ cleanCount' > 0)
      /\ headroom' = IF threat THEN 0 ELSE AtMost(distance - len, RearmGap + 1)
      /\ UNCHANGED <<gateVars, samples, signalled, exhausted, imuStale, blindTicks,
                     lastSteering, leaky, blindRun, overruns>>

(* f32::max, which prefers a number to a NaN.                               *)
AtLeastCreep(throttle) ==
  IF throttle = NaN \/ throttle < Creep THEN Creep ELSE throttle

Actuate(throttle, steering) ==
  LET esc == IF imuStale THEN AtLeastCreep(throttle) ELSE throttle
  IN  /\ phase = "actuate"
      /\ IF NaN \in {esc, steering}
         THEN WriteSafe("watchdog") /\ UNCHANGED lastSteering
         ELSE /\ WriteDrive(esc, steering, "watchdog")
              /\ lastSteering' = IF phase' = "failed" THEN lastSteering
                                                      ELSE steering
      /\ UNCHANGED <<gateVars, samples, signalled, exhausted, imuStale, blindTicks,
                     estopActive, cleanCount, leaky, histVars>>

(* Mutant: a miss weighs no more than a kick.                               *)
Miss_CountsOne == leaky + 1

(* Watchdog::miss.                                                          *)
Miss == leaky + 2

(* Watchdog::kick.                                                          *)
Kick == IF leaky = 0 THEN 0 ELSE leaky - 1

(* The tick took longer than the period: the bucket fills, and once it is   *)
(* full enough the outputs go neutral after all.                            *)
Overrun ==
  /\ phase = "watchdog"
  /\ Live
  /\ Miss <= MaxLeaky
  /\ leaky' = Miss
  /\ IF leaky' >= EscalateAt THEN WriteSafe("top") ELSE Proceed("top")
  /\ overruns' = AtMost(overruns + 1, 3)
  /\ headroom' = 0 /\ imuStale' = FALSE
  /\ UNCHANGED <<gateVars, samples, signalled, exhausted, blindTicks, estopActive,
                 cleanCount, lastSteering, blindRun, sinceThreat,
                 interrupted>>

OnTime ==
  /\ phase = "watchdog"
  /\ leaky' = IF Live THEN Kick ELSE leaky
  /\ Proceed("top")
  /\ overruns' = 0
  /\ headroom' = 0 /\ imuStale' = FALSE
  /\ UNCHANGED <<gateVars, samples, signalled, exhausted, blindTicks, estopActive,
                 cleanCount, lastSteering, blindRun, sinceThreat,
                 interrupted>>

(* Mutant: the actuator is not neutralised when it is dropped.              *)
Dropped_Untouched == {out}

(* What RealActuator::drop leaves: it tries both writes whatever fails.     *)
Dropped ==
  IF ~Live THEN {out}
  ELSE IF faults < MaxFaults
       THEN {Neutral, [out EXCEPT !.esc = 0], [out EXCEPT !.servo = 0], out}
       ELSE {Neutral}

(* run returns, with Ok or with an error, and drops the actuator.           *)
Return ==
  /\ phase \in {"returning", "failed"}
  /\ phase' = "stopped"
  /\ out' \in Dropped
  /\ faults' = IF out' = Neutral THEN faults ELSE AtMost(faults + 1, MaxFaults)
  /\ UNCHANGED <<gateVars, samples, signalled, exhausted, tickVars, histVars>>

-----------------------------------------------------------------------------
(* The process is signalled, the simulator or the recording runs out, or    *)
(* the operator acts: between any two steps of the thread.                  *)
Signal ==
  /\ phase # "stopped" /\ ~signalled
  /\ signalled' = TRUE
  /\ UNCHANGED <<gateVars, phase, samples, exhausted, tickVars, out, faults,
                 histVars>>

RunOut ==
  /\ phase # "stopped" /\ ~Live /\ ~exhausted
  /\ exhausted' = TRUE
  /\ UNCHANGED <<gateVars, phase, samples, signalled, tickVars, out, faults,
                 histVars>>

Environment ==
  \/ Signal
  \/ RunOut
  \/ phase # "stopped" /\ Operator /\ UNCHANGED loopVars

Thread ==
  \/ Calibrate \/ AbortCalibration
  \/ Shutdown \/ Sense \/ SourceFails \/ ArmSourceFails
  \/ \E now \in time..MaxTime : ConsultGate(now)
  \/ \E blind \in BOOLEAN : CheckBlind(blind)
  \/ \E distance \in Distances, len \in Lengths : CheckEstop(distance, len)
  \/ \E throttle \in Throttles, steering \in Steerings :
       Actuate(throttle, steering)
  \/ Overrun \/ OnTime
  \/ Return

Next == Thread \/ Environment

Spec == Init /\ [][Next]_vars

(* The ticker wakes the thread every period and nothing in a tick blocks.   *)
FairSpec == Spec /\ WF_vars(Thread)
-----------------------------------------------------------------------------
(* A tick ends with both pulses neutral whenever the gate is closed, and so *)
(* they stay until it opens: no drive before the car is armed, none after a *)
(* disarm (README "Start gate": "receives safe_state() instead").           *)
ClosedGateIsNeutral ==
  phase \in {"calibrate", "top"} /\ gate = "Closed" => out = Neutral

(* After a threat the ESC stays neutral until CleanTicks checks in a row    *)
(* saw none (control_loop.rs:247-287).  It is checks that count, not ticks: *)
(* a tick that the gate or blindness ends before the check neither counts   *)
(* nor starts the count again, which is not what the documentation says     *)
(* (ClearsForADocumentedReason, below).                                     *)
EstopLatched ==
  sinceThreat < CleanTicks
    => estopActive /\ (phase = "top" => out.esc = 0)

(* Blind, the car at most coasts, and only for the grace window: then the   *)
(* servo is centred too (safety.rs:47-67, docs/config-parameters.md:173).   *)
BlindIsBounded ==
  phase = "top" =>
    /\ blindRun > 0 => out.esc = 0
    /\ blindRun = Grace => out = Neutral

(* Three overruns in a row always end in the safe state, whatever the       *)
(* bucket held before (watchdog.rs:71-91).                                  *)
OverrunsReachSafeState ==
  phase = "top" /\ overruns = 3 => out = Neutral

(* However run ends, by a signal, an aborted calibration or an error in the *)
(* middle of a tick or of a write, the car's outputs are left neutral,      *)
(* unless a second call fails as well (actuate.rs:142-148).                 *)
ReturnsNeutral ==
  phase = "stopped" /\ Live /\ faults <= 1 => out = Neutral

(* A signal, or the end of the input, always makes run return.              *)
ShutdownReturns == signalled \/ exhausted ~> phase = "stopped"

-----------------------------------------------------------------------------
(* The documentation has two conditions for clearing an active estop: room  *)
(* beyond estop_len by RearmGap (docs/config-parameters.md:169), and that   *)
(* the clean ticks are consecutive (docs/config-parameters.md:170).  By     *)
(* each of them, no estop clears with neither.                              *)
ClearsForADocumentedReason ==
  [][estopActive /\ ~estopActive' => headroom' > RearmGap \/ ~interrupted]_vars

=============================================================================
