------------------------------ MODULE StartGate ------------------------------
(***************************************************************************)
(* The arming layer in front of the actuators (nfe-runtime/src/           *)
(* start_gate.rs): an operator arms and disarms the car over UDP and, if   *)
(* enabled, with a switch on a GPIO pin, and StartGateRuntime::observe_tick *)
(* polls both once per tick of the control loop and decides whether the    *)
(* tick may drive the actuators.                                           *)
(*                                                                         *)
(* The control loop always reports a completed pipeline cycle              *)
(* (control_loop.rs:197), so require_first_pipeline_cycle never holds the  *)
(* gate back and is left out; opened_at_us is written and never read.      *)
(***************************************************************************)
EXTENDS Naturals, Sequences

CONSTANTS
  Setups,     \* the gate configurations that are checked
  MaxTime,    \* bound of the model: the last timestamp of a snapshot
  MaxQueued   \* bound of the model: datagrams or edges waiting for a poll

(* StartGateMode, StartGateConfig and ArmSignalConfig, as the three entry   *)
(* points of nfe-car fill them in.                                          *)
SetupType ==
  [mode : {"Live", "Sim", "Replay"}, policy : {"UdpArm", "Delay", "AlwaysOpen"},
   delay : Nat, forceArm : BOOLEAN, allowLiveForceArm : BOOLEAN,
   gpio : BOOLEAN]

(* Only the car itself is armed by an operator (modes/live.rs:97-126,       *)
(* modes/sim.rs:108-112, modes/replay.rs:65-69).                            *)
ASSUME SetupsAssumption ==
  /\ Setups \subseteq SetupType
  /\ \A s \in Setups : /\ s.mode = "Live" <=> s.policy = "UdpArm"
                       /\ s.gpio => s.mode = "Live"
ASSUME GateBoundsAssumption == MaxTime \in Nat /\ MaxQueued \in Nat

VARIABLES
  setup,      \* the configuration of this run; never changes
  time,       \* timestamp of the latest snapshot
  createdAt,  \* StartGate::created_at_us
  gate,       \* StartGate::state
  published,  \* last_published_state, last_published_reason
  socket,     \* datagrams waiting in the kernel's receive buffer
  edges,      \* GPIO interrupts waiting to be polled
  switch,     \* TRUE while the arming switch, debounced, pulls the pin down
  lastWord    \* history: whose signal a car with a switch took last

gateVars ==
  <<setup, time, createdAt, gate, published, socket, edges, switch, lastWord>>

None == "None"
Unset == MaxTime + 1
Signals == {"Arm", "Disarm"}
Datagrams == Signals \cup {"Junk"}
Edges == {"Falling", "Rising"}
Reasons ==
  {"disarmed", "armed", "force_armed", "live_force_arm_rejected",
   "delay_elapsed", "waiting_for_delay", "always_open", "waiting_for_udp_arm",
   "open", None}

GateTypeOK ==
  /\ setup \in Setups
  /\ time \in 0..MaxTime
  /\ createdAt \in 0..Unset
  /\ gate \in {"Closed", "Open"}
  /\ published \in [state : {gate, None}, reason : Reasons]
  /\ socket \in Seq(Datagrams) /\ Len(socket) <= MaxQueued
  /\ edges \in Seq(Edges) /\ Len(edges) <= MaxQueued
  /\ switch \in BOOLEAN
  /\ lastWord \in {None, "UDP", "GPIO"}

(* UDP is bound in live mode under the UdpArm policy only; GPIO wherever it *)
(* is enabled.                                                              *)
HasUdp == setup.mode = "Live" /\ setup.policy = "UdpArm"
HasGpio == setup.gpio

-----------------------------------------------------------------------------
(* The latest datagram that parses is c.                                    *)
LatestIs(c) ==
  \E i \in DOMAIN socket :
    socket[i] = c /\ \A j \in (i + 1)..Len(socket) : socket[j] = "Junk"

(* UdpArmSignalSource::poll drains the socket and keeps the latest command  *)
(* that parses: prefix, token and verb must match, anything else is junk.   *)
UdpPoll ==
  CASE LatestIs("Disarm") -> "Disarm"
    [] LatestIs("Arm")    -> "Arm"
    [] OTHER              -> None

(* GpioArmSignalSource::poll takes one interrupt: the falling edge of the   *)
(* pulled-up pin arms, the rising edge disarms.                             *)
GpioPoll ==
  IF edges = <<>> THEN None
  ELSE IF Head(edges) = "Falling" THEN "Arm" ELSE "Disarm"

(* CombinedArmSignalSource::poll asks UDP first and stops at the first      *)
(* source that has a signal: GPIO is then not polled and its interrupt      *)
(* stays for a later tick.                                                  *)
GpioPolled == UdpPoll = None
Poll == IF UdpPoll # None THEN UdpPoll ELSE GpioPoll

(* The delay policy's wait, from the first tick the gate has seen.          *)
DelayElapsed(start, now) ==
  now - start >= IF setup.mode = "Live" THEN 0 ELSE setup.delay

Verdict(state, reason) == [state |-> state, reason |-> reason]

(* A gate that is still closed after the signal, unless this tick disarmed  *)
(* it, may be opened by its configuration.                                  *)
WhenClosed(start, now) ==
  IF setup.forceArm THEN
    IF setup.mode # "Live" \/ setup.allowLiveForceArm
    THEN Verdict("Open", "force_armed")
    ELSE Verdict("Closed", "live_force_arm_rejected")
  ELSE
    CASE setup.policy = "Delay" ->
           IF DelayElapsed(start, now)
           THEN Verdict("Open", "delay_elapsed")
           ELSE Verdict("Closed", "waiting_for_delay")
      [] setup.policy = "AlwaysOpen" -> Verdict("Open", "always_open")
      [] setup.policy = "UdpArm" -> Verdict("Closed", "waiting_for_udp_arm")

(* Mutant: a disarm closes the gate, and the configuration may open it      *)
(* again in the very same tick.                                             *)
Observe_DisarmNotLatched(state, start, now, s) ==
  CASE s = "Arm" -> Verdict("Open", "armed")
    [] s = None /\ state = "Open" -> Verdict("Open", "open")
    [] OTHER -> WhenClosed(start, now)

(* StartGate::observe_tick: state and reason after a tick that polled s.    *)
Observe(state, start, now, s) ==
  CASE s = "Disarm" -> Verdict("Closed", "disarmed")
    [] s = "Arm"    -> Verdict("Open", "armed")
    [] s = None /\ state = "Open"   -> Verdict("Open", "open")
    [] s = None /\ state = "Closed" -> WhenClosed(start, now)

-----------------------------------------------------------------------------
GateInit ==
  /\ setup \in Setups
  /\ time = 0
  /\ createdAt = Unset
  /\ gate = IF setup.policy = "AlwaysOpen" THEN "Open" ELSE "Closed"
  /\ published = Verdict(None, None)
  /\ socket = <<>>
  /\ edges = <<>>
  /\ switch \in IF HasGpio THEN BOOLEAN ELSE {FALSE}
  /\ lastWord = None

(* A datagram reaches the socket: from nfe-arm, or from anyone else. One    *)
(* that is lost on the way, or finds the buffer full, never gets here.      *)
Deliver(d) ==
  /\ HasUdp
  /\ Len(socket) < MaxQueued
  /\ socket' = Append(socket, d)
  /\ UNCHANGED <<setup, time, createdAt, gate, published, edges, switch,
                 lastWord>>

(* Somebody throws the arming switch; both edges raise an interrupt.        *)
Flip ==
  /\ HasGpio
  /\ Len(edges) < MaxQueued
  /\ switch' = ~switch
  /\ edges' = Append(edges, IF switch' THEN "Falling" ELSE "Rising")
  /\ UNCHANGED <<setup, time, createdAt, gate, published, socket, lastWord>>

(* Mutant: polling the pin discards the interrupts behind the first one     *)
(* (poll_interrupt with reset).                                             *)
RestOfEdges_Reset == <<>>

(* Interrupts that a poll leaves for a later tick.                          *)
RestOfEdges == IF GpioPolled /\ edges # <<>> THEN Tail(edges) ELSE edges

(* transition_telemetry: a transition is published when state or reason     *)
(* differ from the last ones published, which leaves the same pair          *)
(* remembered either way.                                                   *)
Published(verdict) == IF published = verdict THEN published ELSE verdict

(* StartGateRuntime::observe_tick at a snapshot of timestamp now.           *)
ObserveTick(now) ==
  LET start == IF createdAt = Unset THEN now ELSE createdAt
      verdict == Observe(gate, start, now, Poll)
  IN  /\ time' = now
      /\ createdAt' = start
      /\ lastWord' = IF ~HasGpio \/ Poll = None THEN lastWord
                     ELSE IF UdpPoll # None THEN "UDP" ELSE "GPIO"
      /\ socket' = <<>>
      /\ edges' = RestOfEdges
      /\ gate' = verdict.state
      /\ published' = Published(verdict)
      /\ UNCHANGED <<setup, switch>>

(* What the operator and the network do between two ticks.                  *)
Operator == (\E d \in Datagrams : Deliver(d)) \/ Flip

GateNext == Operator \/ \E now \in time..MaxTime : ObserveTick(now)

GateSpec == GateInit /\ [][GateNext]_gateVars

-----------------------------------------------------------------------------
(* A tick whose last command in the socket is a disarm leaves the gate      *)
(* closed, whatever came before it, waits on the switch, or the             *)
(* configuration would open (start_gate.rs:391-396, 409).                   *)
DisarmWins ==
  [][LatestIs("Disarm") /\ socket' = <<>>
       => gate' = "Closed" /\ published'.state = "Closed"]_gateVars

(* A closed gate of the car itself opens only in a tick that polled an arm, *)
(* unless both force-arm flags were given; a closed gate of the simulator   *)
(* or of a replay opens only by force-arm or once its delay has passed      *)
(* since the first tick (README "Force-arm guardrail").                     *)
OpensOnlyOnPurpose ==
  [][gate = "Closed" /\ gate' = "Open" =>
       IF setup.mode = "Live"
       THEN \/ "Arm" \in {socket[i] : i \in DOMAIN socket}
            \/ edges # <<>> /\ Head(edges) = "Falling"
            \/ setup.forceArm /\ setup.allowLiveForceArm
       ELSE setup.forceArm \/ createdAt' + setup.delay <= time']_gateVars

(* Once every interrupt has been polled and the switch had the last word,   *)
(* the gate agrees with the switch, however fast it was thrown and whatever *)
(* UDP said in between; a switch that is thrown when the car starts does    *)
(* not arm it.                                                              *)
SwitchGoverns ==
  HasGpio /\ edges = <<>> /\ ~setup.forceArm =>
    /\ lastWord = "GPIO" => (gate = "Open") = switch
    /\ lastWord = None => gate = "Closed"
=============================================================================
