-------------------------- MODULE ControlLoop_proofs --------------------------
(***************************************************************************)
(* The start gate: for every configuration the entry points can build and  *)
(* for any number of datagrams and switch edges between two ticks, a       *)
(* disarm wins, the gate opens only on purpose, and the switch governs.    *)
(*                                                                         *)
(* The control loop: for every grace window, every number of clean ticks,  *)
(* every set of commands, distances and estop lengths and any number of    *)
(* failing calls, the four guards hold what they promise, and the loop     *)
(* uses its start gate as StartGate specifies it.                          *)
(***************************************************************************)
EXTENDS ControlLoop, SequenceTheorems, TLAPS

-----------------------------------------------------------------------------
(* The start gate                                                           *)

(* What a tick polls is a signal or none.                                   *)
LEMMA PollType ==
  /\ UdpPoll \in Signals \cup {None}
  /\ GpioPoll \in Signals \cup {None}
  /\ Poll \in Signals \cup {None}
<1>1. UdpPoll \in Signals \cup {None}
  BY DEF UdpPoll, Signals, None
<1>2. GpioPoll \in Signals \cup {None}
  BY DEF GpioPoll, Signals, None
<1>3. QED
  BY <1>1, <1>2 DEF Poll

(* A socket that has just received something is not empty.                  *)
LEMMA AppendIsNotEmpty ==
  ASSUME NEW q \in Seq(Datagrams), NEW d \in Datagrams
  PROVE  Append(q, d) # <<>>
<1>1. Len(Append(q, d)) = Len(q) + 1 /\ Len(q) \in Nat
  OBVIOUS
<1>2. Len(<<>>) = 0
  OBVIOUS
<1>3. QED
  BY <1>1, <1>2

(* There is but one latest command.                                         *)
LEMMA DisarmHidesArm ==
  ASSUME socket \in Seq(Datagrams), LatestIs("Disarm") PROVE ~LatestIs("Arm")
<1> SUFFICES ASSUME LatestIs("Arm") PROVE FALSE
  OBVIOUS
<1>1. PICK i \in DOMAIN socket :
        socket[i] = "Disarm" /\ \A j \in (i + 1)..Len(socket) : socket[j] = "Junk"
  BY DEF LatestIs
<1>2. PICK k \in DOMAIN socket :
        socket[k] = "Arm" /\ \A j \in (k + 1)..Len(socket) : socket[j] = "Junk"
  BY DEF LatestIs
<1>3. i \in 1..Len(socket) /\ k \in 1..Len(socket) /\ Len(socket) \in Nat
  OBVIOUS
<1>4. CASE i < k
  BY <1>1, <1>2, <1>3, <1>4
<1>5. CASE k < i
  BY <1>1, <1>2, <1>3, <1>5
<1>6. i # k
  BY <1>1, <1>2
<1>7. QED
  BY <1>3, <1>4, <1>5, <1>6

(* An arm that UDP reports is in the socket.                                *)
LEMMA ArmIsInSocket ==
  UdpPoll = "Arm" => "Arm" \in {socket[i] : i \in DOMAIN socket}
BY DEF UdpPoll, LatestIs, None

(* What a verdict may say, and what it says when nothing was polled.        *)
Verdicts == [state : {"Closed", "Open"}, reason : Reasons]

(* The configuration gives every closed gate a verdict.                     *)
LEMMA WhenClosedType ==
  ASSUME setup \in SetupType, NEW start, NEW now
  PROVE  WhenClosed(start, now) \in Verdicts
<1>1. setup.policy \in {"UdpArm", "Delay", "AlwaysOpen"}
  BY DEF SetupType
<1>2. CASE setup.forceArm
  BY <1>2 DEF WhenClosed, Verdict, Verdicts, Reasons
<1>3. CASE ~setup.forceArm
  BY <1>1, <1>3 DEF WhenClosed, Verdict, Verdicts, Reasons
<1>4. QED
  BY <1>2, <1>3

(* A tick that polls a signal, or none, reaches a verdict.                  *)
LEMMA ObserveType ==
  ASSUME setup \in SetupType, NEW state \in {"Closed", "Open"},
         NEW start, NEW now, NEW s \in Signals \cup {None}
  PROVE  Observe(state, start, now, s) \in Verdicts
<1>1. WhenClosed(start, now) \in Verdicts
  BY WhenClosedType
<1>2. /\ Verdict("Closed", "disarmed") \in Verdicts
      /\ Verdict("Open", "armed") \in Verdicts
      /\ Verdict("Open", "open") \in Verdicts
  BY DEF Verdict, Verdicts, Reasons
<1>3. QED
  BY <1>1, <1>2 DEF Observe, Signals, None

-----------------------------------------------------------------------------
(* What a switch and the gate have to do with each other at any time: the   *)
(* last interrupt tells where the switch is; and only a car can be armed,   *)
(* so that the other gates never close again.                               *)
SwitchInv ==
  /\ HasGpio /\ edges # <<>> => (edges[Len(edges)] = "Falling") = switch
  /\ HasGpio /\ edges = <<>> /\ ~setup.forceArm /\ lastWord = "GPIO"
       => (gate = "Open") = switch
  /\ HasGpio /\ ~setup.forceArm /\ lastWord = None => gate = "Closed"
  /\ ~HasUdp => socket = <<>>
  /\ ~HasGpio => edges = <<>>
  /\ setup.policy = "AlwaysOpen" => gate = "Open"

GateIInv == GateTypeOK /\ SwitchInv

(* The initial state satisfies the inductive invariant.                     *)
LEMMA InitGate == GateInit => GateIInv
<1> SUFFICES ASSUME GateInit PROVE GateIInv
  OBVIOUS
<1> USE SetupsAssumption, GateBoundsAssumption
<1>1. /\ setup \in SetupType
      /\ setup.mode = "Live" <=> setup.policy = "UdpArm"
      /\ setup.gpio => setup.mode = "Live"
  BY DEF GateInit
<1>2. socket \in Seq(Datagrams) /\ Len(socket) <= MaxQueued
  BY DEF GateInit
<1>3. edges \in Seq(Edges) /\ Len(edges) <= MaxQueued
  BY DEF GateInit
<1>4. gate \in {"Closed", "Open"} /\ switch \in BOOLEAN
  BY DEF GateInit
<1>5. published \in [state : {gate, None}, reason : Reasons]
  BY DEF GateInit, Verdict, Reasons
<1>6. time \in 0..MaxTime /\ createdAt \in 0..Unset
  BY DEF GateInit, Unset
<1>7. GateTypeOK
  BY <1>2, <1>3, <1>4, <1>5, <1>6 DEF GateInit, GateTypeOK
<1>8. SwitchInv
  BY <1>1 DEF GateInit, SwitchInv, HasGpio, None
<1>9. QED
  BY <1>7, <1>8 DEF GateIInv

(* Datagrams and switch edges keep it.                                      *)
LEMMA DeliverKeeps ==
  ASSUME GateIInv, NEW d \in Datagrams, Deliver(d) PROVE GateIInv'
<1> USE DEF GateIInv
<1>1. socket' \in Seq(Datagrams) /\ Len(socket') <= MaxQueued
  <2>1. socket \in Seq(Datagrams) /\ Len(socket) < MaxQueued
        /\ socket' = Append(socket, d)
    BY DEF Deliver, GateTypeOK
  <2>2. QED
    BY <2>1, GateBoundsAssumption
<1>2. UNCHANGED <<setup, time, createdAt, gate, published, edges, switch, lastWord>>
      /\ HasUdp
  BY DEF Deliver
<1>3. GateTypeOK'
  BY <1>1, <1>2 DEF GateTypeOK
<1>4. SwitchInv'
  BY <1>2 DEF SwitchInv, HasUdp, HasGpio
<1>5. QED
  BY <1>3, <1>4

(* A switch edge keeps the inductive invariant.                             *)
LEMMA FlipKeeps == ASSUME GateIInv, Flip PROVE GateIInv'
<1> USE DEF GateIInv
<1> DEFINE edge == IF switch' THEN "Falling" ELSE "Rising"
<1>1. /\ edges \in Seq(Edges) /\ Len(edges) < MaxQueued
      /\ edges' = Append(edges, edge)
      /\ edge \in Edges /\ switch' \in BOOLEAN
  BY DEF Flip, GateTypeOK, Edges
<1>2. UNCHANGED <<setup, time, createdAt, gate, published, socket, lastWord>>
      /\ HasGpio
  BY DEF Flip
<1>3. (edge = "Falling") = switch'
  BY <1>1
<1> HIDE DEF edge
<1>4. /\ edges' \in Seq(Edges) /\ Len(edges') <= MaxQueued
      /\ edges' # <<>> /\ edges'[Len(edges')] = edge
  BY <1>1, GateBoundsAssumption
<1>5. GateTypeOK'
  BY <1>1, <1>2, <1>4 DEF GateTypeOK
<1>6. SwitchInv'
  BY <1>2, <1>3, <1>4 DEF SwitchInv, HasUdp, HasGpio
<1>7. QED
  BY <1>5, <1>6

(* What a tick of the gate leaves behind.                                   *)
LEMMA TickFacts ==
  ASSUME GateTypeOK, NEW now \in time..MaxTime, ObserveTick(now)
  PROVE  /\ setup \in SetupType
         /\ setup.mode = "Live" <=> setup.policy = "UdpArm"
         /\ setup.gpio => setup.mode = "Live"
         /\ time' = now /\ createdAt' \in 0..Unset
         /\ published' = Observe(gate, createdAt', now, Poll)
         /\ gate' = published'.state
         /\ published' \in Verdicts
<1>1. /\ setup \in SetupType
      /\ setup.mode = "Live" <=> setup.policy = "UdpArm"
      /\ setup.gpio => setup.mode = "Live"
  BY SetupsAssumption DEF GateTypeOK
<1>2. createdAt' = IF createdAt = Unset THEN now ELSE createdAt
  BY DEF ObserveTick
<1>3. createdAt' \in 0..Unset
  BY <1>2, GateBoundsAssumption DEF GateTypeOK, Unset
<1>4. time' = now
  BY DEF ObserveTick
<1>5. gate \in {"Closed", "Open"}
  BY DEF GateTypeOK
<1> DEFINE verdict == Observe(gate, createdAt', now, Poll)
<1>6. verdict \in Verdicts
  BY <1>1, <1>5, PollType, ObserveType
<1>7. gate' = verdict.state /\ published' = verdict
  BY <1>2 DEF ObserveTick, Published
<1>8. QED
  BY <1>1, <1>3, <1>4, <1>6, <1>7

(* Polling one interrupt leaves the switch and the others alone.            *)
LEMMA EdgesAfterTick ==
  ASSUME GateTypeOK, NEW now \in time..MaxTime, ObserveTick(now)
  PROVE  /\ edges' \in Seq(Edges) /\ Len(edges') <= MaxQueued
         /\ edges' # <<>> => edges # <<>> /\ edges'[Len(edges')] = edges[Len(edges)]
         /\ edges' = <<>> /\ edges # <<>> => Head(edges) = edges[Len(edges)]
         /\ ~(GpioPolled /\ edges # <<>>) => edges' = edges
<1>1. edges \in Seq(Edges) /\ Len(edges) <= MaxQueued
  BY DEF GateTypeOK
<1>2. CASE GpioPolled /\ edges # <<>>
  <2>1. edges' = Tail(edges)
    BY <1>2 DEF ObserveTick, RestOfEdges
  <2>2. /\ Len(edges) \in Nat \ {0} /\ edges' \in Seq(Edges)
        /\ Len(edges') = Len(edges) - 1
        /\ \A i \in 1..(Len(edges) - 1) : edges'[i] = edges[i + 1]
        /\ Head(edges) = edges[1]
    BY <1>1, <1>2, <2>1
  <2>3. Len(edges') <= MaxQueued
    BY <1>1, <2>2, GateBoundsAssumption
  <2>4. edges' # <<>> => Len(edges) - 1 \in 1..(Len(edges) - 1)
    BY <2>2
  <2>5. edges' # <<>> => edges'[Len(edges')] = edges[Len(edges)]
    BY <2>2, <2>4
  <2>6. edges' = <<>> => Head(edges) = edges[Len(edges)]
    <3>1. edges' = <<>> => Len(edges') = 0
      OBVIOUS
    <3>2. Len(edges') = 0 => Len(edges) = 1
      BY <2>2
    <3>3. QED
      BY <2>2, <3>1, <3>2
  <2>7. QED
    BY <1>2, <2>2, <2>3, <2>5, <2>6
<1>3. CASE ~(GpioPolled /\ edges # <<>>)
  <2>1. edges' = edges
    BY <1>3 DEF ObserveTick, RestOfEdges
  <2>2. QED
    BY <1>1, <1>3, <2>1
<1>4. QED
  BY <1>2, <1>3

(* A tick of the gate keeps the inductive invariant.                        *)
LEMMA TickKeeps ==
  ASSUME GateIInv, NEW now \in time..MaxTime, ObserveTick(now) PROVE GateIInv'
<1> USE DEF GateIInv
<1>1. /\ setup \in SetupType
      /\ setup.mode = "Live" <=> setup.policy = "UdpArm"
      /\ setup.gpio => setup.mode = "Live"
      /\ time' = now /\ createdAt' \in 0..Unset
      /\ published' = Observe(gate, createdAt', now, Poll)
      /\ gate' = published'.state
      /\ published' \in Verdicts
  BY TickFacts
<1>2. /\ edges' \in Seq(Edges) /\ Len(edges') <= MaxQueued
      /\ edges' # <<>> => edges # <<>> /\ edges'[Len(edges')] = edges[Len(edges)]
      /\ edges' = <<>> /\ edges # <<>> => Head(edges) = edges[Len(edges)]
      /\ ~(GpioPolled /\ edges # <<>>) => edges' = edges
  BY EdgesAfterTick
<1>3. UNCHANGED <<setup, switch>> /\ socket' = <<>>
      /\ lastWord' = IF ~HasGpio \/ Poll = None THEN lastWord
                     ELSE IF UdpPoll # None THEN "UDP" ELSE "GPIO"
  BY DEF ObserveTick
<1>4. GateTypeOK'
  <2>1. time' \in 0..MaxTime
    BY <1>1, GateBoundsAssumption DEF GateTypeOK
  <2>2. published' \in [state : {gate', None}, reason : Reasons] /\ gate' \in {"Closed", "Open"}
    BY <1>1 DEF Verdicts
  <2>3. socket' \in Seq(Datagrams) /\ Len(socket') <= MaxQueued
    BY <1>3, GateBoundsAssumption
  <2>4. lastWord' \in {None, "UDP", "GPIO"}
    BY <1>3 DEF GateTypeOK
  <2>5. QED
    BY <1>1, <1>2, <1>3, <2>1, <2>2, <2>3, <2>4 DEF GateTypeOK
<1>5. Poll = None => UdpPoll = None /\ GpioPoll = None /\ edges = <<>>
  BY DEF Poll, GpioPoll, None
<1>6. HasGpio /\ ~setup.forceArm /\ Poll = None => gate' = gate
  BY <1>1, <1>5 DEF Observe, WhenClosed, Verdict, HasGpio, GateTypeOK, SwitchInv,
                    None
<1>7. HasGpio /\ edges' # <<>> => (edges'[Len(edges')] = "Falling") = switch'
  BY <1>2, <1>3 DEF SwitchInv, HasGpio
<1>8. HasGpio /\ edges' = <<>> /\ ~setup.forceArm /\ lastWord' = "GPIO"
        => (gate' = "Open") = switch'
  <2> SUFFICES ASSUME HasGpio, edges' = <<>>, ~setup.forceArm, lastWord' = "GPIO"
               PROVE  (gate' = "Open") = switch'
    OBVIOUS
  <2>1. CASE Poll = None
    BY <1>3, <1>5, <1>6, <2>1 DEF SwitchInv
  <2>2. CASE Poll # None
    <3>1. UdpPoll = None /\ Poll = GpioPoll /\ edges # <<>>
      BY <1>3, <2>2 DEF Poll, GpioPoll
    <3>2. (Head(edges) = "Falling") = switch
      BY <1>2, <3>1 DEF SwitchInv
    <3>3. Poll = IF Head(edges) = "Falling" THEN "Arm" ELSE "Disarm"
      BY <3>1 DEF GpioPoll
    <3>4. gate' = IF Head(edges) = "Falling" THEN "Open" ELSE "Closed"
      BY <1>1, <3>3 DEF Observe, Verdict, None
    <3>5. QED
      BY <1>3, <3>2, <3>4
  <2>3. QED
    BY <2>1, <2>2
<1>9. HasGpio /\ ~setup.forceArm /\ lastWord' = None => gate' = "Closed"
  BY <1>3, <1>6 DEF SwitchInv, None
<1>10. setup.policy = "AlwaysOpen" => gate' = "Open"
  <2> SUFFICES ASSUME setup.policy = "AlwaysOpen" PROVE gate' = "Open"
    OBVIOUS
  <2>1. socket = <<>> /\ edges = <<>> /\ gate = "Open"
    BY <1>1 DEF SwitchInv, HasUdp, HasGpio
  <2>2. Poll = None
    BY <2>1 DEF Poll, UdpPoll, LatestIs, GpioPoll
  <2>3. QED
    BY <1>1, <2>1, <2>2 DEF Observe, Verdict, None
<1>11. SwitchInv'
  BY <1>1, <1>2, <1>3, <1>7, <1>8, <1>9, <1>10
  DEF SwitchInv, HasGpio, HasUdp
<1>12. QED
  BY <1>4, <1>11

-----------------------------------------------------------------------------
(* Every step of the gate keeps the inductive invariant.                    *)
LEMMA StepGate == GateIInv /\ [GateNext]_gateVars => GateIInv'
<1>1. ASSUME GateIInv, UNCHANGED gateVars PROVE GateIInv'
  BY <1>1 DEF GateIInv, GateTypeOK, SwitchInv, HasUdp, HasGpio, gateVars
<1>2. QED
  BY <1>1, DeliverKeeps, FlipKeeps, TickKeeps DEF GateNext, Operator

(* The inductive invariant holds in every reachable state.                  *)
LEMMA GateInvariance == GateSpec => []GateIInv
BY InitGate, StepGate, PTL DEF GateSpec

(* Type correctness of the gate.                                            *)
THEOREM GateTypeCorrect == GateSpec => []GateTypeOK
<1>1. GateIInv => GateTypeOK
  BY DEF GateIInv
<1>2. QED
  BY <1>1, GateInvariance, PTL

(* The gate agrees with the switch that had the last word.                  *)
THEOREM SwitchHasItsWay == GateSpec => []SwitchGoverns
<1>1. GateIInv => SwitchGoverns
  BY DEF GateIInv, SwitchInv, SwitchGoverns
<1>2. QED
  BY <1>1, GateInvariance, PTL

(* A tick that finds a disarm last in the socket leaves the gate closed.    *)
THEOREM DisarmAlwaysWins == GateSpec => DisarmWins
<1>1. ASSUME GateIInv, [GateNext]_gateVars, LatestIs("Disarm"), socket' = <<>>
      PROVE  gate' = "Closed" /\ published'.state = "Closed"
  <2>1. socket # <<>>
    BY <1>1 DEF LatestIs
  <2>2. ASSUME NEW d \in Datagrams, Deliver(d) PROVE FALSE
    <3>1. socket \in Seq(Datagrams) /\ socket' = Append(socket, d) /\ socket' = <<>>
      BY <1>1, <2>2 DEF Deliver, GateIInv, GateTypeOK
    <3>2. Append(socket, d) # <<>>
      BY <3>1, AppendIsNotEmpty
    <3>3. QED
      BY <3>1, <3>2
  <2>3. PICK now \in time..MaxTime : ObserveTick(now)
    BY <1>1, <2>1, <2>2 DEF GateNext, Operator, Flip, gateVars
  <2>4. Poll = "Disarm"
    BY <1>1, DisarmHidesArm DEF Poll, UdpPoll, None, GateIInv, GateTypeOK
  <2>5. /\ published' = Observe(gate, createdAt', now, Poll)
        /\ gate' = published'.state
    BY <1>1, <2>3, TickFacts DEF GateIInv
  <2>6. QED
    BY <2>4, <2>5 DEF Observe, Verdict, None
<1>2. QED
  BY <1>1, GateInvariance, PTL DEF GateSpec, DisarmWins

(* The gate opens for an arm, for both force-arm flags, or, off the car,    *)
(* when the delay is over.                                                  *)
THEOREM OpensForAReason == GateSpec => OpensOnlyOnPurpose
<1> DEFINE Purpose ==
      IF setup.mode = "Live"
      THEN \/ "Arm" \in {socket[i] : i \in DOMAIN socket}
           \/ edges # <<>> /\ Head(edges) = "Falling"
           \/ setup.forceArm /\ setup.allowLiveForceArm
      ELSE setup.forceArm \/ createdAt' + setup.delay <= time'
<1>1. ASSUME GateIInv, [GateNext]_gateVars, gate = "Closed", gate' = "Open"
      PROVE  Purpose
  <2>1. PICK now \in time..MaxTime : ObserveTick(now)
    BY <1>1 DEF GateNext, Operator, Deliver, Flip, gateVars
  <2>2. /\ setup \in SetupType
        /\ setup.mode = "Live" <=> setup.policy = "UdpArm"
        /\ setup.gpio => setup.mode = "Live"
        /\ time' = now /\ createdAt' \in 0..Unset
        /\ published' = Observe(gate, createdAt', now, Poll)
        /\ gate' = published'.state
    BY <1>1, <2>1, TickFacts DEF GateIInv
  <2>3. Poll \in Signals \cup {None}
    BY PollType
  <2>4. CASE Poll = "Arm"
    <3>1. \/ "Arm" \in {socket[i] : i \in DOMAIN socket}
          \/ edges # <<>> /\ Head(edges) = "Falling"
      BY <2>4, ArmIsInSocket DEF Poll, GpioPoll, None
    <3>2. setup.mode = "Live"
      <4>1. CASE ~HasUdp /\ ~HasGpio
        BY <1>1, <3>1, <4>1 DEF GateIInv, SwitchInv
      <4>2. QED
        BY <2>2, <4>1 DEF HasUdp, HasGpio
    <3>3. QED
      BY <3>1, <3>2
  <2>5. CASE Poll = "Disarm"
    BY <1>1, <2>2, <2>5 DEF Observe, Verdict, None
  <2>6. CASE Poll = None
    <3>1. published' = WhenClosed(createdAt', now)
      BY <1>1, <2>2, <2>6 DEF Observe, None
    <3>2. CASE setup.forceArm
      BY <1>1, <2>2, <3>1, <3>2 DEF WhenClosed, Verdict
    <3>3. CASE ~setup.forceArm
      <4>1. setup.policy = "Delay" /\ DelayElapsed(createdAt', now)
        <5>1. setup.policy # "AlwaysOpen"
          BY <1>1 DEF GateIInv, SwitchInv
        <5>2. setup.policy \in {"UdpArm", "Delay"}
          BY <2>2, <5>1 DEF SetupType
        <5>3. QED
          BY <1>1, <2>2, <3>1, <3>3, <5>2 DEF WhenClosed, Verdict
      <4>2. setup.mode # "Live"
        BY <2>2, <4>1
      <4>3. now - createdAt' >= setup.delay
        BY <4>1, <4>2 DEF DelayElapsed
      <4>4. /\ now \in Int /\ setup.delay \in Int /\ createdAt' \in Int
            /\ time' = now
        BY <1>1, <2>2, GateBoundsAssumption DEF SetupType, GateIInv, GateTypeOK
      <4>5. createdAt' + setup.delay <= time'
        BY <4>3, <4>4
      <4>6. QED
        BY <4>2, <4>5
    <3>4. QED
      BY <3>2, <3>3
  <2>7. QED
    BY <2>3, <2>4, <2>5, <2>6 DEF Signals
<1>2. QED
  BY <1>1, GateInvariance, PTL DEF GateSpec, OpensOnlyOnPurpose

-----------------------------------------------------------------------------
(* The control loop                                                         *)

Outputs == [esc : Driven, servo : Turned]

(* The loop's part of TypeOK.                                               *)
FlagTypes ==
  /\ signalled \in BOOLEAN
  /\ exhausted \in BOOLEAN /\ (Live => ~exhausted)
  /\ imuStale \in BOOLEAN
  /\ estopActive \in BOOLEAN

CountTypes ==
  /\ samples \in 0..Samples
  /\ blindTicks \in 0..Grace
  /\ cleanCount \in 0..CleanTicks
  /\ leaky \in 0..MaxLeaky
  /\ faults \in 0..MaxFaults
  /\ blindRun \in 0..Grace
  /\ sinceThreat \in 0..CleanTicks
  /\ interrupted \in BOOLEAN
  /\ headroom \in 0..(RearmGap + 1)
  /\ overruns \in 0..3

OutputTypes == phase \in Phases /\ out \in Outputs /\ lastSteering \in Turned

LoopTypeOK == FlagTypes /\ CountTypes /\ OutputTypes

(* Behind the gate it is open; where it is closed the outputs are neutral.  *)
GuardInv ==
  /\ phase = "calibrate" => samples < Samples /\ out = Neutral
  /\ phase \in {"blind", "estop", "actuate"} => gate = "Open"
  /\ phase \in {"top", "gate", "watchdog"} /\ gate = "Closed" => out = Neutral

(* The clean ticks that the code counts are at most those since the last    *)
(* threat, and no command gets past an active estop.                        *)
EstopInv ==
  /\ sinceThreat < CleanTicks => estopActive
  /\ cleanCount <= sinceThreat
  /\ phase = "actuate" => ~estopActive
  /\ phase \in {"calibrate", "top", "gate", "blind", "estop", "watchdog"}
       => (sinceThreat < CleanTicks => out.esc = 0)

(* The code counts at least the blind ticks in a row.                       *)
BlindInv ==
  /\ blindRun <= blindTicks
  /\ phase \in {"estop", "actuate"} => blindRun = 0
  /\ phase \in {"calibrate", "top", "gate", "blind", "watchdog"}
       => /\ blindRun > 0 => out.esc = 0
          /\ blindRun = Grace => out = Neutral

(* The bucket remembers the overruns in a row.                              *)
WatchdogInv ==
  /\ leaky >= 2 * overruns
  /\ phase = "top" /\ overruns = 3 => out = Neutral

(* run returns with neutral outputs or because a call failed.               *)
ReturnInv ==
  Live => /\ phase = "returning" => out = Neutral
          /\ phase = "failed" => faults >= 1 \/ out = Neutral
          /\ phase = "stopped" /\ faults <= 1 => out = Neutral

LoopInv == GuardInv /\ EstopInv /\ BlindInv /\ WatchdogInv /\ ReturnInv

IInv == GateIInv /\ LoopTypeOK /\ LoopInv

-----------------------------------------------------------------------------
(* The pulses that the guards write are outputs.                            *)
LEMMA OutputFacts ==
  /\ Neutral \in Outputs
  /\ \A s \in Turned : [esc |-> 0, servo |-> s] \in Outputs
  /\ \A o \in Outputs : [o EXCEPT !.esc = 0] \in Outputs
  /\ \A o \in Outputs, s \in Turned : [o EXCEPT !.servo = s] \in Outputs
BY DEF Outputs, Neutral, Driven, Turned, NaN, Creep

(* What two writes in a row leave: both done, or the call has failed.       *)
LEMMA WriteEffect ==
  ASSUME LoopTypeOK, NEW result \in Outputs, NEW halfway \in Outputs, NEW next,
         Write(result, halfway, next)
  PROVE  /\ out' \in Outputs /\ faults' \in 0..MaxFaults
         /\ \/ phase' = next /\ out' = result
            \/ phase' = "failed" /\ faults' >= 1
<1>1. out \in Outputs /\ faults \in 0..MaxFaults /\ MaxFaults \in Nat
  BY LoopAssumption DEF LoopTypeOK, CountTypes, OutputTypes
<1>2. CASE out' = result /\ phase' = next /\ UNCHANGED faults
  BY <1>1, <1>2
<1>3. CASE Live /\ faults < MaxFaults /\ out' \in {out, halfway}
           /\ faults' = faults + 1 /\ phase' = "failed"
  BY <1>1, <1>3
<1>4. QED
  BY <1>2, <1>3 DEF Write

(* safe_state: neutral outputs, or the call has failed.                     *)
LEMMA WriteSafeEffect ==
  ASSUME LoopTypeOK, NEW next, WriteSafe(next)
  PROVE  /\ out' \in Outputs /\ faults' \in 0..MaxFaults
         /\ \/ phase' = next /\ out' = Neutral
            \/ phase' = "failed" /\ faults' >= 1
<1>1. Neutral \in Outputs /\ [out EXCEPT !.esc = 0] \in Outputs
  BY OutputFacts DEF LoopTypeOK, OutputTypes
<1>2. Write(Neutral, [out EXCEPT !.esc = 0], next)
  BY DEF WriteSafe
<1>3. QED
  BY <1>1, <1>2, WriteEffect

(* The two drive writes: the outputs asked for, or the call has failed.     *)
LEMMA WriteDriveEffect ==
  ASSUME LoopTypeOK, NEW esc \in Driven, NEW servo \in Turned, NEW next,
         WriteDrive(esc, servo, next)
  PROVE  /\ out' \in Outputs /\ faults' \in 0..MaxFaults
         /\ \/ phase' = next /\ out' = [esc |-> esc, servo |-> servo]
            \/ phase' = "failed" /\ faults' >= 1
<1>1. [out EXCEPT !.servo = servo] \in Outputs
  BY OutputFacts DEF LoopTypeOK, OutputTypes
<1>2. [esc |-> esc, servo |-> servo] \in Outputs
  BY DEF Outputs
<1>3. Write([esc |-> esc, servo |-> servo], [out EXCEPT !.servo = servo], next)
  BY DEF WriteDrive
<1>4. QED
  BY <1>1, <1>2, <1>3, WriteEffect

-----------------------------------------------------------------------------
(* The initial state satisfies the inductive invariant.                     *)
LEMMA InitLoop == Init => IInv
<1> SUFFICES ASSUME Init PROVE IInv
  OBVIOUS
<1>1. GateIInv
  BY InitGate DEF Init
<1>2. FlagTypes
  BY DEF Init, FlagTypes
<1>3. CountTypes
  <2>1. interrupted \in BOOLEAN
    BY DEF Init
  <2>2. QED
    BY <2>1, LoopAssumption DEF Init, CountTypes, EscalateAt
<1>4. OutputTypes
  BY OutputFacts DEF Init, OutputTypes, Turned, NaN, Phases
<1>5. LoopInv
  BY LoopAssumption
  DEF Init, LoopInv, GuardInv, EstopInv, BlindInv, WatchdogInv, ReturnInv, Neutral
<1>6. QED
  BY <1>1, <1>2, <1>3, <1>4, <1>5 DEF IInv, LoopTypeOK

(* What every action of the thread that leaves the gate alone keeps, one    *)
(* lemma for each action.                                                   *)
LEMMA AbortKeeps ==
  ASSUME LoopTypeOK, LoopInv, AbortCalibration PROVE LoopTypeOK' /\ LoopInv'
<1>1. /\ phase = "calibrate" /\ phase' = "failed"
      /\ UNCHANGED <<gateVars, samples, signalled, exhausted, tickVars, out, faults,
                     histVars>>
  BY DEF AbortCalibration, Proceed
<1>2. FlagTypes'
  BY <1>1 DEF LoopTypeOK, FlagTypes, tickVars, Live, gateVars
<1>3. CountTypes'
  BY <1>1 DEF LoopTypeOK, CountTypes, tickVars, histVars
<1>4. OutputTypes'
  BY <1>1 DEF LoopTypeOK, OutputTypes, Phases, tickVars
<1>5. LoopInv'
  BY <1>1
  DEF LoopInv, GuardInv, EstopInv, BlindInv, WatchdogInv, ReturnInv, gateVars,
      tickVars, histVars
<1>6. QED
  BY <1>2, <1>3, <1>4, <1>5 DEF LoopTypeOK

(* The calibration ends before its samples run out of their bound.          *)
LEMMA CalibrateKeeps ==
  ASSUME LoopTypeOK, LoopInv, Calibrate PROVE LoopTypeOK' /\ LoopInv'
<1> DEFINE next == IF samples' = Samples THEN "top" ELSE "calibrate"
<1>1. /\ phase = "calibrate" /\ samples' = samples + 1
      /\ WriteSafe(next)
      /\ UNCHANGED <<gateVars, signalled, exhausted, tickVars, histVars>>
  BY DEF Calibrate
<1>2. next \in {"calibrate", "top"} /\ (next = "calibrate" => samples' # Samples)
  OBVIOUS
<1> HIDE DEF next
<1>3. /\ out' \in Outputs /\ faults' \in 0..MaxFaults
      /\ \/ phase' = next /\ out' = Neutral
         \/ phase' = "failed" /\ faults' >= 1
  BY <1>1, WriteSafeEffect
<1>4. FlagTypes'
  BY <1>1 DEF LoopTypeOK, FlagTypes, tickVars, Live, gateVars
<1>5. CountTypes' /\ (phase' = "calibrate" => samples' < Samples)
  BY <1>1, <1>2, <1>3, LoopAssumption
  DEF LoopTypeOK, CountTypes, tickVars, histVars, LoopInv, GuardInv
<1>6. OutputTypes'
  BY <1>1, <1>2, <1>3 DEF LoopTypeOK, OutputTypes, Phases, tickVars
<1>7. LoopInv'
  BY <1>1, <1>2, <1>3, <1>5
  DEF LoopInv, GuardInv, EstopInv, BlindInv, WatchdogInv, ReturnInv, gateVars,
      tickVars, histVars, Neutral
<1>8. QED
  BY <1>4, <1>5, <1>6, <1>7 DEF LoopTypeOK

(* The shutdown check hands neutral outputs to the return.                  *)
LEMMA ShutdownKeeps ==
  ASSUME LoopTypeOK, LoopInv, Shutdown PROVE LoopTypeOK' /\ LoopInv'
<1>1. /\ phase = "top" /\ WriteSafe("returning")
      /\ UNCHANGED <<gateVars, samples, signalled, exhausted, tickVars, histVars>>
  BY DEF Shutdown
<1>2. /\ out' \in Outputs /\ faults' \in 0..MaxFaults
      /\ \/ phase' = "returning" /\ out' = Neutral
         \/ phase' = "failed" /\ faults' >= 1
  BY <1>1, WriteSafeEffect
<1>3. FlagTypes'
  BY <1>1 DEF LoopTypeOK, FlagTypes, tickVars, Live, gateVars
<1>4. CountTypes'
  BY <1>1, <1>2 DEF LoopTypeOK, CountTypes, tickVars, histVars
<1>5. OutputTypes'
  BY <1>1, <1>2 DEF LoopTypeOK, OutputTypes, Phases, tickVars
<1>6. LoopInv'
  BY <1>1, <1>2
  DEF LoopInv, GuardInv, EstopInv, BlindInv, WatchdogInv, ReturnInv, gateVars,
      tickVars, histVars, Neutral
<1>7. QED
  BY <1>3, <1>4, <1>5, <1>6 DEF LoopTypeOK

(* A new snapshot changes nothing that the guards rely on.                  *)
LEMMA SenseKeeps ==
  ASSUME LoopTypeOK, LoopInv, Sense PROVE LoopTypeOK' /\ LoopInv'
<1>1. /\ phase = "top" /\ phase' = "gate" /\ imuStale' \in BOOLEAN
      /\ UNCHANGED <<gateVars, samples, signalled, exhausted, blindTicks,
                     estopActive, cleanCount, lastSteering, leaky, histVars,
                     out, faults>>
  BY DEF Sense, Proceed
<1>2. FlagTypes'
  BY <1>1 DEF LoopTypeOK, FlagTypes, Live, gateVars
<1>3. CountTypes'
  BY <1>1 DEF LoopTypeOK, CountTypes, histVars
<1>4. OutputTypes'
  BY <1>1 DEF LoopTypeOK, OutputTypes, Phases
<1>5. LoopInv'
  BY <1>1
  DEF LoopInv, GuardInv, EstopInv, BlindInv, WatchdogInv, ReturnInv, gateVars,
      histVars
<1>6. QED
  BY <1>2, <1>3, <1>4, <1>5 DEF LoopTypeOK

(* The sensor source or the arm socket returns an error.                    *)
LEMMA FaultKeeps ==
  ASSUME LoopTypeOK, LoopInv, SourceFails \/ ArmSourceFails
  PROVE  LoopTypeOK' /\ LoopInv'
<1>1. /\ phase' = "failed" /\ faults < MaxFaults /\ faults' = faults + 1
      /\ UNCHANGED <<gateVars, samples, signalled, exhausted, tickVars, out,
                     histVars>>
  BY DEF SourceFails, ArmSourceFails, Fault
<1>2. FlagTypes'
  BY <1>1 DEF LoopTypeOK, FlagTypes, tickVars, Live, gateVars
<1>3. CountTypes' /\ faults' >= 1
  BY <1>1, LoopAssumption DEF LoopTypeOK, CountTypes, tickVars, histVars
<1>4. OutputTypes'
  BY <1>1 DEF LoopTypeOK, OutputTypes, Phases, tickVars
<1>5. LoopInv'
  BY <1>1, <1>3
  DEF LoopInv, GuardInv, EstopInv, BlindInv, WatchdogInv, ReturnInv, gateVars,
      tickVars, histVars
<1>6. QED
  BY <1>2, <1>3, <1>4, <1>5 DEF LoopTypeOK

(* The blindness guard: coasting ends before the grace window does.         *)
LEMMA BlindKeeps ==
  ASSUME LoopTypeOK, LoopInv, NEW blind \in BOOLEAN, CheckBlind(blind)
  PROVE  LoopTypeOK' /\ LoopInv'
<1>1. /\ phase = "blind"
      /\ blindTicks' = BlindTicks(blind)
      /\ UNCHANGED <<gateVars, samples, signalled, exhausted, imuStale,
                     estopActive, cleanCount, lastSteering, leaky, sinceThreat,
                     headroom, overruns>>
      /\ blindRun' = IF blind THEN AtMost(blindRun + 1, Grace) ELSE 0
      /\ interrupted' \in BOOLEAN
  BY DEF CheckBlind
<1>2. FlagTypes'
  BY <1>1 DEF LoopTypeOK, FlagTypes, Live, gateVars
<1>3. CASE ~blind
  <2>1. blindTicks' = 0 /\ blindRun' = 0
    BY <1>1, <1>3 DEF BlindTicks
  <2>2. phase' = "estop" /\ UNCHANGED <<out, faults>>
    BY <2>1 DEF CheckBlind, Proceed
  <2>3. CountTypes'
    BY <1>1, <2>1, <2>2, LoopAssumption DEF LoopTypeOK, CountTypes
  <2>4. OutputTypes'
    BY <1>1, <2>2 DEF LoopTypeOK, OutputTypes, Phases
  <2>5. LoopInv'
    BY <1>1, <2>1, <2>2
    DEF LoopInv, GuardInv, EstopInv, BlindInv, WatchdogInv, ReturnInv, gateVars
  <2>6. QED
    BY <1>2, <2>3, <2>4, <2>5 DEF LoopTypeOK
<1>4. CASE blind
  <2>1. /\ blindTicks' = AtMost(blindTicks + 1, Grace)
        /\ blindRun' = AtMost(blindRun + 1, Grace)
    BY <1>1, <1>4 DEF BlindTicks
  <2>2. blindTicks' \in 1..Grace /\ blindRun' \in 1..Grace /\ blindRun' <= blindTicks'
    BY <2>1, LoopAssumption DEF LoopTypeOK, CountTypes, AtMost, LoopInv, BlindInv
  <2>3. /\ out' \in Outputs /\ faults' \in 0..MaxFaults
        /\ \/ /\ phase' = "watchdog"
              /\ out' = Neutral \/ (out'.esc = 0 /\ blindTicks' < Grace)
           \/ phase' = "failed" /\ faults' >= 1
    <3>1. CASE MayCoast(blindTicks')
      <4>1. WriteDrive(0, lastSteering, "watchdog")
        BY <2>2, <3>1 DEF CheckBlind
      <4>2. 0 \in Driven /\ lastSteering \in Turned
        BY DEF LoopTypeOK, OutputTypes, Driven, NaN
      <4>3. /\ out' \in Outputs /\ faults' \in 0..MaxFaults
            /\ \/ phase' = "watchdog" /\ out' = [esc |-> 0, servo |-> lastSteering]
               \/ phase' = "failed" /\ faults' >= 1
        BY <4>1, <4>2, WriteDriveEffect
      <4>4. QED
        BY <3>1, <4>3 DEF MayCoast
    <3>2. CASE ~MayCoast(blindTicks')
      <4>1. WriteSafe("watchdog")
        BY <2>2, <3>2 DEF CheckBlind
      <4>2. QED
        BY <4>1, WriteSafeEffect
    <3>3. QED
      BY <3>1, <3>2
  <2>4. CountTypes'
    BY <1>1, <2>1, <2>2, <2>3, LoopAssumption DEF LoopTypeOK, CountTypes
  <2>5. OutputTypes'
    BY <1>1, <2>3 DEF LoopTypeOK, OutputTypes, Phases
  <2>6. LoopInv'
    BY <1>1, <2>2, <2>3, LoopAssumption
    DEF LoopInv, GuardInv, EstopInv, BlindInv, WatchdogInv, ReturnInv, gateVars,
        Neutral
  <2>7. QED
    BY <1>2, <2>4, <2>5, <2>6 DEF LoopTypeOK
<1>5. QED
  BY <1>3, <1>4

(* The collision guard: a threat, an active estop held, or the way on.      *)
LEMMA EstopKeeps ==
  ASSUME LoopTypeOK, LoopInv, NEW distance \in Distances, NEW len \in Lengths,
         CheckEstop(distance, len)
  PROVE  LoopTypeOK' /\ LoopInv'
<1> DEFINE threat == Threat(distance, len)
           count == CountedClean(distance, len)
           holds == threat \/ (estopActive /\ count < CleanTicks)
<1>1. /\ phase = "estop"
      /\ UNCHANGED <<gateVars, samples, signalled, exhausted, imuStale, blindTicks,
                     lastSteering, leaky, blindRun, overruns>>
      /\ estopActive' = holds
      /\ interrupted' \in BOOLEAN
  BY DEF CheckEstop
<1>2. FlagTypes'
  BY <1>1 DEF LoopTypeOK, FlagTypes, Live, gateVars
<1>3. /\ distance \in Int /\ len \in Int /\ count \in {0, cleanCount + 1}
      /\ threat \in BOOLEAN /\ (~threat => distance > len)
  BY LoopAssumption DEF Lengths, CountedClean, Threat, Infinity
<1>4. headroom' = IF threat THEN 0 ELSE AtMost(distance - len, RearmGap + 1)
  BY DEF CheckEstop
<1>5. headroom' \in 0..(RearmGap + 1)
  BY <1>3, <1>4, LoopAssumption DEF AtMost, LoopTypeOK, CountTypes
<1>6. CASE threat
  <2>1. /\ estopActive' = TRUE /\ cleanCount' = 0 /\ sinceThreat' = 0
        /\ WriteSafe("watchdog")
    BY <1>6 DEF CheckEstop, CountAfterThreat
  <2>2. /\ out' \in Outputs /\ faults' \in 0..MaxFaults
        /\ \/ phase' = "watchdog" /\ out' = Neutral
           \/ phase' = "failed" /\ faults' >= 1
    BY <2>1, WriteSafeEffect
  <2>3. CountTypes'
    BY <1>1, <1>5, <2>1, <2>2, LoopAssumption DEF LoopTypeOK, CountTypes
  <2>4. OutputTypes'
    BY <1>1, <2>2 DEF LoopTypeOK, OutputTypes, Phases
  <2>5. LoopInv'
    BY <1>1, <2>1, <2>2
    DEF LoopInv, GuardInv, EstopInv, BlindInv, WatchdogInv, ReturnInv, gateVars,
        Neutral
  <2>6. QED
    BY <1>2, <2>3, <2>4, <2>5 DEF LoopTypeOK
<1>7. CASE ~threat /\ estopActive /\ count < CleanTicks
  <2>1. /\ estopActive' = TRUE /\ cleanCount' = count
        /\ sinceThreat' = AtMost(sinceThreat + 1, CleanTicks)
        /\ WriteSafe("watchdog")
    BY <1>7 DEF CheckEstop
  <2>2. /\ out' \in Outputs /\ faults' \in 0..MaxFaults
        /\ \/ phase' = "watchdog" /\ out' = Neutral
           \/ phase' = "failed" /\ faults' >= 1
    BY <2>1, WriteSafeEffect
  <2>3. /\ cleanCount' \in 0..CleanTicks /\ sinceThreat' \in 0..CleanTicks
        /\ cleanCount' <= sinceThreat'
    BY <1>3, <1>7, <2>1, LoopAssumption
    DEF AtMost, LoopTypeOK, CountTypes, LoopInv, EstopInv
  <2>4. CountTypes'
    BY <1>1, <1>5, <2>2, <2>3, LoopAssumption DEF LoopTypeOK, CountTypes
  <2>5. OutputTypes'
    BY <1>1, <2>2 DEF LoopTypeOK, OutputTypes, Phases
  <2>6. LoopInv'
    BY <1>1, <2>1, <2>2, <2>3
    DEF LoopInv, GuardInv, EstopInv, BlindInv, WatchdogInv, ReturnInv, gateVars,
        Neutral
  <2>7. QED
    BY <1>2, <2>4, <2>5, <2>6 DEF LoopTypeOK
<1>8. CASE ~threat /\ ~(estopActive /\ count < CleanTicks)
  <2>1. /\ estopActive' = FALSE
        /\ cleanCount' = IF estopActive THEN 0 ELSE cleanCount
        /\ sinceThreat' = AtMost(sinceThreat + 1, CleanTicks)
        /\ phase' = "actuate" /\ UNCHANGED <<out, faults>>
    BY <1>8 DEF CheckEstop, Proceed
  <2>2. sinceThreat' = CleanTicks
    <3>1. cleanCount <= sinceThreat /\ sinceThreat \in 0..CleanTicks
          /\ cleanCount \in 0..CleanTicks
      BY DEF LoopTypeOK, CountTypes, LoopInv, EstopInv
    <3>2. CASE estopActive
      BY <1>3, <1>8, <2>1, <3>1, <3>2, LoopAssumption DEF AtMost
    <3>3. CASE ~estopActive
      <4>1. ~(sinceThreat < CleanTicks)
        BY <3>3 DEF LoopInv, EstopInv
      <4>2. QED
        BY <2>1, <3>1, <4>1, LoopAssumption DEF AtMost
    <3>4. QED
      BY <3>2, <3>3
  <2>3. cleanCount' \in 0..CleanTicks
    BY <2>1, LoopAssumption DEF LoopTypeOK, CountTypes
  <2>4. CountTypes'
    BY <1>1, <1>5, <2>1, <2>2, <2>3, LoopAssumption DEF LoopTypeOK, CountTypes
  <2>5. OutputTypes'
    BY <1>1, <2>1 DEF LoopTypeOK, OutputTypes, Phases
  <2>6. LoopInv'
    BY <1>1, <2>1, <2>2, <2>3, LoopAssumption
    DEF LoopInv, GuardInv, EstopInv, BlindInv, WatchdogInv, ReturnInv, gateVars
  <2>7. QED
    BY <1>2, <2>4, <2>5, <2>6 DEF LoopTypeOK
<1>9. QED
  BY <1>3, <1>6, <1>7, <1>8

(* The pipeline's own command passes only with every guard at rest.         *)
LEMMA ActuateKeeps ==
  ASSUME LoopTypeOK, LoopInv, NEW throttle \in Throttles, NEW steering \in Steerings,
         Actuate(throttle, steering)
  PROVE  LoopTypeOK' /\ LoopInv'
<1> DEFINE esc == IF imuStale THEN AtLeastCreep(throttle) ELSE throttle
<1>1. /\ phase = "actuate"
      /\ UNCHANGED <<gateVars, samples, signalled, exhausted, imuStale, blindTicks,
                     estopActive, cleanCount, leaky, histVars>>
  BY DEF Actuate
<1>2. /\ out' \in Outputs /\ faults' \in 0..MaxFaults /\ lastSteering' \in Turned
      /\ phase' = "watchdog" \/ (phase' = "failed" /\ faults' >= 1)
  <2>1. lastSteering \in Turned
    BY DEF LoopTypeOK, OutputTypes
  <2>2. CASE NaN \in {esc, steering}
    BY <2>1, <2>2, WriteSafeEffect DEF Actuate
  <2>3. CASE NaN \notin {esc, steering}
    <3>1. esc \in Driven /\ steering \in Turned
      BY <2>3 DEF AtLeastCreep, Driven, Turned
    <3>2. WriteDrive(esc, steering, "watchdog")
      BY <2>3 DEF Actuate
    <3>3. lastSteering' = IF phase' = "failed" THEN lastSteering ELSE steering
      BY <2>3 DEF Actuate
    <3> HIDE DEF esc
    <3>4. QED
      BY <2>1, <3>1, <3>2, <3>3, WriteDriveEffect
  <2>4. QED
    BY <2>2, <2>3
<1>3. FlagTypes'
  BY <1>1 DEF LoopTypeOK, FlagTypes, Live, gateVars
<1>4. CountTypes'
  BY <1>1, <1>2 DEF LoopTypeOK, CountTypes, histVars
<1>5. OutputTypes'
  BY <1>2 DEF LoopTypeOK, OutputTypes, Phases
<1>6. ~(sinceThreat < CleanTicks) /\ blindRun = 0 /\ gate = "Open"
  BY <1>1 DEF LoopInv, GuardInv, EstopInv, BlindInv
<1>7. LoopInv'
  BY <1>1, <1>2, <1>6, LoopAssumption
  DEF LoopInv, GuardInv, EstopInv, BlindInv, WatchdogInv, ReturnInv, gateVars,
      histVars
<1>8. QED
  BY <1>3, <1>4, <1>5, <1>7 DEF LoopTypeOK

(* The watchdog escalates by the third overrun in a row.                    *)
LEMMA OverrunKeeps ==
  ASSUME LoopTypeOK, LoopInv, Overrun PROVE LoopTypeOK' /\ LoopInv'
<1>1. /\ phase = "watchdog" /\ Live
      /\ leaky' = leaky + 2 /\ leaky + 2 <= MaxLeaky
      /\ overruns' = AtMost(overruns + 1, 3) /\ headroom' = 0 /\ imuStale' = FALSE
      /\ UNCHANGED <<gateVars, samples, signalled, exhausted, blindTicks,
                     estopActive, cleanCount, lastSteering, blindRun, sinceThreat,
                     interrupted>>
  BY DEF Overrun, Miss
<1>2. /\ out' \in Outputs /\ faults' \in 0..MaxFaults
      /\ \/ /\ phase' = "top"
            /\ leaky' >= EscalateAt => out' = Neutral
            /\ leaky' < EscalateAt => out' = out
         \/ phase' = "failed" /\ faults' >= 1
  <2>1. CASE leaky' >= EscalateAt
    <3>1. WriteSafe("top")
      BY <2>1 DEF Overrun
    <3>2. ~(leaky' < EscalateAt)
      BY <1>1, <2>1 DEF LoopTypeOK, CountTypes, EscalateAt
    <3>3. QED
      BY <3>1, <3>2, WriteSafeEffect
  <2>2. CASE ~(leaky' >= EscalateAt)
    <3>1. phase' = "top" /\ UNCHANGED <<out, faults>>
      BY <2>2 DEF Overrun, Proceed
    <3>2. QED
      BY <2>2, <3>1 DEF LoopTypeOK, CountTypes, OutputTypes
  <2>3. QED
    BY <2>1, <2>2
<1>3. /\ overruns' \in 0..3 /\ leaky' >= 2 * overruns' /\ leaky' \in 0..MaxLeaky
      /\ overruns' = 3 => leaky' >= EscalateAt
      /\ leaky' >= EscalateAt \/ leaky' < EscalateAt
  BY <1>1, LoopAssumption
  DEF AtMost, LoopTypeOK, CountTypes, LoopInv, WatchdogInv, EscalateAt
<1>4. FlagTypes'
  BY <1>1 DEF LoopTypeOK, FlagTypes, Live, gateVars
<1>5. CountTypes'
  BY <1>1, <1>2, <1>3, LoopAssumption DEF LoopTypeOK, CountTypes
<1>6. OutputTypes'
  BY <1>1, <1>2 DEF LoopTypeOK, OutputTypes, Phases
<1>7. out'.esc = 0 \/ out' = out \/ phase' = "failed"
  BY <1>2, <1>3 DEF Neutral
<1>8. LoopInv'
  BY <1>1, <1>2, <1>3
  DEF LoopInv, GuardInv, EstopInv, BlindInv, WatchdogInv, ReturnInv, gateVars,
      Neutral
<1>9. QED
  BY <1>4, <1>5, <1>6, <1>8 DEF LoopTypeOK

(* A tick in time starts the count of overruns again.                       *)
LEMMA OnTimeKeeps ==
  ASSUME LoopTypeOK, LoopInv, OnTime PROVE LoopTypeOK' /\ LoopInv'
<1>1. /\ phase = "watchdog" /\ phase' = "top"
      /\ leaky' = IF Live THEN Kick ELSE leaky
      /\ overruns' = 0 /\ headroom' = 0 /\ imuStale' = FALSE
      /\ UNCHANGED <<gateVars, samples, signalled, exhausted, blindTicks,
                     estopActive, cleanCount, lastSteering, blindRun, sinceThreat,
                     interrupted, out, faults>>
  BY DEF OnTime, Proceed
<1>2. leaky' \in 0..MaxLeaky
  BY <1>1, LoopAssumption DEF Kick, LoopTypeOK, CountTypes
<1>3. FlagTypes'
  BY <1>1 DEF LoopTypeOK, FlagTypes, Live, gateVars
<1>4. CountTypes'
  BY <1>1, <1>2, LoopAssumption DEF LoopTypeOK, CountTypes
<1>5. OutputTypes'
  BY <1>1 DEF LoopTypeOK, OutputTypes, Phases
<1>6. LoopInv'
  BY <1>1, <1>2
  DEF LoopInv, GuardInv, EstopInv, BlindInv, WatchdogInv, ReturnInv, gateVars
<1>7. QED
  BY <1>3, <1>4, <1>5, <1>6 DEF LoopTypeOK

(* The actuator is dropped: two failed calls, or neutral outputs.           *)
LEMMA ReturnKeeps ==
  ASSUME LoopTypeOK, LoopInv, Return PROVE LoopTypeOK' /\ LoopInv'
<1>1. /\ phase \in {"returning", "failed"} /\ phase' = "stopped"
      /\ out' \in Dropped
      /\ faults' = IF out' = Neutral THEN faults ELSE AtMost(faults + 1, MaxFaults)
      /\ UNCHANGED <<gateVars, samples, signalled, exhausted, tickVars, histVars>>
  BY DEF Return
<1>2. out' \in Outputs
  <2>1. out \in Outputs /\ 0 \in Turned
    BY DEF LoopTypeOK, OutputTypes, Turned, NaN
  <2>2. QED
    BY <1>1, <2>1, OutputFacts DEF Dropped
<1>3. faults' \in 0..MaxFaults
  BY <1>1, LoopAssumption DEF AtMost, LoopTypeOK, CountTypes
<1>4. FlagTypes'
  BY <1>1 DEF LoopTypeOK, FlagTypes, tickVars, Live, gateVars
<1>5. CountTypes'
  BY <1>1, <1>3 DEF LoopTypeOK, CountTypes, tickVars, histVars
<1>6. OutputTypes'
  BY <1>1, <1>2 DEF LoopTypeOK, OutputTypes, Phases, tickVars
<1>7. Live /\ out' # Neutral => faults' >= 2
  <2> SUFFICES ASSUME Live, out' # Neutral PROVE faults' >= 2
    OBVIOUS
  <2>1. faults < MaxFaults
    BY <1>1 DEF Dropped
  <2>2. out # Neutral
    BY <1>1 DEF Dropped, Neutral
  <2>3. faults >= 1
    BY <1>1, <2>2 DEF LoopInv, ReturnInv
  <2>4. QED
    BY <1>1, <2>1, <2>3, LoopAssumption DEF AtMost, LoopTypeOK, CountTypes
<1>8. ReturnInv'
  BY <1>1, <1>3, <1>7 DEF ReturnInv, Live, gateVars
<1>9. LoopInv'
  BY <1>1, <1>8
  DEF LoopInv, GuardInv, EstopInv, BlindInv, WatchdogInv, gateVars, tickVars,
      histVars
<1>10. QED
  BY <1>4, <1>5, <1>6, <1>9 DEF LoopTypeOK

(* The environment leaves the thread, its counters and its outputs alone.   *)
LEMMA EnvironmentKeeps ==
  ASSUME GateIInv, LoopTypeOK, LoopInv, Environment \/ UNCHANGED vars
  PROVE  /\ [GateNext]_gateVars
         /\ LoopTypeOK' /\ LoopInv'
<1>1. /\ UNCHANGED <<setup, gate, phase, samples, tickVars, out, faults, histVars>>
      /\ signalled' \in BOOLEAN /\ exhausted' \in BOOLEAN
      /\ ~exhausted /\ Live => ~exhausted'
  <2>1. signalled \in BOOLEAN /\ exhausted \in BOOLEAN
    BY DEF LoopTypeOK, FlagTypes
  <2>2. CASE Signal
    BY <2>1, <2>2 DEF Signal, gateVars
  <2>3. CASE RunOut
    BY <2>1, <2>3 DEF RunOut, gateVars
  <2>4. CASE UNCHANGED loopVars /\ UNCHANGED <<setup, gate>>
    BY <2>1, <2>4 DEF loopVars
  <2>5. Operator => UNCHANGED <<setup, gate>>
    BY DEF Operator, Deliver, Flip
  <2>6. UNCHANGED vars => UNCHANGED loopVars /\ UNCHANGED <<setup, gate>>
    BY DEF vars, gateVars
  <2>7. QED
    BY <2>2, <2>3, <2>4, <2>5, <2>6 DEF Environment
<1>2. [GateNext]_gateVars
  BY DEF Environment, GateNext, Signal, RunOut, vars
<1>3. FlagTypes'
  BY <1>1 DEF LoopTypeOK, FlagTypes, tickVars, Live
<1>4. CountTypes'
  BY <1>1 DEF LoopTypeOK, CountTypes, tickVars, histVars
<1>5. OutputTypes'
  BY <1>1 DEF LoopTypeOK, OutputTypes, tickVars
<1>6. LoopInv'
  BY <1>1
  DEF LoopInv, GuardInv, EstopInv, BlindInv, WatchdogInv, ReturnInv, tickVars,
      histVars, Live
<1>7. QED
  BY <1>2, <1>3, <1>4, <1>5, <1>6 DEF LoopTypeOK

(* The tick of the gate writes the neutral pulses or goes on.               *)
LEMMA ConsultKeeps ==
  ASSUME GateIInv, LoopTypeOK, LoopInv, NEW now \in time..MaxTime, ConsultGate(now)
  PROVE  LoopTypeOK' /\ LoopInv'
<1>1. /\ phase = "gate" /\ ObserveTick(now)
      /\ UNCHANGED <<samples, signalled, exhausted, tickVars, sinceThreat,
                     headroom, overruns>>
      /\ interrupted' \in BOOLEAN
  <2>1. CASE gate' = "Open"
    BY <2>1 DEF ConsultGate, LoopTypeOK, CountTypes
  <2>2. CASE gate' # "Open"
    BY <2>2 DEF ConsultGate
  <2>3. QED
    BY <2>1, <2>2 DEF ConsultGate
<1>2. setup' = setup /\ gate' \in {"Closed", "Open"}
  <2>1. GateTypeOK'
    BY <1>1, TickKeeps DEF GateIInv
  <2>2. QED
    BY <1>1, <2>1 DEF ObserveTick, GateTypeOK
<1>3. FlagTypes'
  BY <1>1, <1>2 DEF LoopTypeOK, FlagTypes, tickVars, Live
<1>4. CASE gate' = "Open"
  <2>1. phase' = "blind" /\ UNCHANGED <<out, faults, blindRun>>
    BY <1>4 DEF ConsultGate, Proceed
  <2>2. CountTypes'
    BY <1>1, <2>1 DEF LoopTypeOK, CountTypes, tickVars
  <2>3. OutputTypes'
    BY <1>1, <2>1 DEF LoopTypeOK, OutputTypes, tickVars, Phases
  <2>4. LoopInv'
    BY <1>1, <1>2, <1>4, <2>1
    DEF LoopInv, GuardInv, EstopInv, BlindInv, WatchdogInv, ReturnInv, tickVars,
        Live
  <2>5. QED
    BY <1>3, <2>2, <2>3, <2>4 DEF LoopTypeOK
<1>5. CASE gate' = "Closed"
  <2>1. WriteSafe("watchdog") /\ blindRun' = 0
    BY <1>5 DEF ConsultGate, AfterClosedGate
  <2>2. /\ out' \in Outputs /\ faults' \in 0..MaxFaults
        /\ \/ phase' = "watchdog" /\ out' = Neutral
           \/ phase' = "failed" /\ faults' >= 1
    BY <2>1, WriteSafeEffect
  <2>3. CountTypes'
    BY <1>1, <2>1, <2>2, LoopAssumption DEF LoopTypeOK, CountTypes, tickVars
  <2>4. OutputTypes'
    BY <1>1, <2>2 DEF LoopTypeOK, OutputTypes, tickVars, Phases
  <2>5. LoopInv'
    BY <1>1, <1>2, <2>1, <2>2, LoopAssumption
    DEF LoopInv, GuardInv, EstopInv, BlindInv, WatchdogInv, ReturnInv, tickVars,
        Live, Neutral, LoopTypeOK, CountTypes
  <2>6. QED
    BY <1>3, <2>3, <2>4, <2>5 DEF LoopTypeOK
<1>6. QED
  BY <1>2, <1>4, <1>5

-----------------------------------------------------------------------------
(* Every step of the loop is a step of its gate or leaves the gate alone.   *)
LEMMA StepLoop ==
  ASSUME IInv, [Next]_vars PROVE [GateNext]_gateVars /\ IInv'
<1>1. GateIInv /\ LoopTypeOK /\ LoopInv
  BY DEF IInv
<1>2. CASE Environment \/ UNCHANGED vars
  <2>1. [GateNext]_gateVars /\ LoopTypeOK' /\ LoopInv'
    BY <1>1, <1>2, EnvironmentKeeps
  <2>2. QED
    BY <1>1, <2>1, StepGate DEF IInv
<1>3. CASE \E now \in time..MaxTime : ConsultGate(now)
  <2>1. PICK now \in time..MaxTime : ConsultGate(now)
    BY <1>3
  <2>2. LoopTypeOK' /\ LoopInv'
    BY <1>1, <2>1, ConsultKeeps
  <2>3. GateNext
    BY <2>1 DEF ConsultGate, GateNext
  <2>4. QED
    BY <1>1, <2>2, <2>3, StepGate DEF IInv
<1>4. CASE Thread /\ ~\E now \in time..MaxTime : ConsultGate(now)
  <2>1. LoopTypeOK' /\ LoopInv'
    BY <1>1, <1>4, AbortKeeps, CalibrateKeeps, ShutdownKeeps, SenseKeeps,
       FaultKeeps, BlindKeeps, EstopKeeps, ActuateKeeps, OverrunKeeps,
       OnTimeKeeps, ReturnKeeps
    DEF Thread
  <2>2. UNCHANGED gateVars
    BY <1>4
    DEF Thread, Calibrate, AbortCalibration, Shutdown, Sense, SourceFails,
        ArmSourceFails, CheckBlind, CheckEstop, Actuate, Overrun, OnTime, Return
  <2>3. QED
    BY <1>1, <2>1, <2>2, StepGate DEF IInv
<1>5. QED
  BY <1>2, <1>3, <1>4 DEF Next

(* The inductive invariant holds in every reachable state.                  *)
THEOREM Invariance == Spec => []IInv
BY InitLoop, StepLoop, PTL DEF Spec

(* Type correctness of the loop with its gate.                              *)
THEOREM TypeCorrect == Spec => []TypeOK
<1>1. IInv => TypeOK
  BY DEF IInv, GateIInv, LoopTypeOK, FlagTypes, CountTypes, OutputTypes, Outputs,
         TypeOK
<1>2. QED
  BY <1>1, Invariance, PTL

(* No drive before the car is armed, none after a disarm.                   *)
THEOREM GateIsObeyed == Spec => []ClosedGateIsNeutral
<1>1. IInv => ClosedGateIsNeutral
  BY DEF IInv, LoopInv, GuardInv, ClosedGateIsNeutral
<1>2. QED
  BY <1>1, Invariance, PTL

(* After a threat the ESC stays neutral for CleanTicks clean checks.        *)
THEOREM EstopHolds == Spec => []EstopLatched
<1>1. IInv => EstopLatched
  BY DEF IInv, LoopInv, EstopInv, EstopLatched
<1>2. QED
  BY <1>1, Invariance, PTL

(* Blind, the car coasts for the grace window at most.                      *)
THEOREM CoastingEnds == Spec => []BlindIsBounded
<1>1. IInv => BlindIsBounded
  BY DEF IInv, LoopInv, BlindInv, BlindIsBounded
<1>2. QED
  BY <1>1, Invariance, PTL

(* Three overruns in a row end in the safe state.                           *)
THEOREM WatchdogEscalates == Spec => []OverrunsReachSafeState
<1>1. IInv => OverrunsReachSafeState
  BY DEF IInv, LoopInv, WatchdogInv, OverrunsReachSafeState
<1>2. QED
  BY <1>1, Invariance, PTL

(* However run ends, one failing call leaves the outputs neutral.           *)
THEOREM LoopEndsNeutral == Spec => []ReturnsNeutral
<1>1. IInv => ReturnsNeutral
  BY DEF IInv, LoopInv, ReturnInv, ReturnsNeutral
<1>2. QED
  BY <1>1, Invariance, PTL

(* The loop drives its gate as StartGate says, so what is proved of the     *)
(* gate holds in the loop, with signals, faults and shutdown around it.     *)
THEOREM LoopImplementsGate == Spec => GateSpec
<1>1. Init => GateInit
  BY DEF Init
<1>2. QED
  BY <1>1, StepLoop, Invariance, PTL DEF Spec, GateSpec

(* In particular a disarm that comes last wins.                             *)
THEOREM LoopHeedsDisarm == Spec => DisarmWins
BY LoopImplementsGate, DisarmAlwaysWins, PTL
=============================================================================
