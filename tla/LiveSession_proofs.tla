-------------------------- MODULE LiveSession_proofs --------------------------
(***************************************************************************)
(* Theorems about LiveSession, for every set of required sensors and any   *)
(* number of devices that come and go.                                     *)
(***************************************************************************)
EXTENDS LiveSession, TLAPS

USE LiveBounds

(* Sensor threads run only between the spawn and the join; the bus lives    *)
(* until they are joined, or until a refused session has dropped it; a      *)
(* recorder ends only after that.                                           *)
EndInv ==
  /\ main \in {"start", "spawn"} => \A s \in Sensors : thread[s] = "none"
  /\ (main \in {"flushing", "returned"} /\ result # "rejected") =>
       \A s \in Sensors : thread[s] \in {"none", "done"}
  /\ (main = "returned" /\ result # "rejected") => recorder # "recv"
  /\ main \in {"spawn", "waiting", "ready", "loop", "joining", "exited"} =>
       "session" \in senders
  /\ main = "dropping" => result = "rejected"
  /\ main \in {"start", "spawn", "waiting", "ready"} => result = "none"
  /\ recorder = "done" => /\ senders = {}
                          /\ main \in {"flushing", "dropping", "returned"}
  /\ main = "start" => recorder = "none"

IInv == TypeOK /\ FaultWhileWaiting /\ EndInv

LEMMA InitIInv == Init => IInv
<1>. SUFFICES ASSUME Init PROVE IInv
  OBVIOUS
<1>1. TypeOK
  <2>1. /\ found \subseteq Sensors /\ answers \subseteq Sensors
        /\ unplugs \in 0 .. MaxUnplugs
    BY DEF Init
  <2>2. /\ thread \in [Sensors -> {"none", "run", "open", "scan", "wait", "done"}]
        /\ fault \in [Sensors -> BOOLEAN]
    BY DEF Init
  <2>. QED  BY <2>1, <2>2 DEF Init, TypeOK
<1>2. FaultWhileWaiting /\ EndInv
  BY DEF Init, FaultWhileWaiting, EndInv
<1>. QED  BY <1>1, <1>2 DEF IInv

(* What the main thread, the signals and the recorder do                    *)
LEMMA SessionKeeps ==
  ASSUME IInv, Session \/ Signal \/ SetShutdown \/ RecorderEnds
  PROVE  IInv'
<1>. USE DEF IInv, sensorVars, mainVars
<1>1. CASE StartRecorder
  <2>1. TypeOK'
    BY <1>1 DEF StartRecorder, TypeOK
  <2>2. FaultWhileWaiting'
    BY <1>1 DEF StartRecorder, FaultWhileWaiting
  <2>3. EndInv'
    BY <1>1 DEF StartRecorder, TypeOK, EndInv
  <2>. QED  BY <2>1, <2>2, <2>3
<1>2. CASE Spawn
  <2>1. TypeOK'
    BY <1>2 DEF Spawn, TypeOK
  <2>2. FaultWhileWaiting'
    BY <1>2 DEF Spawn, TypeOK, FaultWhileWaiting, EndInv
  <2>3. EndInv'
    BY <1>2 DEF Spawn, EndInv
  <2>. QED  BY <2>1, <2>2, <2>3
<1>3. CASE WaitReady
  BY <1>3 DEF WaitReady, TypeOK, FaultWhileWaiting, EndInv
<1>4. CASE Reject
  <2>1. TypeOK'
    BY <1>4 DEF Reject, TypeOK
  <2>2. FaultWhileWaiting'
    BY <1>4 DEF Reject, FaultWhileWaiting
  <2>3. EndInv'
    BY <1>4 DEF Reject, TypeOK, EndInv
  <2>. QED  BY <2>1, <2>2, <2>3
<1>6. CASE EnterLoop
  BY <1>6 DEF EnterLoop, TypeOK, FaultWhileWaiting, EndInv
<1>7. CASE LoopEnds
  BY <1>7 DEF LoopEnds, TypeOK, FaultWhileWaiting, EndInv
<1>8. CASE JoinSensors
  BY <1>8 DEF JoinSensors, TypeOK, FaultWhileWaiting, EndInv
<1>9. CASE FinishRecorder
  BY <1>9 DEF FinishRecorder, TypeOK, FaultWhileWaiting, EndInv
<1>10. CASE Signal
  BY <1>10 DEF Signal, TypeOK, FaultWhileWaiting, EndInv
<1>11. CASE SetShutdown
  BY <1>11 DEF SetShutdown, TypeOK, FaultWhileWaiting, EndInv
<1>12. CASE RecorderEnds
  <2>1. TypeOK'
    BY <1>12 DEF RecorderEnds, TypeOK
  <2>2. FaultWhileWaiting'
    BY <1>12 DEF RecorderEnds, FaultWhileWaiting
  <2>3. EndInv'
    BY <1>12 DEF RecorderEnds, TypeOK, EndInv
  <2>. QED  BY <2>1, <2>2, <2>3
<1>. QED  BY <1>1, <1>2, <1>3, <1>4, <1>6, <1>7, <1>8, <1>9, <1>10, <1>11,
             <1>12 DEF Session

(* What a sensor's thread, or its device, does.                             *)
LEMMA ThreadTypes ==
  ASSUME TypeOK, NEW s \in Sensors,
         NEW pc \in {"none", "run", "open", "scan", "wait", "done"}, Go(s, pc)
  PROVE  /\ thread' \in [Sensors -> {"none", "run", "open", "scan", "wait", "done"}]
         /\ thread'[s] = pc
         /\ \A t \in Sensors \ {s} : thread'[t] = thread[t]
BY DEF TypeOK, Go

LEMMA SensorKeeps ==
  ASSUME IInv, NEW s \in Sensors, SensorThread(s) \/ Plug(s)
  PROVE  IInv'
<1>. USE DEF IInv, sensorVars, mainVars
<1>. DEFINE Rest == UNCHANGED <<args, found, unplugs, answers, shutdown, signal, mainVars, recorder>>
(* A thread that moves is one that runs: it is not before the spawn, nor    *)
(* after the join.                                                          *)
<1>1. ASSUME Rest, fault' = fault, NEW pc \in {"run", "open", "scan", "done"},
             Go(s, pc), thread[s] \in {"run", "open", "scan"},
             reading' \subseteq Sensors, signalled' \subseteq Sensors
      PROVE  IInv'
  <2>1. /\ thread' \in [Sensors -> {"none", "run", "open", "scan", "wait", "done"}]
        /\ thread'[s] = pc
        /\ \A t \in Sensors \ {s} : thread'[t] = thread[t]
    BY <1>1, ThreadTypes
  <2>2. TypeOK'
    BY <1>1, <2>1 DEF TypeOK
  <2>3. FaultWhileWaiting'
    BY <1>1, <2>1 DEF FaultWhileWaiting
  <2>4. EndInv'
    BY <1>1, <2>1 DEF EndInv
  <2>. QED  BY <2>2, <2>3, <2>4
(* A fault is raised with the wait and cleared with its end.                *)
<1>2. ASSUME Rest, UNCHANGED <<reading, signalled>>,
             \/ /\ thread[s] \in {"open", "scan"} /\ Go(s, "wait")
                /\ fault' = [fault EXCEPT ![s] = TRUE]
             \/ /\ thread[s] = "wait" /\ Go(s, "run")
                /\ fault' = [fault EXCEPT ![s] = FALSE]
      PROVE  IInv'
  <2>1. /\ thread' \in [Sensors -> {"none", "run", "open", "scan", "wait", "done"}]
        /\ thread'[s] \in {"wait", "run"}
        /\ \A t \in Sensors \ {s} : thread'[t] = thread[t]
    BY <1>2, ThreadTypes
  <2>2. /\ fault' \in [Sensors -> BOOLEAN] /\ fault'[s] = (thread'[s] = "wait")
        /\ \A t \in Sensors \ {s} : fault'[t] = fault[t]
    BY <1>2, ThreadTypes DEF TypeOK
  <2>3. TypeOK'
    BY <1>2, <2>1, <2>2 DEF TypeOK
  <2>4. FaultWhileWaiting'
    BY <2>1, <2>2 DEF FaultWhileWaiting
  <2>5. EndInv'
    BY <1>2, <2>1 DEF EndInv
  <2>. QED  BY <2>3, <2>4, <2>5
<1>3. CASE StopAtTop(s) \/ GoOn(s) \/ Open(s) \/ StopReading(s)
  BY <1>1, <1>3 DEF StopAtTop, GoOn, Open, StopReading, TypeOK
<1>4. CASE s = "lidar" /\ StopInReset
  BY <1>1, <1>4 DEF StopInReset, TypeOK
<1>5. CASE OpenFails(s)
  <2>1. CASE s = "sonar"
    BY <1>1, <1>5, <2>1 DEF OpenFails, TypeOK
  <2>2. CASE s = "lidar" /\ shutdown
    BY <1>1, <1>5, <2>2 DEF OpenFails, TypeOK
  <2>3. CASE s # "sonar" /\ ~(s = "lidar" /\ shutdown)
    BY <1>2, <1>5, <2>3 DEF OpenFails
  <2>. QED  BY <2>1, <2>2, <2>3
<1>6. CASE Retry(s)
  BY <1>2, <1>6 DEF Retry
<1>7. CASE ReadFails(s)
  BY <1>2, <1>7 DEF ReadFails
<1>8. CASE Read(s)
  <2>1. TypeOK'
    BY <1>8 DEF Read, TypeOK
  <2>. QED  BY <1>8, <2>1 DEF Read, FaultWhileWaiting, EndInv
<1>9. CASE Plug(s)
  <2>1. TypeOK'
    BY <1>9 DEF Plug, TypeOK
  <2>. QED  BY <1>9, <2>1 DEF Plug, FaultWhileWaiting, EndInv
<1>. QED  BY <1>3, <1>4, <1>5, <1>6, <1>7, <1>8, <1>9 DEF SensorThread

LEMMA StepKeepsIInv == IInv /\ [Next]_vars => IInv'
<1>. SUFFICES ASSUME IInv, [Next]_vars PROVE IInv'
  OBVIOUS
<1>1. CASE Next
  BY <1>1, SessionKeeps, SensorKeeps DEF Next
<1>2. CASE UNCHANGED vars
  BY <1>2 DEF IInv, TypeOK, FaultWhileWaiting, EndInv, vars, sensorVars, mainVars
<1>. QED  BY <1>1, <1>2

-----------------------------------------------------------------------------
(* Whatever the devices do, the session's state keeps its types.            *)
THEOREM TypeCorrect == Spec => []TypeOK
<1>1. IInv => TypeOK
  BY DEF IInv
<1>. QED  BY <1>1, InitIInv, StepKeepsIInv, PTL DEF Spec

(* A sensor's fault flag is up exactly while its thread waits to reconnect, *)
(* however often its device comes and goes (sensors/lidar.rs:285).          *)
THEOREM FaultsDoNotStick == Spec => []FaultWhileWaiting
<1>1. IInv => FaultWhileWaiting
  BY DEF IInv
<1>. QED  BY <1>1, InitIInv, StepKeepsIInv, PTL DEF Spec

(* A session that was not refused returns with all sensor threads joined    *)
(* and its recording finished, and no recorder ends before the bus is given *)
(* up (modes/live.rs:131).                                                  *)
THEOREM SessionsCleanUp == Spec => []NothingLeftBehind
<1>1. IInv => NothingLeftBehind
  BY DEF IInv, NothingLeftBehind, EndInv
<1>. QED  BY <1>1, InitIInv, StepKeepsIInv, PTL DEF Spec
=============================================================================
