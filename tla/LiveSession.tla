----------------------------- MODULE LiveSession -----------------------------
(***************************************************************************)
(* A live session (modes/live.rs): the sensor threads that SensorFactory   *)
(* spawns for the devices it finds, their retries when a device fails, the *)
(* readiness barrier, the recorder, and the end of the session, which      *)
(* joins every thread.  The control loop is ControlLoop's; here it reads   *)
(* snapshots and ends by a shutdown or by an error.                        *)
(***************************************************************************)
EXTENDS Integers, FiniteSets

CONSTANTS
  Required,       (* REQUIRED of the readiness barrier: none in the code     *)
  MaxUnplugs      (* devices that stop or start to answer (a bound)          *)

Sensors == {"lidar", "imu", "sonar"}

ASSUME LiveBounds == Required \subseteq Sensors /\ MaxUnplugs \in Nat

VARIABLES
  args,       (* Args: record, forceArm, understood                          *)
  main,       (* where run is                                                *)
  found,      (* the devices the factory can open                            *)
  answers,    (* the devices that answer now                                 *)
  unplugs,    (* bound                                                       *)
  thread,     (* per sensor: none, run, open, scan, wait or done             *)
  fault,      (* SharedState::sensor_health                                  *)
  reading,    (* SharedState: the sensors that have written a reading        *)
  signalled,  (* the ready signals sent                                      *)
  shutdown,   (* SharedState::shutdown                                       *)
  signal,     (* a SIGTERM or SIGINT is pending: no, pending or taken        *)
  result,     (* what control_loop::run returned                             *)
  senders,    (* the handles on the telemetry bus                            *)
  recorder    (* none, recv or done                                          *)

sensorVars == <<thread, fault, reading, signalled>>
mainVars   == <<main, result, senders>>
vars == <<args, found, answers, unplugs, sensorVars, shutdown, signal, mainVars,
          recorder>>

-----------------------------------------------------------------------------
(* The session                                                               *)

(* TelemetryBus and, with --record, its recorder.                            *)
StartRecorder ==
  /\ main = "start" /\ main' = "spawn"
  /\ senders' = {"session"}
  /\ \/ args.record /\ recorder' = "recv"
     \/ recorder' = "none"            (* not asked for, or it did not start  *)
  /\ UNCHANGED <<args, found, answers, unplugs, sensorVars, shutdown, signal,
                 result>>

(* SensorFactory::spawn_all: a thread for each device that is found, a ready *)
(* signal for each that is not.                                              *)
Spawn ==
  /\ main = "spawn" /\ main' = "waiting"
  /\ thread' = [s \in Sensors |-> IF s \in found THEN "run" ELSE "none"]
  /\ signalled' = Sensors \ found
  /\ UNCHANGED <<args, found, answers, unplugs, fault, reading, shutdown, signal,
                 result, senders, recorder>>

(* wait_all_ready: a signal sent before the wait is lost, since the channel  *)
(* has no receiver then; modelled for the sensors that are required.  The    *)
(* timeout ends the process.                                                 *)
WaitReady ==
  /\ main = "waiting"
  /\ \/ Required \subseteq signalled /\ main' = "ready"
     \/ Required # {} /\ main' = "exited"
  /\ UNCHANGED <<args, found, answers, unplugs, sensorVars, shutdown, signal,
                 result, senders, recorder>>

(* --force-arm alone is refused; the locals of run go, the recorder, whose   *)
(* drop joins its thread, before the bus that was made before it.            *)
Reject ==
  /\ main = "ready" /\ args.forceArm /\ ~args.understood
  /\ main' = "dropping"
  /\ result' = "rejected"
  /\ UNCHANGED <<args, found, answers, unplugs, sensorVars, shutdown, signal,
                 senders, recorder>>

EnterLoop ==
  /\ main = "ready" /\ (args.forceArm => args.understood)
  /\ main' = "loop" /\ senders' = senders \cup {"loop"}
  /\ UNCHANGED <<args, found, answers, unplugs, sensorVars, shutdown, signal,
                 result, recorder>>

(* A signal is seen by the loop, or by the task that waits for it; both set  *)
(* the shutdown flag.                                                        *)
Signal ==
  /\ main \in {"loop", "joining"} /\ signal = "no"
  /\ signal' = "pending"
  /\ UNCHANGED <<args, found, answers, unplugs, sensorVars, shutdown, mainVars,
                 recorder>>

SetShutdown ==
  /\ signal = "pending"
  /\ signal' = "taken" /\ shutdown' = TRUE
  /\ UNCHANGED <<args, found, answers, unplugs, sensorVars, mainVars, recorder>>

(* run returns at the shutdown, or with an error, of the gate's socket or of *)
(* an actuator, which does not set the flag; a calibration that fails counts *)
(* as a normal end.                                                          *)
LoopEnds ==
  /\ main = "loop" /\ main' = "joining"
  /\ \/ shutdown /\ result' = "ok"
     \/ result' \in {"error", "ok"}
  /\ senders' = senders \ {"loop"}
  /\ UNCHANGED <<args, found, answers, unplugs, sensorVars, shutdown, signal,
                 recorder>>

(* Every sensor thread is joined, the bus dropped, the recorder finished.    *)
JoinSensors ==
  /\ main = "joining"
  /\ \A s \in Sensors : thread[s] \in {"none", "done"}
  /\ main' = "flushing" /\ senders' = {}
  /\ UNCHANGED <<args, found, answers, unplugs, sensorVars, shutdown, signal,
                 result, recorder>>

(* Mutant: the recorder is asked to finish and not joined.                   *)
FinishRecorder_NotJoined ==
  /\ main \in {"flushing", "dropping"}
  /\ main' = "returned" /\ senders' = {}
  /\ UNCHANGED <<args, found, answers, unplugs, sensorVars, shutdown, signal,
                 result, recorder>>

(* finish, or the recorder's drop, joins its thread, if there is one; run    *)
(* returns.                                                                  *)
FinishRecorder ==
  /\ main \in {"flushing", "dropping"} /\ recorder \in {"none", "done"}
  /\ main' = "returned" /\ senders' = {}
  /\ UNCHANGED <<args, found, answers, unplugs, sensorVars, shutdown, signal,
                 result, recorder>>

(* The recorder thread ends when the last handle on the bus is gone.         *)
RecorderEnds ==
  /\ recorder = "recv" /\ senders = {} /\ main # "start"
  /\ recorder' = "done"
  /\ UNCHANGED <<args, found, answers, unplugs, sensorVars, shutdown, signal,
                 mainVars>>

-----------------------------------------------------------------------------
(* The sensor threads, all of the shape: look at the flag, open the device,  *)
(* read until the flag is set; after an error raise the fault flag and wait. *)

Go(s, pc) == thread' = [thread EXCEPT ![s] = pc]

(* Mutant: the threads look at the flag only while they read.                *)
GoOn_FlagIgnored(s) ==
  /\ thread[s] = "run"
  /\ Go(s, "open")
  /\ UNCHANGED <<args, found, answers, unplugs, fault, reading, signalled,
                 shutdown, signal, mainVars, recorder>>

StopAtTop(s) ==
  /\ thread[s] = "run" /\ shutdown
  /\ Go(s, "done")
  /\ UNCHANGED <<args, found, answers, unplugs, fault, reading, signalled,
                 shutdown, signal, mainVars, recorder>>

GoOn(s) ==
  /\ thread[s] = "run" /\ ~shutdown
  /\ Go(s, "open")
  /\ UNCHANGED <<args, found, answers, unplugs, fault, reading, signalled,
                 shutdown, signal, mainVars, recorder>>

(* open_and_scan and open_and_read open the device and read; the sonar       *)
(* thread has its pins already.                                              *)
Open(s) ==
  /\ thread[s] = "open" /\ (s = "lidar" => ~shutdown)
  /\ s \in answers \/ s = "sonar"
  /\ Go(s, "scan")
  /\ UNCHANGED <<args, found, answers, unplugs, fault, reading, signalled,
                 shutdown, signal, mainVars, recorder>>

(* The LiDAR resets for 1.5 s and looks at the flag again: it ends without   *)
(* a scan.                                                                   *)
StopInReset ==
  /\ thread["lidar"] = "open" /\ shutdown /\ "lidar" \in answers
  /\ Go("lidar", "done")
  /\ UNCHANGED <<args, found, answers, unplugs, fault, reading, signalled,
                 shutdown, signal, mainVars, recorder>>

(* A device that does not open: an error, unless the session is ending; the  *)
(* LiDAR looks at the flag before it raises its fault, the IMU does not.  A  *)
(* sonar whose interrupt is refused gives up for good.                       *)
OpenFails(s) ==
  /\ thread[s] = "open" /\ s \notin answers
  /\ CASE s = "sonar" -> /\ Go(s, "done") /\ signalled' = signalled \cup {s}
                         /\ UNCHANGED fault
       [] s = "lidar" /\ shutdown -> Go(s, "done") /\ UNCHANGED <<fault, signalled>>
       [] OTHER -> /\ Go(s, "wait") /\ fault' = [fault EXCEPT ![s] = TRUE]
                   /\ UNCHANGED signalled
  /\ UNCHANGED <<args, found, answers, unplugs, reading, shutdown, signal,
                 mainVars, recorder>>

(* Mutant: the LiDAR's flag is left raised after its wait.                   *)
Retry_KeepsFault(s) ==
  /\ thread[s] = "wait"
  /\ Go(s, "run")
  /\ UNCHANGED <<args, found, answers, unplugs, fault, reading, signalled,
                 shutdown, signal, mainVars, recorder>>

Retry(s) ==
  /\ thread[s] = "wait"
  /\ Go(s, "run") /\ fault' = [fault EXCEPT ![s] = FALSE]
  /\ UNCHANGED <<args, found, answers, unplugs, reading, signalled, shutdown,
                 signal, mainVars, recorder>>

(* A revolution, a sample or an echo is written to SharedState; the first    *)
(* one signals readiness.  A sonar without an echo still gives a reading.    *)
Read(s) ==
  /\ thread[s] = "scan" /\ ~shutdown
  /\ s \in answers \/ s = "sonar"
  /\ reading' = reading \cup {s}
  /\ signalled' = signalled \cup {s}
  /\ UNCHANGED <<args, found, answers, unplugs, thread, fault, shutdown, signal,
                 mainVars, recorder>>

(* The device stops to answer while it is read: the IMU thread reconnects,   *)
(* the LiDAR thread skips the packet and reads on.                           *)
ReadFails(s) ==
  /\ s = "imu" /\ thread[s] = "scan" /\ s \notin answers
  /\ Go(s, "wait") /\ fault' = [fault EXCEPT ![s] = TRUE]
  /\ UNCHANGED <<args, found, answers, unplugs, reading, signalled, shutdown,
                 signal, mainVars, recorder>>

StopReading(s) ==
  /\ thread[s] = "scan" /\ shutdown
  /\ Go(s, "done")
  /\ UNCHANGED <<args, found, answers, unplugs, fault, reading, signalled,
                 shutdown, signal, mainVars, recorder>>

(* A device comes or goes.                                                   *)
Plug(s) ==
  /\ unplugs < MaxUnplugs
  /\ unplugs' = unplugs + 1
  /\ answers' = IF s \in answers THEN answers \ {s} ELSE answers \cup {s}
  /\ UNCHANGED <<args, found, sensorVars, shutdown, signal, mainVars, recorder>>

-----------------------------------------------------------------------------
Init ==
  /\ args \in [record : BOOLEAN, forceArm : BOOLEAN, understood : BOOLEAN]
  /\ main = "start"
  /\ found \in SUBSET Sensors /\ answers = found /\ unplugs = 0
  /\ thread = [s \in Sensors |-> "none"] /\ fault = [s \in Sensors |-> FALSE]
  /\ reading = {} /\ signalled = {}
  /\ shutdown = FALSE /\ signal = "no" /\ result = "none"
  /\ senders = {} /\ recorder = "none"

Session == StartRecorder \/ Spawn \/ WaitReady \/ Reject \/ EnterLoop
           \/ LoopEnds \/ JoinSensors \/ FinishRecorder

SensorThread(s) == StopAtTop(s) \/ GoOn(s) \/ Open(s) \/ OpenFails(s) \/ Retry(s)
                   \/ Read(s) \/ ReadFails(s) \/ StopReading(s)
                   \/ (s = "lidar" /\ StopInReset)

Next == \/ Session \/ Signal \/ SetShutdown \/ RecorderEnds
        \/ \E s \in Sensors : SensorThread(s) \/ Plug(s)

(* Threads are scheduled; a signal, an unplugged device and an error of the  *)
(* loop need not come.                                                       *)
Fairness ==
  /\ WF_vars(StartRecorder) /\ WF_vars(Spawn) /\ WF_vars(WaitReady)
  /\ WF_vars(Reject) /\ WF_vars(EnterLoop)
  /\ WF_vars(shutdown /\ LoopEnds) /\ WF_vars(JoinSensors)
  /\ WF_vars(FinishRecorder) /\ WF_vars(SetShutdown) /\ WF_vars(RecorderEnds)
  /\ \A s \in Sensors : WF_vars(SensorThread(s))

Spec     == Init /\ [][Next]_vars
FairSpec == Spec /\ Fairness

-----------------------------------------------------------------------------
(* Properties                                                                *)

TypeOK ==
  /\ args \in [record : BOOLEAN, forceArm : BOOLEAN, understood : BOOLEAN]
  /\ main \in {"start", "spawn", "waiting", "ready", "loop", "joining",
               "flushing", "dropping", "returned", "exited"}
  /\ found \subseteq Sensors /\ answers \subseteq Sensors
  /\ unplugs \in 0 .. MaxUnplugs
  /\ thread \in [Sensors -> {"none", "run", "open", "scan", "wait", "done"}]
  /\ fault \in [Sensors -> BOOLEAN]
  /\ reading \subseteq Sensors /\ signalled \subseteq Sensors
  /\ shutdown \in BOOLEAN /\ signal \in {"no", "pending", "taken"}
  /\ result \in {"none", "ok", "error", "rejected"}
  /\ senders \subseteq {"session", "loop"}
  /\ recorder \in {"none", "recv", "done"}

(* The diagnostic flag sensor_fault is up exactly while a thread waits to    *)
(* reconnect: it never sticks after the device is back, and no fault is      *)
(* cleared by another sensor's thread.                                       *)
FaultWhileWaiting == \A s \in Sensors : fault[s] = (thread[s] = "wait")

(* The session's result is returned only with every sensor thread joined     *)
(* and the recording finished, and the recorder is never finished while the  *)
(* control loop may publish: unless it was refused before the loop.          *)
NothingLeftBehind ==
  /\ (main = "returned" /\ result # "rejected") =>
       /\ \A s \in Sensors : thread[s] \in {"none", "done"}
       /\ recorder # "recv"
  /\ recorder = "done" => main \in {"flushing", "dropping", "returned"}

(* After a shutdown request the session ends: whatever each sensor thread is *)
(* doing, with a device that is gone, silent or back again, and with a       *)
(* recorder that still has to drain.                                         *)
ShutdownEndsSession == shutdown ~> main \in {"returned", "exited"}

(* A session that fails, be it refused or by an error of its loop, ends.     *)
FailedSessionEnds ==
  result \in {"rejected", "error"} ~> main \in {"returned", "exited"}
=============================================================================
