------------------------------ MODULE Recording ------------------------------
(***************************************************************************)
(* One simulator session with a recording, and the replay of that          *)
(* recording: the control loop publishes the events of each tick on the    *)
(* telemetry bus (telemetry_bus.rs), the recorder thread writes them to a  *)
(* file (sinks/mcap.rs), the session ends or is killed, and a second       *)
(* session reads the file back through a decoder thread and a bounded      *)
(* channel (input_replay.rs, modes/replay.rs).                             *)
(***************************************************************************)
EXTENDS Integers, SequencesExt, Topics

CONSTANTS
  MaxTicks,       (* ticks of the recorded session (a bound)                *)
  BusCapacity,    (* subscribe(2048)                                        *)
  ReplayCapacity, (* sync_channel(500) of McapSensorReplaySource            *)
  CalibrationTicks, (* snapshots that calibrate_imu consumes (200)          *)
  MaxWriteErrors, (* write_event calls that fail (a bound)                  *)
  MaxRev          (* largest map and race-line revision (a bound)           *)

ASSUME RecordingBounds ==
  /\ BusCapacity \in Nat \ {0} /\ ReplayCapacity \in Nat \ {0}
  /\ MaxTicks \in Nat /\ CalibrationTicks \in Nat
  /\ MaxWriteErrors \in Nat /\ MaxRev \in Nat

VARIABLES
  phase,      (* run, returned, finish, ended; then open, replay, stopped   *)
  perception, (* cfg.perception_mode of the session                         *)
  tick,       (* ticks begun                                                *)
  world,      (* the latest LiDAR cloud and what the pipeline computed: the *)
              (* mode, the revisions of the map and of the race line        *)
  last,       (* last_mode, last_map_revision_published, last_raceline_...  *)
  outgoing,   (* events of this tick still to be published                  *)
  senders,    (* which parts of the session hold the bus                    *)
  bus,        (* the recorder's channel                                     *)
  recorder,   (* the recorder thread: recv or done                          *)
  file,       (* the messages written of the events in Kept                 *)
  footer,     (* writer.finish() has run                                    *)
  errors,     (* history: failed writes                                     *)
  recorded,   (* history: the readings of the snapshots written in full     *)
  decoder,    (* position of the decoder in the file, Ended when it ended   *)
  chan,       (* its channel                                                *)
  source,     (* fields of McapSensorReplaySource                           *)
  adapter,    (* fields of RuntimeReplayAdapter, and whether it is asking   *)
  returned    (* history: snapshots next_snapshot gave the control loop     *)

sessionVars == <<perception, tick, world, last, outgoing>>
busVars     == <<senders, bus>>
fileVars    == <<recorder, file, footer, errors, recorded>>
replayVars  == <<decoder, chan, source, adapter, returned>>
vars == <<phase, sessionVars, busVars, fileVars, replayVars>>

None  == 0
Ended == -1

Modes == {"Reactive", "Raceline"}

(* SensorSnapshot: readings are told apart by their time, and a LiDAR cloud *)
(* may be the one of the tick before.  Its two flags are the device fault   *)
(* (live: the sensor threads' health) and the edge of a timing gate.        *)
Value(n)    == << ToString(n) >>
Reading(at) == [at |-> at, value |-> Value(at)]
Snapshot(lidar, imu, fault, crossed) ==
  [lidar |-> Reading(lidar), imu |-> Reading(imu), sonar |-> Value(imu),
   sensor_fault |-> fault, start_line_crossed |-> crossed]
NoReading  == Reading(0)
NoSnapshot == Snapshot(0, 0, FALSE, FALSE)

(* The pipeline and the loop's memory of what was published, as each        *)
(* session starts with them.                                                *)
FreshWorld == [lidar |-> 1, mode |-> "None", map |-> None, line |-> None,
               closed |-> FALSE]
FreshLast  == [mode |-> "None", map |-> None, line |-> None]

(* Bodies are sequences of strings; only the sensor event has a snapshot.   *)
Event(kind, at, body) ==
  [kind |-> kind, at |-> at, body |-> body, snap |-> NoSnapshot]
SensorEvent(snap) ==
  [kind |-> "Sensor", at |-> snap.imu.at, body |-> <<>>, snap |-> snap]

-----------------------------------------------------------------------------
(* The session                                                              *)

When(condition, events) == IF condition THEN events ELSE <<>>

(* publish_step_telemetry.                                                  *)
StepEvents(snap, w, l) ==
  LET at == snap.imu.at IN
  << SensorEvent(snap), Event("ReactiveCorridor", at, <<>>),
     Event(IF perception = "Apex" THEN "ReactiveApex" ELSE "ReactiveRansacWalls",
           at, <<>>),
     Event("EkfState", at, <<>>), Event("Status", at, <<>>) >>
  \o When(w.closed, << Event("LoopClosure", at, <<>>) >>)
  \o When(w.map # None /\ w.map # l.map,
          << Event("GlobalMapSnapshot", at, Value(w.map)) >>)
  \o << Event("Localization", at, <<>>) >>
  \o When(w.line # None, << Event("RaceReference", at, <<>>) >>)
  \o When(w.line # None /\ w.line # l.line, << Event("RaceLine", at, Value(w.line)) >>)
  \o << Event("State", at, <<w.mode>>) >>
  \o When(w.mode # l.mode, << Event("Transition", at, <<l.mode, w.mode>>) >>)
  \o When(snap.start_line_crossed, << Event("StartLineGate", at, <<>>) >>)
  \o << Event("Control", at, <<>>) >>

(* The bookkeeping that publish_step_telemetry leaves behind.               *)
Remember(w, l) ==
  [mode |-> w.mode,
   map  |-> IF w.map # None THEN w.map ELSE l.map,
   line |-> IF w.line # None THEN w.line ELSE l.line]

(* One tick of the control loop: the step's events, then those of the       *)
(* source (the ground truth), the start gate and the metrics.               *)
Tick ==
  /\ phase = "run" /\ outgoing = <<>> /\ tick < MaxTicks
  /\ tick' = tick + 1
  /\ \E lidar \in {world.lidar, tick + 1}, mode \in Modes, map \in world.map .. MaxRev,
       line \in world.line .. MaxRev, fault \in BOOLEAN, crossed \in BOOLEAN :
       /\ line <= map
       /\ mode = "Raceline" => line # None
       /\ world' = [lidar |-> lidar, mode |-> mode, map |-> map, line |-> line,
                    closed |-> map > 0]
       /\ outgoing' = StepEvents(Snapshot(lidar, tick + 1, fault, crossed),
                                 world', last)
                      \o << Event("GroundTruth", tick + 1, <<>>),
                            Event("StartGate", tick + 1, <<>>),
                            Event("Metrics", tick + 1, <<>>) >>
  /\ last' = Remember(world', last)
  /\ UNCHANGED <<phase, perception, busVars, fileVars, replayVars>>

(* TelemetryBus::publish with the recorder as its one subscriber: a full    *)
(* channel loses the event.                                                 *)
Publish ==
  /\ phase = "run" /\ outgoing # <<>>
  /\ bus' = IF Len(bus) < BusCapacity THEN Append(bus, Head(outgoing)) ELSE bus
  /\ outgoing' = Tail(outgoing)
  /\ UNCHANGED <<phase, perception, tick, world, last, senders, fileVars,
                 replayVars>>

(* Mutant: run keeps its handle on the bus.                                 *)
LoopReturns_KeepsBus ==
  /\ phase = "run" /\ outgoing = <<>>
  /\ phase' = "returned"
  /\ world' = FreshWorld /\ last' = FreshLast
  /\ UNCHANGED <<perception, tick, outgoing, busVars, fileVars, replayVars>>

(* control_loop::run returns, at an end of a tick or inside it (next_snap-  *)
(* shot fails); its pipeline and its handle on the bus go.                  *)
LoopReturns ==
  /\ phase = "run" /\ outgoing = <<>>
  /\ phase' = "returned"
  /\ world' = FreshWorld /\ last' = FreshLast
  /\ senders' = senders \ {"control_loop"}
  /\ UNCHANGED <<perception, tick, outgoing, bus, fileVars, replayVars>>

(* drop(bus) in the mode's run.                                             *)
DropBus ==
  /\ phase = "returned"
  /\ phase' = "finish"
  /\ senders' = senders \ {"mode"}
  /\ UNCHANGED <<sessionVars, bus, fileVars, replayVars>>

(* TelemetrySink::finish joins the recorder thread.                         *)
Finish ==
  /\ phase = "finish" /\ recorder = "done"
  /\ phase' = "ended"
  /\ UNCHANGED <<sessionVars, busVars, fileVars, replayVars>>

(* The process is killed; what the recorder has not written is gone, and so *)
(* is the footer.                                                           *)
Kill ==
  /\ phase \in {"run", "returned", "finish"} /\ ~footer
  /\ phase' = "ended"
  /\ recorder' = "done"
  /\ senders' = {} /\ bus' = <<>> /\ outgoing' = <<>>
  /\ world' = FreshWorld /\ last' = FreshLast
  /\ UNCHANGED <<perception, tick, file, footer, errors, recorded, replayVars>>

-----------------------------------------------------------------------------
(* The recorder thread: mcap_loop                                           *)

(* Of the file, the model keeps the readings, which the replay looks for,   *)
(* and the transitions, which it skips like all the rest.                   *)
Kept(e) == IF e.kind \in {"Sensor", "Transition"} THEN Messages(e) ELSE <<>>

(* A snapshot's messages carry its readings: its flags have no topic.       *)
WithoutFlags(snap) ==
  [snap EXCEPT !.sensor_fault = FALSE, !.start_line_crossed = FALSE]

(* write_event succeeds.                                                    *)
Record ==
  /\ recorder = "recv" /\ bus # <<>>
  /\ LET e == Head(bus) IN
       /\ file' = file \o Kept(e)
       /\ recorded' = recorded \o
            When(e.kind = "Sensor", << WithoutFlags(e.snap) >>)
  /\ bus' = Tail(bus)
  /\ UNCHANGED <<phase, sessionVars, senders, recorder, footer, errors,
                 replayVars>>

(* write_event fails at one of its messages: the ones before it stay in the *)
(* file, the failure is logged and the loop goes on.                        *)
RecordFails ==
  /\ recorder = "recv" /\ bus # <<>> /\ errors < MaxWriteErrors
  /\ LET kept == Kept(Head(bus)) IN
       file' \in {file} \cup {file \o SubSeq(kept, 1, n) : n \in 1 .. Len(kept) - 1}
  /\ errors' = errors + 1
  /\ bus' = Tail(bus)
  /\ UNCHANGED <<phase, sessionVars, senders, recorder, footer, recorded,
                 replayVars>>

(* Every sender is gone and the channel is drained: writer.finish().        *)
CloseFile ==
  /\ recorder = "recv" /\ bus = <<>> /\ senders = {}
  /\ recorder' = "done"
  /\ footer' = TRUE
  /\ UNCHANGED <<phase, sessionVars, busVars, file, errors, recorded, replayVars>>

-----------------------------------------------------------------------------
(* The replay                                                               *)

(* McapSensorReplaySource::open.                                            *)
FreshSource == [lidar |-> NoReading, imu |-> NoReading, sonar |-> Value(0),
                exhausted |-> FALSE, lastReturned |-> None]

(* A file without its footer is refused by the reader; the decoder ends     *)
(* without a frame.                                                         *)
OpenReplay ==
  /\ phase = "ended"
  /\ phase' = "open"
  /\ decoder' = IF footer THEN 1 ELSE Ended
  /\ UNCHANGED <<sessionVars, busVars, fileVars, chan, source, adapter,
                 returned>>

(* decode_worker: the sensor message of a topic it knows, as a frame with   *)
(* the publish time for its time; other topics give none.                   *)
Frames(m) ==
  CASE m.topic = "/sensor/imu"   -> << [sensor |-> "imu", at |-> m.at, value |-> m.body] >>
    [] m.topic = "/sensor/lidar" -> << [sensor |-> "lidar", at |-> m.at, value |-> m.body] >>
    [] m.topic = "/sensor/sonar" -> << [sensor |-> "sonar", at |-> m.at, value |-> m.body] >>
    [] OTHER -> <<>>

(* One message, if the bounded channel has room; the worker ends at the end *)
(* of the file, or when the receiver is gone.                               *)
Decode ==
  /\ decoder # Ended /\ phase \in {"open", "replay", "stopped"}
  /\ LET frames == Frames(file[decoder]) IN
       CASE decoder > Len(file) -> decoder' = Ended /\ UNCHANGED chan
         [] decoder <= Len(file) /\ frames = <<>> ->
              decoder' = decoder + 1 /\ UNCHANGED chan
         [] decoder <= Len(file) /\ frames # <<>> /\ phase = "stopped" ->
              decoder' = Ended /\ UNCHANGED chan
         [] OTHER -> /\ Len(chan) < ReplayCapacity
                     /\ chan' = chan \o frames
                     /\ decoder' = decoder + 1
  /\ UNCHANGED <<phase, sessionVars, busVars, fileVars, source, adapter,
                 returned>>

(* McapSensorReplaySource::apply.                                           *)
ApplyFrame(s, f) ==
  CASE f.sensor = "lidar" -> [s EXCEPT !.lidar = [at |-> f.at, value |-> f.value]]
    [] f.sensor = "imu"   -> [s EXCEPT !.imu = [at |-> f.at, value |-> f.value]]
    [] f.sensor = "sonar" -> [s EXCEPT !.sonar = f.value]

(* A recording has no topic for the flags: a replayed snapshot has them     *)
(* lowered.                                                                 *)
SnapshotOf(s) == [lidar |-> s.lidar, imu |-> s.imu, sonar |-> s.sonar,
                  sensor_fault |-> FALSE, start_line_crossed |-> FALSE]

(* The adapter holds one snapshot ahead; it asks the source for the next    *)
(* one when it is opened and when it hands one out.                         *)
Prefetching == phase \in {"open", "replay"} /\ adapter.asking

Prefetched(snap) ==
  /\ adapter' = [adapter EXCEPT !.next = snap, !.asking = FALSE,
                                !.exhausted = (snap = <<>>)]
  /\ phase' = "replay"

(* next_snapshot takes one frame; a LiDAR frame completes a snapshot.       *)
TakeFrame ==
  /\ Prefetching /\ ~source.exhausted /\ chan # <<>>
  /\ chan' = Tail(chan)
  /\ LET s == ApplyFrame(source, Head(chan)) IN
       IF Head(chan).sensor = "lidar"
       THEN /\ source' = [s EXCEPT !.lastReturned = s.lidar.at]
            /\ Prefetched(<< SnapshotOf(s) >>)
       ELSE source' = s /\ UNCHANGED <<phase, adapter>>
  /\ UNCHANGED <<sessionVars, busVars, fileVars, decoder, returned>>

(* The channel is closed and empty: a last cloud not yet returned gives one *)
(* more snapshot, then there is no more.                                    *)
SourceEnds ==
  /\ Prefetching /\ chan = <<>> /\ decoder = Ended
  /\ source' = [source EXCEPT !.exhausted = TRUE]
  /\ Prefetched(IF source.exhausted \/ source.lidar = NoReading
                     \/ source.lastReturned = source.lidar.at
                THEN <<>> ELSE << SnapshotOf(source) >>)
  /\ UNCHANGED <<sessionVars, busVars, fileVars, decoder, chan, returned>>

(* calibrate_imu, then the loop: a tick takes the prefetched snapshot and   *)
(* asks for the one after it.                                               *)
ReplayTick ==
  /\ phase = "replay" /\ ~adapter.asking /\ ~adapter.exhausted
  /\ returned' = returned \o adapter.next
  /\ adapter' = [adapter EXCEPT !.next = <<>>, !.asking = TRUE]
  /\ UNCHANGED <<phase, sessionVars, busVars, fileVars, decoder, chan, source>>

(* The loop ends: the source is exhausted, or the user stops it, for which  *)
(* calibrate_imu does not look.  The source and its receiver are dropped.   *)
StopReplay ==
  /\ phase = "replay" /\ ~adapter.asking
  /\ adapter.exhausted \/ Len(returned) >= CalibrationTicks
  /\ phase' = "stopped"
  /\ chan' = <<>>
  /\ UNCHANGED <<sessionVars, busVars, fileVars, decoder, source, adapter,
                 returned>>

-----------------------------------------------------------------------------
Init ==
  /\ phase = "run" /\ perception \in {"Corridor", "Apex"} /\ tick = 0
  /\ world = FreshWorld /\ last = FreshLast
  /\ outgoing = << Event("World", 0, <<>>) >>
  /\ senders = {"mode", "control_loop"} /\ bus = <<>>
  /\ recorder = "recv" /\ file = StaticTransforms
  /\ footer = FALSE /\ errors = 0
  /\ recorded = <<>>
  /\ decoder = Ended /\ chan = <<>> /\ source = FreshSource
  /\ adapter = [next |-> <<>>, exhausted |-> FALSE, asking |-> TRUE]
  /\ returned = <<>>

MainThread == Tick \/ Publish \/ LoopReturns \/ DropBus \/ Finish
Recorder   == Record \/ RecordFails \/ CloseFile
Replay     == OpenReplay \/ Decode \/ TakeFrame \/ SourceEnds \/ ReplayTick
              \/ StopReplay

Next == MainThread \/ Recorder \/ Replay \/ Kill

(* Both sessions' threads are scheduled; the main one leaves its loop and   *)
(* drops the bus, the replay runs to the end of its source.                 *)
Fairness ==
  /\ WF_vars(Publish) /\ WF_vars(DropBus) /\ WF_vars(Finish)
  /\ WF_vars(Record) /\ WF_vars(CloseFile)
  /\ WF_vars(Decode) /\ WF_vars(TakeFrame) /\ WF_vars(SourceEnds)
  /\ WF_vars(ReplayTick) /\ WF_vars(adapter.exhausted /\ StopReplay)

Spec     == Init /\ [][Next]_vars
FairSpec == Spec /\ Fairness

-----------------------------------------------------------------------------
(* Properties                                                               *)

(* What is written, or will be, goes to a channel that register_topics      *)
(* has registered, under the schema its bytes are encoded in, whatever the  *)
(* perception mode; and the channels are the topics of TelemetryTopic.      *)
MessagesMatchSchema ==
  /\ DOMAIN Channels = TelemetryTopics
  /\ SceneTopics = {t \in DOMAIN Channels : Channels[t] = "SceneUpdate"}
  /\ \A m \in Range(StaticTransforms) \cup UNION {Range(Messages(e)) : e \in Range(bus)} :
       /\ m.topic \in DOMAIN Channels
       /\ Channels[m.topic] = m.schema

(* The replay hands out the readings of the recorded snapshots, each once,  *)
(* in order and together, also after a write that failed half-way, but      *)
(* never a flag; all of them when it runs to the end of a finished          *)
(* recording, and none of a recording whose process was killed.             *)
ReplayFaithful ==
  /\ IsPrefix(returned, recorded)
  /\ ~footer => returned = <<>>
  /\ (footer /\ adapter.exhausted /\ phase = "stopped" /\ source.exhausted)
       => returned = recorded

(* finish returns once the loop has dropped the bus, with a full channel    *)
(* behind it too; a replay of the recording ends, and so does its decoder   *)
(* when the replay is stopped with frames unread.                           *)
SessionsEnd ==
  /\ phase = "returned" ~> phase = "ended"
  /\ phase = "open" ~> (phase = "stopped" /\ decoder = Ended)
=============================================================================
