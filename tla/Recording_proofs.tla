--------------------------- MODULE Recording_proofs ---------------------------
(***************************************************************************)
(* Proofs about a recorded session and its replay, for every length of the *)
(* session, every capacity of the two channels and any number of failing   *)
(* writes.                                                                 *)
(***************************************************************************)
EXTENDS Recording, SequenceTheorems, TLAPS

(* The values of the model.                                                 *)
Kinds ==
  {"Sensor", "Control", "Metrics", "StartGate", "ReactiveCorridor",
   "ReactiveRansacWalls", "ReactiveApex", "MappingRansacWalls", "EkfState",
   "EkfCovariance", "Status", "GlobalMapDelta", "GlobalMapSnapshot",
   "LoopClosure", "ScanMatch", "ParticleFilter", "Localization", "RaceLine",
   "RaceReference", "State", "Transition", "StartLineGate", "LapComplete",
   "World", "GroundTruth"}

Schemas    == {"json", "SceneUpdate", "FrameTransforms", "PointCloud", "PosesInFrame"}
ModeNames  == Modes \cup {"None"}
Bodies     == {Value(n) : n \in Nat} \cup Seq(ModeNames \cup {"base_link", "lidar"})
Readings   == [at : Nat, value : Bodies]
Snapshots  == [lidar : Readings, imu : Readings, sonar : Bodies,
               sensor_fault : BOOLEAN, start_line_crossed : BOOLEAN]
Unflagged  == [lidar : Readings, imu : Readings, sonar : Bodies,
               sensor_fault : {FALSE}, start_line_crossed : {FALSE}]
WorldSet   == [lidar : Nat, mode : ModeNames, map : Nat, line : Nat,
               closed : BOOLEAN]
EventSet   == [kind : Kinds, at : Nat, body : Bodies, snap : Snapshots]
MessageSet == [topic : TelemetryTopics, schema : Schemas, at : Nat, body : Bodies]
FrameSet   == [sensor : {"imu", "sonar", "lidar"}, at : Nat, value : Bodies]
SourceSet  == [lidar : Readings, imu : Readings, sonar : Bodies,
               exhausted : BOOLEAN, lastReturned : Nat]

SessionTyped ==
  /\ tick \in Nat
  /\ world \in WorldSet
  /\ last \in [mode : ModeNames, map : Nat, line : Nat]
  /\ outgoing \in Seq(EventSet) /\ bus \in Seq(EventSet)

FileTyped ==
  /\ file \in Seq(MessageSet) /\ recorded \in Seq(Unflagged)

ReplayTyped ==
  /\ decoder \in {Ended} \cup (Nat \ {0})
  /\ chan \in Seq(FrameSet)
  /\ source \in SourceSet
  /\ adapter \in [next : Seq(Snapshots), exhausted : BOOLEAN, asking : BOOLEAN]
  /\ returned \in Seq(Snapshots)

-----------------------------------------------------------------------------
(* The file: its k-th cloud, at pos[k], is the one of the k-th recorded     *)
(* snapshot and comes right behind the other readings of that snapshot; it  *)
(* holds no cloud besides.                                                  *)
SensorTopics == {"/sensor/imu", "/sensor/sonar", "/sensor/lidar"}
Sensed(p)    == file[p].topic \in SensorTopics

HoldsSnapshot(p, snap) ==
  /\ p - 2 \in 1 .. Len(file) /\ p - 1 \in 1 .. Len(file) /\ p \in 1 .. Len(file)
  /\ file[p - 2] = Message("/sensor/imu", "json", snap.imu.at, snap.imu.value)
  /\ file[p - 1] = Message("/sensor/sonar", "json", snap.lidar.at, snap.sonar)
  /\ file[p]     = PointCloud(snap.lidar)

LaidOut(pos) ==
  /\ pos \in [1 .. Len(recorded) -> 1 .. Len(file)]
  /\ \A k \in 1 .. Len(recorded) : HoldsSnapshot(pos[k], recorded[k])
  /\ \A j, k \in 1 .. Len(recorded) : j < k => pos[j] < pos[k]
  /\ \A p \in 1 .. Len(file) :
       file[p].topic = "/sensor/lidar" => \E k \in 1 .. Len(recorded) : pos[k] = p

FileInv == \E pos \in [1 .. Len(recorded) -> 1 .. Len(file)] : LaidOut(pos)

(* No session writes to its recording once it is over.                      *)
Closed ==
  /\ phase \in {"ended", "open", "replay", "stopped"} => recorder = "done"
  /\ footer => recorder = "done"

-----------------------------------------------------------------------------
(* The replay: the source has seen the file up to position c, and the       *)
(* channel holds the frames of the positions w, up to the decoder's.        *)
Horizon == IF decoder = Ended THEN Len(file) + 1 ELSE decoder
FrameOf(m) == Frames(m)[1]

Piped(w, c) ==
  /\ decoder \in 1 .. Len(file) + 1 \/ decoder = Ended
  /\ c \in 0 .. Horizon - 1
  /\ w \in [1 .. Len(chan) -> c + 1 .. Horizon - 1]
  /\ \A i, j \in 1 .. Len(chan) : i < j => w[i] < w[j]
  /\ \A i \in 1 .. Len(chan) : Sensed(w[i]) /\ chan[i] = FrameOf(file[w[i]])
  /\ \A p \in c + 1 .. Horizon - 1 : Sensed(p) => \E i \in 1 .. Len(chan) : w[i] = p

(* The snapshots up to the n-th have left the source, which holds what it   *)
(* has seen of the next one.                                                *)
Produced == Len(returned) + Len(adapter.next)

Assembles(pos, c) ==
  /\ \A k \in 1 .. Len(recorded) : k <= Produced <=> pos[k] <= c
  /\ \A k \in 1 .. Len(recorded) : k > Produced =>
       /\ pos[k] - 2 <= c => source.imu = recorded[k].imu
       /\ pos[k] - 1 <= c => source.sonar = recorded[k].sonar

Reads == \E pos \in [1 .. Len(recorded) -> 1 .. Len(file)], c \in 0 .. Len(file) :
           \E w \in [1 .. Len(chan) -> c + 1 .. Len(file)] :
             LaidOut(pos) /\ Piped(w, c) /\ Assembles(pos, c)

(* What the control loop has or will get next is what was recorded.         *)
Given ==
  /\ Produced <= Len(recorded)
  /\ \A k \in 1 .. Len(returned) : returned[k] = recorded[k]
  /\ adapter.next = <<>> \/ adapter.next = << recorded[Len(returned) + 1] >>
  /\ adapter.asking \/ adapter.exhausted => adapter.next = <<>>
  /\ footer /\ adapter.exhausted => Len(returned) = Len(recorded)

Idle ==
  chan = <<>> /\ decoder = Ended /\ returned = <<>> /\ adapter.next = <<>>

InReplay  == phase \in {"open", "replay", "stopped"}
NotYet    == ~InReplay => /\ Idle /\ source = FreshSource
                          /\ adapter = [next |-> <<>>, exhausted |-> FALSE, asking |-> TRUE]
NoFooter  == ~footer => Idle
BeingRead == footer /\ phase \in {"open", "replay"} => Reads
Handed    == source.lidar = NoReading \/ source.lastReturned = source.lidar.at

ReplayInv == NotYet /\ NoFooter /\ BeingRead /\ Handed /\ Given

IInv == SessionTyped /\ FileTyped /\ ReplayTyped /\ FileInv /\ Closed /\ ReplayInv

-----------------------------------------------------------------------------
(* Channels: every topic has one schema, the one it is registered under.   *)
LEMMA OneSchema ==
  ASSUME NEW t, NEW s, NEW u, <<t, s>> \in Specs, <<t, u>> \in Specs
  PROVE  u = s
BY DEF Specs, CarTopics, PerceptionTopics, RaceTopics, WorldTopics

LEMMA ChannelOf ==
  ASSUME NEW t, NEW s, <<t, s>> \in Specs
  PROVE  t \in DOMAIN Channels /\ Channels[t] = s
<1>1. \A u : <<t, u>> \in Specs => u = s
  BY OneSchema
<1> QED
  BY <1>1 DEF Channels

(* register_topics covers TelemetryTopic and nothing else, and the scenes   *)
(* are the topics of is_scene_topic.                                        *)
LEMMA TopicsAreChannels ==
  ASSUME NEW t \in TelemetryTopics
  PROVE  \E s \in Schemas :
           <<t, s>> \in Specs
<1> USE DEF Schemas
<1> DEFINE others == SceneTopics \cup {"/tf", "/tf_static", "/sensor/lidar",
                       "/estimation/ekf/pose", "/sim/ground_truth/pose"}
<1>1. CASE t \in SceneTopics
  <2>1. <<t, "SceneUpdate">> \in Specs
    BY <1>1 DEF SceneTopics, Specs, CarTopics, PerceptionTopics, RaceTopics, WorldTopics
  <2> QED
    BY <2>1
<1>2. CASE t \in others \ SceneTopics
  <2>1. \/ <<t, "FrameTransforms">> \in Specs
        \/ <<t, "PointCloud">> \in Specs
        \/ <<t, "PosesInFrame">> \in Specs
    BY <1>2 DEF Specs, CarTopics, PerceptionTopics, RaceTopics, WorldTopics
  <2> QED
    BY <2>1
<1>3. CASE t \notin others
  <2>1. <<t, "json">> \in Specs
    BY <1>3 DEF TelemetryTopics, SceneTopics, Specs, CarTopics, PerceptionTopics, RaceTopics, WorldTopics
  <2> QED
    BY <2>1
<1> QED
  BY <1>1, <1>2, <1>3

LEMMA ChannelsAreTopics ==
  DOMAIN Channels = TelemetryTopics
<1>1. DOMAIN Channels = {spec[1] : spec \in Specs}
  BY DEF Channels
<1>2. \A spec \in Specs : spec[1] \in TelemetryTopics
  BY DEF TelemetryTopics, Specs, CarTopics, PerceptionTopics, RaceTopics, WorldTopics
<1>3. \A t \in TelemetryTopics : t \in DOMAIN Channels
  BY TopicsAreChannels, ChannelOf
<1> QED
  BY <1>1, <1>2, <1>3

LEMMA ScenesAreChannels ==
  SceneTopics = {t \in DOMAIN Channels : Channels[t] = "SceneUpdate"}
<1>1. \A t \in SceneTopics : <<t, "SceneUpdate">> \in Specs
  BY DEF SceneTopics, Specs, CarTopics, PerceptionTopics, RaceTopics, WorldTopics
<1>2. ASSUME NEW t \in DOMAIN Channels, Channels[t] = "SceneUpdate"
      PROVE  t \in SceneTopics
  <2>1. \E s \in Schemas :
          <<t, s>> \in Specs
    BY <1>2, ChannelsAreTopics, TopicsAreChannels
  <2>2. <<t, "SceneUpdate">> \in Specs
    BY <2>1, <1>2, ChannelOf
  <2> QED
    BY <2>2 DEF SceneTopics, Specs, CarTopics, PerceptionTopics, RaceTopics, WorldTopics
<1> QED
  BY <1>1, <1>2, ChannelOf

(* Every message of a sequence has a topic and a schema of TOPICS.          *)
Fits(ms) == \A m \in Range(ms) : <<m.topic, m.schema>> \in Specs

LEMMA TupleFits ==
  ASSUME NEW t, NEW s, NEW a, NEW b, NEW t2, NEW s2, NEW a2, NEW b2,
         NEW t3, NEW s3, NEW a3, NEW b3, NEW t4, NEW s4, NEW a4, NEW b4
  PROVE  /\ <<t, s>> \in Specs => Fits(<< Message(t, s, a, b) >>)
         /\ <<t, s>> \in Specs /\ <<t2, s2>> \in Specs =>
              Fits(<< Message(t, s, a, b), Message(t2, s2, a2, b2) >>)
         /\ <<t, s>> \in Specs /\ <<t2, s2>> \in Specs /\ <<t3, s3>> \in Specs =>
              Fits(<< Message(t, s, a, b), Message(t2, s2, a2, b2), Message(t3, s3, a3, b3) >>)
         /\ <<t, s>> \in Specs /\ <<t2, s2>> \in Specs /\ <<t3, s3>> \in Specs
            /\ <<t4, s4>> \in Specs =>
              Fits(<< Message(t, s, a, b), Message(t2, s2, a2, b2), Message(t3, s3, a3, b3),
                      Message(t4, s4, a4, b4) >>)
BY DEF Fits, Range, Message

(* Every message of every kind of event has a topic and a schema of TOPICS: *)
(* first the groups of write_event, then the event.                         *)
LEMMA GroupsFit ==
  ASSUME NEW e
  PROVE  /\ Fits(ControlMessages(e).Control)
         /\ Fits(ControlMessages(e).Metrics)
         /\ Fits(ControlMessages(e).StartGate)
         /\ Fits(PerceptionMessages(e).ReactiveCorridor)
         /\ Fits(PerceptionMessages(e).ReactiveRansacWalls)
         /\ Fits(PerceptionMessages(e).ReactiveApex)
         /\ Fits(PerceptionMessages(e).MappingRansacWalls)
         /\ Fits(EstimationMessages(e).EkfState)
         /\ Fits(EstimationMessages(e).EkfCovariance)
         /\ Fits(MappingMessages(e).Status)
         /\ Fits(MappingMessages(e).GlobalMapDelta)
         /\ Fits(MappingMessages(e).GlobalMapSnapshot)
         /\ Fits(MappingMessages(e).LoopClosure)
         /\ Fits(LocalizationMessages(e).ScanMatch)
         /\ Fits(LocalizationMessages(e).ParticleFilter)
         /\ Fits(LocalizationMessages(e).Localization)
         /\ Fits(PlanningMessages(e).RaceLine)
         /\ Fits(PlanningMessages(e).RaceReference)
         /\ Fits(SupervisorMessages(e).State)
         /\ Fits(SupervisorMessages(e).Transition)
         /\ Fits(SupervisorMessages(e).StartLineGate)
         /\ Fits(SupervisorMessages(e).LapComplete)
         /\ Fits(WorldMessages(e).World)
         /\ Fits(GroundTruthMessages(e).GroundTruth)
<1> USE DEF Json, Pose, SceneUpdate
<1>1. /\ Fits(ControlMessages(e).Control)
      /\ Fits(ControlMessages(e).Metrics)
      /\ Fits(ControlMessages(e).StartGate)
  <2>1. /\ {"/control/command", "/control/metrics", "/control/start_gate"} \X {"json"} \subseteq Specs
        /\ {"/control/scene"} \X {"SceneUpdate"} \subseteq Specs
    BY DEF Specs, CarTopics, PerceptionTopics, RaceTopics, WorldTopics
  <2> QED
    BY <2>1, TupleFits DEF ControlMessages, ControlScene
<1>2. /\ Fits(PerceptionMessages(e).ReactiveCorridor)
      /\ Fits(PerceptionMessages(e).ReactiveRansacWalls)
      /\ Fits(PerceptionMessages(e).ReactiveApex)
      /\ Fits(PerceptionMessages(e).MappingRansacWalls)
  <2>1. /\ {"/perception/reactive/corridor", "/perception/reactive/ransac_walls", "/perception/reactive/apex", "/mapping/ransac_walls"} \X {"json"} \subseteq Specs
        /\ {"/perception/reactive/scene"} \X {"SceneUpdate"} \subseteq Specs
    BY DEF Specs, CarTopics, PerceptionTopics, RaceTopics, WorldTopics
  <2> QED
    BY <2>1, TupleFits DEF PerceptionMessages, RansacScene, ApexScene
<1>3. /\ Fits(EstimationMessages(e).EkfState)
      /\ Fits(EstimationMessages(e).EkfCovariance)
  <2>1. /\ {"/estimation/ekf/state", "/estimation/ekf/bias", "/estimation/ekf/covariance"} \X {"json"} \subseteq Specs
        /\ {"/estimation/ekf/pose"} \X {"PosesInFrame"} \subseteq Specs
    BY DEF Specs, CarTopics, PerceptionTopics, RaceTopics, WorldTopics
  <2> QED
    BY <2>1, TupleFits DEF EstimationMessages
<1>4. /\ Fits(MappingMessages(e).Status)
      /\ Fits(MappingMessages(e).GlobalMapDelta)
      /\ Fits(MappingMessages(e).GlobalMapSnapshot)
      /\ Fits(MappingMessages(e).LoopClosure)
  <2>1. /\ {"/mapping/status", "/mapping/global_map_delta", "/mapping/global_map_snapshot", "/mapping/loop_closure"} \X {"json"} \subseteq Specs
        /\ {"/mapping/global_map_scene"} \X {"SceneUpdate"} \subseteq Specs
    BY DEF Specs, CarTopics, PerceptionTopics, RaceTopics, WorldTopics
  <2> QED
    BY <2>1, TupleFits DEF MappingMessages, MapScene
<1>5. /\ Fits(LocalizationMessages(e).ScanMatch)
      /\ Fits(LocalizationMessages(e).ParticleFilter)
      /\ Fits(LocalizationMessages(e).Localization)
  <2>1. /\ {"/localization/scan_match", "/localization/particle_filter", "/localization/result"} \X {"json"} \subseteq Specs
    BY DEF Specs, CarTopics, PerceptionTopics, RaceTopics, WorldTopics
  <2> QED
    BY <2>1, TupleFits DEF LocalizationMessages
<1>6. /\ Fits(PlanningMessages(e).RaceLine)
      /\ Fits(PlanningMessages(e).RaceReference)
  <2>1. /\ {"/planning/raceline", "/planning/raceline_reference"} \X {"json"} \subseteq Specs
        /\ {"/planning/raceline_scene"} \X {"SceneUpdate"} \subseteq Specs
    BY DEF Specs, CarTopics, PerceptionTopics, RaceTopics, WorldTopics
  <2> QED
    BY <2>1, TupleFits DEF PlanningMessages, RacelineScene
<1>7. /\ Fits(SupervisorMessages(e).State)
      /\ Fits(SupervisorMessages(e).Transition)
      /\ Fits(SupervisorMessages(e).StartLineGate)
      /\ Fits(SupervisorMessages(e).LapComplete)
  <2>1. /\ {"/supervisor/state", "/supervisor/transition", "/race/start_line", "/race/lap"} \X {"json"} \subseteq Specs
    BY DEF Specs, CarTopics, PerceptionTopics, RaceTopics, WorldTopics
  <2> QED
    BY <2>1, TupleFits DEF SupervisorMessages
<1>8. /\ Fits(WorldMessages(e).World)
  <2>1. /\ {"/world/snapshot"} \X {"json"} \subseteq Specs
        /\ {"/world/walls"} \X {"SceneUpdate"} \subseteq Specs
    BY DEF Specs, CarTopics, PerceptionTopics, RaceTopics, WorldTopics
  <2> QED
    BY <2>1, TupleFits DEF WorldMessages, WallsScene
<1>9. /\ Fits(GroundTruthMessages(e).GroundTruth)
  <2>1. /\ {"/sim/ground_truth/state"} \X {"json"} \subseteq Specs
        /\ {"/sim/ground_truth/pose"} \X {"PosesInFrame"} \subseteq Specs
        /\ {"/tf"} \X {"FrameTransforms"} \subseteq Specs
        /\ {"/sim/ground_truth/footprint"} \X {"SceneUpdate"} \subseteq Specs
    BY DEF Specs, CarTopics, PerceptionTopics, RaceTopics, WorldTopics
  <2> QED
    BY <2>1, TupleFits DEF GroundTruthMessages, Transform, Footprint
<1> QED
  BY <1>1, <1>2, <1>3, <1>4, <1>5, <1>6, <1>7, <1>8, <1>9

LEMMA EventFits ==
  ASSUME NEW e, e.kind \in Kinds
  PROVE  Fits(Messages(e))
<1>1. CASE e.kind = "Sensor"
  <2>1. {"/sensor/imu", "/sensor/sonar"} \X {"json"} \cup {<<"/sensor/lidar", "PointCloud">>} \subseteq Specs
    BY DEF Specs, CarTopics, PerceptionTopics, RaceTopics, WorldTopics
  <2> QED
    BY <1>1, <2>1, TupleFits DEF Messages, SensorMessages, PointCloud
<1>2. CASE e.kind \in {"Control", "Metrics", "StartGate"}
  <2>1. Messages(e) = ControlMessages(e)[e.kind]
    BY <1>2 DEF Messages
  <2> QED
    BY <1>2, <2>1, GroupsFit
<1>3. CASE e.kind \in {"ReactiveCorridor", "ReactiveRansacWalls", "ReactiveApex", "MappingRansacWalls"}
  <2>1. Messages(e) = PerceptionMessages(e)[e.kind]
    BY <1>3 DEF Messages
  <2> QED
    BY <1>3, <2>1, GroupsFit
<1>4. CASE e.kind \in {"EkfState", "EkfCovariance"}
  <2>1. Messages(e) = EstimationMessages(e)[e.kind]
    BY <1>4 DEF Messages
  <2> QED
    BY <1>4, <2>1, GroupsFit
<1>5. CASE e.kind \in {"Status", "GlobalMapDelta", "GlobalMapSnapshot", "LoopClosure"}
  <2>1. Messages(e) = MappingMessages(e)[e.kind]
    BY <1>5 DEF Messages
  <2> QED
    BY <1>5, <2>1, GroupsFit
<1>6. CASE e.kind \in {"ScanMatch", "ParticleFilter", "Localization"}
  <2>1. Messages(e) = LocalizationMessages(e)[e.kind]
    BY <1>6 DEF Messages
  <2> QED
    BY <1>6, <2>1, GroupsFit
<1>7. CASE e.kind \in {"RaceLine", "RaceReference"}
  <2>1. Messages(e) = PlanningMessages(e)[e.kind]
    BY <1>7 DEF Messages
  <2> QED
    BY <1>7, <2>1, GroupsFit
<1>8. CASE e.kind \in {"State", "Transition", "StartLineGate", "LapComplete"}
  <2>1. Messages(e) = SupervisorMessages(e)[e.kind]
    BY <1>8 DEF Messages
  <2> QED
    BY <1>8, <2>1, GroupsFit
<1>9. CASE e.kind \in {"World"}
  <2>1. Messages(e) = WorldMessages(e)[e.kind]
    BY <1>9 DEF Messages
  <2> QED
    BY <1>9, <2>1, GroupsFit
<1>10. CASE e.kind \in {"GroundTruth"}
  <2>1. Messages(e) = GroundTruthMessages(e)[e.kind]
    BY <1>10 DEF Messages
  <2> QED
    BY <1>10, <2>1, GroupsFit
<1> QED
  BY <1>1, <1>2, <1>3, <1>4, <1>5, <1>6, <1>7, <1>8, <1>9, <1>10 DEF Kinds

-----------------------------------------------------------------------------
(* The session's values are typed.                                          *)
LEMMA SnapshotTyped ==
  ASSUME NEW lidar \in Nat, NEW imu \in Nat,
         NEW fault \in BOOLEAN, NEW crossed \in BOOLEAN
  PROVE  Snapshot(lidar, imu, fault, crossed) \in Snapshots
BY DEF Snapshot, Snapshots, Reading, Readings, Bodies

LEMMA EventTyped ==
  ASSUME NEW kind \in Kinds, NEW at \in Nat, NEW body \in Bodies
  PROVE  Event(kind, at, body) \in EventSet
BY SnapshotTyped DEF Event, EventSet, NoSnapshot

LEMMA SensorEventTyped ==
  ASSUME NEW snap \in Snapshots
  PROVE  SensorEvent(snap) \in EventSet
BY DEF SensorEvent, EventSet, Kinds, Bodies, Snapshots, Readings

LEMMA BodiesTyped ==
  /\ <<>> \in Bodies
  /\ \A a, b \in ModeNames : <<a>> \in Bodies /\ <<a, b>> \in Bodies
  /\ \A n \in Nat : Value(n) \in Bodies
BY DEF Bodies, ModeNames

LEMMA StepEventsTyped ==
  ASSUME SessionTyped,
         NEW snap \in Snapshots, NEW w \in WorldSet
  PROVE  StepEvents(snap, w, last) \in Seq(EventSet)
<1> DEFINE at == snap.imu.at
<1>1. at \in Nat /\ w.mode \in ModeNames /\ last.mode \in ModeNames /\ w.map \in Nat /\ w.line \in Nat
  BY DEF SessionTyped, WorldSet, Snapshots, Readings
<1>2. /\ Event("LoopClosure", at, <<>>) \in EventSet
      /\ Event("Localization", at, <<>>) \in EventSet
      /\ Event("RaceReference", at, <<>>) \in EventSet
      /\ Event("StartLineGate", at, <<>>) \in EventSet
      /\ Event("Control", at, <<>>) \in EventSet
      /\ Event("ReactiveCorridor", at, <<>>) \in EventSet
      /\ Event("EkfState", at, <<>>) \in EventSet
      /\ Event("Status", at, <<>>) \in EventSet
      /\ Event(IF perception = "Apex" THEN "ReactiveApex" ELSE "ReactiveRansacWalls", at, <<>>)
           \in EventSet
  BY <1>1, EventTyped, BodiesTyped DEF Kinds
<1>3. /\ Event("GlobalMapSnapshot", at, Value(w.map)) \in EventSet
      /\ Event("RaceLine", at, Value(w.line)) \in EventSet
      /\ Event("State", at, <<w.mode>>) \in EventSet
      /\ Event("Transition", at, <<last.mode, w.mode>>) \in EventSet
  <2>1. /\ Value(w.map) \in Bodies /\ Value(w.line) \in Bodies
        /\ <<w.mode>> \in Bodies /\ <<last.mode, w.mode>> \in Bodies
    BY <1>1, BodiesTyped
  <2>2. {"GlobalMapSnapshot", "RaceLine", "State", "Transition"} \subseteq Kinds
    BY DEF Kinds
  <2> HIDE DEF at
  <2> QED
    BY <1>1, <2>1, <2>2, EventTyped
<1>4. SensorEvent(snap) \in EventSet
  BY SensorEventTyped
<1>5. \A e \in EventSet : <<e>> \in Seq(EventSet)
  OBVIOUS
<1>6. \A c : \A e \in EventSet : When(c, <<e>>) \in Seq(EventSet)
  BY <1>5 DEF When
<1>7. \A s, t \in Seq(EventSet) : s \o t \in Seq(EventSet)
  OBVIOUS
<1>8. << SensorEvent(snap), Event("ReactiveCorridor", at, <<>>),
         Event(IF perception = "Apex" THEN "ReactiveApex" ELSE "ReactiveRansacWalls", at, <<>>),
         Event("EkfState", at, <<>>), Event("Status", at, <<>>) >> \in Seq(EventSet)
  <2>1. \A e1, e2, e3, e4, e5 \in EventSet : <<e1, e2, e3, e4, e5>> \in Seq(EventSet)
    OBVIOUS
  <2> HIDE DEF at
  <2> QED
    BY <1>2, <1>4, <2>1
<1> DEFINE loop == When(w.closed, << Event("LoopClosure", at, <<>>) >>)
           map == When(w.map # None /\ w.map # last.map,
                       << Event("GlobalMapSnapshot", at, Value(w.map)) >>)
           pose == << Event("Localization", at, <<>>) >>
           follow == When(w.line # None, << Event("RaceReference", at, <<>>) >>)
           line == When(w.line # None /\ w.line # last.line,
                        << Event("RaceLine", at, Value(w.line)) >>)
           mode == << Event("State", at, <<w.mode>>) >>
           change == When(w.mode # last.mode,
                          << Event("Transition", at, <<last.mode, w.mode>>) >>)
           gate == When(snap.start_line_crossed, << Event("StartLineGate", at, <<>>) >>)
           control == << Event("Control", at, <<>>) >>
           reactive == << SensorEvent(snap), Event("ReactiveCorridor", at, <<>>),
              Event(IF perception = "Apex" THEN "ReactiveApex" ELSE "ReactiveRansacWalls", at, <<>>),
              Event("EkfState", at, <<>>), Event("Status", at, <<>>) >>
<1>9. StepEvents(snap, w, last) = reactive \o loop \o map \o pose \o follow \o line \o mode
                            \o change \o gate \o control
  BY DEF StepEvents
<1> HIDE DEF at
<1>10. loop \in Seq(EventSet) /\ map \in Seq(EventSet) /\ pose \in Seq(EventSet)
  BY <1>2, <1>3, <1>5, <1>6, Zenon
<1>11. follow \in Seq(EventSet) /\ line \in Seq(EventSet) /\ mode \in Seq(EventSet)
  BY <1>2, <1>3, <1>5, <1>6, Zenon
<1>12. change \in Seq(EventSet) /\ gate \in Seq(EventSet) /\ control \in Seq(EventSet)
  BY <1>2, <1>3, <1>5, <1>6, Zenon
<1>13. reactive \in Seq(EventSet)
  BY <1>8
<1> HIDE DEF loop, map, pose, follow, line, mode, change, gate, control, reactive
<1>14. reactive \o loop \o map \o pose \in Seq(EventSet)
  BY <1>7, <1>10, <1>13
<1>15. reactive \o loop \o map \o pose \o follow \o line \o mode \in Seq(EventSet)
  BY <1>7, <1>11, <1>14
<1>16. reactive \o loop \o map \o pose \o follow \o line \o mode \o change \o gate \o control
         \in Seq(EventSet)
  BY <1>7, <1>12, <1>15
<1> QED
  BY <1>9, <1>16

LEMMA RememberTyped ==
  ASSUME SessionTyped,
         NEW w \in WorldSet
  PROVE  Remember(w, last) \in [mode : ModeNames, map : Nat, line : Nat]
BY DEF SessionTyped, WorldSet, Remember

LEMMA FreshTyped ==
  FreshWorld \in WorldSet /\ FreshLast \in [mode : ModeNames, map : Nat, line : Nat]
BY DEF FreshWorld, FreshLast, WorldSet, ModeNames, None

LEMMA SessionInit == Init => SessionTyped
<1> SUFFICES ASSUME Init PROVE SessionTyped
  OBVIOUS
<1>2. Event("World", 0, <<>>) \in EventSet
  BY 0 \in Nat, EventTyped, BodiesTyped DEF Kinds
<1>3. << Event("World", 0, <<>>) >> \in Seq(EventSet)
  BY <1>2
<1>4. /\ tick = 0 /\ bus = <<>>
      /\ outgoing = << Event("World", 0, <<>>) >>
      /\ world \in WorldSet /\ last \in [mode : ModeNames, map : Nat, line : Nat]
  BY FreshTyped DEF Init
<1> QED
  BY <1>3, <1>4 DEF SessionTyped

LEMMA SessionStep ==
  ASSUME SessionTyped, [Next]_vars
  PROVE  SessionTyped'
<1>1. CASE Tick
  <2>1. tick + 1 \in Nat /\ world.lidar \in Nat
    BY DEF SessionTyped, WorldSet
  <2>2. PICK lidar \in {world.lidar, tick + 1}, mode \in Modes,
             map \in world.map .. MaxRev, line \in world.line .. MaxRev,
             fault \in BOOLEAN, crossed \in BOOLEAN :
          /\ line <= map
          /\ mode = "Raceline" => line # None
          /\ world' = [lidar |-> lidar, mode |-> mode, map |-> map, line |-> line,
                       closed |-> map > 0]
          /\ outgoing' = StepEvents(Snapshot(lidar, tick + 1, fault, crossed),
                                    world', last)
                         \o << Event("GroundTruth", tick + 1, <<>>),
                               Event("StartGate", tick + 1, <<>>),
                               Event("Metrics", tick + 1, <<>>) >>
    BY <1>1, Zenon DEF Tick
  <2>3. lidar \in Nat /\ Snapshot(lidar, tick + 1, fault, crossed) \in Snapshots
    BY <2>1, <2>2, SnapshotTyped
  <2>4. world' \in WorldSet
    <3>1. map \in Nat /\ line \in Nat
      <4>1. world.map \in Nat /\ world.line \in Nat /\ MaxRev \in Nat
        BY RecordingBounds DEF SessionTyped, WorldSet
      <4>2. map \in world.map .. MaxRev /\ line \in world.line .. MaxRev
        BY <2>2
      <4>. QED  BY <4>1, <4>2
    <3>2. mode \in ModeNames
      BY <2>2 DEF ModeNames
    <3> QED
      BY <2>2, <2>3, <3>1, <3>2 DEF WorldSet
  <2>5. StepEvents(Snapshot(lidar, tick + 1, fault, crossed), world', last) \in Seq(EventSet)
    BY <2>3, <2>4, StepEventsTyped
  <2>6. << Event("GroundTruth", tick + 1, <<>>), Event("StartGate", tick + 1, <<>>),
           Event("Metrics", tick + 1, <<>>) >> \in Seq(EventSet)
    <3>1. \A kind \in Kinds : Event(kind, tick + 1, <<>>) \in EventSet
      BY <2>1, EventTyped, BodiesTyped
    <3>2. \A e1, e2, e3 \in EventSet : <<e1, e2, e3>> \in Seq(EventSet)
      OBVIOUS
    <3>3. {"GroundTruth", "StartGate", "Metrics"} \subseteq Kinds
      BY DEF Kinds
    <3> QED
      BY <3>1, <3>2, <3>3
  <2>7. outgoing' \in Seq(EventSet)
    BY <2>2, <2>5, <2>6
  <2>8. last' \in [mode : ModeNames, map : Nat, line : Nat]
    BY <1>1, <2>4, RememberTyped DEF Tick
  <2> QED
    BY <1>1, <2>1, <2>4, <2>7, <2>8 DEF Tick, SessionTyped, busVars
<1>2. CASE Publish
  <2>1. Head(outgoing) \in EventSet /\ Tail(outgoing) \in Seq(EventSet)
    BY <1>2 DEF Publish, SessionTyped
  <2>2. bus' \in Seq(EventSet) /\ outgoing' \in Seq(EventSet)
    BY <1>2, <2>1 DEF Publish, SessionTyped
  <2> QED
    BY <1>2, <2>2 DEF Publish, SessionTyped
<1>3. CASE LoopReturns
  BY <1>3, FreshTyped DEF LoopReturns, SessionTyped
<1>9. CASE DropBus \/ Finish
  BY <1>9 DEF DropBus, Finish, SessionTyped, sessionVars, busVars
<1>4. CASE Record \/ RecordFails
  <2>1. bus # <<>> /\ bus' = Tail(bus)
    BY <1>4 DEF Record, RecordFails
  <2>2. bus' \in Seq(EventSet)
    BY <2>1 DEF SessionTyped
  <2> QED
    BY <1>4, <2>2 DEF Record, RecordFails, SessionTyped, sessionVars
<1>5. CASE CloseFile
  BY <1>5 DEF CloseFile, SessionTyped, sessionVars, busVars
<1>6. CASE Replay
  BY <1>6 DEF Replay, OpenReplay, Decode, TakeFrame, SourceEnds, ReplayTick, StopReplay,
              SessionTyped, sessionVars, busVars
<1>7. CASE Kill
  BY <1>7, FreshTyped DEF Kill, SessionTyped
<1>8. CASE UNCHANGED vars
  BY <1>8 DEF vars, sessionVars, busVars, SessionTyped
<1> QED
  BY <1>1, <1>2, <1>3, <1>4, <1>5, <1>6, <1>7, <1>8, <1>9 DEF Next, MainThread, Recorder

(* The control loop publishes events of the kinds of TelemetryEvent only,   *)
(* and the bus hands no others on.                                          *)
THEOREM SessionIsTyped == Spec => []SessionTyped
<1>1. Init => SessionTyped
  BY SessionInit
<1>2. SessionTyped /\ [Next]_vars => SessionTyped'
  BY SessionStep
<1> QED
  BY <1>1, <1>2, PTL DEF Spec

(* Whatever the pipeline publishes, in whatever perception mode, the sink   *)
(* writes each of its messages to a registered channel, under its schema.   *)
THEOREM MessagesFitTheirChannels == Spec => []MessagesMatchSchema
<1>1. SessionTyped => MessagesMatchSchema
  <2> SUFFICES ASSUME SessionTyped,
                      NEW m \in Range(StaticTransforms)
                                \cup UNION {Range(Messages(e)) : e \in Range(bus)}
               PROVE  <<m.topic, m.schema>> \in Specs
    BY ChannelsAreTopics, ScenesAreChannels, ChannelOf DEF MessagesMatchSchema
  <2>1. CASE m \in Range(StaticTransforms)
    BY <2>1 DEF Range, StaticTransforms, Message, Specs, CarTopics
  <2>2. CASE m \notin Range(StaticTransforms)
    <3>1. PICK e \in Range(bus) : m \in Range(Messages(e))
      BY <2>2
    <3>2. PICK i \in 1 .. Len(bus) : e = bus[i]
      BY <3>1 DEF Range, SessionTyped
    <3>3. e \in EventSet
      BY <3>2 DEF SessionTyped
    <3>4. e.kind \in Kinds
      BY <3>3 DEF EventSet
    <3> QED
      BY <3>1, <3>4, EventFits DEF Fits
  <2> QED
    BY <2>1, <2>2
<1> QED
  BY <1>1, SessionIsTyped, PTL

-----------------------------------------------------------------------------
(* The file                                                                 *)
(* What Kept gives for each kind of event.                                  *)
LEMMA KeptMessages ==
  ASSUME NEW e \in EventSet
  PROVE  /\ e.kind = "Sensor" => Kept(e) = SensorMessages(e.snap)
         /\ e.kind = "Transition" => Kept(e) = << Json(e, "/supervisor/transition") >>
         /\ e.kind \notin {"Sensor", "Transition"} => Kept(e) = <<>>
<1>1. CASE e.kind = "Sensor"
  BY <1>1 DEF Kept, Messages
<1>2. CASE e.kind = "Transition"
  <2>1. Messages(e) = SupervisorMessages(e)[e.kind]
    BY <1>2 DEF Messages
  <2>2. SupervisorMessages(e)["Transition"] = << Json(e, "/supervisor/transition") >>
    BY DEF SupervisorMessages
  <2> QED
    BY <1>2, <2>1, <2>2 DEF Kept
<1>3. CASE e.kind \notin {"Sensor", "Transition"}
  BY <1>3 DEF Kept
<1> QED
  BY <1>1, <1>2, <1>3

LEMMA SensorMessagesTyped ==
  ASSUME NEW snap \in Snapshots
  PROVE  SensorMessages(snap) \in Seq(MessageSet) /\ Len(SensorMessages(snap)) = 3
BY DEF SensorMessages, PointCloud, Message, MessageSet, Snapshots, Readings,
       TelemetryTopics, Schemas

(* The messages of a snapshot do not tell its flags.                        *)
LEMMA FlagsAreNotWritten ==
  ASSUME NEW snap \in Snapshots
  PROVE  /\ WithoutFlags(snap) \in Unflagged
         /\ SensorMessages(WithoutFlags(snap)) = SensorMessages(snap)
<1>1. /\ WithoutFlags(snap) \in Unflagged
      /\ WithoutFlags(snap).lidar = snap.lidar
      /\ WithoutFlags(snap).imu = snap.imu /\ WithoutFlags(snap).sonar = snap.sonar
  BY DEF WithoutFlags, Snapshots, Unflagged
<1> QED
  BY <1>1 DEF SensorMessages

LEMMA KeptTyped ==
  ASSUME NEW e \in EventSet
  PROVE  Kept(e) \in Seq(MessageSet)
<1>1. Json(e, "/supervisor/transition") \in MessageSet
  BY DEF Json, Message, MessageSet, EventSet, TelemetryTopics, Schemas
<1>2. e.snap \in Snapshots
  BY DEF EventSet
<1>3. CASE e.kind = "Sensor"
  BY <1>2, <1>3, KeptMessages, SensorMessagesTyped
<1>4. CASE e.kind = "Transition"
  <2>1. Kept(e) = << Json(e, "/supervisor/transition") >>
    BY <1>4, KeptMessages
  <2> QED
    BY <1>1, <2>1
<1>5. CASE e.kind \notin {"Sensor", "Transition"}
  <2>1. Kept(e) = <<>>
    BY <1>5, KeptMessages
  <2> QED
    BY <2>1
<1> QED
  BY <1>3, <1>4, <1>5

(* Messages that hold no cloud leave the recorded snapshots where they are. *)
LEMMA WritesNoCloud ==
  ASSUME FileTyped, FileInv, NEW t \in Seq(MessageSet),
         \A i \in 1 .. Len(t) : t[i].topic # "/sensor/lidar",
         file' = file \o t, recorded' = recorded
  PROVE  FileTyped' /\ FileInv'
<1>1. /\ file' \in Seq(MessageSet) /\ recorded' \in Seq(Unflagged)
      /\ Len(file') = Len(file) + Len(t)
      /\ \A p \in 1 .. Len(file) : file'[p] = file[p]
      /\ \A p \in Len(file) + 1 .. Len(file') : file'[p] = t[p - Len(file)]
  BY DEF FileTyped
<1>2. Len(file) \in Nat /\ Len(t) \in Nat /\ Len(recorded) \in Nat
  BY DEF FileTyped
<1>3. PICK pos \in [1 .. Len(recorded) -> 1 .. Len(file)] : LaidOut(pos)
  BY DEF FileInv
<1>4. pos \in [1 .. Len(recorded') -> 1 .. Len(file')]
  BY <1>1, <1>2
<1>5. \A k \in 1 .. Len(recorded') : HoldsSnapshot(pos[k], recorded[k])'
  <2> SUFFICES ASSUME NEW k \in 1 .. Len(recorded)
               PROVE  HoldsSnapshot(pos[k], recorded[k])'
    OBVIOUS
  <2>1. HoldsSnapshot(pos[k], recorded[k])
    BY <1>3 DEF LaidOut
  <2> QED
    BY <1>1, <1>2, <2>1 DEF HoldsSnapshot
<1>6. \A j, k \in 1 .. Len(recorded') : j < k => pos[j] < pos[k]
  BY <1>3 DEF LaidOut
<1>7. ASSUME NEW p \in 1 .. Len(file'), file'[p].topic = "/sensor/lidar"
      PROVE  \E k \in 1 .. Len(recorded') : pos[k] = p
  <2>1. CASE p \in 1 .. Len(file)
    BY <1>1, <1>3, <1>7, <2>1 DEF LaidOut
  <2>2. CASE p \notin 1 .. Len(file)
    BY <1>1, <1>2, <1>7, <2>2
  <2> QED
    BY <2>1, <2>2
<1>8. LaidOut(pos)'
  BY <1>4, <1>5, <1>6, <1>7 DEF LaidOut
<1> QED
  BY <1>1, <1>4, <1>8 DEF FileTyped, FileInv

LEMMA ThreeMore ==
  ASSUME NEW S, NEW s \in Seq(S), NEW t \in Seq(S), Len(t) = 3
  PROVE  /\ s \o t \in Seq(S) /\ Len(s \o t) = Len(s) + 3
         /\ \A p \in 1 .. Len(s) : (s \o t)[p] = s[p]
         /\ (s \o t)[Len(s) + 1] = t[1]
         /\ (s \o t)[Len(s) + 2] = t[2]
         /\ (s \o t)[Len(s) + 3] = t[3]
<1>1. PICK l \in Nat : l = Len(s)
  OBVIOUS
<1>2. /\ s \o t \in Seq(S) /\ Len(s \o t) = l + 3
      /\ \A i \in 1 .. l + 3 : (s \o t)[i] = IF i <= l THEN s[i] ELSE t[i - l]
  <2>1. /\ s \o t \in Seq(S) /\ Len(s \o t) = Len(s) + Len(t)
        /\ \A i \in 1 .. Len(s) + Len(t) :
             (s \o t)[i] = IF i <= Len(s) THEN s[i] ELSE t[i - Len(s)]
    BY ConcatProperties, Zenon
  <2> QED
    BY <1>1, <2>1, Zenon
<1>3. \A p \in 1 .. l : (s \o t)[p] = s[p]
  BY <1>1, <1>2
<1>4. /\ l + 1 \in 1 .. l + 3 /\ ~(l + 1 <= l) /\ (l + 1) - l = 1
      /\ l + 2 \in 1 .. l + 3 /\ ~(l + 2 <= l) /\ (l + 2) - l = 2
      /\ l + 3 \in 1 .. l + 3 /\ ~(l + 3 <= l) /\ (l + 3) - l = 3
  BY <1>1
<1>5. (s \o t)[l + 1] = t[1]
  BY <1>2, <1>4
<1>6. (s \o t)[l + 2] = t[2]
  BY <1>2, <1>4
<1>7. (s \o t)[l + 3] = t[3]
  BY <1>2, <1>4
<1> QED
  BY <1>1, <1>2, <1>3, <1>5, <1>6, <1>7

(* A snapshot written in full is the last one of the file.                  *)
LEMMA WritesSnapshot ==
  ASSUME FileTyped, FileInv, NEW snap \in Unflagged,
         file' = file \o SensorMessages(snap), recorded' = Append(recorded, snap)
  PROVE  FileTyped' /\ FileInv'
<1>0. PICK t, n, l : t = SensorMessages(snap) /\ n = Len(recorded) /\ l = Len(file)
  OBVIOUS
<1>1. /\ t \in Seq(MessageSet) /\ Len(t) = 3
      /\ t[1] = Message("/sensor/imu", "json", snap.imu.at, snap.imu.value)
      /\ t[2] = Message("/sensor/sonar", "json", snap.lidar.at, snap.sonar)
      /\ t[3] = PointCloud(snap.lidar)
  BY <1>0, SensorMessagesTyped DEF SensorMessages, Snapshots, Unflagged
<1>2. /\ file \in Seq(MessageSet) /\ recorded \in Seq(Unflagged)
      /\ n \in Nat /\ l \in Nat /\ file' = file \o t
  BY <1>0 DEF FileTyped
<1>3. /\ file' \in Seq(MessageSet) /\ Len(file') = l + 3
      /\ \A p \in 1 .. l : file'[p] = file[p]
      /\ file'[l + 1] = t[1] /\ file'[l + 2] = t[2] /\ file'[l + 3] = t[3]
  BY <1>0, <1>1, <1>2, ThreeMore
<1>4. /\ recorded' \in Seq(Unflagged) /\ Len(recorded') = n + 1
      /\ \A k \in 1 .. n : recorded'[k] = recorded[k]
      /\ recorded'[n + 1] = snap
  BY <1>0, <1>2
<1>5. PICK pos \in [1 .. n -> 1 .. l] : LaidOut(pos)
  BY <1>0 DEF FileInv
<1>new. PICK new : new = [k \in 1 .. n + 1 |-> IF k <= n THEN pos[k] ELSE l + 3]
  OBVIOUS
<1>6. /\ new \in [1 .. n + 1 -> 1 .. l + 3]
      /\ \A k \in 1 .. n : new[k] = pos[k] /\ new[k] \in 1 .. l
      /\ new[n + 1] = l + 3
  <2>1. \A k \in 1 .. n : pos[k] \in 1 .. l
    BY <1>5
  <2>2. n + 1 \in 1 .. n + 1 /\ l + 3 \in 1 .. l + 3 /\ ~(n + 1 <= n)
    BY <1>2
  <2>3. \A k \in 1 .. n + 1 : k <= n => k \in 1 .. n
    BY <1>2
  <2>4. 1 .. l \subseteq 1 .. l + 3 /\ 1 .. n \subseteq 1 .. n + 1
    BY <1>2
  <2>5. \A k \in 1 .. n : k <= n
    BY <1>2
  <2> QED
    BY <1>new, <2>1, <2>2, <2>3, <2>4, <2>5
<1>7. ASSUME NEW k \in 1 .. n + 1
      PROVE  HoldsSnapshot(new[k], recorded[k])'
  <2>1. CASE k = n + 1
    <3>1. new[k] = l + 3 /\ recorded'[k] = snap
      BY <1>4, <1>6, <2>1
    <3>2. new[k] - 2 = l + 1 /\ new[k] - 1 = l + 2
      BY <1>2, <3>1
    <3>3. /\ file'[new[k] - 2] = t[1] /\ file'[new[k] - 1] = t[2] /\ file'[new[k]] = t[3]
      BY <1>3, <3>1, <3>2, Zenon
    <3>4. /\ new[k] - 2 \in 1 .. Len(file') /\ new[k] - 1 \in 1 .. Len(file')
          /\ new[k] \in 1 .. Len(file')
      BY <1>2, <1>3, <3>1
    <3> QED
      BY <1>1, <3>1, <3>3, <3>4 DEF HoldsSnapshot
  <2>2. CASE k \in 1 .. n
    <3>1. HoldsSnapshot(pos[k], recorded[k])
      BY <1>0, <1>5, <2>2 DEF LaidOut
    <3>2. /\ pos[k] - 2 \in 1 .. l /\ pos[k] - 1 \in 1 .. l /\ pos[k] \in 1 .. l
          /\ new[k] = pos[k] /\ recorded'[k] = recorded[k]
      BY <1>0, <1>4, <1>6, <2>2, <3>1 DEF HoldsSnapshot
    <3>3. /\ file'[pos[k] - 2] = file[pos[k] - 2]
          /\ file'[pos[k] - 1] = file[pos[k] - 1]
          /\ file'[pos[k]] = file[pos[k]]
      BY <1>3, <3>2
    <3>4. 1 .. l \subseteq 1 .. Len(file')
      BY <1>2, <1>3
    <3> QED
      BY <3>1, <3>2, <3>3, <3>4 DEF HoldsSnapshot
  <2>3. k = n + 1 \/ k \in 1 .. n
    BY <1>2
  <2> QED
    BY <2>1, <2>2, <2>3
<1>8. ASSUME NEW j \in 1 .. n + 1, NEW k \in 1 .. n + 1, j < k
      PROVE  new[j] < new[k]
  <2>1. CASE k = n + 1
    BY <1>2, <1>6, <1>8, <2>1
  <2>2. CASE k # n + 1
    <3>1. j \in 1 .. n /\ k \in 1 .. n
      BY <1>2, <1>8, <2>2
    <3> QED
      BY <1>0, <1>5, <1>6, <1>8, <3>1 DEF LaidOut
  <2> QED
    BY <2>1, <2>2
<1>9. ASSUME NEW p \in 1 .. l + 3, file'[p].topic = "/sensor/lidar"
      PROVE  \E k \in 1 .. n + 1 : new[k] = p
  <2>1. CASE p \in 1 .. l
    <3>1. PICK k \in 1 .. n : pos[k] = p
      BY <1>0, <1>3, <1>5, <1>9, <2>1 DEF LaidOut
    <3> QED
      BY <1>2, <1>6, <3>1
  <2>2. CASE p = l + 3
    BY <1>2, <1>6, <2>2
  <2>3. CASE p = l + 1 \/ p = l + 2
    <3>1. t[1].topic = "/sensor/imu" /\ t[2].topic = "/sensor/sonar"
      BY <1>1 DEF Message
    <3> QED
      BY <1>3, <1>9, <2>3, <3>1
  <2> QED
    BY <1>2, <2>1, <2>2, <2>3
<1>10. LaidOut(new)'
  BY <1>3, <1>4, <1>6, <1>7, <1>8, <1>9 DEF LaidOut
<1> QED
  BY <1>3, <1>4, <1>6, <1>10 DEF FileTyped, FileInv

LEMMA FileInit == Init => FileTyped /\ FileInv /\ Closed
<1> SUFFICES ASSUME Init PROVE FileTyped /\ FileInv /\ Closed
  OBVIOUS
<1>1. file = StaticTransforms /\ recorded = <<>>
  BY DEF Init
<1>2. Message("/tf_static", "FrameTransforms", 0, <<"base_link", "lidar">>) \in MessageSet
  <2>1. <<"base_link", "lidar">> \in Bodies
    BY DEF Bodies
  <2> QED
    BY <2>1 DEF Message, MessageSet, TelemetryTopics, Schemas
<1>3. FileTyped
  BY <1>1, <1>2 DEF FileTyped, StaticTransforms
<1>4. Len(recorded) = 0 /\ Len(file) = 1 /\ file[1].topic = "/tf_static"
  BY <1>1 DEF StaticTransforms, Message
<1> DEFINE pos == [k \in 1 .. 0 |-> 1]
<1>5. pos \in [1 .. Len(recorded) -> 1 .. Len(file)]
  BY <1>4
<1>6. LaidOut(pos)
  BY <1>4, <1>5 DEF LaidOut
<1>7. Closed
  BY DEF Init, Closed
<1> QED
  BY <1>3, <1>5, <1>6, <1>7 DEF FileInv

LEMMA FileStep ==
  ASSUME SessionTyped, FileTyped, FileInv, [Next]_vars
  PROVE  FileTyped' /\ FileInv'
<1>1. CASE Record
  <2> DEFINE e == Head(bus)
  <2>1. e \in EventSet /\ e.snap \in Snapshots
    <3>1. bus \in Seq(EventSet) /\ bus # <<>>
      BY <1>1 DEF Record, SessionTyped
    <3>2. e \in EventSet
      BY <3>1
    <3> QED
      BY <3>2 DEF EventSet
  <2>2. /\ file' = file \o Kept(e)
        /\ recorded' = recorded \o When(e.kind = "Sensor", << WithoutFlags(e.snap) >>)
    BY <1>1 DEF Record
  <2> HIDE DEF e
  <2>3. CASE e.kind = "Sensor"
    <3>1. PICK snap : snap = WithoutFlags(e.snap)
      OBVIOUS
    <3>2. snap \in Unflagged /\ SensorMessages(snap) = SensorMessages(e.snap)
      BY <2>1, <3>1, FlagsAreNotWritten
    <3>3. file' = file \o SensorMessages(snap)
      BY <2>1, <2>2, <2>3, <3>2, KeptMessages
    <3>4. recorded' = Append(recorded, snap)
      BY <2>2, <2>3, <3>1, <3>2 DEF When, FileTyped
    <3> QED
      BY <3>2, <3>3, <3>4, WritesSnapshot
  <2>4. CASE e.kind # "Sensor"
    <3>1. \A i \in 1 .. Len(Kept(e)) : Kept(e)[i].topic # "/sensor/lidar"
      BY <2>1, <2>4, KeptMessages DEF Json, Message
    <3>2. recorded' = recorded
      BY <2>2, <2>4 DEF When, FileTyped
    <3> QED
      BY <2>1, <2>2, <2>4, <3>1, <3>2, KeptTyped, WritesNoCloud
  <2> QED
    BY <2>3, <2>4
<1>2. CASE RecordFails
  <2> DEFINE e == Head(bus)
  <2>1. e \in EventSet /\ e.snap \in Snapshots
    <3>1. bus \in Seq(EventSet) /\ bus # <<>>
      BY <1>2 DEF RecordFails, SessionTyped
    <3>2. e \in EventSet
      BY <3>1
    <3> QED
      BY <3>2 DEF EventSet
  <2>2. /\ recorded' = recorded
        /\ file' \in {file} \cup {file \o SubSeq(Kept(e), 1, n) : n \in 1 .. Len(Kept(e)) - 1}
    BY <1>2 DEF RecordFails
  <2> HIDE DEF e
  <2>3. Kept(e) \in Seq(MessageSet)
    BY <2>1, KeptTyped
  <2>4. CASE file' = file
    <3>1. PICK t : t = <<>>
      OBVIOUS
    <3>2. t \in Seq(MessageSet) /\ Len(t) = 0 /\ file' = file \o t
      BY <2>4, <3>1 DEF FileTyped
    <3>3. \A i \in 1 .. Len(t) : t[i].topic # "/sensor/lidar"
      BY <3>2
    <3> QED
      BY <2>2, <3>2, <3>3, WritesNoCloud
  <2>5. ASSUME NEW n \in 1 .. Len(Kept(e)) - 1, file' = file \o SubSeq(Kept(e), 1, n)
        PROVE  FileTyped' /\ FileInv'
    <3> DEFINE t == SubSeq(Kept(e), 1, n)
    <3>1. /\ t \in Seq(MessageSet) /\ Len(t) = n
          /\ \A i \in 1 .. n : t[i] = Kept(e)[i]
      BY <2>3, SubSeqProperties
    <3>2. e.kind = "Sensor"
      BY <2>1, KeptMessages
    <3>3. Kept(e) = SensorMessages(e.snap) /\ Len(Kept(e)) = 3
      BY <2>1, <3>2, KeptMessages, SensorMessagesTyped
    <3>4. \A i \in 1 .. 2 : Kept(e)[i].topic # "/sensor/lidar"
      BY <3>3 DEF SensorMessages, Message
    <3>5. \A i \in 1 .. Len(t) : t[i].topic # "/sensor/lidar"
      BY <3>1, <3>3, <3>4
    <3> HIDE DEF t
    <3>6. file' = file \o t
      BY <2>5 DEF t
    <3> QED
      BY <2>2, <3>1, <3>5, <3>6, WritesNoCloud
  <2> QED
    BY <2>2, <2>4, <2>5
<1>3. CASE UNCHANGED <<file, recorded>>
  BY <1>3 DEF FileTyped, FileInv, LaidOut, HoldsSnapshot
<1> QED
  BY <1>1, <1>2, <1>3 DEF Next, MainThread, Recorder, Replay, Tick, Publish, LoopReturns,
     DropBus, Finish, Kill, CloseFile, OpenReplay, Decode, TakeFrame, SourceEnds, ReplayTick,
     StopReplay, vars, fileVars

LEMMA ClosedStep ==
  ASSUME Closed, [Next]_vars
  PROVE  Closed'
<1>1. CASE UNCHANGED <<phase, recorder, footer>>
  BY <1>1 DEF Closed
<1>2. CASE Finish \/ Kill \/ LoopReturns \/ DropBus \/ CloseFile
  BY <1>2 DEF Closed, Finish, Kill, LoopReturns, DropBus, CloseFile, fileVars
<1>3. CASE OpenReplay \/ TakeFrame \/ SourceEnds \/ StopReplay
  BY <1>3 DEF Closed, OpenReplay, TakeFrame, SourceEnds, StopReplay, Prefetching, Prefetched,
              fileVars
<1> QED
  BY <1>1, <1>2, <1>3 DEF Next, MainThread, Recorder, Replay, Tick, Publish, Record,
     RecordFails, Decode, ReplayTick, vars, fileVars

-----------------------------------------------------------------------------
(* The replay                                                               *)
(* decode_worker makes one frame of a sensor message, none of any other.    *)
LEMMA FramesOf ==
  ASSUME NEW m \in MessageSet
  PROVE  /\ m.topic \notin SensorTopics => Frames(m) = <<>>
         /\ m.topic \in SensorTopics =>
              /\ Frames(m) = << FrameOf(m) >>
              /\ FrameOf(m) \in FrameSet
              /\ FrameOf(m).at = m.at /\ FrameOf(m).value = m.body
              /\ FrameOf(m).sensor = "imu" <=> m.topic = "/sensor/imu"
              /\ FrameOf(m).sensor = "sonar" <=> m.topic = "/sensor/sonar"
              /\ FrameOf(m).sensor = "lidar" <=> m.topic = "/sensor/lidar"
<1>1. CASE m.topic = "/sensor/imu"
  BY <1>1 DEF Frames, FrameOf, SensorTopics, FrameSet, MessageSet
<1>2. CASE m.topic = "/sensor/sonar"
  BY <1>2 DEF Frames, FrameOf, SensorTopics, FrameSet, MessageSet
<1>3. CASE m.topic = "/sensor/lidar"
  BY <1>3 DEF Frames, FrameOf, SensorTopics, FrameSet, MessageSet
<1>4. CASE m.topic \notin SensorTopics
  BY <1>4 DEF Frames, SensorTopics
<1> QED
  BY <1>1, <1>2, <1>3, <1>4 DEF SensorTopics

(* apply changes the one reading that the frame is of.                      *)
LEMMA ApplyTyped ==
  ASSUME ReplayTyped, chan # <<>>
  PROVE  LET f == Head(chan)  s == ApplyFrame(source, f) IN
         /\ f = chan[1] /\ f \in FrameSet
         /\ s \in SourceSet
         /\ s.lastReturned = source.lastReturned /\ s.exhausted = source.exhausted
         /\ s.lidar = IF f.sensor = "lidar" THEN [at |-> f.at, value |-> f.value] ELSE source.lidar
         /\ s.imu = IF f.sensor = "imu" THEN [at |-> f.at, value |-> f.value] ELSE source.imu
         /\ s.sonar = IF f.sensor = "sonar" THEN f.value ELSE source.sonar
<1> DEFINE f == Head(chan)
<1>1. f = chan[1] /\ f \in FrameSet
  BY DEF ReplayTyped
<1>2. source \in SourceSet
  BY DEF ReplayTyped
<1> HIDE DEF f
<1>3. [at |-> f.at, value |-> f.value] \in Readings /\ f.value \in Bodies
      /\ f.sensor \in {"imu", "sonar", "lidar"}
  BY <1>1 DEF FrameSet, Readings
<1>4. CASE f.sensor = "lidar"
  BY <1>1, <1>2, <1>3, <1>4 DEF ApplyFrame, SourceSet, f
<1>5. CASE f.sensor = "imu"
  BY <1>1, <1>2, <1>3, <1>5 DEF ApplyFrame, SourceSet, f
<1>6. CASE f.sensor = "sonar"
  BY <1>1, <1>2, <1>3, <1>6 DEF ApplyFrame, SourceSet, f
<1> QED
  BY <1>3, <1>4, <1>5, <1>6 DEF f

LEMMA ReplayTypedInit == Init => ReplayTyped
<1>1. FreshSource \in SourceSet
  BY BodiesTyped DEF SourceSet, FreshSource, NoReading, Reading, Readings, None
<1> QED
  BY <1>1 DEF Init, ReplayTyped

LEMMA SnapshotOfTyped ==
  ASSUME NEW s \in SourceSet
  PROVE  SnapshotOf(s) \in Snapshots
BY DEF SourceSet, SnapshotOf, Snapshots

(* What one step of the decoder does.                                       *)
LEMMA Decodes ==
  ASSUME FileTyped, ReplayTyped, Decode
  PROVE  /\ UNCHANGED <<phase, file, recorded, footer, source, adapter, returned>>
         /\ decoder # Ended /\ decoder \in Nat \ {0} /\ phase \in {"open", "replay", "stopped"}
         /\ \/ /\ decoder > Len(file) /\ decoder' = Ended /\ chan' = chan
            \/ /\ decoder \in 1 .. Len(file) /\ ~Sensed(decoder)
               /\ decoder' = decoder + 1 /\ chan' = chan
            \/ /\ phase = "stopped" /\ decoder' = Ended /\ chan' = chan
            \/ /\ phase # "stopped" /\ decoder \in 1 .. Len(file) /\ Sensed(decoder)
               /\ decoder' = decoder + 1 /\ chan' = Append(chan, FrameOf(file[decoder]))
               /\ FrameOf(file[decoder]) \in FrameSet
<1>1. /\ UNCHANGED <<phase, file, recorded, footer, source, adapter, returned>>
      /\ decoder # Ended /\ phase \in {"open", "replay", "stopped"}
  BY DEF Decode, fileVars
<1>2. decoder \in Nat \ {0} /\ Len(file) \in Nat
  BY <1>1 DEF FileTyped, ReplayTyped
<1>3. CASE decoder > Len(file)
  BY <1>1, <1>2, <1>3 DEF Decode
<1>4. CASE decoder <= Len(file)
  <2>1. decoder \in 1 .. Len(file) /\ file[decoder] \in MessageSet
    BY <1>2, <1>4 DEF FileTyped
  <2>2. CASE ~Sensed(decoder)
    <3>1. Frames(file[decoder]) = <<>>
      BY <2>1, <2>2, FramesOf DEF Sensed
    <3> QED
      BY <1>1, <1>2, <1>4, <2>1, <2>2, <3>1 DEF Decode
  <2>3. CASE Sensed(decoder)
    <3>1. /\ Frames(file[decoder]) = << FrameOf(file[decoder]) >>
          /\ FrameOf(file[decoder]) \in FrameSet
      BY <2>1, <2>3, FramesOf DEF Sensed
    <3>2. Frames(file[decoder]) # <<>>
      BY <3>1
    <3>3. CASE phase = "stopped"
      BY <1>1, <1>2, <1>4, <3>2, <3>3 DEF Decode
    <3>4. CASE phase # "stopped"
      <4>1. chan' = chan \o Frames(file[decoder]) /\ decoder' = decoder + 1
        BY <1>2, <1>4, <3>2, <3>4 DEF Decode
      <4>2. chan' = Append(chan, FrameOf(file[decoder]))
        BY <3>1, <4>1 DEF ReplayTyped
      <4> QED
        BY <1>1, <1>2, <2>1, <2>3, <3>1, <3>4, <4>1, <4>2
    <3> QED
      BY <3>3, <3>4
  <2> QED
    BY <2>2, <2>3
<1> QED
  BY <1>2, <1>3, <1>4

LEMMA ReplayTypedStep ==
  ASSUME FileTyped, ReplayTyped, [Next]_vars
  PROVE  ReplayTyped'
<1>1. CASE Decode
  <2>1. chan \in Seq(FrameSet) /\ source \in SourceSet
        /\ adapter \in [next : Seq(Snapshots), exhausted : BOOLEAN, asking : BOOLEAN]
        /\ returned \in Seq(Snapshots)
    BY DEF ReplayTyped
  <2>2. /\ chan' \in Seq(FrameSet) /\ decoder' \in {Ended} \cup (Nat \ {0})
        /\ UNCHANGED <<source, adapter, returned>>
    <3>1. UNCHANGED <<source, adapter, returned>> /\ decoder \in Nat \ {0}
      BY <1>1, Decodes
    <3>2. decoder' = Ended \/ decoder' = decoder + 1
      BY <1>1, Decodes
    <3>3. chan' = chan \/ \E f \in FrameSet : chan' = Append(chan, f)
      BY <1>1, Decodes
    <3>4. chan' \in Seq(FrameSet)
      <4>1. CASE chan' = chan
        BY <2>1, <4>1
      <4>2. ASSUME NEW f \in FrameSet, chan' = Append(chan, f)
            PROVE  chan' \in Seq(FrameSet)
        BY <2>1, <4>2, AppendProperties
      <4> QED
        BY <3>3, <4>1, <4>2
    <3>5. decoder' \in {Ended} \cup (Nat \ {0})
      BY <3>1, <3>2
    <3> QED
      BY <3>1, <3>4, <3>5
  <2> QED
    BY <2>1, <2>2 DEF ReplayTyped
<1>2. CASE TakeFrame
  <2> DEFINE s == ApplyFrame(source, Head(chan))
  <2>1. /\ chan # <<>> /\ chan' = Tail(chan) /\ returned' = returned /\ decoder' = decoder
    BY <1>2 DEF TakeFrame
  <2>2. s \in SourceSet
    BY <2>1, ApplyTyped
  <2>3. \/ source' = s /\ adapter' = adapter
        \/ /\ source' = [s EXCEPT !.lastReturned = s.lidar.at]
           /\ adapter' = [adapter EXCEPT !.next = << SnapshotOf(s) >>, !.asking = FALSE,
                                         !.exhausted = (<< SnapshotOf(s) >> = <<>>)]
    BY <1>2 DEF TakeFrame, Prefetched
  <2> HIDE DEF s
  <2>4. source' \in SourceSet
    BY <2>2, <2>3 DEF SourceSet, Readings
  <2>5. << SnapshotOf(s) >> \in Seq(Snapshots)
    BY <2>2, SnapshotOfTyped
  <2>6. adapter' \in [next : Seq(Snapshots), exhausted : BOOLEAN, asking : BOOLEAN]
    BY <2>3, <2>5 DEF ReplayTyped
  <2> QED
    BY <2>1, <2>4, <2>6 DEF ReplayTyped
<1>3. CASE SourceEnds
  <2> DEFINE next == IF source.exhausted \/ source.lidar = NoReading
                         \/ source.lastReturned = source.lidar.at
                      THEN <<>> ELSE << SnapshotOf(source) >>
  <2>1. /\ source' = [source EXCEPT !.exhausted = TRUE]
        /\ adapter' = [adapter EXCEPT !.next = next, !.asking = FALSE, !.exhausted = (next = <<>>)]
        /\ chan' = chan /\ returned' = returned /\ decoder' = decoder
    BY <1>3 DEF SourceEnds, Prefetched
  <2>2. << SnapshotOf(source) >> \in Seq(Snapshots)
    BY SnapshotOfTyped DEF ReplayTyped
  <2>3. next \in Seq(Snapshots)
    BY <2>2
  <2> HIDE DEF next
  <2>4. adapter' \in [next : Seq(Snapshots), exhausted : BOOLEAN, asking : BOOLEAN]
    BY <2>1, <2>3 DEF ReplayTyped
  <2>5. source' \in SourceSet
    BY <2>1 DEF ReplayTyped, SourceSet
  <2> QED
    BY <2>1, <2>4, <2>5 DEF ReplayTyped
<1>4. CASE ReplayTick
  <2>1. /\ returned' = returned \o adapter.next
        /\ adapter' = [adapter EXCEPT !.next = <<>>, !.asking = TRUE]
        /\ UNCHANGED <<decoder, chan, source>>
    BY <1>4 DEF ReplayTick
  <2>2. returned' \in Seq(Snapshots)
    BY <2>1 DEF ReplayTyped
  <2>3. <<>> \in Seq(Snapshots)
    OBVIOUS
  <2>4. adapter' \in [next : Seq(Snapshots), exhausted : BOOLEAN, asking : BOOLEAN]
    BY <2>1, <2>3 DEF ReplayTyped
  <2> QED
    BY <2>1, <2>2, <2>4 DEF ReplayTyped
<1>5. CASE StopReplay
  <2>1. chan' = <<>> /\ UNCHANGED <<decoder, source, adapter, returned>>
    BY <1>5 DEF StopReplay
  <2> QED
    BY <2>1 DEF ReplayTyped
<1>6. CASE OpenReplay
  <2>1. /\ decoder' \in {1, Ended}
        /\ UNCHANGED <<chan, source, adapter, returned>>
    BY <1>6 DEF OpenReplay
  <2> QED
    BY <2>1 DEF ReplayTyped
<1>7. CASE UNCHANGED replayVars
  BY <1>7 DEF ReplayTyped, replayVars
<1> QED
  BY <1>1, <1>2, <1>3, <1>4, <1>5, <1>6, <1>7 DEF Next, MainThread, Recorder, Replay, Tick,
     Publish, LoopReturns, DropBus, Finish, Kill, Record, RecordFails, CloseFile, vars

-----------------------------------------------------------------------------
LEMMA ReplayInit == Init => ReplayInv
<1> SUFFICES ASSUME Init PROVE ReplayInv
  OBVIOUS
<1>1. /\ phase = "run" /\ footer = FALSE /\ chan = <<>> /\ decoder = Ended
      /\ returned = <<>> /\ recorded = <<>> /\ source = FreshSource
      /\ adapter = [next |-> <<>>, exhausted |-> FALSE, asking |-> TRUE]
  BY DEF Init
<1>2. Produced = 0 /\ Len(recorded) = 0 /\ Len(returned) = 0
  BY <1>1 DEF Produced
<1>3. Given
  BY <1>1, <1>2 DEF Given
<1>4. Handed
  BY <1>1 DEF Handed, FreshSource
<1> QED
  BY <1>1, <1>3, <1>4 DEF ReplayInv, NotYet, NoFooter, BeingRead, Idle, InReplay

(* Before the replay, nothing has been read.                                *)
LEMMA BeforeReplay ==
  ASSUME IInv, FileTyped', UNCHANGED replayVars, ~InReplay, ~InReplay'
  PROVE  ReplayInv'
<1>1. /\ chan' = <<>> /\ decoder' = Ended /\ returned' = <<>> /\ source' = FreshSource
      /\ adapter' = [next |-> <<>>, exhausted |-> FALSE, asking |-> TRUE]
  BY DEF IInv, ReplayInv, NotYet, Idle, replayVars
<1>2. Produced' = 0 /\ Len(returned') = 0 /\ Len(recorded') \in Nat
  BY <1>1 DEF Produced, FileTyped
<1>3. Given'
  BY <1>1, <1>2 DEF Given
<1>4. Handed'
  BY <1>1 DEF Handed, FreshSource
<1> QED
  BY <1>1, <1>3, <1>4 DEF ReplayInv, NotYet, NoFooter, BeingRead, Idle, InReplay

(* A replay that opens has seen nothing of the file.                        *)
LEMMA OpenReplayStep ==
  ASSUME IInv, OpenReplay
  PROVE  ReplayInv'
<1>1. /\ phase = "ended" /\ phase' = "open"
      /\ decoder' = IF footer THEN 1 ELSE Ended
      /\ UNCHANGED <<file, recorded, footer, chan, source, adapter, returned>>
  BY DEF OpenReplay, fileVars
<1>2. /\ Idle /\ source = FreshSource
      /\ adapter = [next |-> <<>>, exhausted |-> FALSE, asking |-> TRUE]
  BY <1>1 DEF IInv, ReplayInv, NotYet, InReplay
<1>3. Given' /\ Handed'
  BY <1>1 DEF IInv, ReplayInv, Given, Handed, Produced
<1>4. NotYet' /\ NoFooter'
  BY <1>1, <1>2 DEF NotYet, NoFooter, Idle, InReplay
<1>5. ASSUME footer PROVE Reads'
  <2>1. PICK pos \in [1 .. Len(recorded) -> 1 .. Len(file)] : LaidOut(pos)
    BY DEF IInv, FileInv
  <2>2. PICK w : w = [i \in 1 .. 0 |-> 0]
    OBVIOUS
  <2>3. Len(chan) = 0 /\ chan' = chan /\ decoder' = 1 /\ Len(file) \in Nat /\ Len(recorded) \in Nat
    BY <1>1, <1>2, <1>5 DEF Idle, IInv, FileTyped
  <2>4. LaidOut(pos)'
    BY <1>1, <2>1 DEF LaidOut, HoldsSnapshot
  <2>5. Horizon' = 1 /\ Produced' = 0
    BY <1>1, <1>2, <2>3 DEF Horizon, Produced, Idle, Ended
  <2>6. w \in [1 .. Len(chan) -> 0 + 1 .. Len(file)]
    BY <2>2, <2>3
  <2>7. Piped(w, 0)'
    BY <1>1, <2>2, <2>3, <2>5 DEF Piped
  <2>8. Assembles(pos, 0)'
    <3>1. \A k \in 1 .. Len(recorded) : pos[k] \in 1 .. Len(file) /\ pos[k] - 2 \in 1 .. Len(file)
      BY <2>1 DEF LaidOut, HoldsSnapshot
    <3>2. \A k \in 1 .. Len(recorded) : /\ ~(k <= 0) /\ ~(pos[k] <= 0)
                                        /\ ~(pos[k] - 2 <= 0) /\ ~(pos[k] - 1 <= 0)
      BY <2>3, <3>1
    <3> QED
      BY <1>1, <2>5, <3>2 DEF Assembles
  <2>9. 0 \in 0 .. Len(file)
    BY <2>3
  <2> QED
    BY <1>1, <2>1, <2>4, <2>6, <2>7, <2>8, <2>9 DEF Reads
<1> QED
  BY <1>1, <1>3, <1>4, <1>5 DEF ReplayInv, BeingRead

(* The decoder moves on by one position, whose frame, if it has one, is the *)
(* last of the channel.                                                     *)
LEMMA DecodeStep ==
  ASSUME IInv, Decode
  PROVE  ReplayInv'
<1>1. /\ UNCHANGED <<phase, file, recorded, footer, source, adapter, returned>>
      /\ decoder # Ended /\ decoder \in Nat \ {0} /\ phase \in {"open", "replay", "stopped"}
  BY Decodes DEF IInv
<1>2. footer
  BY <1>1 DEF IInv, ReplayInv, NoFooter, Idle
<1>3. Given' /\ Handed' /\ NotYet' /\ NoFooter'
  BY <1>1, <1>2 DEF IInv, ReplayInv, Given, Handed, Produced, NotYet, NoFooter, InReplay
<1>4. ASSUME phase \in {"open", "replay"} PROVE Reads'
  <2>1. Reads
    BY <1>2, <1>4 DEF IInv, ReplayInv, BeingRead
  <2>2. PICK pos \in [1 .. Len(recorded) -> 1 .. Len(file)], c \in 0 .. Len(file) :
          \E w \in [1 .. Len(chan) -> c + 1 .. Len(file)] :
            LaidOut(pos) /\ Piped(w, c) /\ Assembles(pos, c)
    BY <2>1 DEF Reads
  <2>3. PICK w \in [1 .. Len(chan) -> c + 1 .. Len(file)] :
          LaidOut(pos) /\ Piped(w, c) /\ Assembles(pos, c)
    BY <2>2
  <2>4. LaidOut(pos)' /\ Assembles(pos, c)'
    BY <1>1, <2>3 DEF LaidOut, HoldsSnapshot, Assembles, Produced
  <2>5. PICK l \in Nat, d \in Nat \ {0}, n \in Nat : l = Len(file) /\ d = decoder /\ n = Len(chan)
    <3>1. Len(file) \in Nat /\ Len(chan) \in Nat
      BY DEF IInv, FileTyped, ReplayTyped
    <3> QED
      BY <1>1, <3>1
  <2>6. /\ d \in 1 .. l + 1 /\ Horizon = d /\ c \in 0 .. d - 1
        /\ w \in [1 .. n -> c + 1 .. d - 1]
        /\ \A i, j \in 1 .. n : i < j => w[i] < w[j]
        /\ \A i \in 1 .. n : Sensed(w[i]) /\ chan[i] = FrameOf(file[w[i]])
        /\ \A p \in c + 1 .. d - 1 : Sensed(p) => \E i \in 1 .. n : w[i] = p
    <3>1. Horizon = d
      BY <1>1, <2>5 DEF Horizon
    <3> QED
      BY <1>1, <2>3, <2>5, <3>1 DEF Piped
  <2>7. \A p : Sensed(p)' <=> Sensed(p)
    BY <1>1 DEF Sensed
  <2>8. CASE d > l /\ decoder' = Ended /\ chan' = chan
    <3>1. Horizon' = d
      BY <1>1, <2>5, <2>6, <2>8 DEF Horizon
    <3>2. Piped(w, c)'
      BY <1>1, <2>5, <2>6, <2>7, <2>8, <3>1 DEF Piped
    <3> QED
      BY <1>1, <2>3, <2>4, <2>8, <3>2 DEF Reads
  <2>9. CASE d \in 1 .. l /\ ~Sensed(d) /\ decoder' = d + 1 /\ chan' = chan
    <3>1. Horizon' = d + 1 /\ decoder' \in 1 .. l + 1
      BY <1>1, <2>5, <2>6, <2>9 DEF Horizon, Ended
    <3>2. w \in [1 .. n -> c + 1 .. d] /\ c \in 0 .. d
      BY <2>5, <2>6
    <3>3. \A p \in c + 1 .. d : Sensed(p) => p \in c + 1 .. d - 1
      BY <2>5, <2>6, <2>9
    <3>4. (d + 1) - 1 = d
      BY <2>5
    <3>5. Piped(w, c)'
      BY <1>1, <2>5, <2>6, <2>7, <2>9, <3>1, <3>2, <3>3, <3>4 DEF Piped
    <3> QED
      BY <1>1, <2>3, <2>4, <2>9, <3>5 DEF Reads
  <2>10. CASE /\ d \in 1 .. l /\ Sensed(d) /\ decoder' = d + 1
              /\ chan' = Append(chan, FrameOf(file[d])) /\ FrameOf(file[d]) \in FrameSet
    <3>1. Horizon' = d + 1 /\ decoder' \in 1 .. l + 1
      BY <1>1, <2>5, <2>6, <2>10 DEF Horizon, Ended
    <3>2. /\ Len(chan') = n + 1 /\ \A i \in 1 .. n : chan'[i] = chan[i]
          /\ chan'[n + 1] = FrameOf(file[d])
      <4>1. chan \in Seq(FrameSet)
        BY DEF IInv, ReplayTyped
      <4> QED
        BY <2>5, <2>10, <4>1, AppendProperties
    <3>3. PICK v : v = [i \in 1 .. n + 1 |-> IF i <= n THEN w[i] ELSE d]
      OBVIOUS
    <3>4. /\ \A i \in 1 .. n : v[i] = w[i] /\ v[i] \in c + 1 .. d - 1 /\ i \in 1 .. n + 1
          /\ v[n + 1] = d
          /\ \A i \in 1 .. n + 1 : i \in 1 .. n \/ i = n + 1
      <4>1. /\ \A i \in 1 .. n : i \in 1 .. n + 1 /\ i <= n
            /\ n + 1 \in 1 .. n + 1 /\ ~(n + 1 <= n)
            /\ \A i \in 1 .. n + 1 : i \in 1 .. n \/ i = n + 1
        BY <2>5
      <4>2. \A i \in 1 .. n : w[i] \in c + 1 .. d - 1
        BY <2>6
      <4>3. \A i \in 1 .. n : v[i] = w[i]
        BY <3>3, <4>1
      <4>4. v[n + 1] = d
        BY <3>3, <4>1
      <4> QED
        BY <4>1, <4>2, <4>3, <4>4
    <3>5. v \in [1 .. n + 1 -> c + 1 .. d]
      <4>1. \A i \in 1 .. n + 1 : v[i] \in c + 1 .. d
        BY <2>5, <2>6, <3>4
      <4> QED
        BY <3>3, <4>1
    <3>6. ASSUME NEW i \in 1 .. n + 1, NEW j \in 1 .. n + 1, i < j
          PROVE  v[i] < v[j]
      <4>1. i \in 1 .. n
        BY <2>5, <3>6
      <4>2. v[i] = w[i] /\ v[i] \in c + 1 .. d - 1
        BY <3>4, <4>1
      <4>3. CASE j = n + 1
        BY <2>5, <2>6, <3>4, <4>2, <4>3
      <4>4. CASE j \in 1 .. n
        BY <2>6, <3>4, <3>6, <4>1, <4>2, <4>4
      <4> QED
        BY <3>4, <4>3, <4>4
    <3>7. \A i \in 1 .. n + 1 : Sensed(v[i]) /\ chan'[i] = FrameOf(file[v[i]])
      BY <2>6, <2>10, <3>2, <3>4
    <3>8. ASSUME NEW p \in c + 1 .. d, Sensed(p)
          PROVE  \E i \in 1 .. n + 1 : v[i] = p
      <4>1. CASE p = d
        BY <2>5, <3>4, <4>1
      <4>2. CASE p # d
        <5>1. p \in c + 1 .. d - 1
          BY <2>5, <2>6, <4>2
        <5>2. PICK i \in 1 .. n : w[i] = p
          BY <2>6, <3>8, <5>1
        <5> QED
          BY <3>4, <5>2
      <4> QED
        BY <4>1, <4>2
    <3>9. c \in 0 .. d /\ (d + 1) - 1 = d
      BY <2>5, <2>6
    <3>10. Piped(v, c)'
      BY <1>1, <2>5, <2>7, <3>1, <3>2, <3>5, <3>6, <3>7, <3>8, <3>9 DEF Piped
    <3>11. v \in [1 .. Len(chan') -> c + 1 .. Len(file')]
      <4>1. c + 1 .. d \subseteq c + 1 .. l
        BY <2>5, <2>6, <2>10
      <4> QED
        BY <1>1, <2>5, <3>2, <3>5, <4>1
    <3> QED
      BY <1>1, <2>3, <2>4, <3>10, <3>11 DEF Reads
  <2> QED
    BY <1>4, <2>5, <2>6, <2>8, <2>9, <2>10, Decodes DEF IInv
<1> QED
  BY <1>1, <1>3, <1>4 DEF ReplayInv, BeingRead

(* A frame taken is the next sensor message of the file: a reading of the   *)
(* next snapshot, or its cloud, which completes it.                         *)
LEMMA TakeFrameStep ==
  ASSUME IInv, TakeFrame
  PROVE  ReplayInv'
<1> DEFINE s == ApplyFrame(source, Head(chan))
<1>1. /\ phase \in {"open", "replay"} /\ adapter.asking /\ chan # <<>> /\ chan' = Tail(chan)
      /\ UNCHANGED <<file, recorded, footer, decoder, returned>>
      /\ IF Head(chan).sensor = "lidar"
         THEN /\ source' = [s EXCEPT !.lastReturned = s.lidar.at]
              /\ Prefetched(<< SnapshotOf(s) >>)
         ELSE source' = s /\ UNCHANGED <<phase, adapter>>
  BY DEF TakeFrame, Prefetching, fileVars
<1>2. footer
  BY <1>1 DEF IInv, ReplayInv, NoFooter, Idle
<1>3. /\ chan \in Seq(FrameSet) /\ source \in SourceSet /\ file \in Seq(MessageSet)
      /\ recorded \in Seq(Unflagged) /\ returned \in Seq(Snapshots)
      /\ adapter \in [next : Seq(Snapshots), exhausted : BOOLEAN, asking : BOOLEAN]
  BY DEF IInv, ReplayTyped, FileTyped
<1>4. adapter.next = <<>> /\ Handed /\ Given
  BY <1>1 DEF IInv, ReplayInv, Given
<1>5. PICK pos \in [1 .. Len(recorded) -> 1 .. Len(file)], c \in 0 .. Len(file) :
        \E w \in [1 .. Len(chan) -> c + 1 .. Len(file)] :
          LaidOut(pos) /\ Piped(w, c) /\ Assembles(pos, c)
  BY <1>1, <1>2 DEF IInv, ReplayInv, BeingRead, Reads
<1>6. PICK w \in [1 .. Len(chan) -> c + 1 .. Len(file)] :
        LaidOut(pos) /\ Piped(w, c) /\ Assembles(pos, c)
  BY <1>5
<1>7. PICK n, h, l, r : /\ n = Len(chan) /\ h = Horizon - 1 /\ l = Len(file) /\ r = Len(returned)
  OBVIOUS
<1>8. n \in Nat \ {0} /\ l \in Nat /\ r \in Nat /\ h \in 0 .. l /\ Produced = r
  <2>1. Produced = r
    BY <1>3, <1>4, <1>7 DEF Produced
  <2>2. n \in Nat \ {0} /\ l \in Nat /\ r \in Nat
    BY <1>1, <1>3, <1>7
  <2>3. h \in 0 .. l
    BY <1>6, <1>7, <2>2 DEF Piped, Horizon
  <2> QED
    BY <2>1, <2>2, <2>3
<1>9. /\ c \in 0 .. h /\ w \in [1 .. n -> c + 1 .. h]
      /\ \A i, j \in 1 .. n : i < j => w[i] < w[j]
      /\ \A i \in 1 .. n : Sensed(w[i]) /\ chan[i] = FrameOf(file[w[i]])
      /\ \A p \in c + 1 .. h : Sensed(p) => \E i \in 1 .. n : w[i] = p
  BY <1>6, <1>7 DEF Piped
<1>10. PICK p : p = w[1]
  OBVIOUS
<1>11. /\ p \in c + 1 .. h /\ p \in 1 .. l /\ Sensed(p)
       /\ file[p] \in MessageSet /\ chan[1] = FrameOf(file[p])
  <2>1. 1 \in 1 .. n
    BY <1>8
  <2>2. p \in c + 1 .. h /\ Sensed(p) /\ chan[1] = FrameOf(file[p])
    BY <1>9, <1>10, <2>1
  <2>3. p \in 1 .. l
    BY <1>8, <1>9, <2>2
  <2> QED
    BY <1>3, <1>7, <2>2, <2>3
<1>0. c \in Nat /\ p \in Nat /\ h \in Nat /\ c < p /\ p <= h /\ h <= l
  BY <1>8, <1>9, <1>11
(* Between what the source has seen and the frame nothing is sensed.        *)
<1>12. \A q \in 1 .. l : q < p /\ Sensed(q) => q <= c
  <2> SUFFICES ASSUME NEW q \in 1 .. l, q < p, Sensed(q), ~(q <= c)
               PROVE  FALSE
    OBVIOUS
  <2>1. q \in c + 1 .. h
    BY <1>8, <1>9, <1>11
  <2>2. PICK i \in 1 .. n : w[i] = q
    BY <1>9, <2>1
  <2>3. i = 1 \/ 1 < i
    BY <1>8
  <2>4. w[1] <= w[i]
    BY <1>8, <1>9, <1>10, <1>11, <2>2, <2>3
  <2> QED
    BY <1>10, <1>11, <2>2, <2>4
<1>13. PICK v : v = [i \in 1 .. n - 1 |-> w[i + 1]]
  OBVIOUS
<1>14. /\ Len(chan') = n - 1 /\ \A i \in 1 .. n - 1 : chan'[i] = chan[i + 1]
  BY <1>1, <1>3, <1>7
<1>15. Piped(v, p)' /\ v \in [1 .. Len(chan') -> p + 1 .. Len(file')]
  <2>1. \A i \in 1 .. n - 1 : i + 1 \in 1 .. n /\ 1 < i + 1 /\ v[i] = w[i + 1]
    BY <1>8, <1>13
  <2>2. ASSUME NEW i \in 1 .. n - 1
        PROVE  v[i] \in p + 1 .. h
    <3>1. i + 1 \in 1 .. n /\ 1 \in 1 .. n /\ 1 < i + 1 /\ v[i] = w[i + 1]
      BY <1>8, <2>1
    <3>2. w[i + 1] \in c + 1 .. h /\ w[1] < w[i + 1]
      BY <1>9, <3>1
    <3> QED
      BY <1>0, <1>10, <3>1, <3>2
  <2>3. v \in [1 .. n - 1 -> p + 1 .. h]
    BY <1>8, <1>9, <1>11, <1>13, <2>2
  <2>4. ASSUME NEW i \in 1 .. n - 1, NEW j \in 1 .. n - 1, i < j
        PROVE  v[i] < v[j]
    <3>1. i + 1 < j + 1
      BY <2>4
    <3> QED
      BY <1>9, <2>1, <3>1
  <2>5. \A i \in 1 .. n - 1 : Sensed(v[i]) /\ chan'[i] = FrameOf(file[v[i]])
    BY <1>9, <1>14, <2>1
  <2>6. ASSUME NEW q \in p + 1 .. h, Sensed(q)
        PROVE  \E i \in 1 .. n - 1 : v[i] = q
    <3>1. q \in c + 1 .. h /\ q # p
      BY <1>0
    <3>j. PICK j \in 1 .. n : w[j] = q
      BY <1>9, <2>6, <3>1
    <3>2. j # 1
      BY <1>10, <3>1, <3>j
    <3>3. j - 1 \in 1 .. n - 1 /\ (j - 1) + 1 = j
      BY <1>8, <3>2
    <3> QED
      BY <2>1, <3>j, <3>3
  <2>7. Horizon' = Horizon /\ p \in 0 .. h /\ \A q : Sensed(q)' <=> Sensed(q)
    BY <1>1, <1>8, <1>9, <1>11 DEF Horizon, Sensed
  <2>8. Piped(v, p)'
    BY <1>1, <1>6, <1>7, <1>14, <2>3, <2>4, <2>5, <2>6, <2>7 DEF Piped
  <2>9. p + 1 .. h \subseteq p + 1 .. l
    BY <1>8, <1>11
  <2> QED
    BY <1>1, <1>7, <1>14, <2>3, <2>8, <2>9
<1>16. LaidOut(pos)'
  BY <1>1, <1>6 DEF LaidOut, HoldsSnapshot
<1>17. ASSUME NEW k \in 1 .. Len(recorded)
       PROVE  /\ pos[k] \in 1 .. l /\ pos[k] - 1 \in 1 .. l /\ pos[k] - 2 \in 1 .. l
              /\ Sensed(pos[k]) /\ Sensed(pos[k] - 1) /\ Sensed(pos[k] - 2)
              /\ file[pos[k] - 2].topic = "/sensor/imu"
              /\ file[pos[k] - 2].at = recorded[k].imu.at
              /\ file[pos[k] - 2].body = recorded[k].imu.value
              /\ file[pos[k] - 1].topic = "/sensor/sonar"
              /\ file[pos[k] - 1].body = recorded[k].sonar
              /\ file[pos[k]].topic = "/sensor/lidar"
              /\ file[pos[k]].at = recorded[k].lidar.at
              /\ file[pos[k]].body = recorded[k].lidar.value
              /\ recorded[k] \in Unflagged
              /\ k <= r <=> pos[k] <= c
              /\ k > r => /\ pos[k] - 2 <= c => source.imu = recorded[k].imu
                          /\ pos[k] - 1 <= c => source.sonar = recorded[k].sonar
  <2>1. HoldsSnapshot(pos[k], recorded[k])
    BY <1>6 DEF LaidOut
  <2>2. /\ k <= r <=> pos[k] <= c
        /\ k > r => /\ pos[k] - 2 <= c => source.imu = recorded[k].imu
                    /\ pos[k] - 1 <= c => source.sonar = recorded[k].sonar
    BY <1>6, <1>8 DEF Assembles
  <2>3. recorded[k] \in Unflagged
    BY <1>3
  <2> QED
    BY <1>7, <2>1, <2>2, <2>3 DEF HoldsSnapshot, Message, PointCloud, Sensed, SensorTopics
<1>18. PICK f : f = Head(chan)
  OBVIOUS
<1>19. /\ f = FrameOf(file[p]) /\ s \in SourceSet
       /\ s.lastReturned = source.lastReturned /\ s.exhausted = source.exhausted
       /\ s.lidar = IF f.sensor = "lidar" THEN [at |-> f.at, value |-> f.value] ELSE source.lidar
       /\ s.imu = IF f.sensor = "imu" THEN [at |-> f.at, value |-> f.value] ELSE source.imu
       /\ s.sonar = IF f.sensor = "sonar" THEN f.value ELSE source.sonar
  BY <1>1, <1>11, <1>18, ApplyTyped DEF IInv
<1>20. /\ f.at = file[p].at /\ f.value = file[p].body
       /\ f.sensor = "imu" <=> file[p].topic = "/sensor/imu"
       /\ f.sensor = "sonar" <=> file[p].topic = "/sensor/sonar"
       /\ f.sensor = "lidar" <=> file[p].topic = "/sensor/lidar"
       /\ file[p].topic \in SensorTopics
  BY <1>11, <1>19, FramesOf DEF Sensed
<1> HIDE DEF s
(* A reading of the snapshot that is being assembled.                       *)
<1>21. CASE f.sensor # "lidar"
  <2>1. source' = s /\ UNCHANGED <<phase, adapter>>
    BY <1>1, <1>18, <1>21
  <2>2. Produced' = r
    BY <1>1, <1>8, <2>1 DEF Produced
  <2>3. ASSUME NEW k \in 1 .. Len(recorded)
        PROVE  k <= r <=> pos[k] <= p
    <3>1. pos[k] # p
      BY <1>17, <1>20, <1>21
    <3>2. pos[k] < p => pos[k] <= c
      BY <1>12, <1>17
    <3>3. pos[k] \in 1 .. l /\ (k <= r <=> pos[k] <= c)
      BY <1>17
    <3> QED
      BY <1>0, <1>8, <3>1, <3>2, <3>3
  <2>4. ASSUME NEW k \in 1 .. Len(recorded), k > r, pos[k] - 2 <= p
        PROVE  s.imu = recorded[k].imu
    <3>0. pos[k] \in Nat
      BY <1>17
    <3>1. pos[k] > p
      BY <1>0, <1>8, <2>3, <2>4, <3>0
    <3>2. CASE p = pos[k] - 2
      <4>1. f.sensor = "imu" /\ s.imu = [at |-> f.at, value |-> f.value]
        BY <1>17, <1>19, <1>20, <3>2
      <4>2. f.at = recorded[k].imu.at /\ f.value = recorded[k].imu.value
        BY <1>17, <1>20, <3>2
      <4> QED
        BY <1>17, <4>1, <4>2 DEF Unflagged, Readings
    <3>3. CASE p = pos[k] - 1
      <4>1. f.sensor = "sonar"
        BY <1>17, <1>20, <3>3
      <4>2. pos[k] - 2 <= c
        BY <1>11, <1>12, <1>17, <3>3
      <4> QED
        BY <1>17, <1>19, <2>4, <4>1, <4>2
    <3> QED
      BY <1>11, <1>17, <2>4, <3>1, <3>2, <3>3
  <2>5. ASSUME NEW k \in 1 .. Len(recorded), k > r, pos[k] - 1 <= p
        PROVE  s.sonar = recorded[k].sonar
    <3>0. pos[k] \in Nat
      BY <1>17
    <3>1. pos[k] > p
      BY <1>0, <1>8, <2>3, <2>5, <3>0
    <3>2. p = pos[k] - 1
      BY <1>0, <2>5, <3>0, <3>1
    <3> QED
      BY <1>17, <1>19, <1>20, <3>2
  <2>6. Assembles(pos, p)'
    BY <1>1, <2>1, <2>2, <2>3, <2>4, <2>5 DEF Assembles
  <2>7. Reads'
    <3>1. p \in 0 .. Len(file')
      BY <1>1, <1>7, <1>8, <1>11
    <3> QED
      BY <1>1, <1>6, <1>15, <1>16, <2>6, <3>1 DEF Reads
  <2>8. Handed'
    BY <1>4, <1>19, <1>21, <2>1 DEF Handed
  <2>9. Given'
    BY <1>1, <1>4, <2>1 DEF Given, Produced
  <2> QED
    BY <1>1, <1>2, <2>1, <2>7, <2>8, <2>9 DEF ReplayInv, NotYet, NoFooter, BeingRead, InReplay
(* The cloud of the next snapshot, whose other readings are there.          *)
<1>22. CASE f.sensor = "lidar"
  <2>1. /\ source' = [s EXCEPT !.lastReturned = s.lidar.at]
        /\ adapter' = [adapter EXCEPT !.next = << SnapshotOf(s) >>, !.asking = FALSE,
                                      !.exhausted = (<< SnapshotOf(s) >> = <<>>)]
        /\ phase' = "replay"
    BY <1>1, <1>18, <1>22 DEF Prefetched
  <2>2. PICK k \in 1 .. Len(recorded) : pos[k] = p
    BY <1>6, <1>7, <1>11, <1>20, <1>22 DEF LaidOut
  <2>3. k > r
    BY <1>8, <1>9, <1>11, <1>17, <2>2
  <2>4. k = r + 1
    <3> SUFFICES ASSUME k # r + 1 PROVE FALSE
      OBVIOUS
    <3>1. r + 1 \in 1 .. Len(recorded) /\ r + 1 < k /\ r + 1 > r
      BY <1>3, <1>8, <2>3
    <3>2. pos[r + 1] < pos[k]
      BY <1>6, <3>1 DEF LaidOut
    <3>3. pos[r + 1] <= c
      BY <1>12, <1>17, <2>2, <3>1, <3>2
    <3>4. r + 1 <= r
      BY <1>17, <3>1, <3>3
    <3> QED
      BY <1>8, <3>4
  <2>5. pos[k] - 2 <= c /\ pos[k] - 1 <= c
    BY <1>8, <1>11, <1>12, <1>17, <2>2
  <2>6. SnapshotOf(s) = recorded[k]
    <3>1. s.imu = recorded[k].imu /\ s.sonar = recorded[k].sonar
      BY <1>17, <1>19, <1>22, <2>3, <2>5
    <3>2. s.lidar = [at |-> recorded[k].lidar.at, value |-> recorded[k].lidar.value]
      BY <1>17, <1>19, <1>20, <1>22, <2>2
    <3>3. recorded[k] \in Unflagged
      BY <1>17
    <3>4. s.lidar = recorded[k].lidar
      BY <3>2, <3>3 DEF Unflagged, Readings
    <3> QED
      BY <3>1, <3>3, <3>4 DEF SnapshotOf, Unflagged
  <2>7. /\ adapter'.next = << recorded[k] >> /\ adapter'.asking = FALSE /\ adapter'.exhausted = FALSE
    BY <1>3, <2>1, <2>6
  <2>8. Produced' = r + 1
    BY <1>1, <1>7, <1>8, <2>7 DEF Produced
  <2>9. ASSUME NEW j \in 1 .. Len(recorded)
        PROVE  j <= r + 1 <=> pos[j] <= p
    <3>1. j < k => pos[j] < pos[k]
      BY <1>6 DEF LaidOut
    <3>2. k < j => pos[k] < pos[j]
      BY <1>6 DEF LaidOut
    <3>3. pos[j] \in Nat /\ p \in Nat /\ j \in Nat
      <4>1. pos[j] \in 1 .. l
        BY <1>17
      <4> QED
        BY <1>0, <4>1
    <3> QED
      BY <1>8, <2>2, <2>4, <3>1, <3>2, <3>3
  <2>10. ASSUME NEW j \in 1 .. Len(recorded), j > r + 1
         PROVE  ~(pos[j] - 2 <= p) /\ ~(pos[j] - 1 <= p)
    <3>0. pos[j] \in Nat
      <4>1. pos[j] \in 1 .. l
        BY <1>17
      <4> QED
        BY <4>1
    <3>1. pos[j] > p
      BY <1>0, <1>8, <2>9, <2>10, <3>0
    <3>2. p # pos[j] - 2 /\ p # pos[j] - 1
      BY <1>17, <1>20, <1>22
    <3>3. \A x, y \in Nat : x > y /\ y # x - 2 /\ y # x - 1 => ~(x - 2 <= y) /\ ~(x - 1 <= y)
      OBVIOUS
    <3> QED
      BY <1>0, <3>0, <3>1, <3>2, <3>3, Zenon
  <2>11. Assembles(pos, p)'
    BY <1>1, <2>8, <2>9, <2>10 DEF Assembles
  <2>12. Reads'
    <3>1. p \in 0 .. Len(file')
      BY <1>1, <1>7, <1>8, <1>11
    <3> QED
      BY <1>1, <1>6, <1>15, <1>16, <2>11, <3>1 DEF Reads
  <2>13. Handed'
    BY <1>19, <2>1 DEF Handed, SourceSet
  <2>14. Given'
    <3>1. r + 1 <= Len(recorded)
      BY <1>8, <2>4
    <3> QED
      BY <1>1, <1>4, <1>7, <2>4, <2>7, <2>8, <3>1 DEF Given
  <2> QED
    BY <1>1, <1>2, <2>1, <2>12, <2>13, <2>14 DEF ReplayInv, NotYet, NoFooter, BeingRead, InReplay
<1> QED
  BY <1>21, <1>22

LEMMA ReadsKept ==
  ASSUME Reads, UNCHANGED <<file, recorded, decoder, chan, source>>, Produced' = Produced
  PROVE  Reads'
<1>1. PICK pos \in [1 .. Len(recorded) -> 1 .. Len(file)], c \in 0 .. Len(file) :
        \E w \in [1 .. Len(chan) -> c + 1 .. Len(file)] :
          LaidOut(pos) /\ Piped(w, c) /\ Assembles(pos, c)
  BY DEF Reads
<1>2. PICK w \in [1 .. Len(chan) -> c + 1 .. Len(file)] :
        LaidOut(pos) /\ Piped(w, c) /\ Assembles(pos, c)
  BY <1>1
<1>3. LaidOut(pos)'
  BY <1>2 DEF LaidOut, HoldsSnapshot
<1>4. Piped(w, c)'
  BY <1>2 DEF Piped, Horizon, Sensed
<1>5. Assembles(pos, c)'
  BY <1>2 DEF Assembles
<1> QED
  BY <1>2, <1>3, <1>4, <1>5 DEF Reads

(* When the decoder has ended and its channel is empty, every recorded      *)
(* snapshot has been produced.                                              *)
LEMMA SourceEndsStep ==
  ASSUME IInv, SourceEnds
  PROVE  ReplayInv'
<1>1. /\ phase \in {"open", "replay"} /\ phase' = "replay" /\ adapter.asking
      /\ chan = <<>> /\ decoder = Ended
      /\ UNCHANGED <<file, recorded, footer, decoder, chan, returned>>
  BY DEF SourceEnds, Prefetching, Prefetched, fileVars
<1>2. Handed /\ Given /\ adapter.next = <<>>
  BY <1>1 DEF IInv, ReplayInv, Given
<1>3. \/ source.exhausted \/ source.lidar = NoReading
      \/ source.lastReturned = source.lidar.at
  BY <1>2 DEF Handed
<1>4. /\ source' = [source EXCEPT !.exhausted = TRUE]
      /\ adapter' = [adapter EXCEPT !.next = <<>>, !.asking = FALSE, !.exhausted = (<<>> = <<>>)]
  BY <1>3 DEF SourceEnds, Prefetched
<1>5. /\ source'.imu = source.imu /\ source'.sonar = source.sonar
      /\ source'.lidar = source.lidar /\ source'.lastReturned = source.lastReturned
      /\ adapter'.next = adapter.next /\ adapter'.exhausted = TRUE
  BY <1>2, <1>4 DEF IInv, ReplayTyped, SourceSet
<1>6. Produced' = Produced /\ Produced = Len(returned) /\ Len(returned) \in Nat
      /\ Len(recorded) \in Nat /\ Len(file) \in Nat
  BY <1>1, <1>2, <1>5 DEF Produced, IInv, ReplayTyped, FileTyped
<1>7. Handed'
  BY <1>2, <1>5 DEF Handed
<1>8. NotYet' /\ NoFooter'
  BY <1>1, <1>2, <1>5 DEF IInv, ReplayInv, NotYet, NoFooter, Idle, InReplay
<1>9. ASSUME footer PROVE Reads' /\ Len(returned) = Len(recorded)
  <2>1. PICK pos \in [1 .. Len(recorded) -> 1 .. Len(file)], c \in 0 .. Len(file) :
          \E w \in [1 .. Len(chan) -> c + 1 .. Len(file)] :
            LaidOut(pos) /\ Piped(w, c) /\ Assembles(pos, c)
    BY <1>1, <1>9 DEF IInv, ReplayInv, BeingRead, Reads
  <2>2. PICK w \in [1 .. Len(chan) -> c + 1 .. Len(file)] :
          LaidOut(pos) /\ Piped(w, c) /\ Assembles(pos, c)
    BY <2>1
  <2>3. LaidOut(pos)' /\ Piped(w, c)' /\ Assembles(pos, c)'
    BY <1>1, <1>5, <1>6, <2>2 DEF LaidOut, HoldsSnapshot, Piped, Horizon, Sensed, Assembles
  <2>4. \A p \in c + 1 .. Len(file) : ~Sensed(p)
    <3>1. Horizon = Len(file) + 1 /\ Len(chan) = 0
      BY <1>1 DEF Horizon
    <3>2. (Len(file) + 1) - 1 = Len(file) /\ 1 .. 0 = {}
      BY <1>6
    <3> QED
      BY <2>2, <3>1, <3>2 DEF Piped
  <2>5. \A k \in 1 .. Len(recorded) : pos[k] <= c
    <3> SUFFICES ASSUME NEW k \in 1 .. Len(recorded), ~(pos[k] <= c)
                 PROVE  FALSE
      OBVIOUS
    <3>1. HoldsSnapshot(pos[k], recorded[k])
      BY <2>2 DEF LaidOut
    <3>2. Sensed(pos[k]) /\ pos[k] \in 1 .. Len(file)
      BY <3>1 DEF HoldsSnapshot, PointCloud, Message, Sensed, SensorTopics
    <3>3. pos[k] \in c + 1 .. Len(file)
      BY <1>6, <3>2
    <3> QED
      BY <2>4, <3>2, <3>3
  <2>6. Len(recorded) <= Produced
    <3>1. CASE Len(recorded) = 0
      BY <1>6, <3>1
    <3>2. CASE Len(recorded) # 0
      <4>1. Len(recorded) \in 1 .. Len(recorded)
        BY <1>6, <3>2
      <4> QED
        BY <2>2, <2>5, <4>1 DEF Assembles
    <3> QED
      BY <3>1, <3>2
  <2>7. Len(returned) = Len(recorded)
    BY <1>2, <1>6, <2>6 DEF Given
  <2> QED
    BY <1>1, <2>2, <2>3, <2>7 DEF Reads
<1>10. Given'
  BY <1>1, <1>2, <1>5, <1>6, <1>9 DEF Given
<1> QED
  BY <1>1, <1>7, <1>8, <1>9, <1>10 DEF ReplayInv, BeingRead

(* A tick of the replay returns the prefetched snapshot.                    *)
LEMMA ReplayTickStep ==
  ASSUME IInv, ReplayTick
  PROVE  ReplayInv'
<1>1. /\ phase = "replay" /\ phase' = phase /\ ~adapter.asking /\ ~adapter.exhausted
      /\ returned' = returned \o adapter.next
      /\ adapter' = [adapter EXCEPT !.next = <<>>, !.asking = TRUE]
      /\ UNCHANGED <<file, recorded, footer, decoder, chan, source>>
  BY DEF ReplayTick, fileVars
<1>2. PICK r, n, next : r = Len(returned) /\ n = Len(recorded) /\ next = adapter.next
  OBVIOUS
<1>3. /\ returned \in Seq(Snapshots) /\ recorded \in Seq(Unflagged) /\ next \in Seq(Snapshots)
      /\ adapter'.next = <<>> /\ adapter'.exhausted = FALSE /\ r \in Nat /\ n \in Nat
  BY <1>1, <1>2 DEF IInv, ReplayTyped, FileTyped
<1>4. Given /\ Handed
  BY DEF IInv, ReplayInv
<1>5. CASE next = <<>>
  <2>1. returned' = returned
    BY <1>1, <1>2, <1>3, <1>5
  <2>2. Produced' = Produced
    BY <1>1, <1>2, <1>3, <1>5, <2>1 DEF Produced
  <2>3. Given'
    BY <1>1, <1>2, <1>3, <1>4, <1>5, <2>1, <2>2 DEF Given
  <2>4. Reads => Reads'
    BY <1>1, <2>2, ReadsKept
  <2>5. Handed' /\ NotYet' /\ NoFooter'
    BY <1>1, <1>2, <1>3, <1>4, <1>5, <2>1 DEF Handed, NotYet, NoFooter, Idle, InReplay, IInv, ReplayInv
  <2> QED
    BY <1>1, <2>3, <2>4, <2>5 DEF IInv, ReplayInv, BeingRead
<1>6. CASE next # <<>>
  <2>1. next = << recorded[r + 1] >>
    BY <1>2, <1>4, <1>6 DEF Given
  <2>2. Produced = r + 1 /\ r + 1 <= n
    BY <1>2, <1>4, <2>1 DEF Given, Produced
  <2>3. /\ Len(returned') = r + 1 /\ \A k \in 1 .. r : returned'[k] = returned[k]
        /\ returned'[r + 1] = recorded[r + 1]
    <3>1. recorded[r + 1] \in Unflagged
      BY <1>2, <1>3, <2>2
    <3>2. returned' = Append(returned, recorded[r + 1])
      BY <1>1, <1>2, <1>3, <2>1, <3>1
    <3> QED
      BY <1>2, <1>3, <3>1, <3>2, AppendProperties
  <2>4. Produced' = r + 1
    BY <1>3, <2>3 DEF Produced
  <2>5. Given'
    <3>1. \A k \in 1 .. r + 1 : k \in 1 .. r \/ k = r + 1
      BY <1>3
    <3>2. \A k \in 1 .. Len(returned') : returned'[k] = recorded'[k]
      BY <1>1, <1>2, <1>4, <2>3, <3>1 DEF Given
    <3> QED
      BY <1>1, <1>2, <1>3, <2>2, <2>4, <3>2 DEF Given
  <2>6. Reads => Reads'
    BY <1>1, <2>2, <2>4, ReadsKept
  <2>7. footer
    BY <1>2, <1>6 DEF IInv, ReplayInv, NoFooter, Idle
  <2>8. Handed' /\ NotYet' /\ NoFooter'
    BY <1>1, <1>4, <2>7 DEF Handed, NotYet, NoFooter, InReplay
  <2> QED
    BY <1>1, <2>5, <2>6, <2>8 DEF IInv, ReplayInv, BeingRead
<1> QED
  BY <1>5, <1>6

LEMMA StopReplayStep ==
  ASSUME IInv, StopReplay
  PROVE  ReplayInv'
<1>1. /\ phase' = "stopped" /\ chan' = <<>>
      /\ UNCHANGED <<file, recorded, footer, decoder, source, adapter, returned>>
  BY DEF StopReplay, fileVars
<1> QED
  BY <1>1 DEF IInv, ReplayInv, NotYet, NoFooter, BeingRead, Handed, Given, Produced, Idle, InReplay

LEMMA ReplayStep ==
  ASSUME IInv, FileTyped', [Next]_vars
  PROVE  ReplayInv'
<1>1. CASE Record \/ RecordFails \/ CloseFile
  <2>1. ~InReplay /\ ~InReplay' /\ UNCHANGED replayVars
    BY <1>1 DEF Record, RecordFails, CloseFile, IInv, Closed, InReplay
  <2> QED
    BY <2>1, BeforeReplay
<1>2. CASE MainThread \/ Kill
  <2>1. ~InReplay /\ ~InReplay' /\ UNCHANGED replayVars
    BY <1>2 DEF MainThread, Tick, Publish, LoopReturns, DropBus, Finish, Kill, InReplay
  <2> QED
    BY <2>1, BeforeReplay
<1>3. CASE UNCHANGED vars
  <2>1. UNCHANGED <<phase, file, recorded, footer, decoder, chan, source, adapter, returned>>
    BY <1>3 DEF vars, fileVars, replayVars
  <2>2. Produced' = Produced
    BY <2>1 DEF Produced
  <2> QED
    BY <2>1, <2>2, ReadsKept DEF IInv, ReplayInv, NotYet, NoFooter, BeingRead, Handed, Given,
       Produced, Idle, InReplay
<1> QED
  BY <1>1, <1>2, <1>3, OpenReplayStep, DecodeStep, TakeFrameStep, SourceEndsStep, ReplayTickStep,
     StopReplayStep DEF Next, Recorder, Replay

-----------------------------------------------------------------------------
(* The invariant is inductive.                                              *)
LEMMA IInvHolds == Spec => []IInv
<1>1. Init => IInv
  BY SessionInit, FileInit, ReplayTypedInit, ReplayInit DEF IInv
<1>2. IInv /\ [Next]_vars => IInv'
  <2> SUFFICES ASSUME IInv, [Next]_vars PROVE IInv'
    OBVIOUS
  <2>1. SessionTyped /\ FileTyped /\ ReplayTyped /\ FileInv /\ Closed
    BY DEF IInv
  <2>2. SessionTyped' /\ FileTyped' /\ FileInv' /\ Closed' /\ ReplayTyped'
    BY <2>1, SessionStep, FileStep, ClosedStep, ReplayTypedStep
  <2>3. ReplayInv'
    BY <2>2, ReplayStep
  <2> QED
    BY <2>2, <2>3 DEF IInv
<1> QED
  BY <1>1, <1>2, PTL DEF Spec

(* A replay gives the readings of the recorded snapshots, each snapshot's   *)
(* once, in order and together, after any failed writes too; all of them if *)
(* it ends by itself, and none of a recording without its footer.  Whatever *)
(* flags the snapshots had, the replayed ones have none.                    *)
THEOREM ReplayGivesWhatWasRecorded == Spec => []ReplayFaithful
<1>1. IInv => ReplayFaithful
  <2> SUFFICES ASSUME IInv PROVE ReplayFaithful
    OBVIOUS
  <2>1. /\ returned \in Seq(Snapshots) /\ recorded \in Seq(Unflagged)
        /\ Given /\ NoFooter /\ adapter.next \in Seq(Snapshots)
    BY DEF IInv, FileTyped, ReplayTyped, ReplayInv
  <2>2. Len(returned) <= Len(recorded)
    BY <2>1 DEF Given, Produced
  <2>3. \A k \in 1 .. Len(returned) : returned[k] = recorded[k]
    BY <2>1 DEF Given
  <2>4. IsPrefix(returned, recorded)
    BY <2>1, <2>2, <2>3 DEF IsPrefix
  <2>5. ~footer => returned = <<>>
    BY <2>1 DEF NoFooter, Idle
  <2>6. footer /\ adapter.exhausted => returned = recorded
    BY <2>1, <2>3 DEF Given
  <2> QED
    BY <2>4, <2>5, <2>6 DEF ReplayFaithful
<1> QED
  BY <1>1, IInvHolds, PTL
=============================================================================
