------------------------------- MODULE Topics -------------------------------
(***************************************************************************)
(* What the MCAP recorder writes: the channels it registers (TOPICS of     *)
(* sinks/mcap.rs) and, for every kind of telemetry event, the messages     *)
(* that write_event turns it into, in order.                               *)
(*                                                                         *)
(* A message is [topic, schema, at, body].  Its schema is "json", or the   *)
(* Foxglove protobuf type of the value that is encoded; its body is the    *)
(* part of the value that a reader of the recording can tell apart.        *)
(***************************************************************************)
EXTENDS Sequences, TLC

(* TelemetryTopic::as_str.                                                  *)
TelemetryTopics ==
  {"/tf", "/tf_static", "/sensor/imu", "/sensor/lidar", "/sensor/sonar",
   "/control/command", "/control/scene", "/control/metrics",
   "/control/safety", "/control/start_gate", "/perception/reactive/corridor",
   "/perception/reactive/scene", "/perception/reactive/ransac_walls",
   "/perception/reactive/apex", "/mapping/ransac_walls",
   "/estimation/ekf/state", "/estimation/ekf/bias",
   "/estimation/ekf/covariance", "/estimation/ekf/pose",
   "/mapping/global_map_delta", "/mapping/global_map_snapshot",
   "/mapping/global_map_scene", "/mapping/status", "/mapping/loop_closure",
   "/race/start_line", "/race/lap", "/planning/raceline",
   "/planning/raceline_scene", "/planning/raceline_reference",
   "/supervisor/state", "/supervisor/transition",
   "/localization/scan_match", "/localization/particle_filter",
   "/localization/result", "/world/snapshot", "/world/walls",
   "/sim/ground_truth/state", "/sim/ground_truth/pose",
   "/sim/ground_truth/footprint"}

-----------------------------------------------------------------------------
(* The channels: each topic with the schema it is registered under.         *)

(* TOPICS: pairs of a topic and its schema.                                 *)

(* Transforms, sensors, control.                                            *)
CarTopics ==
  {"/sensor/imu", "/sensor/sonar", "/control/command", "/control/metrics",
   "/control/safety", "/control/start_gate"} \X {"json"}
  \cup {"/tf", "/tf_static"} \X {"FrameTransforms"}
  \cup {"/sensor/lidar"} \X {"PointCloud"}
  \cup {"/control/scene"} \X {"SceneUpdate"}

(* Perception and estimation.                                               *)
PerceptionTopics ==
  {"/perception/reactive/corridor", "/perception/reactive/ransac_walls",
   "/perception/reactive/apex", "/mapping/ransac_walls",
   "/estimation/ekf/state", "/estimation/ekf/bias",
   "/estimation/ekf/covariance"} \X {"json"}
  \cup {"/perception/reactive/scene"} \X {"SceneUpdate"}
  \cup {"/estimation/ekf/pose"} \X {"PosesInFrame"}

(* Mapping, race and planning.                                              *)
RaceTopics ==
  {"/mapping/global_map_delta", "/mapping/global_map_snapshot",
   "/mapping/status", "/mapping/loop_closure", "/race/start_line",
   "/race/lap", "/planning/raceline",
   "/planning/raceline_reference"} \X {"json"}
  \cup {"/mapping/global_map_scene", "/planning/raceline_scene"} \X {"SceneUpdate"}

(* Supervisor, localization, world and ground truth.                        *)
WorldTopics ==
  {"/supervisor/state", "/supervisor/transition", "/localization/scan_match",
   "/localization/particle_filter", "/localization/result",
   "/world/snapshot", "/sim/ground_truth/state"} \X {"json"}
  \cup {"/world/walls", "/sim/ground_truth/footprint"} \X {"SceneUpdate"}
  \cup {"/sim/ground_truth/pose"} \X {"PosesInFrame"}

Specs == CarTopics \cup PerceptionTopics \cup RaceTopics \cup WorldTopics

(* register_topics.                                                         *)
Channels ==
  [t \in {spec[1] : spec \in Specs} |->
     CHOOSE schema \in {spec[2] : spec \in Specs} : <<t, schema>> \in Specs]

(* is_scene_topic: the topics McapSceneWriter::write_scene accepts.         *)
SceneTopics ==
  {"/control/scene", "/perception/reactive/scene", "/mapping/global_map_scene",
   "/planning/raceline_scene", "/world/walls", "/sim/ground_truth/footprint"}

-----------------------------------------------------------------------------
(* write_raw, under write_json and write_protobuf: at is the publish time.  *)
Message(topic, schema, at, body) ==
  [topic |-> topic, schema |-> schema, at |-> at, body |-> body]

(* The event's own value as JSON, and a pose in the map frame.              *)
Json(e, topic) == Message(topic, "json", e.at, e.body)
Pose(e, topic) == Message(topic, "PosesInFrame", e.at, <<"map">>)

(* A scene, known to the viewer by the entity it replaces: the two drawings *)
(* of the reactive perception replace each other.                           *)
SceneUpdate(e, topic, entity) == Message(topic, "SceneUpdate", e.at, <<entity>>)

ControlScene(e)  == SceneUpdate(e, "/control/scene", "control")
RansacScene(e)   == SceneUpdate(e, "/perception/reactive/scene", "reactive_perception")
ApexScene(e)     == SceneUpdate(e, "/perception/reactive/scene", "reactive_perception")
MapScene(e)      == SceneUpdate(e, "/mapping/global_map_scene", "mapping_global_map")
RacelineScene(e) == SceneUpdate(e, "/planning/raceline_scene", "planning_raceline")
WallsScene(e)    == SceneUpdate(e, "/world/walls", "world_walls")
Footprint(e)     ==
  SceneUpdate(e, "/sim/ground_truth/footprint", "sim_vehicle_footprint")

PointCloud(cloud) == Message("/sensor/lidar", "PointCloud", cloud.at, cloud.value)

Transform(e) == Message("/tf", "FrameTransforms", e.at, <<"map", "base_link">>)

(* Mutant: the cloud, which completes a snapshot, before the sonars.        *)
SensorMessages_LidarBeforeSonar(snap) ==
  << Message("/sensor/imu", "json", snap.imu.at, snap.imu.value),
     PointCloud(snap.lidar),
     Message("/sensor/sonar", "json", snap.lidar.at, snap.sonar) >>

(* write_sensor_snapshot: each reading under its own time, the sonars under *)
(* that of the LiDAR cloud.                                                 *)
SensorMessages(snap) ==
  << Message("/sensor/imu", "json", snap.imu.at, snap.imu.value),
     Message("/sensor/sonar", "json", snap.lidar.at, snap.sonar),
     PointCloud(snap.lidar) >>

(* What each kind of event is written as: write_control, the metrics and    *)
(* write_start_gate.                                                        *)
ControlMessages(e) ==
  [Control   |-> << Json(e, "/control/command"), ControlScene(e) >>,
   Metrics   |-> << Json(e, "/control/metrics") >>,
   StartGate |-> << Json(e, "/control/start_gate") >>]

(* write_perception.                                                        *)
PerceptionMessages(e) ==
  [ReactiveCorridor    |-> << Json(e, "/perception/reactive/corridor") >>,
   ReactiveRansacWalls |-> << Json(e, "/perception/reactive/ransac_walls"),
                              RansacScene(e) >>,
   ReactiveApex        |-> << Json(e, "/perception/reactive/apex"), ApexScene(e) >>,
   MappingRansacWalls  |-> << Json(e, "/mapping/ransac_walls") >>]

(* write_estimation.                                                        *)
(* Mutant: the pose as JSON on the channel of PosesInFrame.                 *)
EstimationMessages_PoseAsJson(e) ==
  [EkfState |-> << Json(e, "/estimation/ekf/state"),
                   Json(e, "/estimation/ekf/pose"),
                   Json(e, "/estimation/ekf/bias") >>,
   EkfCovariance |-> << Json(e, "/estimation/ekf/covariance") >>]

(* write_estimation.                                                        *)
EstimationMessages(e) ==
  [EkfState |-> << Json(e, "/estimation/ekf/state"),
                   Pose(e, "/estimation/ekf/pose"),
                   Json(e, "/estimation/ekf/bias") >>,
   EkfCovariance |-> << Json(e, "/estimation/ekf/covariance") >>]

(* write_mapping.                                                           *)
MappingMessages(e) ==
  [Status            |-> << Json(e, "/mapping/status") >>,
   GlobalMapDelta    |-> << Json(e, "/mapping/global_map_delta") >>,
   GlobalMapSnapshot |-> << Json(e, "/mapping/global_map_snapshot"), MapScene(e) >>,
   LoopClosure       |-> << Json(e, "/mapping/loop_closure") >>]

(* write_localization.                                                      *)
LocalizationMessages(e) ==
  [ScanMatch      |-> << Json(e, "/localization/scan_match") >>,
   ParticleFilter |-> << Json(e, "/localization/particle_filter") >>,
   Localization   |-> << Json(e, "/localization/result") >>]

(* write_planning.                                                          *)
PlanningMessages(e) ==
  [RaceLine      |-> << Json(e, "/planning/raceline"), RacelineScene(e) >>,
   RaceReference |-> << Json(e, "/planning/raceline_reference") >>]

(* write_supervisor and write_race.                                         *)
SupervisorMessages(e) ==
  [State         |-> << Json(e, "/supervisor/state") >>,
   Transition    |-> << Json(e, "/supervisor/transition") >>,
   StartLineGate |-> << Json(e, "/race/start_line") >>,
   LapComplete   |-> << Json(e, "/race/lap") >>]

(* write_world, and write_ground_truth, to which the simulator always gives *)
(* a footprint.                                                             *)
WorldMessages(e)       == [World |-> << Json(e, "/world/snapshot"), WallsScene(e) >>]
GroundTruthMessages(e) ==
  [GroundTruth |-> << Json(e, "/sim/ground_truth/state"),
                      Pose(e, "/sim/ground_truth/pose"),
                      Transform(e), Footprint(e) >>]

(* write_event.                                                             *)
Messages(e) ==
  CASE e.kind = "Sensor" -> SensorMessages(e.snap)
    [] e.kind \in {"Control", "Metrics", "StartGate"} -> ControlMessages(e)[e.kind]
    [] e.kind \in {"ReactiveCorridor", "ReactiveRansacWalls", "ReactiveApex",
                   "MappingRansacWalls"} -> PerceptionMessages(e)[e.kind]
    [] e.kind \in {"EkfState", "EkfCovariance"} -> EstimationMessages(e)[e.kind]
    [] e.kind \in {"Status", "GlobalMapDelta", "GlobalMapSnapshot",
                   "LoopClosure"} -> MappingMessages(e)[e.kind]
    [] e.kind \in {"ScanMatch", "ParticleFilter",
                   "Localization"} -> LocalizationMessages(e)[e.kind]
    [] e.kind \in {"RaceLine", "RaceReference"} -> PlanningMessages(e)[e.kind]
    [] e.kind \in {"State", "Transition", "StartLineGate",
                   "LapComplete"} -> SupervisorMessages(e)[e.kind]
    [] e.kind = "World" -> WorldMessages(e)[e.kind]
    [] e.kind = "GroundTruth" -> GroundTruthMessages(e)[e.kind]

(* write_static_transforms, the first message of every recording.           *)
StaticTransforms ==
  << Message("/tf_static", "FrameTransforms", 0, <<"base_link", "lidar">>) >>
=============================================================================
