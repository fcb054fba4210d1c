--------------------------- MODULE MappingWorker ---------------------------
(***************************************************************************)
(* The mapping worker of nfe-runtime (mapping_worker.rs).  The pipeline    *)
(* thread offers scans and lap marks to a bounded channel without ever     *)
(* blocking; a worker thread owns an OccupancyGridMapper (nfe-algo), works *)
(* the channel off and publishes, after every item, first the status and   *)
(* then the map, each under a mutex of its own.                            *)
(*                                                                         *)
(* Each action is one channel operation or one critical section.           *)
(***************************************************************************)
EXTENDS Integers, Sequences, FiniteSets

CONSTANTS
  Capacity,   (* queue_capacity.max(1)                                      *)
  MaxScans    (* scans offered in a run (a bound)                           *)

ASSUME CapacityAssumption == Capacity \in Nat \ {0}
ASSUME ScansAssumption == MaxScans \in Nat

VARIABLES
  queue,      (* the sync_channel, oldest item first                        *)
  sender,     (* MappingWorker.tx is Some                                   *)
  thread,     (* where the worker thread is                                 *)
  mapper,     (* the OccupancyGridMapper                                    *)
  status,     (* the shared MapStatus                                       *)
  map,        (* the shared Option<TrackMap>                                *)
  caller,     (* the owner of the handle                                    *)
  offered,    (* history: scans offered on an open channel                  *)
  refused,    (* history: scans the full queue refused                      *)
  marked      (* history: mark_lap_complete was called on an open channel   *)

vars == <<queue, sender, thread, mapper, status, map, caller, offered,
          refused, marked>>
history == <<offered, refused, marked>>

None == -1

Items == {"Integrate", "LapComplete", "Shutdown"}
ThreadStates == {"recv", "publish_status", "publish_map", "exited"}
CallerStates == {"idle", "counting", "joining", "gone"}

Mapper == [scans : Nat, revision : Nat, complete : BOOLEAN, closure : BOOLEAN]
Status == [scans : Nat, revision : Nat, closure : BOOLEAN, dropped : Nat]
Maps == [revision : Nat \cup {None}, complete : BOOLEAN]

(* The shared map before the first publication.                             *)
NoMap == [revision |-> None, complete |-> FALSE]

-----------------------------------------------------------------------------
(* The pipeline thread                                                      *)

(* sync_channel(queue_capacity.max(1)) holds that many items.               *)
HasRoom(q) == Len(q) < Capacity

(* try_send of an item; FALSE stands for Err(Full), which changes nothing.  *)
TrySend(item) ==
  IF HasRoom(queue) THEN queue' = Append(queue, item) ELSE UNCHANGED queue

(* submit: a full queue refuses the scan, and the refusal is counted in a   *)
(* critical section of its own.                                             *)
Submit ==
  /\ caller = "idle" /\ sender
  /\ offered < MaxScans
  /\ offered' = offered + 1
  /\ TrySend("Integrate")
  /\ IF HasRoom(queue)
     THEN UNCHANGED <<caller, refused>>
     ELSE caller' = "counting" /\ refused' = refused + 1
  /\ UNCHANGED <<sender, thread, mapper, status, map, marked>>

CountDrop ==
  /\ caller = "counting"
  /\ status' = [status EXCEPT !.dropped = @ + 1]
  /\ caller' = "idle"
  /\ UNCHANGED <<queue, sender, thread, mapper, map, history>>

(* mark_lap_complete ignores the result of try_send.                        *)
MarkLapComplete ==
  /\ caller = "idle" /\ sender
  /\ TrySend("LapComplete")
  /\ marked' = TRUE
  /\ UNCHANGED <<sender, thread, mapper, status, map, caller, offered, refused>>

(* Mutant: the sender lives on during the join.                             *)
BeginShutdown_KeepsSender ==
  /\ caller = "idle" /\ sender
  /\ TrySend("Shutdown")
  /\ caller' = "joining"
  /\ UNCHANGED <<sender, thread, mapper, status, map, history>>

(* shutdown: a Shutdown item if there is room, and in any case the sender   *)
(* is dropped before the join.                                              *)
BeginShutdown ==
  /\ caller = "idle" /\ sender
  /\ TrySend("Shutdown")
  /\ sender' = FALSE
  /\ caller' = "joining"
  /\ UNCHANGED <<thread, mapper, status, map, history>>

Join ==
  /\ caller = "joining"
  /\ thread = "exited"
  /\ caller' = "gone"
  /\ UNCHANGED <<queue, sender, thread, mapper, status, map, history>>

-----------------------------------------------------------------------------
(* The worker thread                                                        *)

(* OccupancyGridMapper::integrate.  A scan that marks no cell as occupied   *)
(* leaves the revision alone; the loop can close only on a map that has     *)
(* occupied cells.                                                          *)
Integrate(occupied, closes) ==
  [mapper EXCEPT !.scans = @ + 1,
                 !.revision = IF occupied THEN @ + 1 ELSE @,
                 !.closure = closes]

RecvScan ==
  /\ thread = "recv"
  /\ queue # <<>> /\ Head(queue) = "Integrate"
  /\ queue' = Tail(queue)
  /\ \E occupied, closes \in BOOLEAN :
       /\ closes => mapper.revision > 0
       /\ mapper' = Integrate(occupied, closes)
  /\ thread' = "publish_status"
  /\ UNCHANGED <<sender, status, map, caller, history>>

(* Mutant: the flag is toggled.                                             *)
RecvLapComplete_StartsNewMap ==
  /\ thread = "recv"
  /\ queue # <<>> /\ Head(queue) = "LapComplete"
  /\ queue' = Tail(queue)
  /\ mapper' = [mapper EXCEPT !.complete = ~@]
  /\ thread' = "publish_status"
  /\ UNCHANGED <<sender, status, map, caller, history>>

(* OccupancyGridMapper::mark_lap_complete; the revision stays.              *)
RecvLapComplete ==
  /\ thread = "recv"
  /\ queue # <<>> /\ Head(queue) = "LapComplete"
  /\ queue' = Tail(queue)
  /\ mapper' = [mapper EXCEPT !.complete = TRUE]
  /\ thread' = "publish_status"
  /\ UNCHANGED <<sender, status, map, caller, history>>

(* Mutant: the loop ends with the sender, not with the items.               *)
Exit_SeesSenderGone ==
  /\ thread = "recv"
  /\ \/ queue # <<>> /\ Head(queue) = "Shutdown" /\ queue' = Tail(queue)
     \/ ~sender /\ UNCHANGED queue
  /\ thread' = "exited"
  /\ UNCHANGED <<sender, mapper, status, map, caller, history>>

(* The loop ends on a Shutdown item, or on recv's Err once the sender is    *)
(* gone and the channel is empty.                                           *)
Exit ==
  /\ thread = "recv"
  /\ \/ queue # <<>> /\ Head(queue) = "Shutdown" /\ queue' = Tail(queue)
     \/ queue = <<>> /\ ~sender /\ UNCHANGED queue
  /\ thread' = "exited"
  /\ UNCHANGED <<sender, mapper, status, map, caller, history>>

(* Mutant: the mapper's status overwrites the drops.                        *)
PublishStatus_LosesDrops ==
  /\ thread = "publish_status"
  /\ status' = [scans |-> mapper.scans, revision |-> mapper.revision,
                closure |-> mapper.closure, dropped |-> 0]
  /\ thread' = "publish_map"
  /\ UNCHANGED <<queue, sender, mapper, map, caller, history>>

(* Mutant: the map is published first.                                      *)
PublishStatus_AfterMap ==
  /\ thread = "publish_status"
  /\ map' = [revision |-> mapper.revision, complete |-> mapper.complete]
  /\ thread' = "publish_map"
  /\ UNCHANGED <<queue, sender, mapper, status, caller, history>>

(* The status is the mapper's, except for the drops, which only the shared  *)
(* status counts.                                                           *)
PublishStatus ==
  /\ thread = "publish_status"
  /\ status' = [scans |-> mapper.scans, revision |-> mapper.revision,
                closure |-> mapper.closure, dropped |-> status.dropped]
  /\ thread' = "publish_map"
  /\ UNCHANGED <<queue, sender, mapper, map, caller, history>>

PublishMap ==
  /\ thread = "publish_map"
  /\ map' = [revision |-> mapper.revision, complete |-> mapper.complete]
  /\ thread' = "recv"
  /\ UNCHANGED <<queue, sender, mapper, status, caller, history>>

-----------------------------------------------------------------------------
Init ==
  /\ queue = <<>>
  /\ sender = TRUE
  /\ thread = "recv"
  /\ mapper = [scans |-> 0, revision |-> 0, complete |-> FALSE,
               closure |-> FALSE]
  /\ status = [scans |-> 0, revision |-> 0, closure |-> FALSE, dropped |-> 0]
  /\ map = NoMap
  /\ caller = "idle"
  /\ offered = 0 /\ refused = 0 /\ marked = FALSE

WorkerStep ==
  RecvScan \/ RecvLapComplete \/ Exit \/ PublishStatus \/ PublishMap

Next ==
  \/ Submit
  \/ CountDrop
  \/ MarkLapComplete
  \/ BeginShutdown
  \/ Join
  \/ RecvScan
  \/ RecvLapComplete
  \/ Exit
  \/ PublishStatus
  \/ PublishMap

Spec == Init /\ [][Next]_vars

(* The worker thread is scheduled and a scan is integrated in finite time;  *)
(* the caller finishes the call it has begun, but nothing makes it begin    *)
(* another.                                                                 *)
Fairness == WF_vars(WorkerStep) /\ WF_vars(CountDrop) /\ WF_vars(Join)

FairSpec == Spec /\ Fairness

-----------------------------------------------------------------------------
TypeOK ==
  /\ queue \in Seq(Items) /\ Len(queue) <= Capacity
  /\ sender \in BOOLEAN
  /\ thread \in ThreadStates
  /\ mapper \in Mapper
  /\ status \in Status
  /\ map \in Maps
  /\ caller \in CallerStates
  /\ offered \in Nat /\ refused \in Nat
  /\ marked \in BOOLEAN

(* How many scans a queue holds.                                            *)
ScansIn(q) == Cardinality({i \in 1 .. Len(q) : q[i] = "Integrate"})

(* Every scan offered to the worker is accounted for: it is waiting, it was *)
(* integrated, or dropped_scans counts it, although both threads write the  *)
(* shared status (submit, and the loop's copy of the mapper's status).      *)
EveryScanAccounted ==
  /\ offered = refused + ScansIn(queue) + mapper.scans
  /\ status.dropped + (IF caller = "counting" THEN 1 ELSE 0) = refused

(* A reader who has seen a map finds a status that is at least as new and   *)
(* at most one revision ahead: the status is published first.               *)
StatusLeadsMap ==
  map # NoMap => /\ map.revision <= status.revision
                 /\ status.revision <= map.revision + 1

(* shutdown() returns although its Shutdown item may find the queue full.   *)
ShutdownReturns == caller = "joining" ~> caller = "gone"

(* A lap mark that found room in the queue completes the published map,     *)
(* even when the worker is shut down before it is received.                 *)
QueuedLapMarkTakesEffect ==
  (\E i \in 1 .. Len(queue) : queue[i] = "LapComplete") ~> map.complete

-----------------------------------------------------------------------------
Feed == INSTANCE MapFeed WITH
          MaxRev    <- MaxScans,
          published <- map

(* The worker implements MapFeed.                                           *)
ImplementsMapFeed == Feed!Spec
=============================================================================
