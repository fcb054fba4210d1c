------------------------------ MODULE Pipeline ------------------------------
(***************************************************************************)
(* Pipeline::step of nfe-runtime (pipeline.rs), as far as it decides which *)
(* mode drives the car: the control thread marks laps, reads the map,      *)
(* localizes against it, drains the planner worker, submits maps to it,    *)
(* lets the supervisor decide and computes the mode it reports.  The two   *)
(* worker threads run between any two of these steps; they are composed by *)
(* what they promise, MapFeed and LatestWins.                              *)
(*                                                                         *)
(* A tick passes through the phases idle, read, drain, ensure, decide.     *)
(***************************************************************************)
EXTENDS Integers, Sequences, Planner, Supervisor

CONSTANTS
  MaxRev,      (* largest map revision (a bound)                            *)
  MaxResets    (* calls of Pipeline::reset (a bound)                        *)

ASSUME PipelineBounds ==
  /\ MaxRev \in Nat /\ MaxResets \in Nat

VARIABLES
  phase,       (* where the control thread is in step()                     *)
  crossed,     (* snapshot.start_line_crossed of this tick                  *)
  seen,        (* latest_map of this tick, NoMap for None                   *)
  locConf,     (* last_localization_confidence: none, low or good           *)
  planner,     (* PlannerState                                              *)
  supervisor,  (* RaceSupervisor                                            *)
  driveMode,   (* StepOutput.drive_mode of the last finished tick           *)
  published, marked,                   (* the mapping worker: MapFeed       *)
  open, wanted, busy, done, outbox,    (* the planner worker: LatestWins    *)
  resets,      (* history: resets so far                                    *)
  attempts,    (* history: revisions the planner worker turned to since the
                  last reset                                                *)
  reactive     (* history: ticks that found the supervisor reactive since it
                  last fell back or was reset (saturates)                   *)

feedVars   == <<published, marked>>
workerVars == <<open, wanted, busy, done, outbox>>
tickVars   == <<phase, crossed, seen>>
history    == <<resets, attempts, reactive>>
vars == <<tickVars, locConf, planner, supervisor, driveMode, feedVars,
          workerVars, history>>

Feed   == INSTANCE MapFeed
Worker == INSTANCE LatestWins

Phases == {"idle", "read", "drain", "ensure", "decide"}

NoMap == Feed!NoMap

-----------------------------------------------------------------------------
(* The control thread                                                       *)

(* The snapshot comes in, a new scan is offered to the mapper, and the      *)
(* start line is reported to it.                                            *)
BeginTick ==
  /\ phase = "idle"
  /\ phase' = "read"
  /\ crossed' \in BOOLEAN
  /\ IF crossed' THEN Feed!CrossLine ELSE UNCHANGED feedVars
  /\ UNCHANGED <<seen, locConf, planner, supervisor, driveMode, workerVars,
                 history>>

(* latest_map: try_lock finds the map, or the mapper's lock on it.  If the  *)
(* tick has a new scan, it is then localized against a complete map.        *)
ReadMap ==
  /\ phase = "read"
  /\ phase' = "drain"
  /\ seen' \in {published, NoMap}
  /\ \E newLidarScan \in BOOLEAN :
       IF newLidarScan /\ seen'.complete
       THEN locConf' \in {"low", "good"}
       ELSE UNCHANGED locConf
  /\ UNCHANGED <<crossed, planner, supervisor, driveMode, feedVars,
                 workerVars, history>>

Apply(p, event) ==
  CASE event.kind = "Completed" -> RecordSuccess(p, event.revision)
    [] event.kind = "Failed"    -> RecordFailure(p, event.revision)
    [] OTHER                    -> p

(* One turn of drain_raceline_worker_events.                                *)
DrainEvent ==
  /\ phase = "drain"
  /\ Worker!Read
  /\ planner' = Apply(planner, Head(outbox))
  /\ UNCHANGED <<tickVars, locConf, supervisor, driveMode, feedVars, history>>

(* poll_event finds the channel empty.  The last answer may be recorded and *)
(* not sent yet, so that one may remain.                                    *)
DrainDone ==
  /\ phase = "drain"
  /\ Len(outbox) <= 1
  /\ phase' = "ensure"
  /\ UNCHANGED <<crossed, seen, locConf, planner, supervisor,
                 driveMode, feedVars, workerVars, history>>

(* submit_latest counts as an attempt unless a newer revision is in work:   *)
(* accepted, or a duplicate of what is solved, pending or completed.        *)
Submit(p, rev) ==
  \/ Worker!Ask(rev) /\ planner' = Attempted(p, rev)
  \/ /\ ~Worker!CanAsk(rev)
     /\ planner' = IF rev \in {wanted, busy, done} THEN Attempted(p, rev) ELSE p
     /\ UNCHANGED workerVars

(* ensure_raceline, if this tick sees a complete map.                       *)
EnsureRaceline ==
  /\ phase = "ensure"
  /\ phase' = "decide"
  /\ LET p == AdvanceForMapRevision(planner, seen.revision)
     IN  CASE ~seen.complete -> UNCHANGED <<planner, workerVars>>
           [] seen.complete /\ ~ShouldAttempt(p, seen.revision) ->
                planner' = p /\ UNCHANGED workerVars
           [] OTHER -> Submit(p, seen.revision)
  /\ UNCHANGED <<crossed, seen, locConf, supervisor, driveMode,
                 feedVars, history>>

(* The health confidence: the last localization counts only in a tick that  *)
(* sees a complete map; the estimate's own confidence always does.          *)
Confident(estimateOk) ==
  estimateOk /\ ~(seen.complete /\ locConf = "low")

Health(estimateOk, diverged, closure) ==
  [confident |-> Confident(estimateOk), closure |-> closure,
   diverged |-> diverged, ready |-> HasUsableLine(planner),
   mapping |-> TRUE, crossed |-> crossed]

(* Mutant: no controller is ever unavailable.                               *)
ModeDriven_AsRequested(requested) == requested

(* The race-line controller is Unavailable without a usable line, and the   *)
(* reactive one drives.                                                     *)
ModeDriven(requested) ==
  IF HasUsableLine(planner) THEN requested ELSE "Reactive"

(* The rest of the tick: health, supervisor, control, output.  The loop-    *)
(* closure verdict is the one of the last scan the mapper has published.    *)
Decide ==
  /\ phase = "decide"
  /\ phase' = "idle" /\ crossed' = FALSE /\ seen' = NoMap
  /\ \E estimateOk, diverged, closure \in BOOLEAN :
       supervisor' =
         SupervisorStep(supervisor, Health(estimateOk, diverged, closure))
  /\ driveMode' = ModeDriven(supervisor'.mode)
  /\ reactive' = CASE supervisor.mode = "Reactive" -> SaturatingInc(reactive)
                   [] supervisor.mode = "RaceLine"
                        /\ supervisor'.mode = "Reactive" -> 0
                   [] OTHER -> reactive
  /\ UNCHANGED <<locConf, planner, feedVars, workerVars, resets, attempts>>

(* Mutant: the planner state survives a reset.                              *)
Reset_KeepsPlanner ==
  /\ phase = "idle"
  /\ resets < MaxResets
  /\ resets' = resets + 1
  /\ supervisor' = NewSupervisor
  /\ locConf' = "none"
  /\ open' = TRUE
  /\ wanted' = None /\ busy' = None /\ done' = None
  /\ outbox' = <<>>
  /\ attempts' = {} /\ reactive' = 0
  /\ driveMode' = "Reactive"
  /\ UNCHANGED <<tickVars, planner, feedVars>>

(* Pipeline::reset between two ticks.  The planner worker is shut down,     *)
(* which waits for a solve in progress, and a new one is started; the       *)
(* mapping worker and its map stay.                                         *)
Reset ==
  /\ phase = "idle"
  /\ resets < MaxResets
  /\ resets' = resets + 1
  /\ planner' = NewPlanner
  /\ supervisor' = NewSupervisor
  /\ locConf' = "none"
  /\ open' = TRUE
  /\ wanted' = None /\ busy' = None /\ done' = None
  /\ outbox' = <<>>
  /\ attempts' = {} /\ reactive' = 0
  /\ driveMode' = "Reactive"
  /\ UNCHANGED <<tickVars, feedVars>>

-----------------------------------------------------------------------------
(* The worker threads                                                       *)

others == <<tickVars, locConf, planner, supervisor, driveMode>>

SolverTurn ==
  /\ Worker!TurnTo
  /\ attempts' = attempts \cup {wanted}
  /\ UNCHANGED <<others, feedVars, resets, reactive>>

SolverSucceeds == Worker!Succeed /\ UNCHANGED <<others, feedVars, history>>

SolverFails == Worker!Fail /\ UNCHANGED <<others, feedVars, history>>

MapperPublishes == Feed!Publish /\ UNCHANGED <<others, workerVars, history>>

-----------------------------------------------------------------------------
Init ==
  /\ phase = "idle" /\ crossed = FALSE /\ seen = NoMap
  /\ locConf = "none"
  /\ planner = NewPlanner
  /\ supervisor = NewSupervisor
  /\ driveMode = "Reactive"
  /\ Feed!Init
  /\ Worker!Init
  /\ resets = 0 /\ attempts = {} /\ reactive = 0

ControlStep ==
  BeginTick \/ ReadMap \/ DrainEvent \/ DrainDone \/ EnsureRaceline \/ Decide

Next ==
  \/ BeginTick
  \/ ReadMap
  \/ DrainEvent
  \/ DrainDone
  \/ EnsureRaceline
  \/ Decide
  \/ Reset
  \/ SolverTurn
  \/ SolverSucceeds
  \/ SolverFails
  \/ MapperPublishes

Spec == Init /\ [][Next]_vars

(* The control loop keeps ticking, each worker thread is scheduled, the     *)
(* solver returns and its answer is sent right after it is recorded, and    *)
(* try_lock does not fail for ever while the map stays published: the       *)
(* mapper holds the lock only to store a map.                               *)
Fairness ==
  /\ WF_vars(ControlStep)
  /\ SF_vars(ReadMap /\ seen' = published)
  /\ SF_vars(DrainEvent)
  /\ WF_vars(SolverTurn)
  /\ WF_vars(SolverSucceeds \/ SolverFails)

FairSpec == Spec /\ Fairness

-----------------------------------------------------------------------------
Revisions == 0 .. MaxRev
OptionalRevision == Revisions \cup {None}

Planners == [source : OptionalRevision, availability : Availability,
             attempted : OptionalRevision, failed : OptionalRevision,
             failures : Nat, outdated : Nat]
Supervisors == [mode : Modes, lap : 0 .. Saturation, healthy : 0 .. Saturation,
                unhealthy : 0 .. Saturation, mapOk : BOOLEAN]
Answers == [kind : {"Started", "Completed", "Failed"}, revision : Revisions]

TypeOK ==
  /\ phase \in Phases /\ crossed \in BOOLEAN
  /\ seen \in Feed!Maps \cup {NoMap}
  /\ locConf \in {"none", "low", "good"}
  /\ planner \in Planners
  /\ supervisor \in Supervisors
  /\ driveMode \in Modes
  /\ published \in Feed!Maps \cup {NoMap}
  /\ marked \in BOOLEAN
  /\ open \in BOOLEAN
  /\ wanted \in OptionalRevision /\ busy \in OptionalRevision
  /\ done \in OptionalRevision
  /\ outbox \in Seq(Answers)
  /\ resets \in 0 .. MaxResets
  /\ attempts \subseteq Revisions
  /\ reactive \in 0 .. Saturation

(* The pipeline never takes a line for one of another map: whatever the     *)
(* order in which maps are published, solved, answered and read, and over a *)
(* reset, no map older than the line's source is ever seen                  *)
(* (StaleReason::MapRevisionInconsistent stays unreachable).                *)
LineNeverAheadOfMap ==
  /\ planner.availability # "MapRevisionInconsistent"
  /\ planner.source <= published.revision

(* When a tick that sees a complete map decides, a line it may drive is of  *)
(* that map, or stale within all three limits of the policy at once.        *)
UsableLineIsRecent ==
  phase = "decide" /\ seen.complete /\ HasUsableLine(planner) =>
    \/ planner.source = seen.revision
    \/ /\ seen.revision - planner.source \in 1 .. MaxLag
       /\ planner.outdated <= MaxOutdated
       /\ planner.failures <= MaxFailures

(* The solver is expensive: it turns to each map revision at most once      *)
(* between two resets, even to one that it failed on (should_attempt).      *)
SolvedAtMostOnce ==
  [][(busy' # busy /\ busy' # None) => busy' \notin attempts]_vars

(* The car tracks the race line only with a line in hand, on a map that is  *)
(* complete, after the laps that the parameters ask for, and only when the  *)
(* supervisor was reactive for the engaging dwell before it engaged, also   *)
(* after a fallback; laps and dwell start again with a reset but the map    *)
(* does not.                                                                *)
RaceLineIsEarned ==
  driveMode = "RaceLine" =>
    /\ HasUsableLine(planner) \/ phase # "idle"
    /\ published.complete /\ marked
    /\ supervisor.lap >= MinLap
    /\ reactive >= EngageDwell

(* The map is rewritten by every occupied scan, so the planner may be       *)
(* behind it for as long as the mapper publishes, and each reset lets it    *)
(* start again.  But it never gets stuck: if the map is published and the   *)
(* pipeline reset only finitely often, the planner ends up, and stays, with *)
(* the last complete map attempted and answered, by its line or by a        *)
(* recorded failure, whatever was refused or missed on the way.             *)
PlannerCatchesUp ==
  <>[][UNCHANGED <<published, resets>>]_vars =>
    <>[](published.complete =>
           \/ planner.source = published.revision
           \/ planner.failed = published.revision)
=============================================================================
