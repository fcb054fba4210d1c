--------------------------- MODULE RacelineWorker ---------------------------
(***************************************************************************)
(* The race-line planner worker of nfe-runtime (raceline_worker.rs): the   *)
(* pipeline thread submits map revisions, polls events and shuts the       *)
(* worker down; a worker thread takes the newest pending revision, solves  *)
(* it outside the lock and reports.  The two share SharedState under one   *)
(* mutex, with a condition variable, and an unbounded event channel.       *)
(*                                                                         *)
(* Each action is one critical section of the mutex, or one channel        *)
(* operation: between any two of them the other thread may run.            *)
(***************************************************************************)
EXTENDS Integers, Sequences

CONSTANTS
  MaxRev,     (* largest map revision that is ever submitted (a bound)      *)
  MaxUnread   (* no submission while this many events are unread (a bound
                 on the unbounded mpsc channel)                             *)

ASSUME BoundsAssumption == MaxRev \in Nat /\ MaxUnread \in Nat

VARIABLES
  shutdown,   (* SharedState.shutdown                                       *)
  solving,    (* SharedState.solving_revision                               *)
  pending,    (* revision of SharedState.pending                            *)
  completed,  (* SharedState.latest_completed_revision                      *)
  worker,     (* where the worker thread is                                 *)
  job,        (* revision of the worker's local map                         *)
  events,     (* the mpsc channel, oldest event first                       *)
  caller,     (* the owner of the handle: idle, in join(), or done with it  *)
  delivered   (* history: newest Completed revision the caller has read     *)

shared == <<shutdown, solving, pending, completed>>
vars == <<shutdown, solving, pending, completed, worker, job, events, caller,
          delivered>>

(* Option::None, below every revision (revisions are u64). *)
None == -1

Revisions == 0 .. MaxRev

Event(kind, r) == [kind |-> kind, revision |-> r]

WorkerStates == {"top", "parked", "announce", "solve", "report_ok",
                 "report_err", "exited"}
CallerStates == {"idle", "joining", "gone"}

-----------------------------------------------------------------------------
(* Submission. The two tests of submit_latest, in the code's order.         *)

(* Mutant: a completed revision is not recognised.                          *)
IsDuplicate_NotCompleted(r) == r \in {solving, pending}

IsDuplicate(r) == r \in {solving, pending, completed}

(* Mutant: the revision being solved is not compared.                       *)
IsOutdated_IgnoresSolving(r) == r < pending \/ r < completed

IsOutdated(r) == r < solving \/ r < pending \/ r < completed

(* notify_one: the worker is the only thread that waits.                    *)
Wake(w) == worker' = IF w = "parked" THEN "top" ELSE w

(* submit_latest on an open handle, on the path that stores the map.  The   *)
(* others (Disabled, Duplicate, BusyCurrentKept) change nothing.            *)
Submit(r) ==
  /\ caller = "idle"
  /\ Len(events) < MaxUnread
  /\ ~shutdown
  /\ ~IsDuplicate(r)
  /\ ~IsOutdated(r)
  /\ pending' = r
  /\ Wake(worker)
  /\ UNCHANGED <<shutdown, solving, completed, job, events, caller, delivered>>

(* poll_event: try_recv on the channel.                                     *)
PollEvent ==
  /\ caller = "idle"
  /\ events # <<>>
  /\ events' = Tail(events)
  /\ delivered' = IF Head(events).kind = "Completed"
                  THEN Head(events).revision
                  ELSE delivered
  /\ UNCHANGED <<shared, worker, job, caller>>

(* Mutant: the stop is not notified.                                        *)
BeginShutdown_NotNotified ==
  /\ caller = "idle"
  /\ caller' = "joining"
  /\ shutdown' = TRUE
  /\ pending' = None
  /\ UNCHANGED <<solving, completed, worker, job, events, delivered>>

(* Mutant: the stop flag is not set.                                        *)
BeginShutdown_FlagForgotten ==
  /\ caller = "idle"
  /\ caller' = "joining"
  /\ pending' = None
  /\ Wake(worker)
  /\ UNCHANGED <<shutdown, solving, completed, job, events, delivered>>

(* shutdown(), up to the join: the pending map is dropped under the lock.   *)
BeginShutdown ==
  /\ caller = "idle"
  /\ caller' = "joining"
  /\ shutdown' = TRUE
  /\ pending' = None
  /\ Wake(worker)
  /\ UNCHANGED <<solving, completed, job, events, delivered>>

(* handle.join() returns only when the thread has ended; a solve in         *)
(* progress is waited for.                                                  *)
Join ==
  /\ caller = "joining"
  /\ worker = "exited"
  /\ caller' = "gone"
  /\ UNCHANGED <<shared, worker, job, events, delivered>>

-----------------------------------------------------------------------------
(* worker_loop. At "top" the thread is about to lock and to test the loop's *)
(* condition: first for a stop, then for a pending map.                     *)

Park ==
  /\ worker = "top"
  /\ pending = None /\ ~shutdown
  /\ worker' = "parked"
  /\ UNCHANGED <<shared, job, events, caller, delivered>>

(* A condition variable may wake its waiter for no reason.                  *)
SpuriousWake ==
  /\ worker = "parked"
  /\ worker' = "top"
  /\ UNCHANGED <<shared, job, events, caller, delivered>>

Exit ==
  /\ worker = "top"
  /\ shutdown
  /\ worker' = "exited"
  /\ UNCHANGED <<shared, job, events, caller, delivered>>

Take ==
  /\ worker = "top"
  /\ ~shutdown
  /\ pending # None
  /\ job' = pending
  /\ solving' = pending
  /\ pending' = None
  /\ worker' = "announce"
  /\ UNCHANGED <<shutdown, completed, events, caller, delivered>>

Announce ==
  /\ worker = "announce"
  /\ events' = Append(events, Event("Started", job))
  /\ worker' = "solve"
  /\ UNCHANGED <<shared, job, caller, delivered>>

(* The solver returns Ok(line), and the result is recorded under the lock.  *)
SolveOk ==
  /\ worker = "solve"
  /\ solving' = None
  /\ completed' = job
  /\ worker' = "report_ok"
  /\ UNCHANGED <<shutdown, pending, job, events, caller, delivered>>

(* The solver returns Err(error); the revision may be submitted again.      *)
SolveErr ==
  /\ worker = "solve"
  /\ solving' = None
  /\ worker' = "report_err"
  /\ UNCHANGED <<shutdown, pending, completed, job, events, caller, delivered>>

(* Mutant: a failure is not reported.                                       *)
Report_Dropped ==
  /\ worker \in {"report_ok", "report_err"}
  /\ events' = IF worker = "report_ok"
               THEN Append(events, Event("Completed", job)) ELSE events
  /\ worker' = "top"
  /\ UNCHANGED <<shared, job, caller, delivered>>

(* The event is sent after the lock is released.                            *)
Report ==
  /\ worker \in {"report_ok", "report_err"}
  /\ events' = Append(events, Event(IF worker = "report_ok"
                                    THEN "Completed" ELSE "Failed", job))
  /\ worker' = "top"
  /\ UNCHANGED <<shared, job, caller, delivered>>

-----------------------------------------------------------------------------
Init ==
  /\ shutdown = FALSE
  /\ solving = None /\ pending = None /\ completed = None
  /\ worker = "top"
  /\ job = None
  /\ events = <<>>
  /\ caller = "idle"
  /\ delivered = None

WorkerStep == Park \/ Exit \/ Take \/ Announce \/ SolveOk \/ SolveErr \/ Report

Next ==
  \/ \E r \in Revisions : Submit(r)
  \/ PollEvent
  \/ BeginShutdown
  \/ Join
  \/ Park
  \/ SpuriousWake
  \/ Exit
  \/ Take
  \/ Announce
  \/ SolveOk
  \/ SolveErr
  \/ Report

Spec == Init /\ [][Next]_vars

(* The operating system runs the worker thread and the solver returns (its  *)
(* iterations are capped); join() returns once the thread has ended.        *)
(* Nothing makes the caller submit, poll or shut down, and no wakeup is     *)
(* owed that notify_one did not cause.                                      *)
Fairness == WF_vars(WorkerStep) /\ WF_vars(Join)

FairSpec == Spec /\ Fairness

-----------------------------------------------------------------------------
TypeOK ==
  /\ shutdown \in BOOLEAN
  /\ solving \in Revisions \cup {None}
  /\ pending \in Revisions \cup {None}
  /\ completed \in Revisions \cup {None}
  /\ worker \in WorkerStates
  /\ job \in Revisions \cup {None}
  /\ events \in Seq([kind : {"Started", "Completed", "Failed"},
                     revision : Revisions])
  /\ caller \in CallerStates
  /\ delivered \in Revisions \cup {None}

(* The three revisions of SharedState never overtake each other: what is    *)
(* pending is newer than what is being solved, which is newer than the      *)
(* newest completed one.  A stale map can thus never be solved after, nor   *)
(* overwrite the line of, a newer one (submit_latest, worker_loop).         *)
RevisionOrder ==
  /\ solving # None => completed < solving
  /\ pending # None => solving < pending /\ completed < pending

(* The worker never sleeps in cvar.wait while there is something to do: no  *)
(* notification is lost between its test of the condition and its wait, or  *)
(* between a submission or a shutdown and its next test.                    *)
NoLostWakeup == worker = "parked" => pending = None /\ ~shutdown

(* The events on their way to the caller, the one about to be sent last.    *)
InFlight ==
  CASE worker = "announce"   -> Append(events, Event("Started", job))
    [] worker = "report_ok"  -> Append(events, Event("Completed", job))
    [] worker = "report_err" -> Append(events, Event("Failed", job))
    [] OTHER                 -> events

(* The channel tells the truth in the right order although every event is   *)
(* sent after the lock is released: a result directly follows the Started   *)
(* of its own revision, successes are read in strictly increasing revision  *)
(* order, and the newest of them is SharedState's latest_completed.         *)
EventsFaithful ==
  /\ \A i \in 2 .. Len(InFlight) :
       IF InFlight[i].kind = "Started"
       THEN InFlight[i - 1].kind # "Started"
       ELSE InFlight[i - 1] = Event("Started", InFlight[i].revision)
  /\ \A i, j \in 1 .. Len(InFlight) :
       /\ i < j
       /\ InFlight[i].kind = "Completed"
       /\ InFlight[j].kind = "Completed"
       => InFlight[i].revision < InFlight[j].revision
  /\ \A i \in 1 .. Len(InFlight) :
       InFlight[i].kind = "Completed" =>
         delivered < InFlight[i].revision /\ InFlight[i].revision <= completed
  /\ (\A i \in 1 .. Len(InFlight) : InFlight[i].kind # "Completed")
       => delivered = completed

(* shutdown() returns: its join never waits for ever, wherever the worker   *)
(* was when it was called.                                                  *)
ShutdownReturns == caller = "joining" ~> caller = "gone"

-----------------------------------------------------------------------------
(* The worker implements LatestWins: an event counts as given from the      *)
(* moment its revision is recorded under the lock.                          *)
Goal == IF pending # None THEN pending
        ELSE IF solving # None THEN solving ELSE completed

LW == INSTANCE LatestWins WITH
        open   <- ~shutdown,
        wanted <- Goal,
        busy   <- solving,
        done   <- completed,
        outbox <- InFlight

ImplementsLatestWins == LW!Spec
=============================================================================
