--------------------------- MODULE Pipeline_proofs ---------------------------
(***************************************************************************)
(* Theorems about Pipeline, for every number of revisions and resets and   *)
(* for every policy and dwell.                                             *)
(***************************************************************************)
EXTENDS Pipeline, TLAPS

(* The newest revision that anything may be about: in a tick that sees a    *)
(* complete map that map's, between ticks the published one's.              *)
Newest == IF seen.complete THEN seen.revision ELSE published.revision

(* What the tick has read is behind what is published.                      *)
SeenInv ==
  /\ phase \in {"idle", "read"} => seen = NoMap
  /\ seen.complete => published.complete /\ seen.revision <= published.revision
  /\ published.complete => marked

(* Whatever the planner and its worker are about is an earlier or the same  *)
(* map, and the worker's work is ordered.                                   *)
BehindInv ==
  /\ wanted <= Newest /\ planner.source <= Newest /\ planner.attempted <= Newest
  /\ planner.source <= done /\ done <= wanted /\ busy <= wanted
  /\ busy # None => done < busy
  /\ planner.availability # "MapRevisionInconsistent"

(* Answers come in the order of their maps: behind those the planner has a  *)
(* line for, ahead of those still to be worked on.                          *)
OutboxInv ==
  /\ \A i \in DOMAIN outbox : /\ planner.source <= outbox[i].revision
                              /\ outbox[i].revision <= Newest
                              /\ busy # None => outbox[i].revision <= busy
                              /\ wanted > done => outbox[i].revision <= wanted
                              /\ outbox[i].kind = "Completed" => outbox[i].revision <= done
  /\ \A i, j \in DOMAIN outbox : i <= j => outbox[i].revision <= outbox[j].revision

(* Anything the worker was ever asked for was a complete map's.             *)
CompleteInv ==
  wanted # None \/ busy # None \/ done # None \/ outbox # <<>> \/ planner.source # None
    => published.complete

(* What was ever turned to was attempted, and what waits was not turned to. *)
AttemptsInv ==
  /\ \A r \in attempts : r <= planner.attempted
  /\ wanted > done => wanted <= planner.attempted
  /\ wanted > done /\ busy # wanted => wanted \notin attempts

(* The mode driven is the supervisor's, which has counted the laps and the  *)
(* dwell: no streak of healthy ticks is longer than the time it has been    *)
(* reactive.                                                                *)
ModeInv ==
  /\ supervisor.mode = "RaceLine" => /\ supervisor.lap >= MinLap
                                     /\ reactive >= EngageDwell
  /\ supervisor.mode = "Reactive" => supervisor.healthy <= reactive
  /\ driveMode = "RaceLine" => /\ supervisor.mode = "RaceLine"
                               /\ phase = "idle" => HasUsableLine(planner)
                               /\ published.complete

IInv == /\ TypeOK /\ SeenInv /\ BehindInv /\ OutboxInv /\ CompleteInv
        /\ AttemptsInv /\ ModeInv /\ UsableLineIsRecent
-----------------------------------------------------------------------------
(* The planner's methods                                                    *)

(* A line within the policy's limits on a map of revision r                 *)
Recent(p, r) ==
  HasUsableLine(p) =>
    \/ p.source = r
    \/ /\ r - p.source \in 1 .. MaxLag
       /\ p.outdated <= MaxOutdated
       /\ p.failures <= MaxFailures

USE PolicyAssumption, PipelineBounds, DwellAssumption

(* An attempt changes nothing but the newest attempt.                       *)
LEMMA AttemptSound ==
  ASSUME NEW p \in Planners, NEW r \in Revisions
  PROVE  LET q == Attempted(p, r) IN
         /\ q \in Planners
         /\ q.source = p.source /\ q.availability = p.availability
         /\ q.outdated = p.outdated /\ q.failures = p.failures
         /\ p.attempted <= q.attempted /\ r <= q.attempted
         /\ q.attempted \in {p.attempted, r}
<1>. DEFINE a == IF r > p.attempted THEN r ELSE p.attempted
<1>1. /\ a \in OptionalRevision /\ p.attempted <= a /\ r <= a /\ a \in {p.attempted, r}
  <2>1. p.attempted \in OptionalRevision
    BY DEF Planners
  <2>2. CASE r > p.attempted
    BY <2>1, <2>2 DEF OptionalRevision, Revisions, None
  <2>3. CASE ~(r > p.attempted)
    BY <2>1, <2>3 DEF OptionalRevision, Revisions, None
  <2>. QED  BY <2>2, <2>3
<1>2. Attempted(p, r) = [p EXCEPT !.attempted = a]
  BY DEF Attempted
<1>. HIDE DEF a
<1>. QED  BY <1>1, <1>2 DEF Planners

(* The stale policy judges a line of an earlier map, or of the same one,    *)
(* without changing it.                                                     *)
LEMMA PolicySound ==
  ASSUME NEW p \in Planners, NEW r \in Revisions, p.source <= r
  PROVE  LET q == EvaluateStalePolicy(p, r) IN
         /\ q \in Planners
         /\ q.source = p.source /\ q.attempted = p.attempted
         /\ q.availability # "MapRevisionInconsistent"
         /\ Recent(q, r)
<1>1. p.source \in Int /\ r \in Int
  BY DEF Planners, OptionalRevision, Revisions, None
<1>2. CASE p.source = None
  BY <1>2 DEF EvaluateStalePolicy, Planners, Availability, Recent, HasUsableLine
<1>3. CASE p.source # None
  <2>. DEFINE a == IF r = p.source THEN "Fresh"
                   ELSE IF p.failures > MaxFailures THEN "TooManyFailures"
                   ELSE IF p.outdated > MaxOutdated THEN "TooOldInTicks"
                   ELSE IF r - p.source > MaxLag THEN "MapRevisionLagTooLarge"
                   ELSE "UsableStale"
  <2>1. EvaluateStalePolicy(p, r) = [p EXCEPT !.availability = a]
    BY <1>1, <1>3 DEF EvaluateStalePolicy
  <2>2. a \in Availability \ {"MapRevisionInconsistent"}
    BY DEF Availability, Usable, StaleReasons
  <2>3. a \in Usable => \/ p.source = r
                        \/ /\ r - p.source \in 1 .. MaxLag
                           /\ p.outdated <= MaxOutdated
                           /\ p.failures <= MaxFailures
    BY <1>1 DEF Usable, Planners
  <2>. HIDE DEF a
  <2>4. EvaluateStalePolicy(p, r) \in Planners
    BY <2>1, <2>2 DEF Planners
  <2>. QED  BY <2>1, <2>2, <2>3, <2>4 DEF Recent, HasUsableLine, Planners
<1>. QED  BY <1>2, <1>3

(* Once per tick: the line is judged for the map the tick sees.             *)
LEMMA AdvanceSound ==
  ASSUME NEW p \in Planners, NEW r \in Revisions, p.source <= r,
         p.availability # "MapRevisionInconsistent"
  PROVE  LET q == AdvanceForMapRevision(p, r) IN
         /\ q \in Planners
         /\ q.source = p.source /\ q.attempted = p.attempted
         /\ q.availability # "MapRevisionInconsistent"
         /\ Recent(q, r)
<1>1. p.source \in Int /\ r \in Int
  BY DEF Planners, OptionalRevision, Revisions, None
<1>2. CASE p.source = None
  BY <1>2 DEF AdvanceForMapRevision, Recent, HasUsableLine
<1>3. CASE p.source # None /\ r = p.source
  <2>1. AdvanceForMapRevision(p, r) = [p EXCEPT !.outdated = 0, !.availability = "Fresh"]
    BY <1>1, <1>3 DEF AdvanceForMapRevision
  <2>. DEFINE q == [p EXCEPT !.outdated = 0, !.availability = "Fresh"]
  <2>2. q \in Planners
    BY DEF Planners, Availability, Usable
  <2>3. /\ q.source = p.source /\ q.attempted = p.attempted
        /\ q.availability = "Fresh"
    BY DEF Planners
  <2>. HIDE DEF q
  <2>. QED  BY <1>3, <2>1, <2>2, <2>3 DEF Recent, q
<1>4. CASE p.source # None /\ r # p.source
  <2>. DEFINE n == SaturateAbove(MaxOutdated, p.outdated + 1)
              p1 == [p EXCEPT !.outdated = n]
  <2>1. n \in Nat
    <3>1. p.outdated + 1 \in Nat
      BY DEF Planners
    <3>. QED  BY <3>1 DEF SaturateAbove
  <2>. HIDE DEF n
  <2>2. p1 \in Planners /\ p1.source = p.source /\ p1.attempted = p.attempted
    BY <2>1 DEF Planners
  <2>3. AdvanceForMapRevision(p, r) = EvaluateStalePolicy(p1, r)
    BY <1>1, <1>4 DEF AdvanceForMapRevision, n
  <2>. HIDE DEF p1
  <2>. QED  BY <2>2, <2>3, PolicySound
<1>. QED  BY <1>2, <1>3, <1>4

(* A line of revision r                                                     *)
LEMMA SuccessSound ==
  ASSUME NEW p \in Planners, NEW r \in Revisions
  PROVE  LET q == RecordSuccess(p, r) IN
         /\ q \in Planners
         /\ q.source = r /\ q.availability = "Fresh"
         /\ p.attempted <= q.attempted /\ q.attempted \in {p.attempted, r}
<1>. DEFINE p1 == Attempted(p, r)
<1>1. /\ p1 \in Planners /\ p.attempted <= p1.attempted
      /\ p1.attempted \in {p.attempted, r}
  BY AttemptSound
<1>2. RecordSuccess(p, r) =
        [p1 EXCEPT !.source = r, !.availability = "Fresh",
                   !.failed = None, !.failures = 0, !.outdated = 0]
  BY DEF RecordSuccess
<1>. HIDE DEF p1
<1>. DEFINE q == [p1 EXCEPT !.source = r, !.availability = "Fresh",
                            !.failed = None, !.failures = 0, !.outdated = 0]
<1>3. q \in Planners
  BY <1>1 DEF Planners, OptionalRevision, Availability, Usable
<1>4. /\ q.source = r /\ q.availability = "Fresh"
      /\ q.attempted = p1.attempted
  BY <1>1 DEF Planners
<1>. HIDE DEF q
<1>. QED  BY <1>1, <1>2, <1>3, <1>4 DEF q

(* A failure on a map not older than the line's                             *)
LEMMA FailureSound ==
  ASSUME NEW p \in Planners, NEW r \in Revisions, p.source <= r
  PROVE  LET q == RecordFailure(p, r) IN
         /\ q \in Planners
         /\ q.source = p.source
         /\ q.availability # "MapRevisionInconsistent"
         /\ p.attempted <= q.attempted /\ q.attempted \in {p.attempted, r}
<1>. DEFINE p1 == Attempted(p, r)
            n == SaturateAbove(MaxFailures, p1.failures + 1)
            p2 == [p1 EXCEPT !.failed = r, !.failures = n]
<1>1. /\ p1 \in Planners /\ p1.source = p.source /\ p.attempted <= p1.attempted
      /\ p1.attempted \in {p.attempted, r}
  BY AttemptSound
<1>2. n \in Nat
  <2>1. p1.failures + 1 \in Nat
    BY <1>1 DEF Planners
  <2>. QED  BY <2>1 DEF SaturateAbove
<1>3. RecordFailure(p, r) =
        IF p2.source = None
        THEN [p2 EXCEPT !.availability = "SolverFailedWithoutPrevious"]
        ELSE EvaluateStalePolicy(p2, r)
  BY DEF RecordFailure
<1>. HIDE DEF p1, n
<1>4. p2 \in Planners /\ p2.source = p.source /\ p2.attempted = p1.attempted
  BY <1>1, <1>2 DEF Planners, OptionalRevision
<1>. HIDE DEF p2
<1>5. CASE p2.source = None
  BY <1>1, <1>3, <1>4, <1>5 DEF Planners, Availability, StaleReasons
<1>6. CASE p2.source # None
  BY <1>1, <1>3, <1>4, <1>6, PolicySound
<1>. QED  BY <1>5, <1>6
-----------------------------------------------------------------------------
(* Reading and writing the channel of answers                               *)

LEMMA ReadOne ==
  ASSUME NEW s \in Seq(Answers), s # <<>>
  PROVE  /\ Head(s) \in Answers /\ Head(s) = s[1] /\ 1 \in DOMAIN s
         /\ Tail(s) \in Seq(Answers)
         /\ \A i \in DOMAIN Tail(s) : i + 1 \in DOMAIN s /\ Tail(s)[i] = s[i + 1]
<1>1. Len(s) \in Nat \ {0} /\ DOMAIN s = 1 .. Len(s)
  OBVIOUS
<1>2. Tail(s) \in Seq(Answers) /\ Len(Tail(s)) = Len(s) - 1
  OBVIOUS
<1>3. ASSUME NEW i \in DOMAIN Tail(s)
      PROVE  i + 1 \in DOMAIN s /\ Tail(s)[i] = s[i + 1]
  BY <1>1, <1>2
<1>. QED  BY <1>1, <1>2, <1>3

LEMMA WriteOne ==
  ASSUME NEW s \in Seq(Answers), NEW a \in Answers
  PROVE  /\ Append(s, a) \in Seq(Answers) /\ Append(s, a) # <<>>
         /\ \A i \in DOMAIN Append(s, a) :
              \/ i \in DOMAIN s /\ Append(s, a)[i] = s[i]
              \/ i = Len(s) + 1 /\ Append(s, a)[i] = a
         /\ \A i \in DOMAIN s : i \in Int /\ i <= Len(s)
         /\ Len(s) \in Nat
<1>1. Len(s) \in Nat /\ DOMAIN s = 1 .. Len(s)
  OBVIOUS
<1>2. Append(s, a) \in Seq(Answers) /\ Len(Append(s, a)) = Len(s) + 1
  OBVIOUS
<1>3. ASSUME NEW i \in DOMAIN Append(s, a)
      PROVE  \/ i \in DOMAIN s /\ Append(s, a)[i] = s[i]
             \/ i = Len(s) + 1 /\ Append(s, a)[i] = a
  BY <1>1, <1>2
<1>. QED  BY <1>1, <1>2, <1>3

-----------------------------------------------------------------------------
LEMMA InitIInv == Init => IInv
<1>. SUFFICES ASSUME Init PROVE IInv
  OBVIOUS
<1>. USE DEF Init, Feed!Init, Worker!Init
<1>1. outbox = <<>> /\ outbox \in Seq(Answers) /\ DOMAIN outbox = {}
  OBVIOUS
<1>2. NewPlanner \in Planners
  BY DEF NewPlanner, Planners, OptionalRevision, Availability
<1>3. TypeOK
  <2>1. NewSupervisor \in Supervisors /\ "Reactive" \in Modes
    BY DEF NewSupervisor, Supervisors, Modes
  <2>2. /\ phase \in Phases /\ crossed \in BOOLEAN
        /\ seen \in Feed!Maps \cup {NoMap}
        /\ locConf \in {"none", "low", "good"}
    BY DEF Phases
  <2>3. /\ published \in Feed!Maps \cup {NoMap}
        /\ marked \in BOOLEAN /\ open \in BOOLEAN
    BY DEF NoMap
  <2>4. /\ wanted \in OptionalRevision /\ busy \in OptionalRevision
        /\ done \in OptionalRevision
    BY DEF OptionalRevision, Worker!None, None
  <2>5. /\ resets \in 0 .. MaxResets /\ attempts \subseteq Revisions
        /\ reactive \in 0 .. Saturation
    OBVIOUS
  <2>. QED  BY <1>1, <1>2, <2>1, <2>2, <2>3, <2>4, <2>5 DEF TypeOK
<1>4. SeenInv /\ Newest = None
  BY DEF SeenInv, NoMap, Feed!NoMap, Newest, None, Feed!None
<1>5. BehindInv
  BY <1>4 DEF BehindInv, NewPlanner, Worker!None, None
<1>6. OutboxInv
  BY <1>1 DEF OutboxInv
<1>7. CompleteInv /\ AttemptsInv
  BY DEF CompleteInv, AttemptsInv, NewPlanner, Worker!None, None
<1>8. ModeInv /\ UsableLineIsRecent
  BY DEF ModeInv, UsableLineIsRecent, NewSupervisor
<1>. QED  BY <1>3, <1>4, <1>5, <1>6, <1>7, <1>8 DEF IInv
-----------------------------------------------------------------------------
(* What TypeOK says of numbers                                              *)
Types ==
  /\ wanted \in Int /\ busy \in Int /\ done \in Int
  /\ -1 <= wanted /\ -1 <= busy /\ -1 <= done
  /\ planner.source \in OptionalRevision /\ planner.attempted \in OptionalRevision
  /\ planner.source \in Int /\ planner.attempted \in Int
  /\ published.revision \in Int /\ seen.revision \in Int
  /\ -1 <= planner.source /\ -1 <= planner.attempted
  /\ published.complete \in BOOLEAN /\ seen.complete \in BOOLEAN
  /\ Newest \in Int
  /\ NoMap.complete = FALSE /\ NoMap.revision = -1
  /\ seen.complete => seen \in Feed!Maps /\ seen.revision \in Revisions
  /\ \A i \in DOMAIN outbox : /\ outbox[i] \in Answers
                              /\ outbox[i].revision \in Revisions
                              /\ outbox[i].revision \in Int
  /\ \A i \in DOMAIN outbox : i \in Int

LEMMA Typed == TypeOK => Types
<1>. SUFFICES ASSUME TypeOK PROVE Types
  OBVIOUS
<1>. USE DEF OptionalRevision, Revisions, None
<1>1. /\ wanted \in Int /\ busy \in Int /\ done \in Int
      /\ -1 <= wanted /\ -1 <= busy /\ -1 <= done
  BY DEF TypeOK
<1>2. /\ planner.source \in OptionalRevision /\ planner.attempted \in OptionalRevision
      /\ planner.source \in Int /\ planner.attempted \in Int
      /\ -1 <= planner.source /\ -1 <= planner.attempted
  BY DEF TypeOK, Planners
<1>3. /\ \A m \in Feed!Maps : m.revision \in Revisions /\ m.complete \in BOOLEAN
      /\ \A m \in Feed!Maps : m.revision \in Int
      /\ NoMap.complete = FALSE /\ NoMap.revision = -1
      /\ NoMap.complete \in BOOLEAN /\ NoMap.revision \in Int
  BY DEF Feed!Maps, NoMap, Feed!NoMap, Feed!None
<1>4. /\ published.revision \in Int /\ seen.revision \in Int
      /\ published.complete \in BOOLEAN /\ seen.complete \in BOOLEAN
      /\ seen.complete => seen \in Feed!Maps /\ seen.revision \in Revisions
  <2>1. /\ published \in Feed!Maps \/ published = NoMap
        /\ seen \in Feed!Maps \/ seen = NoMap
    BY DEF TypeOK
  <2>2. published.revision \in Int /\ published.complete \in BOOLEAN
    BY <1>3, <2>1
  <2>3. seen.revision \in Int /\ seen.complete \in BOOLEAN
    BY <1>3, <2>1
  <2>4. seen.complete => seen \in Feed!Maps /\ seen.revision \in Revisions
    <3>1. CASE seen = NoMap
      BY <1>3, <3>1
    <3>2. CASE seen \in Feed!Maps
      BY <1>3, <3>2
    <3>. QED  BY <2>1, <3>1, <3>2
  <2>. QED  BY <2>2, <2>3, <2>4
<1>5. Newest \in Int
  BY <1>4 DEF Newest
<1>6. \A i \in DOMAIN outbox : outbox[i] \in Answers /\ i \in Int
  <2>1. outbox \in Seq(Answers)
    BY DEF TypeOK
  <2>. QED  BY <2>1
<1>7. \A i \in DOMAIN outbox : outbox[i].revision \in Revisions /\ outbox[i].revision \in Int
  BY <1>6 DEF Answers
<1>. QED  BY <1>1, <1>2, <1>3, <1>4, <1>5, <1>6, <1>7 DEF Types

LEMMA TypedNext == TypeOK' => Types'
  BY Typed, PTL

(* A step that leaves the planner and its worker alone, and keeps or raises *)
(* the newest revision, keeps what is said of them.                         *)
LEMMA PlannerUntouched ==
  ASSUME IInv, TypeOK', UNCHANGED <<planner, workerVars, attempts>>, Newest <= Newest',
         published.complete => published'.complete
  PROVE  BehindInv' /\ OutboxInv' /\ CompleteInv' /\ AttemptsInv'
<1>. USE DEF IInv, workerVars
<1>1. Newest \in Int /\ Newest' \in Int
  BY Typed, TypedNext DEF Types
<1>2. /\ wanted \in Int /\ planner.source \in Int /\ planner.attempted \in Int
      /\ \A i \in DOMAIN outbox : outbox[i].revision \in Int
  BY Typed DEF Types
<1>3. BehindInv'
  BY <1>1, <1>2 DEF BehindInv
<1>4. OutboxInv'
  BY <1>1, <1>2 DEF OutboxInv
<1>5. CompleteInv' /\ AttemptsInv'
  BY DEF CompleteInv, AttemptsInv
<1>. QED  BY <1>3, <1>4, <1>5

LEMMA BeginTickKeeps == IInv /\ BeginTick => IInv'
<1>. SUFFICES ASSUME IInv, BeginTick PROVE IInv'
  OBVIOUS
<1>. USE DEF IInv, BeginTick, Feed!CrossLine, feedVars, workerVars, history
<1>1. TypeOK'
  BY DEF TypeOK, Phases
<1>2. Newest' = Newest /\ published' = published
  BY DEF Newest
<1>3. SeenInv'
  BY DEF SeenInv
<1>4. BehindInv' /\ OutboxInv' /\ CompleteInv' /\ AttemptsInv'
  BY <1>1, <1>2, Typed, PlannerUntouched DEF Types
<1>5. ModeInv'
  BY DEF ModeInv
<1>6. UsableLineIsRecent'
  BY DEF UsableLineIsRecent
<1>. QED  BY <1>1, <1>3, <1>4, <1>5, <1>6

LEMMA ReadMapKeeps == IInv /\ ReadMap => IInv'
<1>. SUFFICES ASSUME IInv, ReadMap PROVE IInv'
  OBVIOUS
<1>. USE DEF IInv, ReadMap, feedVars, workerVars, history
<1>1. TypeOK'
  BY DEF TypeOK, Phases
<1>2. seen = NoMap /\ seen.complete = FALSE
  BY Typed DEF Types, SeenInv
<1>3. Newest' = Newest /\ published' = published
  BY <1>2 DEF Newest
<1>4. SeenInv'
  BY <1>2, Typed DEF Types, SeenInv
<1>5. BehindInv' /\ OutboxInv' /\ CompleteInv' /\ AttemptsInv'
  BY <1>1, <1>3, Typed, PlannerUntouched DEF Types
<1>6. ModeInv'
  BY DEF ModeInv
<1>7. UsableLineIsRecent'
  BY DEF UsableLineIsRecent
<1>. QED  BY <1>1, <1>4, <1>5, <1>6, <1>7

LEMMA DrainDoneKeeps == IInv /\ DrainDone => IInv'
<1>. SUFFICES ASSUME IInv, DrainDone PROVE IInv'
  OBVIOUS
<1>. USE DEF IInv, DrainDone, feedVars, workerVars, history
<1>1. TypeOK'
  BY DEF TypeOK, Phases
<1>2. Newest' = Newest /\ published' = published
  BY DEF Newest
<1>3. SeenInv'
  BY DEF SeenInv
<1>4. BehindInv' /\ OutboxInv' /\ CompleteInv' /\ AttemptsInv'
  BY <1>1, <1>2, Typed, PlannerUntouched DEF Types
<1>5. ModeInv'
  BY DEF ModeInv
<1>6. UsableLineIsRecent'
  BY DEF UsableLineIsRecent
<1>. QED  BY <1>1, <1>3, <1>4, <1>5, <1>6

(* The mapper publishes a map as new as the last, or newer.                 *)
LEMMA MapperPublishesKeeps == IInv /\ MapperPublishes => IInv'
<1>. SUFFICES ASSUME IInv, MapperPublishes PROVE IInv'
  OBVIOUS
<1>. USE DEF IInv, MapperPublishes, others, tickVars, workerVars, history
<1>1. /\ published' \in Feed!Maps /\ published.revision <= published'.revision
      /\ published.complete => published'.complete
      /\ published'.complete => marked
      /\ marked' = marked
  <2>1. PICK m \in Feed!Maps : /\ m.revision \in {Feed!Base, Feed!Base + 1}
                               /\ published.complete => m.complete
                               /\ m.complete => marked
                               /\ published' = m
    BY DEF Feed!Publish
  <2>2. published.revision \in Int /\ NoMap.revision = -1
    BY Typed DEF Types
  <2>3. Feed!Base \in Int /\ published.revision <= Feed!Base
    BY <2>2 DEF Feed!Base, NoMap
  <2>4. published.revision <= m.revision
    BY <2>1, <2>2, <2>3
  <2>. QED  BY <2>1, <2>4 DEF Feed!Publish
<1>2. TypeOK'
  BY <1>1 DEF TypeOK
<1>3. Newest <= Newest'
  BY <1>1, Typed DEF Types, Newest
<1>4. published.revision \in Int /\ published'.revision \in Int /\ seen.revision \in Int
  BY <1>2, Typed, TypedNext DEF Types
<1>5. SeenInv'
  BY <1>1, <1>4 DEF SeenInv
<1>6. BehindInv' /\ OutboxInv' /\ CompleteInv' /\ AttemptsInv'
  BY <1>1, <1>2, <1>3, PlannerUntouched
<1>7. ModeInv'
  BY <1>1 DEF ModeInv
<1>8. UsableLineIsRecent'
  BY DEF UsableLineIsRecent
<1>. QED  BY <1>2, <1>5, <1>6, <1>7, <1>8

(* The supervisor counts laps and wants them before the race line.          *)
LEMMA SupervisorSound ==
  ASSUME NEW s \in Supervisors, s.mode = "RaceLine" => s.lap >= MinLap,
         NEW h, h.crossed \in BOOLEAN
  PROVE  LET t == SupervisorStep(s, h) IN
         /\ t.mode \in Modes /\ t.lap \in 0 .. Saturation
         /\ t.healthy \in 0 .. Saturation /\ t.unhealthy \in 0 .. Saturation
         /\ t.mode = "RaceLine" => t.lap >= MinLap
<1>1. \A n \in 0 .. Saturation : SaturatingInc(n) \in 0 .. Saturation /\ SaturatingInc(n) >= n
  BY DEF SaturatingInc
<1>2. /\ s.lap \in 0 .. Saturation /\ s.healthy \in 0 .. Saturation
      /\ s.unhealthy \in 0 .. Saturation /\ s.mode \in Modes
  BY DEF Supervisors
<1>3. LapsAfter(s, h) \in 0 .. Saturation /\ LapsAfter(s, h) >= s.lap
  <2>1. CASE h.crossed
    BY <1>1, <1>2, <2>1 DEF LapsAfter
  <2>2. CASE ~h.crossed
    BY <1>2, <2>2 DEF LapsAfter
  <2>. QED  BY <2>1, <2>2
<1>. DEFINE healthy == IF IsHealthy(s, h) THEN SaturatingInc(s.healthy) ELSE 0
            unhealthy == IF IsHealthy(s, h) THEN 0 ELSE SaturatingInc(s.unhealthy)
            mode == NextMode(s, h, healthy, unhealthy)
<1>4. healthy \in 0 .. Saturation /\ unhealthy \in 0 .. Saturation
  <2>1. CASE IsHealthy(s, h)
    BY <1>1, <1>2, <2>1
  <2>2. CASE ~IsHealthy(s, h)
    BY <1>1, <1>2, <2>2
  <2>. QED  BY <2>1, <2>2
<1>. HIDE DEF healthy, unhealthy
<1>5. /\ mode \in Modes
      /\ mode = "RaceLine" => s.mode = "RaceLine" \/ IsHealthy(s, h)
  BY <1>2 DEF NextMode, Modes
<1>6. IsHealthy(s, h) => LapsAfter(s, h) >= MinLap
  BY DEF IsHealthy
<1>7. mode = "RaceLine" => LapsAfter(s, h) >= MinLap
  BY <1>2, <1>3, <1>5, <1>6
<1>8. SupervisorStep(s, h) =
        [mode |-> mode, lap |-> LapsAfter(s, h), healthy |-> healthy,
         unhealthy |-> unhealthy, mapOk |-> MapOkAfter(s, h)]
  BY DEF SupervisorStep, healthy, unhealthy
<1>. HIDE DEF mode
<1>. QED  BY <1>3, <1>4, <1>5, <1>7, <1>8

(* A streak of healthy ticks grows by one with a tick, which engages only   *)
(* if the streak is then long enough, and a fallback ends it.               *)
LEMMA StreakSound ==
  ASSUME NEW s, NEW h, s.healthy \in 0 .. Saturation
  PROVE  LET t == SupervisorStep(s, h) IN
         /\ s.mode = "Reactive" =>
              \A n \in 0 .. Saturation :
                s.healthy <= n => /\ t.healthy <= SaturatingInc(n)
                                  /\ t.mode = "RaceLine" => SaturatingInc(n) >= EngageDwell
         /\ s.mode = "RaceLine" /\ t.mode = "Reactive" => t.healthy = 0
<1>. DEFINE healthy == IF IsHealthy(s, h) THEN SaturatingInc(s.healthy) ELSE 0
            unhealthy == IF IsHealthy(s, h) THEN 0 ELSE SaturatingInc(s.unhealthy)
            mode == NextMode(s, h, healthy, unhealthy)
<1>1. SupervisorStep(s, h).healthy = healthy /\ SupervisorStep(s, h).mode = mode
  BY DEF SupervisorStep
<1>2. /\ s.mode = "Reactive" /\ mode = "RaceLine" => IsHealthy(s, h) /\ healthy >= EngageDwell
      /\ s.mode = "RaceLine" /\ mode = "Reactive" => ~IsHealthy(s, h)
  BY DEF NextMode
<1>3. ASSUME NEW n \in 0 .. Saturation, s.healthy <= n
      PROVE  healthy <= SaturatingInc(n) /\ SaturatingInc(n) \in 0 .. Saturation
  BY <1>3 DEF SaturatingInc
<1>4. healthy \in 0 .. Saturation
  BY DEF SaturatingInc
<1>5. ~IsHealthy(s, h) => healthy = 0
  OBVIOUS
<1>. HIDE DEF healthy, mode
<1>. QED  BY <1>1, <1>2, <1>3, <1>4, <1>5

LEMMA DecideKeeps == IInv /\ Decide => IInv'
<1>. SUFFICES ASSUME IInv, Decide PROVE IInv'
  OBVIOUS
<1>. USE DEF IInv, Decide, feedVars, workerVars
<1>1. PICK estimateOk \in BOOLEAN, diverged \in BOOLEAN, closure \in BOOLEAN :
        supervisor' = SupervisorStep(supervisor, Health(estimateOk, diverged, closure))
  OBVIOUS
<1>. DEFINE h == Health(estimateOk, diverged, closure)
<1>2. h.crossed \in BOOLEAN /\ h.mapping = TRUE /\ h.closure \in BOOLEAN
  BY DEF Health, TypeOK
<1>3. supervisor \in Supervisors /\ supervisor.mapOk \in BOOLEAN
  BY DEF TypeOK, Supervisors
<1>4. supervisor'.mode = "RaceLine" => supervisor'.lap >= MinLap
  BY <1>1, <1>2, <1>3, SupervisorSound DEF ModeInv
<1>5. supervisor' \in Supervisors
  <2>. HIDE DEF h
  <2>1. /\ supervisor'.mode \in Modes /\ supervisor'.lap \in 0 .. Saturation
        /\ supervisor'.healthy \in 0 .. Saturation /\ supervisor'.unhealthy \in 0 .. Saturation
    BY <1>1, <1>2, <1>3, SupervisorSound DEF ModeInv, h
  <2>2. MapOkAfter(supervisor, h) \in BOOLEAN
    BY <1>2, <1>3 DEF MapOkAfter
  <2>3. \E a, b, c, d : supervisor' = [mode |-> a, lap |-> b, healthy |-> c, unhealthy |-> d,
                                       mapOk |-> MapOkAfter(supervisor, h)]
    BY <1>1 DEF SupervisorStep, h
  <2>. QED  BY <2>1, <2>2, <2>3 DEF Supervisors
<1>12. /\ reactive' \in 0 .. Saturation
       /\ supervisor'.mode = "RaceLine" => reactive' >= EngageDwell
       /\ supervisor'.mode = "Reactive" => supervisor'.healthy <= reactive'
  <2>. HIDE DEF h
  <2>1. /\ reactive \in 0 .. Saturation /\ supervisor.mode \in Modes
        /\ supervisor.healthy \in 0 .. Saturation /\ supervisor'.mode \in Modes
    BY <1>5 DEF TypeOK, Supervisors
  <2>2. reactive' = CASE supervisor.mode = "Reactive" -> SaturatingInc(reactive)
                      [] supervisor.mode = "RaceLine"
                           /\ supervisor'.mode = "Reactive" -> 0
                      [] OTHER -> reactive
    OBVIOUS
  <2>3. CASE supervisor.mode = "Reactive"
    <3>1. reactive' = SaturatingInc(reactive) /\ supervisor.healthy <= reactive
      BY <2>2, <2>3 DEF ModeInv
    <3>2. /\ supervisor'.healthy <= SaturatingInc(reactive)
          /\ supervisor'.mode = "RaceLine" => SaturatingInc(reactive) >= EngageDwell
      BY <1>1, <2>1, <2>3, <3>1, StreakSound DEF h
    <3>. QED  BY <2>1, <3>1, <3>2 DEF SaturatingInc
  <2>4. CASE supervisor.mode = "RaceLine" /\ supervisor'.mode = "Reactive"
    <3>1. supervisor'.healthy = 0
      BY <1>1, <2>1, <2>4, StreakSound DEF h
    <3>. QED  BY <2>2, <2>4, <3>1
  <2>5. CASE supervisor.mode = "RaceLine" /\ supervisor'.mode # "Reactive"
    BY <2>1, <2>2, <2>5 DEF ModeInv
  <2>. QED  BY <2>1, <2>3, <2>4, <2>5 DEF Modes
<1>6. driveMode' \in Modes
  BY <1>5 DEF ModeDriven, Supervisors, Modes
<1>7. TypeOK'
  <2>1. /\ phase' = "idle" /\ crossed' = FALSE /\ seen' = NoMap
        /\ UNCHANGED <<locConf, planner, feedVars, workerVars, resets, attempts>>
    OBVIOUS
  <2>2. TypeOK
    OBVIOUS
  <2>. HIDE DEF IInv, Decide
  <2>3. phase' \in Phases /\ crossed' \in BOOLEAN /\ seen' \in Feed!Maps \cup {NoMap}
    BY <2>1, Zenon DEF Phases
  <2>4. /\ locConf' \in {"none", "low", "good"} /\ planner' \in Planners
        /\ published' \in Feed!Maps \cup {NoMap} /\ marked' \in BOOLEAN
        /\ resets' \in 0 .. MaxResets /\ attempts' \subseteq Revisions
    BY <2>1, <2>2, Zenon DEF TypeOK
  <2>5. /\ open' \in BOOLEAN /\ wanted' \in OptionalRevision
        /\ busy' \in OptionalRevision /\ done' \in OptionalRevision
        /\ outbox' \in Seq(Answers)
    BY <2>1, <2>2, Zenon DEF TypeOK
  <2>. QED  BY <1>5, <1>6, <1>12, <2>3, <2>4, <2>5, Zenon DEF TypeOK
<1>8. Newest <= Newest' /\ published' = published
  BY Typed DEF Types, Newest, SeenInv
<1>9. SeenInv'
  BY Typed DEF Types, SeenInv
<1>10. BehindInv' /\ OutboxInv' /\ CompleteInv' /\ AttemptsInv'
  BY <1>7, <1>8, PlannerUntouched
<1>11. ModeInv'
  <2>1. driveMode' = "RaceLine" => supervisor'.mode = "RaceLine" /\ HasUsableLine(planner)
    BY DEF ModeDriven
  <2>2. HasUsableLine(planner) => published.complete
    BY DEF CompleteInv, HasUsableLine
  <2>3. phase' = "idle" /\ planner' = planner /\ published' = published
    OBVIOUS
  <2>. HIDE DEF IInv, Decide
  <2>4. driveMode' = "RaceLine" =>
          supervisor'.mode = "RaceLine" /\ HasUsableLine(planner') /\ published'.complete
    BY <2>1, <2>2, <2>3
  <2>. QED  BY <1>4, <1>12, <2>4, Zenon DEF ModeInv
<1>13. UsableLineIsRecent'
  BY DEF UsableLineIsRecent
<1>. QED  BY <1>7, <1>9, <1>10, <1>11, <1>13

LEMMA ResetKeeps == IInv /\ Reset => IInv'
<1>. SUFFICES ASSUME IInv, Reset PROVE IInv'
  OBVIOUS
<1>. USE DEF IInv, Reset, tickVars, feedVars
<1>1. outbox' \in Seq(Answers) /\ DOMAIN outbox' = {}
  OBVIOUS
<1>2. NewPlanner \in Planners
  BY DEF NewPlanner, Planners, OptionalRevision, Availability
<1>3. NewSupervisor \in Supervisors /\ "Reactive" \in Modes
  BY DEF NewSupervisor, Supervisors, Modes
<1>4. TypeOK'
  <2>1. None \in OptionalRevision
    BY DEF OptionalRevision
  <2>2. resets' \in 0 .. MaxResets
    BY DEF TypeOK
  <2>. QED  BY <1>1, <1>2, <1>3, <2>1, <2>2 DEF TypeOK
<1>5. Newest' = Newest /\ Newest \in Int /\ -1 <= Newest
  <2>1. Newest' = Newest
    BY DEF Newest
  <2>2. -1 <= wanted /\ wanted <= Newest /\ wanted \in Int /\ Newest \in Int
    BY Typed DEF Types, BehindInv
  <2>. QED  BY <2>1, <2>2
<1>6. SeenInv'
  BY DEF SeenInv
<1>7. BehindInv'
  BY <1>5 DEF BehindInv, NewPlanner, None
<1>8. OutboxInv'
  BY <1>1 DEF OutboxInv
<1>9. CompleteInv' /\ AttemptsInv'
  BY DEF CompleteInv, AttemptsInv, NewPlanner, None
<1>10. ModeInv' /\ UsableLineIsRecent'
  BY DEF ModeInv, UsableLineIsRecent, NewSupervisor
<1>. QED  BY <1>4, <1>6, <1>7, <1>8, <1>9, <1>10

(* An answer is read: it is of a map the tick may have seen, and not older  *)
(* than the line.                                                           *)
LEMMA DrainEventKeeps == IInv /\ DrainEvent => IInv'
<1>. SUFFICES ASSUME IInv, DrainEvent PROVE IInv'
  OBVIOUS
<1>. USE DEF IInv, DrainEvent, tickVars, feedVars, history
<1>. DEFINE e == Head(outbox)
<1>1. /\ outbox # <<>> /\ outbox' = Tail(outbox)
      /\ UNCHANGED <<open, wanted, busy, done>>
      /\ planner' = Apply(planner, e)
  BY DEF Worker!Read
<1>2. outbox \in Seq(Answers) /\ planner \in Planners
  BY DEF TypeOK
<1>3. /\ e \in Answers /\ e = outbox[1] /\ 1 \in DOMAIN outbox
      /\ outbox' \in Seq(Answers)
      /\ \A i \in DOMAIN outbox' : i + 1 \in DOMAIN outbox /\ outbox'[i] = outbox[i + 1]
  BY <1>1, <1>2, ReadOne
<1>4. /\ e.kind \in {"Started", "Completed", "Failed"} /\ e.revision \in Revisions
      /\ e.revision \in Int
  BY <1>3 DEF Answers, Revisions
<1>5. /\ planner.source <= e.revision /\ e.revision <= Newest
      /\ e.kind = "Completed" => e.revision <= done
  BY <1>3 DEF OutboxInv
<1>. HIDE DEF e
<1>6. /\ planner' \in Planners
      /\ planner'.source \in {planner.source, e.revision}
      /\ e.kind # "Completed" => planner'.source = planner.source
      /\ planner.attempted <= planner'.attempted
      /\ planner'.attempted \in {planner.attempted, e.revision}
      /\ planner'.availability # "MapRevisionInconsistent"
  <2>1. CASE e.kind = "Completed"
    BY <1>1, <1>2, <1>4, <2>1, SuccessSound DEF Apply
  <2>2. CASE e.kind = "Failed"
    BY <1>1, <1>2, <1>4, <1>5, <2>2, FailureSound DEF Apply
  <2>3. CASE e.kind = "Started"
    <3>1. planner' = planner
      BY <1>1, <2>3 DEF Apply
    <3>2. planner.attempted <= planner.attempted
      BY Typed DEF Types
    <3>. QED  BY <1>2, <2>3, <3>1, <3>2 DEF BehindInv
  <2>. QED  BY <1>4, <2>1, <2>2, <2>3
<1>7. TypeOK'
  BY <1>1, <1>3, <1>6 DEF TypeOK
<1>8. Newest' = Newest /\ published' = published
  BY DEF Newest
<1>9. SeenInv'
  BY DEF SeenInv
<1>10. BehindInv'
  BY <1>1, <1>4, <1>5, <1>6, <1>8, Typed DEF Types, BehindInv
<1>11. OutboxInv'
  <2>1. ASSUME NEW i \in DOMAIN outbox'
        PROVE  /\ planner'.source <= outbox'[i].revision
               /\ outbox'[i].revision <= Newest'
               /\ busy # None => outbox'[i].revision <= busy
               /\ wanted > done => outbox'[i].revision <= wanted
               /\ outbox'[i].kind = "Completed" => outbox'[i].revision <= done
    <3>1. i \in Int /\ i >= 1
      BY <1>3
    <3>2. /\ i + 1 \in DOMAIN outbox /\ outbox'[i] = outbox[i + 1]
          /\ e.revision <= outbox[i + 1].revision
      BY <1>3, <3>1 DEF OutboxInv
    <3>3. planner'.source <= outbox[i + 1].revision
      BY <1>6, <3>2 DEF OutboxInv
    <3>4. /\ outbox[i + 1].revision <= Newest
          /\ busy # None => outbox[i + 1].revision <= busy
          /\ wanted > done => outbox[i + 1].revision <= wanted
          /\ outbox[i + 1].kind = "Completed" => outbox[i + 1].revision <= done
      BY <3>2 DEF OutboxInv
    <3>. QED  BY <1>8, <3>2, <3>3, <3>4
  <2>2. ASSUME NEW i \in DOMAIN outbox', NEW j \in DOMAIN outbox', i <= j
        PROVE  outbox'[i].revision <= outbox'[j].revision
    <3>1. i \in Int /\ j \in Int
      BY <1>3
    <3>2. i + 1 <= j + 1
      BY <2>2, <3>1
    <3>. QED  BY <1>3, <3>2 DEF OutboxInv
  <2>. QED  BY <1>1, <2>1, <2>2 DEF OutboxInv
<1>12. CompleteInv'
  BY <1>1, <1>8 DEF CompleteInv
<1>13. AttemptsInv'
  <2>1. planner.attempted \in Int /\ planner'.attempted \in Int /\ wanted \in Int
    BY <1>4, <1>6, Typed DEF Types
  <2>2. \A r \in attempts : r \in Int
    BY DEF TypeOK, Revisions
  <2>. QED  BY <1>1, <1>6, <2>1, <2>2 DEF AttemptsInv
<1>14. ModeInv' /\ UsableLineIsRecent'
  BY DEF ModeInv, UsableLineIsRecent
<1>. QED  BY <1>7, <1>9, <1>10, <1>11, <1>12, <1>13, <1>14

-----------------------------------------------------------------------------
(* The worker's steps leave the tick and the planner alone.                 *)

(* What an answer a appended to the outbox has to satisfy                   *)
Fits(a) ==
  /\ planner.source <= a.revision /\ a.revision <= Newest
  /\ \A i \in DOMAIN outbox : outbox[i].revision <= a.revision

LEMMA AnswerKeepsOrder ==
  ASSUME IInv, NEW a \in Answers, Fits(a), outbox' = Append(outbox, a),
         planner' = planner, Newest' = Newest,
         busy' # None => /\ a.revision <= busy' /\ busy' \in Int
         , wanted' > done' => /\ a.revision <= wanted' /\ wanted' \in Int
         , done' \in Int, done <= done',
         a.kind = "Completed" => a.revision <= done'
  PROVE  OutboxInv' /\ outbox' \in Seq(Answers) /\ outbox' # <<>>
<1>. USE DEF IInv
<1>1. outbox \in Seq(Answers) /\ a.revision \in Int
  BY DEF TypeOK, Answers, Revisions
<1>2. /\ outbox' \in Seq(Answers) /\ outbox' # <<>> /\ Len(outbox) \in Nat
      /\ \A i \in DOMAIN outbox' : \/ i \in DOMAIN outbox /\ outbox'[i] = outbox[i]
                                   \/ i = Len(outbox) + 1 /\ outbox'[i] = a
      /\ \A i \in DOMAIN outbox : i \in Int /\ i <= Len(outbox)
  BY <1>1, WriteOne
<1>3. \A i \in DOMAIN outbox : outbox[i].revision \in Int
  BY Typed DEF Types
<1>4. ASSUME NEW i \in DOMAIN outbox'
      PROVE  outbox'[i].revision \in Int /\ outbox'[i].revision <= a.revision
  <2>1. CASE i \in DOMAIN outbox /\ outbox'[i] = outbox[i]
    BY <1>3, <2>1 DEF Fits
  <2>2. CASE outbox'[i] = a
    BY <1>1, <2>2
  <2>. QED  BY <1>2, <2>1, <2>2
<1>5. ASSUME NEW i \in DOMAIN outbox'
      PROVE  /\ planner.source <= outbox'[i].revision
             /\ outbox'[i].revision <= Newest
             /\ outbox'[i].kind = "Completed" => outbox'[i].revision <= done'
  <2>1. CASE i \in DOMAIN outbox /\ outbox'[i] = outbox[i]
    BY <1>3, <2>1, Typed DEF OutboxInv, Types
  <2>2. CASE i = Len(outbox) + 1 /\ outbox'[i] = a
    BY <2>2 DEF Fits
  <2>. QED  BY <1>2, <2>1, <2>2
<1>6. ASSUME NEW i \in DOMAIN outbox'
      PROVE  /\ busy' # None => outbox'[i].revision <= busy'
             /\ wanted' > done' => outbox'[i].revision <= wanted'
  <2>1. outbox'[i].revision \in Int /\ outbox'[i].revision <= a.revision
    BY <1>4
  <2>2. busy' # None => outbox'[i].revision <= busy'
    BY <1>1, <2>1
  <2>3. wanted' > done' => outbox'[i].revision <= wanted'
    BY <1>1, <2>1
  <2>. QED  BY <2>2, <2>3
<1>7. ASSUME NEW i \in DOMAIN outbox', NEW j \in DOMAIN outbox', i <= j
      PROVE  outbox'[i].revision <= outbox'[j].revision
  <2>1. CASE outbox'[j] = a
    BY <1>4, <2>1
  <2>2. CASE j \in DOMAIN outbox /\ outbox'[j] = outbox[j]
    <3>1. i \in DOMAIN outbox /\ outbox'[i] = outbox[i]
      BY <1>2, <1>7, <2>2
    <3>. QED  BY <1>7, <2>2, <3>1 DEF OutboxInv
  <2>. QED  BY <1>2, <2>1, <2>2
<1>. QED  BY <1>2, <1>5, <1>6, <1>7 DEF OutboxInv

(* What a worker's step has to show                                         *)
LEMMA WorkerStep ==
  ASSUME IInv, UNCHANGED others, UNCHANGED feedVars,
         /\ open' \in BOOLEAN /\ wanted' \in OptionalRevision
         /\ busy' \in OptionalRevision /\ done' \in OptionalRevision
         /\ outbox' \in Seq(Answers)
         /\ resets' = resets /\ attempts' \subseteq Revisions /\ reactive' = reactive,
         BehindInv', OutboxInv', AttemptsInv', published.complete
  PROVE  IInv'
<1>. USE DEF IInv, others, tickVars, feedVars
<1>1. TypeOK'
  BY DEF TypeOK
<1>2. SeenInv' /\ CompleteInv' /\ ModeInv' /\ UsableLineIsRecent'
  BY DEF SeenInv, CompleteInv, ModeInv, UsableLineIsRecent
<1>. QED  BY <1>1, <1>2

LEMMA SolverTurnKeeps == IInv /\ SolverTurn => IInv'
<1>. SUFFICES ASSUME IInv, SolverTurn PROVE IInv'
  OBVIOUS
<1>. USE DEF IInv, SolverTurn, Worker!TurnTo, others, tickVars, feedVars
<1>. DEFINE a == Worker!Answer("Started", wanted)
<1>1. /\ wanted \in Int /\ done \in Int /\ busy \in Int /\ -1 <= done
      /\ planner.source \in Int /\ planner.attempted \in Int
  BY Typed DEF Types
<1>2. wanted \in Revisions
  BY <1>1 DEF TypeOK, OptionalRevision, None
<1>3. a \in Answers /\ a.revision = wanted /\ a.kind = "Started"
  BY <1>2 DEF Worker!Answer, Answers
<1>4. /\ busy' = wanted /\ outbox' = Append(outbox, a) /\ UNCHANGED <<open, wanted, done>>
      /\ attempts' = attempts \cup {wanted} /\ wanted > done /\ busy = None
  BY DEF Worker!None, None
<1>5. Newest' = Newest /\ planner' = planner
  BY DEF Newest
<1>. HIDE DEF a
<1>6. Fits(a)
  <2>1. planner.source <= wanted /\ wanted <= Newest
    BY <1>1 DEF BehindInv
  <2>2. \A i \in DOMAIN outbox : outbox[i].revision <= wanted
    BY <1>4 DEF OutboxInv
  <2>. QED  BY <1>3, <2>1, <2>2 DEF Fits
<1>7. OutboxInv' /\ outbox' \in Seq(Answers)
  BY <1>1, <1>3, <1>4, <1>5, <1>6, AnswerKeepsOrder
<1>8. BehindInv'
  BY <1>1, <1>4, <1>5 DEF BehindInv
<1>9. AttemptsInv'
  BY <1>4, <1>5 DEF AttemptsInv
<1>10. attempts' \subseteq Revisions /\ busy' \in OptionalRevision
  BY <1>2, <1>4 DEF TypeOK, OptionalRevision
<1>11. published.complete
  BY <1>1, <1>4 DEF CompleteInv, None
<1>. QED  BY <1>4, <1>7, <1>8, <1>9, <1>10, <1>11, WorkerStep DEF TypeOK

LEMMA SolverSucceedsKeeps == IInv /\ SolverSucceeds => IInv'
<1>. SUFFICES ASSUME IInv, SolverSucceeds PROVE IInv'
  OBVIOUS
<1>. USE DEF IInv, SolverSucceeds, Worker!Succeed, others, tickVars, feedVars, history
<1>. DEFINE a == Worker!Answer("Completed", busy)
<1>1. /\ wanted \in Int /\ done \in Int /\ busy \in Int /\ -1 <= done
      /\ planner.source \in Int /\ Newest \in Int
  BY Typed DEF Types
<1>2. /\ busy # None /\ busy' = None /\ done' = busy /\ outbox' = Append(outbox, a)
      /\ UNCHANGED <<open, wanted, attempts>>
  BY DEF Worker!None, None
<1>3. busy \in Revisions
  BY <1>2 DEF TypeOK, OptionalRevision
<1>4. a \in Answers /\ a.revision = busy /\ a.kind = "Completed"
  BY <1>3 DEF Worker!Answer, Answers
<1>5. Newest' = Newest /\ planner' = planner
  BY DEF Newest
<1>. HIDE DEF a
<1>6. done < busy /\ busy <= wanted /\ planner.source <= done /\ wanted <= Newest
  BY <1>2 DEF BehindInv
<1>7. Fits(a)
  <2>1. planner.source <= busy /\ busy <= Newest
    BY <1>1, <1>6
  <2>2. \A i \in DOMAIN outbox : outbox[i].revision <= busy
    BY <1>2 DEF OutboxInv
  <2>. QED  BY <1>4, <2>1, <2>2 DEF Fits
<1>8. OutboxInv' /\ outbox' \in Seq(Answers)
  <2>1. done <= done' /\ done' \in Int /\ a.revision <= done' /\ a.revision <= wanted'
    BY <1>1, <1>2, <1>4, <1>6
  <2>. QED  BY <1>1, <1>2, <1>4, <1>5, <1>7, <2>1, AnswerKeepsOrder
<1>9. BehindInv'
  <2>1. planner.source <= busy /\ None <= wanted
    BY <1>1, <1>6 DEF None
  <2>. QED  BY <1>2, <1>5, <1>6, <2>1 DEF BehindInv
<1>10. AttemptsInv'
  <2>1. wanted > busy => wanted > done
    BY <1>1, <1>6
  <2>2. wanted > busy => busy # wanted
    BY <1>1
  <2>. QED  BY <1>2, <1>5, <2>1, <2>2 DEF AttemptsInv
<1>11. published.complete
  BY <1>2 DEF CompleteInv
<1>12. busy' \in OptionalRevision /\ done' \in OptionalRevision
  BY <1>2 DEF TypeOK, OptionalRevision
<1>. QED  BY <1>2, <1>8, <1>9, <1>10, <1>11, <1>12, WorkerStep DEF TypeOK

LEMMA SolverFailsKeeps == IInv /\ SolverFails => IInv'
<1>. SUFFICES ASSUME IInv, SolverFails PROVE IInv'
  OBVIOUS
<1>. USE DEF IInv, SolverFails, Worker!Fail, others, tickVars, feedVars, history
<1>. DEFINE a == Worker!Answer("Failed", busy)
<1>1. /\ wanted \in Int /\ done \in Int /\ busy \in Int /\ -1 <= done
      /\ planner.source \in Int /\ Newest \in Int
  BY Typed DEF Types
<1>2. /\ busy # None /\ busy' = None /\ done' = done /\ outbox' = Append(outbox, a)
      /\ wanted' \in {wanted, done} /\ (wanted = busy => wanted' = done)
      /\ (wanted # busy => wanted' = wanted)
      /\ UNCHANGED <<open, attempts>>
  BY DEF Worker!None, None
<1>3. busy \in Revisions
  BY <1>2 DEF TypeOK, OptionalRevision
<1>4. a \in Answers /\ a.revision = busy /\ a.kind = "Failed"
  BY <1>3 DEF Worker!Answer, Answers
<1>5. Newest' = Newest /\ planner' = planner
  BY DEF Newest
<1>. HIDE DEF a
<1>6. done < busy /\ busy <= wanted /\ planner.source <= done /\ wanted <= Newest
  BY <1>2 DEF BehindInv
<1>7. Fits(a)
  <2>1. planner.source <= busy /\ busy <= Newest
    BY <1>1, <1>6
  <2>2. \A i \in DOMAIN outbox : outbox[i].revision <= busy
    BY <1>2 DEF OutboxInv
  <2>. QED  BY <1>4, <2>1, <2>2 DEF Fits
<1>8. /\ wanted' > done' => wanted' = wanted /\ busy # wanted /\ busy <= wanted'
      /\ wanted' \in Int /\ done' <= wanted' /\ wanted' <= Newest /\ None <= wanted'
  BY <1>1, <1>2, <1>6 DEF None
<1>9. OutboxInv' /\ outbox' \in Seq(Answers)
  <2>1. done <= done' /\ done' \in Int
    BY <1>1, <1>2
  <2>. QED  BY <1>2, <1>4, <1>5, <1>7, <1>8, <2>1, AnswerKeepsOrder
<1>10. BehindInv'
  BY <1>2, <1>5, <1>6, <1>8 DEF BehindInv
<1>11. AttemptsInv'
  BY <1>2, <1>5, <1>8 DEF AttemptsInv
<1>12. published.complete
  BY <1>2 DEF CompleteInv
<1>13. busy' \in OptionalRevision /\ wanted' \in OptionalRevision
  BY <1>2 DEF TypeOK, OptionalRevision
<1>. QED  BY <1>2, <1>9, <1>10, <1>11, <1>12, <1>13, WorkerStep DEF TypeOK

-----------------------------------------------------------------------------
(* The tick's map is asked for: it is newer than all that was asked before, *)
(* or was attempted already.                                                *)
LEMMA EnsureRacelineKeeps == IInv /\ EnsureRaceline => IInv'
<1>. SUFFICES ASSUME IInv, EnsureRaceline PROVE IInv'
  OBVIOUS
<1>. USE DEF IInv, EnsureRaceline, feedVars, history
<1>. DEFINE rev == seen.revision
            p == AdvanceForMapRevision(planner, rev)
<1>1. /\ phase = "ensure" /\ phase' = "decide" /\ seen' = seen /\ published' = published
      /\ attempts' = attempts /\ marked' = marked
      /\ UNCHANGED <<crossed, locConf, supervisor, driveMode, resets>>
  OBVIOUS
<1>2. Newest' = Newest
  BY <1>1 DEF Newest
<1>3. SeenInv' /\ ModeInv'
  BY <1>1 DEF SeenInv, ModeInv
<1>4. CASE ~seen.complete
  <2>1. planner' = planner /\ UNCHANGED workerVars
    BY <1>4
  <2>2. TypeOK'
    BY <1>1, <2>1 DEF TypeOK, workerVars, Phases
  <2>3. BehindInv' /\ OutboxInv' /\ CompleteInv' /\ AttemptsInv'
    BY <1>1, <1>2, <2>1, <2>2, PlannerUntouched, Typed DEF Types
  <2>4. UsableLineIsRecent'
    BY <1>1, <1>4 DEF UsableLineIsRecent
  <2>. QED  BY <1>3, <2>2, <2>3, <2>4
<1>5. CASE seen.complete
  <2>1. /\ planner \in Planners /\ rev \in Revisions /\ rev \in Int /\ Newest = rev
        /\ published.complete
    <3>1. planner \in Planners
      BY DEF TypeOK
    <3>2. rev \in Revisions /\ published.complete
      BY <1>5, Typed DEF Types, SeenInv
    <3>. QED  BY <1>5, <3>1, <3>2 DEF Newest, Revisions
  <2>2. planner.source <= rev /\ planner.availability # "MapRevisionInconsistent"
    BY <2>1 DEF BehindInv
  <2>3. /\ p \in Planners /\ p.source = planner.source /\ p.attempted = planner.attempted
        /\ p.availability # "MapRevisionInconsistent" /\ Recent(p, rev)
    BY <2>1, <2>2, AdvanceSound
  <2>. DEFINE q == Attempted(p, rev)
  <2>4. /\ q \in Planners /\ q.source = planner.source
        /\ q.availability # "MapRevisionInconsistent"
        /\ planner.attempted <= q.attempted /\ rev <= q.attempted
        /\ q.attempted \in {planner.attempted, rev} /\ Recent(q, rev)
    BY <2>1, <2>3, AttemptSound DEF Recent, HasUsableLine
  <2>5. \/ planner' \in {p, q} /\ UNCHANGED workerVars
        \/ /\ ShouldAttempt(p, rev) /\ Worker!Ask(rev) /\ planner' = q
    <3>1. CASE ~ShouldAttempt(p, rev)
      BY <1>5, <3>1
    <3>2. CASE ShouldAttempt(p, rev)
      <4>1. Submit(p, rev)
        BY <1>5, <3>2
      <4>. QED  BY <3>2, <4>1 DEF Submit
    <3>. QED  BY <3>1, <3>2
  <2>. HIDE DEF p, q, rev
  <2>6. /\ planner' \in Planners /\ planner'.source = planner.source
        /\ planner'.availability # "MapRevisionInconsistent"
        /\ planner'.attempted \in {planner.attempted, rev}
        /\ planner.attempted <= planner'.attempted
        /\ Recent(planner', rev)
    <3>1. planner.attempted <= planner.attempted
      BY Typed DEF Types
    <3>. QED  BY <2>3, <2>4, <2>5, <3>1
  <2>7. UsableLineIsRecent'
    BY <1>1, <2>6 DEF UsableLineIsRecent, Recent, rev
  <2>8. /\ wanted \in Int /\ busy \in Int /\ done \in Int /\ planner.attempted \in Int
        /\ planner.source \in Int /\ planner'.attempted \in Int
        /\ \A i \in DOMAIN outbox : outbox[i].revision \in Int
        /\ \A r \in attempts : r \in Int
    <3>1. attempts \subseteq Revisions
      BY DEF TypeOK
    <3>2. \A r \in attempts : r \in Int
      BY <3>1 DEF Revisions
    <3>3. planner'.attempted \in Int
      BY <2>1, <2>6, Typed DEF Types
    <3>. QED  BY <3>2, <3>3, Typed DEF Types
  <2>9. CASE UNCHANGED workerVars
    <3>. USE <2>9 DEF workerVars
    <3>1. TypeOK'
      BY <1>1, <2>6 DEF TypeOK, Phases
    <3>2. BehindInv'
      BY <1>2, <2>1, <2>6, <2>8 DEF BehindInv
    <3>3. OutboxInv' /\ CompleteInv'
      BY <1>1, <1>2, <2>6 DEF OutboxInv, CompleteInv
    <3>4. AttemptsInv'
      BY <1>1, <2>6, <2>8 DEF AttemptsInv
    <3>. QED  BY <1>3, <2>7, <3>1, <3>2, <3>3, <3>4
  <2>10. CASE ShouldAttempt(p, rev) /\ Worker!Ask(rev) /\ planner' = q
    <3>1. /\ rev > wanted /\ wanted' = rev /\ UNCHANGED <<open, busy, done, outbox>>
      BY <2>10 DEF Worker!Ask, Worker!CanAsk
    <3>2. rev # planner.attempted /\ planner.attempted <= rev
      BY <2>1, <2>3, <2>10 DEF ShouldAttempt, BehindInv
    <3>3. planner'.attempted = rev
      BY <2>1, <2>4, <2>8, <2>10, <3>2
    <3>4. TypeOK'
      BY <1>1, <2>1, <2>6, <3>1 DEF TypeOK, Phases, OptionalRevision
    <3>5. BehindInv'
      BY <1>2, <2>1, <2>6, <2>8, <3>1, <3>3 DEF BehindInv
    <3>6. OutboxInv'
      BY <1>2, <2>1, <2>6, <3>1 DEF OutboxInv
    <3>7. CompleteInv'
      BY <1>1, <2>1 DEF CompleteInv
    <3>8. AttemptsInv'
      <4>1. \A r \in attempts : r <= rev /\ r # rev
        BY <2>1, <2>8, <3>2 DEF AttemptsInv
      <4>. QED  BY <1>1, <2>1, <3>1, <3>3, <4>1 DEF AttemptsInv
    <3>. QED  BY <1>3, <2>7, <3>4, <3>5, <3>6, <3>7, <3>8
  <2>. QED  BY <2>5, <2>9, <2>10
<1>. QED  BY <1>4, <1>5, Typed DEF Types

-----------------------------------------------------------------------------
LEMMA StepKeepsIInv == IInv /\ [Next]_vars => IInv'
<1>. SUFFICES ASSUME IInv, [Next]_vars PROVE IInv'
  OBVIOUS
<1>1. CASE Next
  BY <1>1, BeginTickKeeps, ReadMapKeeps, DrainEventKeeps, DrainDoneKeeps,
     EnsureRacelineKeeps, DecideKeeps, ResetKeeps, SolverTurnKeeps,
     SolverSucceedsKeeps, SolverFailsKeeps, MapperPublishesKeeps DEF Next
<1>2. CASE UNCHANGED vars
  <2>1. TypeOK'
    BY <1>2 DEF IInv, TypeOK, vars, tickVars, feedVars, workerVars, history
  <2>2. Newest' = Newest
    BY <1>2 DEF Newest, vars, tickVars, feedVars
  <2>3. SeenInv' /\ ModeInv' /\ UsableLineIsRecent'
    BY <1>2 DEF IInv, SeenInv, ModeInv, UsableLineIsRecent, vars, tickVars, feedVars, history
  <2>4. BehindInv' /\ OutboxInv' /\ CompleteInv' /\ AttemptsInv'
    BY <1>2, <2>2 DEF IInv, BehindInv, OutboxInv, CompleteInv, AttemptsInv, vars, feedVars,
                      workerVars, history
  <2>. QED  BY <2>1, <2>3, <2>4 DEF IInv
<1>. QED  BY <1>1, <1>2

(* Everything the control thread, the two workers and the map between them  *)
(* hold keeps its type, however they interleave and whenever the pipeline   *)
(* is reset.                                                                *)
THEOREM TypeCorrect == Spec => []TypeOK
<1>1. IInv => TypeOK
  BY DEF IInv
<1>. QED  BY <1>1, InitIInv, StepKeepsIInv, PTL DEF Spec

(* No line is ever for a map newer than the published one, and none is      *)
(* found to be: StaleReason::MapRevisionInconsistent (pipeline.rs:218) is   *)
(* unreachable, for every number of revisions and resets.                   *)
THEOREM LinesStayBehindTheMap == Spec => []LineNeverAheadOfMap
<1>1. IInv => LineNeverAheadOfMap
  BY Typed DEF IInv, Types, LineNeverAheadOfMap, BehindInv, SeenInv, Newest
<1>. QED  BY <1>1, InitIInv, StepKeepsIInv, PTL DEF Spec

(* A line that may be driven is the tick's map's own, or within all three   *)
(* limits of the stale policy, whatever the limits (pipeline.rs:284).       *)
THEOREM DrivenLinesAreRecent == Spec => []UsableLineIsRecent
<1>1. IInv => UsableLineIsRecent
  BY DEF IInv
<1>. QED  BY <1>1, InitIInv, StepKeepsIInv, PTL DEF Spec

(* The race line is driven only with a line in hand, on a complete map and  *)
(* after the laps and the dwell asked for, over fallbacks and resets too     *)
(* (pipeline.rs:383, supervisor/mod.rs:203).                                *)
THEOREM RaceLineHasToBeEarned == Spec => []RaceLineIsEarned
<1>1. IInv => RaceLineIsEarned
  BY DEF IInv, RaceLineIsEarned, ModeInv, SeenInv
<1>. QED  BY <1>1, InitIInv, StepKeepsIInv, PTL DEF Spec

(* Between two resets the solver turns to no revision twice, also not to    *)
(* one it failed on (pipeline.rs:202).                                      *)
THEOREM NoRevisionIsSolvedTwice == Spec => SolvedAtMostOnce
<1>1. IInv /\ [Next]_vars =>
        [(busy' # busy /\ busy' # None) => busy' \notin attempts]_vars
  <2>. SUFFICES ASSUME IInv, [Next]_vars, busy' # busy, busy' # None
                PROVE  busy' \notin attempts
    OBVIOUS
  <2>1. SolverTurn
    <3>1. Next
      BY DEF vars, workerVars
    <3>2. ~(BeginTick \/ ReadMap \/ DrainDone \/ Decide \/ MapperPublishes)
      BY DEF BeginTick, ReadMap, DrainDone, Decide, MapperPublishes, workerVars
    <3>3. ~DrainEvent
      BY DEF DrainEvent, Worker!Read
    <3>4. ~EnsureRaceline
      BY DEF EnsureRaceline, Submit, Worker!Ask, workerVars
    <3>5. ~(Reset \/ SolverSucceeds \/ SolverFails)
      BY DEF Reset, SolverSucceeds, SolverFails, Worker!Succeed, Worker!Fail, Worker!None, None
    <3>. QED  BY <3>1, <3>2, <3>3, <3>4, <3>5 DEF Next
  <2>2. busy = None /\ wanted > done /\ busy' = wanted
    BY <2>1 DEF SolverTurn, Worker!TurnTo, Worker!None, None
  <2>. QED  BY <2>2 DEF IInv, AttemptsInv
<1>. QED  BY <1>1, InitIInv, StepKeepsIInv, PTL DEF Spec, SolvedAtMostOnce
=============================================================================
