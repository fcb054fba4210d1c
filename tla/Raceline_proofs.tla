-------------------------- MODULE Raceline_proofs --------------------------
(***************************************************************************)
(* Proofs about the race-line thread.  For every bound on the revisions    *)
(* and on the unread events, the worker keeps its revisions in order,      *)
(* loses no wakeup, sends events that are true and implements LatestWins.  *)
(* Of what it computes, for every grid: the distance transform gives every *)
(* cell the distance to its nearest site, and so does the solver; cleaning *)
(* the map leaves thick obstacles in place; the contour between the walls  *)
(* is closed and stays in free cells; the speeds of a line can be driven.  *)
(***************************************************************************)
EXTENDS RacelineWorker, Solver, SequenceTheorems, FiniteSetTheorems,
        WellFoundedInduction, TLAPS

(* What ties the worker thread's place in its loop to SharedState and to    *)
(* the owner of the handle.                                                 *)
ThreadInv ==
  /\ solving # None <=> worker \in {"announce", "solve"}
  /\ worker \in {"announce", "solve"} => job = solving
  /\ worker \in {"report_ok", "report_err"} => job \in Revisions
  /\ worker = "exited" => shutdown
  /\ shutdown = (caller # "idle")
  /\ shutdown => pending = None

EventSet == [kind : {"Started", "Completed", "Failed"}, revision : Revisions]

IInv == TypeOK /\ RevisionOrder /\ NoLostWakeup /\ ThreadInv

USE DEF None, Revisions

-----------------------------------------------------------------------------
(* The initial state satisfies the inductive invariant.                     *)
LEMMA InitIInv == Init => IInv
<1> SUFFICES ASSUME Init PROVE IInv
  OBVIOUS
<1>1. TypeOK
  <2>1. events \in Seq(EventSet)
    BY DEF Init
  <2>2. QED
    BY <2>1 DEF Init, TypeOK, WorkerStates, CallerStates, EventSet
<1>2. RevisionOrder /\ NoLostWakeup
  BY DEF Init, RevisionOrder, NoLostWakeup
<1>3. ThreadInv
  BY DEF Init, ThreadInv
<1>4. QED
  BY <1>1, <1>2, <1>3 DEF IInv

(* Every critical section of the caller and of the worker thread preserves  *)
(* the inductive invariant.                                                 *)
LEMMA StepIInv == IInv /\ [Next]_vars => IInv'
<1> SUFFICES ASSUME IInv, [Next]_vars PROVE IInv'
  OBVIOUS
<1> USE BoundsAssumption
    DEF IInv, TypeOK, RevisionOrder, NoLostWakeup, ThreadInv, WorkerStates,
        CallerStates, Event, shared
<1>1. ASSUME NEW r \in Revisions, Submit(r) PROVE IInv'
  BY <1>1 DEF Submit, Wake, IsDuplicate, IsOutdated
<1>2. CASE PollEvent
  <2> events \in Seq(EventSet) /\ events # <<>>
    BY <1>2 DEF PollEvent, EventSet
  <2>1. Head(events) \in EventSet /\ Tail(events) \in Seq(EventSet)
    BY HeadTailProperties
  <2>2. delivered' \in Revisions \cup {None}
    BY <1>2, <2>1 DEF PollEvent, EventSet
  <2>3. QED
    BY <1>2, <2>1, <2>2 DEF PollEvent, EventSet
<1>3. CASE BeginShutdown
  BY <1>3 DEF BeginShutdown, Wake
<1>4. CASE Join
  BY <1>4 DEF Join
<1>5. CASE Park
  BY <1>5 DEF Park
<1>6. CASE SpuriousWake
  BY <1>6 DEF SpuriousWake
<1>7. CASE Exit
  BY <1>7 DEF Exit
<1>8. CASE Take
  BY <1>8 DEF Take
<1>9. CASE Announce
  BY <1>9 DEF Announce
<1>10. CASE SolveOk
  BY <1>10 DEF SolveOk
<1>11. CASE SolveErr
  BY <1>11 DEF SolveErr
<1>12. CASE Report
  BY <1>12 DEF Report
<1>13. CASE UNCHANGED vars
  BY <1>13 DEF vars
<1>14. QED
  BY <1>1, <1>2, <1>3, <1>4, <1>5, <1>6, <1>7, <1>8, <1>9, <1>10, <1>11,
     <1>12, <1>13 DEF Next

(* The inductive invariant holds in every reachable state.                  *)
THEOREM Invariance == Spec => []IInv
  BY InitIInv, StepIInv, PTL DEF Spec

(* Type correctness of the worker, its handle and its channel.              *)
THEOREM TypeCorrect == Spec => []TypeOK
<1>1. IInv => TypeOK
  BY DEF IInv
<1>2. QED
  BY <1>1, Invariance, PTL

(* No map revision is solved after, or waits behind, a newer one.           *)
THEOREM RevisionsStayOrdered == Spec => []RevisionOrder
<1>1. IInv => RevisionOrder
  BY DEF IInv
<1>2. QED
  BY <1>1, Invariance, PTL

(* The worker thread never sleeps on a pending map or on a shutdown.        *)
THEOREM NoWakeupIsLost == Spec => []NoLostWakeup
<1>1. IInv => NoLostWakeup
  BY DEF IInv
<1>2. QED
  BY <1>1, Invariance, PTL

-----------------------------------------------------------------------------
(* The worker's initial state is an initial state of LatestWins.            *)
LEMMA InitRefines == Init => LW!Init
  BY DEF Init, LW!Init, LW!None, Goal, InFlight

(* Reading the oldest event commutes with the event still to be sent.       *)
LEMMA TailOfAppend ==
  ASSUME NEW S, NEW s \in Seq(S), s # <<>>, NEW e \in S
  PROVE  Tail(Append(s, e)) = Append(Tail(s), e) /\ Append(s, e) # <<>>
  OBVIOUS

(* Every step of the worker or of its owner is a step of LatestWins, or     *)
(* leaves what LatestWins sees unchanged.                                   *)
LEMMA StepRefines == IInv /\ [Next]_vars => [LW!Next]_LW!vars
<1> SUFFICES ASSUME IInv, [Next]_vars PROVE [LW!Next]_LW!vars
  OBVIOUS
<1> USE BoundsAssumption DEF IInv, ThreadInv, RevisionOrder, TypeOK, shared
<1>1. ASSUME NEW r \in Revisions, Submit(r) PROVE LW!Next
  <2>1. InFlight' = InFlight
    BY <1>1 DEF Submit, Wake, InFlight
  <2>2. LW!Ask(r)
    BY <1>1, <2>1 DEF Submit, IsDuplicate, IsOutdated, Goal, LW!Ask, LW!CanAsk
  <2>3. QED
    BY <2>2 DEF LW!Next, LW!Revisions
<1>2. CASE PollEvent
  <2>1. events \in Seq(EventSet) /\ events # <<>> /\ events' = Tail(events)
    BY <1>2 DEF PollEvent, EventSet
  <2>2. worker' = worker /\ job' = job
    BY <1>2 DEF PollEvent
  <2>3. worker \in {"announce", "report_ok", "report_err"} => job \in Revisions
    OBVIOUS
  <2>4. InFlight # <<>> /\ InFlight' = Tail(InFlight)
    <3>1. CASE worker = "announce"
      <4>1. Event("Started", job) \in EventSet
        BY <3>1, <2>3 DEF Event, EventSet
      <4>2. /\ InFlight = Append(events, Event("Started", job))
            /\ InFlight' = Append(events', Event("Started", job))
        BY <3>1, <2>2 DEF InFlight
      <4>3. /\ Tail(Append(events, Event("Started", job)))
               = Append(Tail(events), Event("Started", job))
            /\ Append(events, Event("Started", job)) # <<>>
        BY <4>1, <2>1, TailOfAppend, Zenon
      <4>4. QED
        BY <2>1, <4>2, <4>3, Zenon
    <3>2. CASE worker = "report_ok"
      <4>1. Event("Completed", job) \in EventSet
        BY <3>2, <2>3 DEF Event, EventSet
      <4>2. /\ InFlight = Append(events, Event("Completed", job))
            /\ InFlight' = Append(events', Event("Completed", job))
        BY <3>2, <2>2 DEF InFlight
      <4>3. /\ Tail(Append(events, Event("Completed", job)))
               = Append(Tail(events), Event("Completed", job))
            /\ Append(events, Event("Completed", job)) # <<>>
        BY <4>1, <2>1, TailOfAppend, Zenon
      <4>4. QED
        BY <2>1, <4>2, <4>3, Zenon
    <3>3. CASE worker = "report_err"
      <4>1. Event("Failed", job) \in EventSet
        BY <3>3, <2>3 DEF Event, EventSet
      <4>2. /\ InFlight = Append(events, Event("Failed", job))
            /\ InFlight' = Append(events', Event("Failed", job))
        BY <3>3, <2>2 DEF InFlight
      <4>3. /\ Tail(Append(events, Event("Failed", job)))
               = Append(Tail(events), Event("Failed", job))
            /\ Append(events, Event("Failed", job)) # <<>>
        BY <4>1, <2>1, TailOfAppend, Zenon
      <4>4. QED
        BY <2>1, <4>2, <4>3, Zenon
    <3>4. CASE worker \notin {"announce", "report_ok", "report_err"}
      BY <3>4, <2>1, <2>2 DEF InFlight
    <3>5. QED
      BY <3>1, <3>2, <3>3, <3>4
  <2>5. LW!Read
    BY <1>2, <2>4 DEF PollEvent, Goal, LW!Read
  <2>6. QED
    BY <2>5 DEF LW!Next
<1>3. CASE BeginShutdown
  <2>1. InFlight' = InFlight
    BY <1>3 DEF BeginShutdown, Wake, InFlight
  <2>2. LW!Close
    BY <1>3, <2>1 DEF BeginShutdown, Goal, LW!Close, LW!None
  <2>3. QED
    BY <2>2 DEF LW!Next
<1>4. CASE Take
  <2>1. InFlight' = Append(events, Event("Started", pending))
    BY <1>4 DEF Take, InFlight
  <2>2. InFlight = events
    BY <1>4 DEF Take, InFlight
  <2>3. LW!TurnTo
    BY <1>4, <2>1, <2>2 DEF Take, Goal, Event, LW!TurnTo, LW!Answer, LW!None
  <2>4. QED
    BY <2>3 DEF LW!Next
<1>5. CASE SolveOk
  <2>1. InFlight' = Append(events, Event("Completed", job)) /\ InFlight = events
    BY <1>5 DEF SolveOk, InFlight
  <2>2. LW!Succeed
    BY <1>5, <2>1 DEF SolveOk, Goal, Event, LW!Succeed, LW!Answer, LW!None
  <2>3. QED
    BY <2>2 DEF LW!Next
<1>6. CASE SolveErr
  <2>1. InFlight' = Append(events, Event("Failed", job)) /\ InFlight = events
    BY <1>6 DEF SolveErr, InFlight
  <2>2. LW!Fail
    BY <1>6, <2>1 DEF SolveErr, Goal, Event, LW!Fail, LW!Answer, LW!None
  <2>3. QED
    BY <2>2 DEF LW!Next
<1>7. CASE Announce \/ Report
  <2>1. InFlight' = InFlight
    BY <1>7 DEF Announce, Report, InFlight
  <2>2. QED
    BY <1>7, <2>1 DEF Announce, Report, Goal, LW!vars
<1>8. CASE Join \/ Park \/ SpuriousWake \/ Exit \/ UNCHANGED vars
  <2>1. InFlight' = InFlight
    BY <1>8 DEF Join, Park, SpuriousWake, Exit, vars, InFlight
  <2>2. QED
    BY <1>8, <2>1
    DEF Join, Park, SpuriousWake, Exit, vars, Goal, LW!vars
<1>9. QED
  BY <1>1, <1>2, <1>3, <1>4, <1>5, <1>6, <1>7, <1>8 DEF Next

(* The planner worker implements the latest-wins server.                    *)
THEOREM WorkerImplementsLatestWins == Spec => ImplementsLatestWins
<1>1. QED
  BY InitRefines, StepRefines, Invariance, PTL
  DEF Spec, ImplementsLatestWins, LW!Spec
-----------------------------------------------------------------------------
(* The truth of the channel.  For a sequence of events still to be read, the *)
(* newest success that was read and the newest one recorded:                 *)
Paired(s) ==
  \A i \in 2 .. Len(s) :
    IF s[i].kind = "Started" THEN s[i - 1].kind # "Started"
    ELSE s[i - 1] = Event("Started", s[i].revision)
Rising(s) ==
  \A i, j \in 1 .. Len(s) :
    i < j /\ s[i].kind = "Completed" /\ s[j].kind = "Completed"
      => s[i].revision < s[j].revision
Between(s, d, c) ==
  \A i \in 1 .. Len(s) :
    s[i].kind = "Completed" => d < s[i].revision /\ s[i].revision <= c

(* The newest success recorded was read, or is still to be read: EventsFaithful *)
(* alone does not say so while another success is in front of it.               *)
Kept(s, d, c) ==
  d = c \/ \E i \in 1 .. Len(s) : s[i].kind = "Completed" /\ s[i].revision = c
Truthful(s, d, c) == Paired(s) /\ Rising(s) /\ Between(s, d, c) /\ Kept(s, d, c)

(* How the last event fits to where the thread is.                           *)
Ended(s)   == s # <<>> => s[Len(s)].kind # "Started"
Begun(s, r) == s # <<>> => s[Len(s)] = Event("Started", r)
LastInv ==
  /\ worker = "solve" => Begun(events, job)
  /\ worker \in {"top", "parked", "exited"} => Ended(events)

EventInv == Truthful(InFlight, delivered, completed) /\ LastInv

LEMMA TruthfulTail ==
  ASSUME NEW s \in Seq(EventSet), s # <<>>, NEW d \in Revisions \cup {None},
         NEW c \in Revisions \cup {None}, Truthful(s, d, c)
  PROVE  Truthful(Tail(s), IF Head(s).kind = "Completed" THEN Head(s).revision
                           ELSE d, c)
<1> DEFINE t == Tail(s)
           e == IF Head(s).kind = "Completed" THEN Head(s).revision ELSE d
<1>1. /\ Len(s) \in Nat \ {0} /\ t \in Seq(EventSet) /\ Len(t) = Len(s) - 1
      /\ Head(s) = s[1] /\ \A i \in 1 .. Len(s) : s[i] \in EventSet
  OBVIOUS
<1>2. \A i \in 1 .. Len(t) : i + 1 \in 2 .. Len(s) /\ t[i] = s[i + 1]
  BY <1>1
<1>3. Paired(t)
  <2> SUFFICES ASSUME NEW i \in 2 .. Len(t)
               PROVE  IF t[i].kind = "Started" THEN t[i - 1].kind # "Started"
                      ELSE t[i - 1] = Event("Started", t[i].revision)
    BY DEF Paired
  <2>1. i \in 1 .. Len(t) /\ i - 1 \in 1 .. Len(t) /\ i + 1 \in 2 .. Len(s)
        /\ (i + 1) - 1 = i /\ (i - 1) + 1 = i
    BY <1>1
  <2>2. t[i] = s[i + 1] /\ t[i - 1] = s[i]
    BY <2>1, <1>2
  <2>3. QED
    BY <2>1, <2>2 DEF Truthful, Paired
<1>4. Rising(t)
  <2> SUFFICES ASSUME NEW i \in 1 .. Len(t), NEW j \in 1 .. Len(t), i < j,
                      t[i].kind = "Completed", t[j].kind = "Completed"
               PROVE  t[i].revision < t[j].revision
    BY DEF Rising
  <2>1. t[i] = s[i + 1] /\ t[j] = s[j + 1] /\ i + 1 \in 1 .. Len(s)
        /\ j + 1 \in 1 .. Len(s) /\ (i < j => i + 1 < j + 1)
    BY <1>1, <1>2
  <2>2. QED
    BY <2>1 DEF Truthful, Rising
<1>5. Between(t, e, c)
  <2> SUFFICES ASSUME NEW i \in 1 .. Len(t), t[i].kind = "Completed"
               PROVE  e < t[i].revision /\ t[i].revision <= c
    BY DEF Between
  <2>1. t[i] = s[i + 1] /\ i + 1 \in 1 .. Len(s) /\ 1 \in 1 .. Len(s) /\ 1 < i + 1
    BY <1>1, <1>2
  <2>2. d < t[i].revision /\ t[i].revision <= c
    BY <2>1 DEF Truthful, Between
  <2>3. s[1].kind = "Completed" => s[1].revision < t[i].revision
    BY <2>1 DEF Truthful, Rising
  <2>4. QED
    BY <2>2, <2>3, <1>1
<1>6. Kept(t, e, c)
  <2>1. CASE d = c
    <3>1. s[1].kind = "Completed" => d < s[1].revision /\ s[1].revision <= c
      BY <1>1 DEF Truthful, Between
    <3>2. s[1].revision \in Int
      BY <1>1 DEF EventSet
    <3>3. s[1].kind # "Completed"
      BY <2>1, <3>1, <3>2
    <3>4. QED
      BY <2>1, <3>3, <1>1 DEF Kept
  <2>2. CASE d # c
    <3>1. PICK i \in 1 .. Len(s) : s[i].kind = "Completed" /\ s[i].revision = c
      BY <2>2 DEF Truthful, Kept
    <3>2. CASE i = 1
      BY <3>1, <3>2, <1>1 DEF Kept
    <3>3. CASE i # 1
      <4>1. i - 1 \in 1 .. Len(t) /\ (i - 1) + 1 = i
        BY <3>3, <1>1
      <4>2. t[i - 1] = s[i]
        BY <4>1, <1>2
      <4>3. QED
        BY <3>1, <4>1, <4>2 DEF Kept
    <3>4. QED
      BY <3>2, <3>3
  <2>3. QED
    BY <2>1, <2>2
<1>7. QED
  BY <1>3, <1>4, <1>5, <1>6 DEF Truthful

(* An event that starts nothing twice, or is the result of what was begun,   *)
(* may be given next; a success has to be the newest revision.               *)
LEMMA TruthfulAppend ==
  ASSUME NEW s \in Seq(EventSet), NEW d \in Revisions \cup {None},
         NEW c \in Revisions \cup {None}, NEW r \in Revisions,
         Truthful(s, d, c), NEW kind \in {"Started", "Completed", "Failed"},
         IF kind = "Started" THEN Ended(s) ELSE Begun(s, r),
         kind = "Completed" => c < r
  PROVE  Truthful(Append(s, Event(kind, r)), d,
                  IF kind = "Completed" THEN r ELSE c)
<1> DEFINE e == Event(kind, r)
           t == Append(s, e)
           n == IF kind = "Completed" THEN r ELSE c
<1>1. /\ Len(s) \in Nat /\ e \in EventSet /\ t \in Seq(EventSet)
      /\ \A i \in 1 .. Len(s) : s[i] \in EventSet /\ s[i].revision \in Int
      /\ e.kind = kind /\ e.revision = r
  <2>1. e \in EventSet /\ e.kind = kind /\ e.revision = r
    BY DEF Event, EventSet
  <2>2. \A i \in 1 .. Len(s) : s[i] \in EventSet
    OBVIOUS
  <2>3. \A x \in EventSet : x.revision \in Int
    BY BoundsAssumption DEF EventSet
  <2>4. QED
    BY <2>1, <2>2, <2>3
<1>2. Len(t) = Len(s) + 1 /\ t[Len(s) + 1] = e
      /\ \A i \in 1 .. Len(s) : t[i] = s[i]
  BY <1>1
<1> HIDE DEF e, t
<1>3. Paired(t)
  <2> SUFFICES ASSUME NEW i \in 2 .. Len(t)
               PROVE  IF t[i].kind = "Started" THEN t[i - 1].kind # "Started"
                      ELSE t[i - 1] = Event("Started", t[i].revision)
    BY DEF Paired
  <2>1. CASE i <= Len(s)
    <3>1. i \in 1 .. Len(s) /\ i - 1 \in 1 .. Len(s) /\ i \in 2 .. Len(s)
      <4>1. i \in Nat /\ 2 <= i /\ Len(s) \in Nat
        BY <1>1, <1>2
      <4>2. QED
        BY <4>1, <2>1
    <3>2. t[i] = s[i] /\ t[i - 1] = s[i - 1]
      <4>1. \A k \in 1 .. Len(s) : t[k] = s[k]
        BY <1>2
      <4>2. QED
        BY <3>1, <4>1, Zenon
    <3>3. QED
      BY <3>1, <3>2 DEF Truthful, Paired
  <2>2. CASE i = Len(s) + 1
    <3>1. t[i] = e /\ t[i - 1] = s[Len(s)] /\ s # <<>>
      BY <2>2, <1>1, <1>2
    <3>2. QED
      BY <3>1, <1>1 DEF Ended, Begun
  <2>3. QED
    BY <2>1, <2>2, <1>1, <1>2
<1>4. Between(t, d, n)
  <2> SUFFICES ASSUME NEW i \in 1 .. Len(t), t[i].kind = "Completed"
               PROVE  d < t[i].revision /\ t[i].revision <= n
    BY DEF Between
  <2>1. CASE i \in 1 .. Len(s)
    <3>1. t[i] = s[i] /\ d < s[i].revision /\ s[i].revision <= c
      BY <2>1, <1>2 DEF Truthful, Between
    <3>2. QED
      BY <2>1, <3>1, <1>1
  <2>2. CASE i = Len(s) + 1
    <3>1. t[i] = e /\ kind = "Completed" /\ n = r /\ c < r
      BY <2>2, <1>1, <1>2
    <3>2. d <= c
      <4>1. CASE d # c
        <5>1. PICK k \in 1 .. Len(s) : s[k].kind = "Completed" /\ s[k].revision = c
          BY <4>1 DEF Truthful, Kept
        <5>2. QED
          BY <5>1, <1>1 DEF Truthful, Between
      <4>2. QED
        BY <4>1
    <3>3. QED
      BY <3>1, <3>2, <1>1
  <2>3. QED
    BY <2>1, <2>2, <1>1, <1>2
<1>5. Rising(t)
  <2> SUFFICES ASSUME NEW i \in 1 .. Len(t), NEW j \in 1 .. Len(t), i < j,
                      t[i].kind = "Completed", t[j].kind = "Completed"
               PROVE  t[i].revision < t[j].revision
    BY DEF Rising
  <2>1. i \in 1 .. Len(s) /\ t[i] = s[i]
    BY <1>1, <1>2
  <2>2. CASE j \in 1 .. Len(s)
    BY <2>1, <2>2, <1>2 DEF Truthful, Rising
  <2>3. CASE j = Len(s) + 1
    <3>1. t[j] = e /\ kind = "Completed" /\ c < r
      BY <2>3, <1>1, <1>2
    <3>2. s[i].revision <= c
      BY <2>1 DEF Truthful, Between
    <3>3. QED
      BY <2>1, <3>1, <3>2, <1>1
  <2>4. QED
    BY <2>2, <2>3, <1>1, <1>2
<1>6. Kept(t, d, n)
  <2>1. CASE kind = "Completed"
    <3>1. Len(s) + 1 \in 1 .. Len(t)
      BY <1>1, <1>2
    <3>2. QED
      BY <2>1, <3>1, <1>1, <1>2 DEF Kept
  <2>2. CASE kind # "Completed" /\ d # c
    <3>1. PICK k \in 1 .. Len(s) : s[k].kind = "Completed" /\ s[k].revision = c
      BY <2>2 DEF Truthful, Kept
    <3>2. k \in 1 .. Len(t) /\ t[k] = s[k]
      BY <1>1, <1>2
    <3>3. QED
      BY <2>2, <3>1, <3>2 DEF Kept
  <2>3. CASE kind # "Completed" /\ d = c
    BY <2>3 DEF Kept
  <2>4. QED
    BY <2>1, <2>2, <2>3
<1>7. QED
  BY <1>3, <1>4, <1>5, <1>6 DEF Truthful, e, t

(* The reading of an event, seen from the events in flight.                  *)
LEMMA PollReadsInFlight ==
  ASSUME IInv, PollEvent
  PROVE  /\ InFlight \in Seq(EventSet) /\ InFlight # <<>>
         /\ InFlight' = Tail(InFlight) /\ Head(InFlight) = Head(events)
<1> USE DEF IInv, TypeOK, ThreadInv
<1>1. /\ events \in Seq(EventSet) /\ events # <<>> /\ events' = Tail(events)
      /\ worker' = worker /\ job' = job
  BY DEF PollEvent, EventSet
<1>2. ASSUME NEW kind \in {"Started", "Completed", "Failed"}, job \in Revisions,
             InFlight = Append(events, Event(kind, job)),
             InFlight' = Append(events', Event(kind, job))
      PROVE  /\ InFlight \in Seq(EventSet) /\ InFlight # <<>>
             /\ InFlight' = Tail(InFlight) /\ Head(InFlight) = Head(events)
  <2> DEFINE e == Event(kind, job)
  <2>1. e \in EventSet
    BY <1>2 DEF Event, EventSet
  <2> HIDE DEF e
  <2>2. Append(events, e) \in Seq(EventSet) /\ Head(Append(events, e)) = Head(events)
    BY <1>1, <2>1
  <2>3. Tail(Append(events, e)) = Append(Tail(events), e) /\ Append(events, e) # <<>>
    BY <1>1, <2>1, TailOfAppend
  <2>4. QED
    BY <1>1, <1>2, <2>2, <2>3 DEF e
<1>3. CASE worker = "announce"
  BY <1>1, <1>2, <1>3 DEF InFlight
<1>4. CASE worker = "report_ok"
  BY <1>1, <1>2, <1>4 DEF InFlight
<1>5. CASE worker = "report_err"
  BY <1>1, <1>2, <1>5 DEF InFlight
<1>6. CASE worker \notin {"announce", "report_ok", "report_err"}
  BY <1>1, <1>6 DEF InFlight
<1>7. QED
  BY <1>3, <1>4, <1>5, <1>6

LEMMA InitEventInv == Init => EventInv
  BY DEF Init, EventInv, InFlight, Truthful, Paired, Rising, Between, Kept,
         LastInv, Ended, Begun

(* Every step keeps the channel truthful.                                    *)
LEMMA StepEventInv == IInv /\ EventInv /\ [Next]_vars => EventInv'
<1> SUFFICES ASSUME IInv, EventInv, [Next]_vars PROVE EventInv'
  OBVIOUS
<1> USE DEF EventInv
<1>0. /\ events \in Seq(EventSet) /\ MaxRev \in Nat
      /\ delivered \in Revisions \cup {None} /\ completed \in Revisions \cup {None}
  BY BoundsAssumption DEF IInv, TypeOK, EventSet
<1>1. CASE UNCHANGED <<events, completed, delivered, job>>
           /\ InFlight' = InFlight
           /\ \/ worker' = worker
              \/ {worker, worker'} \subseteq {"top", "parked", "exited"}
  BY <1>1 DEF LastInv, Truthful, Kept, Between, Paired, Rising, Ended, Begun
<1>2. ASSUME NEW r \in Revisions, Submit(r) PROVE EventInv'
  BY <1>1, <1>2 DEF Submit, Wake, InFlight
<1>3. CASE BeginShutdown
  BY <1>1, <1>3 DEF BeginShutdown, Wake, InFlight
<1>4. CASE Join \/ Park \/ SpuriousWake \/ Exit
  BY <1>1, <1>4 DEF Join, Park, SpuriousWake, Exit, shared, InFlight
<1>5. CASE UNCHANGED vars
  BY <1>1, <1>5 DEF vars, InFlight
<1>6. CASE PollEvent
  <2>1. Truthful(InFlight, delivered, completed)'
    <3>1. delivered' = IF Head(InFlight).kind = "Completed"
                       THEN Head(InFlight).revision ELSE delivered
      BY <1>6, PollReadsInFlight DEF PollEvent
    <3>2. completed' = completed
      BY <1>6 DEF PollEvent, shared
    <3>3. Truthful(InFlight', delivered', completed')
      BY <1>0, <1>6, <3>1, <3>2, PollReadsInFlight, TruthfulTail
    <3>4. QED
      BY <3>3 DEF Truthful, Paired, Rising, Between, Kept
  <2>2. LastInv'
    <3>1. events # <<>> /\ events' = Tail(events) /\ worker' = worker /\ job' = job
      BY <1>6 DEF PollEvent
    <3>2. events' # <<>> => events'[Len(events')] = events[Len(events)]
      BY <1>0, <3>1
    <3>3. QED
      BY <3>1, <3>2 DEF LastInv, Ended, Begun
  <2>3. QED
    BY <2>1, <2>2
<1>7. CASE Take
  <2>1. /\ worker = "top" /\ worker' = "announce" /\ job' \in Revisions
        /\ InFlight = events /\ InFlight' = Append(events, Event("Started", job'))
        /\ UNCHANGED <<completed, delivered>>
    BY <1>7 DEF Take, InFlight, IInv, TypeOK
  <2>2. Ended(events)
    BY <2>1 DEF LastInv
  <2>3. Truthful(InFlight', delivered, completed)
    BY <1>0, <2>1, <2>2, TruthfulAppend
  <2>4. QED
    BY <2>1, <2>3 DEF LastInv, Truthful, Paired, Rising, Between, Kept
<1>8. CASE Announce
  <2>1. /\ InFlight' = InFlight /\ UNCHANGED <<completed, delivered, job>>
        /\ events' = Append(events, Event("Started", job)) /\ worker' = "solve"
    BY <1>8 DEF Announce, shared, InFlight
  <2>2. events'[Len(events')] = Event("Started", job)
    <3>1. Event("Started", job) \in EventSet
      BY <1>8 DEF Announce, Event, EventSet, IInv, ThreadInv, TypeOK
    <3>2. QED
      BY <1>0, <2>1, <3>1
  <2>3. QED
    BY <2>1, <2>2 DEF LastInv, Begun, Truthful, Paired, Rising, Between, Kept
<1>9. CASE SolveOk
  <2>1. /\ worker = "solve" /\ worker' = "report_ok" /\ job \in Revisions
        /\ completed < job /\ completed' = job
        /\ InFlight = events /\ InFlight' = Append(events, Event("Completed", job))
        /\ UNCHANGED delivered
    BY <1>9 DEF SolveOk, InFlight, IInv, ThreadInv, RevisionOrder, TypeOK
  <2>2. Begun(events, job)
    BY <2>1 DEF LastInv
  <2>3. Truthful(InFlight', delivered, completed')
    BY <1>0, <2>1, <2>2, TruthfulAppend
  <2>4. QED
    BY <2>1, <2>3 DEF LastInv, Truthful, Paired, Rising, Between, Kept
<1>10. CASE SolveErr
  <2>1. /\ worker = "solve" /\ worker' = "report_err" /\ job \in Revisions
        /\ InFlight = events /\ InFlight' = Append(events, Event("Failed", job))
        /\ UNCHANGED <<completed, delivered>>
    BY <1>10 DEF SolveErr, InFlight, IInv, ThreadInv, TypeOK
  <2>2. Begun(events, job)
    BY <2>1 DEF LastInv
  <2>3. Truthful(InFlight', delivered, completed)
    BY <1>0, <2>1, <2>2, TruthfulAppend
  <2>4. QED
    BY <2>1, <2>3 DEF LastInv, Truthful, Paired, Rising, Between, Kept
<1>11. CASE Report
  <2>1. /\ InFlight' = InFlight /\ UNCHANGED <<completed, delivered, job>>
        /\ worker' = "top" /\ job \in Revisions
        /\ \E kind \in {"Completed", "Failed"} : events' = Append(events, Event(kind, job))
    BY <1>11 DEF Report, shared, InFlight, IInv, ThreadInv
  <2>2. PICK kind \in {"Completed", "Failed"} : events' = Append(events, Event(kind, job))
    BY <2>1
  <2>3. Event(kind, job) \in EventSet /\ Event(kind, job).kind # "Started"
    BY <2>1 DEF Event, EventSet
  <2>4. Ended(events')
    BY <1>0, <2>2, <2>3 DEF Ended
  <2>5. QED
    BY <2>1, <2>4 DEF LastInv, Ended, Truthful, Paired, Rising, Between, Kept
<1>12. QED
  BY <1>2, <1>3, <1>4, <1>5, <1>6, <1>7, <1>8, <1>9, <1>10, <1>11 DEF Next

(* What the caller reads is true and in order: a result follows the start of *)
(* its own revision, successes are read in increasing order, and the newest  *)
(* one recorded is read or waits to be read.                                 *)
THEOREM EventsTellTheTruth == Spec => []EventsFaithful
<1>1. EventInv => EventsFaithful
  BY DEF EventInv, Truthful, Paired, Rising, Between, Kept, EventsFaithful
<1>2. QED
  BY <1>1, Invariance, InitEventInv, StepEventInv, PTL DEF Spec

-----------------------------------------------------------------------------
(* The distance transform of the solver (DistanceTransform)                 *)

(* A set of natural numbers has a least element, a bounded one a greatest.  *)
LEMMA LeastElement ==
  ASSUME NEW T, T \subseteq Nat, T # {}
  PROVE  \E x \in T : \A y \in T : x <= y
<1>. DEFINE R == {ss \in Nat \X Nat : ss[1] < ss[2]}
<1>1. IsWellFoundedOn(R, Nat)
  BY NatLessThanWellFounded DEF OpToRel
<1>. HIDE DEF R
<1>2. PICK x \in T : \A y \in T : ~ (<<y, x>> \in R)
  BY <1>1, WFMin
<1>3. ASSUME NEW y \in T, y < x PROVE FALSE
  <2>1. <<y, x>> \in Nat \X Nat /\ <<y, x>>[1] = y /\ <<y, x>>[2] = x
    BY <1>2
  <2>. QED  BY <1>2, <1>3, <2>1 DEF R
<1>. QED  BY <1>2, <1>3

LEMMA GreatestElement ==
  ASSUME NEW n \in Nat, NEW T, T \subseteq 1..n, T # {}
  PROVE  Max(T) \in T /\ \A y \in T : y <= Max(T)
<1>. DEFINE D == {n - y : y \in T}
<1>1. PICK d \in D : \A c \in D : d <= c
  <2>1. D \subseteq Nat /\ D # {}
    OBVIOUS
  <2>. HIDE DEF D
  <2>. QED  BY <2>1, LeastElement
<1>2. PICK x \in T : d = n - x
  OBVIOUS
<1>3. \A y \in T : n - y \in D /\ y \in 1..n
  OBVIOUS
<1>. HIDE DEF D
<1>4. \A y \in T : x >= y
  BY <1>1, <1>2, <1>3
<1>5. Max(T) \in T /\ \A y \in T : Max(T) >= y
  BY <1>4 DEF Max
<1>. QED  BY <1>3, <1>5

-----------------------------------------------------------------------------
(* Fractions                                                                *)

Fraction == [num : Int, den : Nat \ {0}]
Less(a, b) == a.num * b.den < b.num * a.den
Below(a, x) == a.num < x * a.den

LEMMA Cancel ==
  ASSUME NEW a \in Int, NEW b \in Int, NEW d \in Nat \ {0}
  PROVE  /\ a * d \in Int /\ d * a \in Int /\ a * d = d * a
         /\ a < b <=> a * d < b * d
         /\ a <= b <=> a * d <= b * d
<1>1. a < b => a * d < b * d
  <2>. SUFFICES ASSUME a < b PROVE a * d < b * d
    OBVIOUS
  <2>1. PICK c \in Nat \ {0} : c = b - a
    OBVIOUS
  <2>2. c * d > 0 /\ b = a + c
    BY <2>1
  <2>3. (a + c) * d = a * d + c * d
    OBVIOUS
  <2>. QED  BY <2>2, <2>3
<1>2. b < a => b * d < a * d
  <2>. SUFFICES ASSUME b < a PROVE b * d < a * d
    OBVIOUS
  <2>1. PICK c \in Nat \ {0} : c = a - b
    OBVIOUS
  <2>2. c * d > 0 /\ a = b + c
    BY <2>1
  <2>3. (b + c) * d = b * d + c * d
    OBVIOUS
  <2>. QED  BY <2>2, <2>3
<1>3. a * d \in Int /\ b * d \in Int /\ d * a \in Int /\ a * d = d * a
  OBVIOUS
<1>4. a = b => a * d = b * d
  OBVIOUS
<1>. QED  BY <1>1, <1>2, <1>3, <1>4

LEMMA Swap == ASSUME NEW a \in Int, NEW b \in Int, NEW c \in Int
              PROVE  (a * b) * c = (a * c) * b /\ (a * b) * c = a * (b * c) /\ a * b = b * a
                     /\ a * b \in Int
OBVIOUS

LEMMA NotAboveIsNotLess ==
  ASSUME NEW a \in Fraction, NEW b \in Fraction
  PROVE  NotAbove(a, b) <=> ~ Less(b, a)
<1>1. a.num \in Int /\ b.num \in Int /\ a.den \in Int /\ b.den \in Int
  BY DEF Fraction
<1>2. a.num * b.den \in Int /\ b.num * a.den \in Int
  BY <1>1, Swap
<1>. QED  BY <1>2 DEF NotAbove, Less

(* What is less than a fraction that is not above x is not above x.         *)
LEMMA BelowGoesDown ==
  ASSUME NEW a \in Fraction, NEW b \in Fraction, NEW x \in Int, ~ Less(b, a), Below(b, x)
  PROVE  Below(a, x)
<1>1. /\ a.num \in Int /\ b.num \in Int /\ a.den \in Nat \ {0} /\ b.den \in Nat \ {0}
  BY DEF Fraction
<1>. DEFINE an == a.num
            ad == a.den
            bn == b.num
            bd == b.den
<1>2. an \in Int /\ bn \in Int /\ ad \in Nat \ {0} /\ bd \in Nat \ {0}
        /\ ~ (bn * ad < an * bd) /\ bn < x * bd
  BY <1>1 DEF Less, Below
<1>. HIDE DEF an, ad, bn, bd
<1>3. x * bd \in Int /\ x * ad \in Int
  BY <1>2, Swap
<1>4. bn * ad < (x * bd) * ad
  BY <1>2, <1>3, Cancel
<1>5. (x * bd) * ad = (x * ad) * bd
  BY <1>2, Swap
<1>6. bn * ad \in Int /\ an * bd \in Int /\ (x * ad) * bd \in Int
  BY <1>2, <1>3, Swap
<1>7. an * bd < (x * ad) * bd
  BY <1>2, <1>4, <1>5, <1>6
<1>8. an < x * ad
  BY <1>2, <1>3, <1>7, Cancel
<1>. QED  BY <1>8 DEF Below, an, ad

LEMMA LessIsTransitive ==
  ASSUME NEW a \in Fraction, NEW b \in Fraction, NEW c \in Fraction, Less(a, b), Less(b, c)
  PROVE  Less(a, c)
<1>1. /\ a.num \in Int /\ b.num \in Int /\ c.num \in Int
      /\ a.den \in Nat \ {0} /\ b.den \in Nat \ {0} /\ c.den \in Nat \ {0}
  BY DEF Fraction
<1>. DEFINE an == a.num
            ad == a.den
            bn == b.num
            bd == b.den
            cn == c.num
            cd == c.den
<1>2. /\ an \in Int /\ bn \in Int /\ cn \in Int
      /\ ad \in Nat \ {0} /\ bd \in Nat \ {0} /\ cd \in Nat \ {0}
      /\ an * bd < bn * ad /\ bn * cd < cn * bd
  BY <1>1 DEF Less
<1>. HIDE DEF an, ad, bn, bd, cn, cd
<1>3. /\ an * bd \in Int /\ bn * ad \in Int /\ bn * cd \in Int /\ cn * bd \in Int
      /\ an * cd \in Int /\ cn * ad \in Int
  BY <1>2, Swap
<1>4. (an * bd) * cd < (bn * ad) * cd
  BY <1>2, <1>3, Cancel
<1>5. (bn * cd) * ad < (cn * bd) * ad
  BY <1>2, <1>3, Cancel
<1>6. (an * bd) * cd = (an * cd) * bd /\ (bn * ad) * cd = (bn * cd) * ad
        /\ (cn * bd) * ad = (cn * ad) * bd
  BY <1>2, Swap
<1>7. (an * cd) * bd \in Int /\ (bn * cd) * ad \in Int /\ (cn * ad) * bd \in Int
  BY <1>2, <1>3, Swap
<1>8. (an * cd) * bd < (cn * ad) * bd
  BY <1>4, <1>5, <1>6, <1>7
<1>9. an * cd < cn * ad
  BY <1>2, <1>3, <1>8, Cancel
<1>. QED  BY <1>9 DEF Less, an, ad, cn, cd

(* A mediant is no greater than the greater of two fractions.               *)
LEMMA Mediant ==
  ASSUME NEW a \in Fraction, NEW b \in Fraction, NEW m \in Fraction,
         m.num = a.num + b.num, m.den = a.den + b.den, ~ Less(b, a)
  PROVE  ~ Less(b, m)
<1>1. /\ a.num \in Int /\ b.num \in Int /\ a.den \in Int /\ b.den \in Int
  BY DEF Fraction
<1>. DEFINE an == a.num
            ad == a.den
            bn == b.num
            bd == b.den
<1>2. /\ an \in Int /\ bn \in Int /\ ad \in Int /\ bd \in Int
      /\ ~ (bn * ad < an * bd)
  BY <1>1 DEF Less
<1>3. m.num = an + bn /\ m.den = ad + bd
  OBVIOUS
<1>. HIDE DEF an, ad, bn, bd
<1>4. bn * (ad + bd) = bn * ad + bn * bd /\ (an + bn) * bd = an * bd + bn * bd
  BY <1>2
<1>5. bn * ad \in Int /\ an * bd \in Int /\ bn * bd \in Int
  BY <1>2, Swap
<1>6. ~ (bn * (ad + bd) < (an + bn) * bd)
  BY <1>2, <1>4, <1>5
<1>. QED  BY <1>3, <1>6 DEF Less, bn, bd

-----------------------------------------------------------------------------
(* Which parabolas stay                                                     *)

Stays(f, q, e, k) == ~ NotAbove(Intersection(f, q, e[k].v), e[k].z)

(* h gives for every k up to m the topmost of the first k that stays.       *)
Tops(f, q, e, m, h) ==
  h = [k \in 0..m |-> IF k = 0 \/ Stays(f, q, e, k) THEN k ELSE h[k - 1]]

LEMMA TopsExist ==
  ASSUME NEW f, NEW q, NEW e, NEW m \in Nat
  PROVE  \E h : Tops(f, q, e, m, h)
<1>. DEFINE Bad == {n \in Nat : ~ \E h : Tops(f, q, e, n, h)}
<1>1. 0 \notin Bad
  <2>. DEFINE h == [k \in 0..0 |-> k]
  <2>1. h = [k \in 0..0 |-> IF k = 0 \/ Stays(f, q, e, k) THEN k ELSE h[k - 1]]
    OBVIOUS
  <2>. QED  BY <2>1 DEF Tops
<1>2. ASSUME NEW n \in Nat, n \notin Bad PROVE n + 1 \notin Bad
  <2>1. PICK g : Tops(f, q, e, n, g)
    BY <1>2
  <2>. DEFINE last == IF Stays(f, q, e, n + 1) THEN n + 1 ELSE g[n]
              h == [k \in 0..(n + 1) |-> IF k = n + 1 THEN last ELSE g[k]]
  <2>2. /\ \A k \in 0..n : h[k] = g[k]
        /\ h[n + 1] = last /\ h = [k \in 0..(n + 1) |-> h[k]]
    OBVIOUS
  <2>3. \A k \in 0..n : g[k] = IF k = 0 \/ Stays(f, q, e, k) THEN k ELSE g[k - 1]
    BY <2>1 DEF Tops
  <2>. HIDE DEF h
  <2>4. ASSUME NEW k \in 0..(n + 1)
        PROVE  h[k] = IF k = 0 \/ Stays(f, q, e, k) THEN k ELSE h[k - 1]
    <3>1. CASE k = n + 1
      <4>1. (n + 1) - 1 = n /\ n \in 0..n /\ n + 1 # 0
        OBVIOUS
      <4>. QED  BY <2>2, <3>1, <4>1
    <3>2. CASE k \in 0..n
      <4>1. k # 0 => k - 1 \in 0..n
        BY <3>2
      <4>. QED  BY <2>2, <2>3, <3>2, <4>1
    <3>. QED  BY <3>1, <3>2
  <2>5. Tops(f, q, e, n + 1, h)
    BY <2>2, <2>4 DEF Tops
  <2>. QED  BY <2>5
<1>3. Bad = {}
  <2>. SUFFICES ASSUME Bad # {} PROVE FALSE
    OBVIOUS
  <2>1. PICK b \in Bad : \A c \in Bad : b <= c
    BY LeastElement
  <2>2. b \in Nat /\ b # 0 /\ b - 1 \in Nat /\ (b - 1) + 1 = b
    <3>1. b \in Nat /\ b # 0
      BY <1>1
    <3>. HIDE DEF Bad
    <3>. QED  BY <3>1
  <2>3. b - 1 \notin Bad
    <3>. HIDE DEF Bad
    <3>. QED  BY <2>1, <2>2
  <2>. QED  BY <1>2, <2>2, <2>3
<1>. QED  BY <1>3

LEMMA TopStays ==
  ASSUME NEW f, NEW q, NEW e, NEW m \in Nat, NEW h, Tops(f, q, e, m, h)
  PROVE  /\ h[m] \in 0..m
         /\ h[m] # 0 => Stays(f, q, e, h[m])
         /\ \A j \in 1..m : h[m] < j => ~ Stays(f, q, e, j)
<1>. DEFINE Right(k) == /\ h[k] \in 0..k
                        /\ h[k] # 0 => Stays(f, q, e, h[k])
                        /\ \A j \in 1..k : h[k] < j => ~ Stays(f, q, e, j)
            Bad == {k \in 0..m : ~ Right(k)}
<1>1. \A k \in 0..m : h[k] = IF k = 0 \/ Stays(f, q, e, k) THEN k ELSE h[k - 1]
  BY DEF Tops
<1>2. Bad = {}
  <2>. SUFFICES ASSUME Bad # {} PROVE FALSE
    OBVIOUS
  <2>1. PICK b \in Bad : \A c \in Bad : b <= c
    <3>1. Bad \subseteq Nat
      OBVIOUS
    <3>. HIDE DEF Bad
    <3>. QED  BY <3>1, LeastElement
  <2>2. b \in 0..m /\ ~ Right(b)
    OBVIOUS
  <2>3. CASE b = 0 \/ Stays(f, q, e, b)
    <3>1. h[b] = b
      BY <1>1, <2>2, <2>3
    <3>. QED  BY <2>2, <2>3, <3>1
  <2>4. CASE ~ (b = 0 \/ Stays(f, q, e, b))
    <3>1. b - 1 \in 0..m /\ ~ (b <= b - 1)
      BY <2>2, <2>4
    <3>2. Right(b - 1)
      <4>. HIDE DEF Right
      <4>1. b - 1 \notin Bad
        <5>. HIDE DEF Bad
        <5>. QED  BY <2>1, <3>1
      <4>. QED  BY <3>1, <4>1
    <3>3. h[b] = h[b - 1]
      BY <1>1, <2>2, <2>4
    <3>4. \A j \in 1..b : j = b \/ j \in 1..(b - 1)
      BY <2>2
    <3>5. h[b] \in 0..b
      BY <2>2, <3>1, <3>2, <3>3
    <3>6. h[b] # 0 => Stays(f, q, e, h[b])
      BY <3>2, <3>3
    <3>7. ASSUME NEW j \in 1..b, h[b] < j PROVE ~ Stays(f, q, e, j)
      BY <2>4, <3>2, <3>3, <3>4, <3>7
    <3>. QED  BY <2>2, <3>5, <3>6, <3>7
  <2>. QED  BY <2>3, <2>4
<1>. QED  BY <1>2

-----------------------------------------------------------------------------
(* Parabolas                                                                *)

LEMMA InfIsTyped == INF \in Nat \ {0}
<1>1. Width * Width \in Nat /\ Height * Height \in Nat
  <2>1. ASSUME NEW n \in Nat PROVE n * n \in Nat
    OBVIOUS
  <2>. QED  BY <2>1, GridSize
<1>. QED  BY <1>1, GridSize

(* The part of (x - v)^2 + f[v] that tells the parabolas apart at x         *)
Cost(f, v, x) == Raise(f[v], v) - 2 * (v * x)

(* The squares of the indices of a line do not reach INF.                   *)
Fits(n) == n * n <= INF

LEMMA RaisedIsTyped ==
  ASSUME NEW n \in Nat \ {0}, Fits(n), NEW f \in [0..(n - 1) -> 0..INF], NEW v \in 0..(n - 1)
  PROVE  Raise(f[v], v) \in Nat /\ Raise(f[v], v) <= 2 * INF
<1>1. INF \in Nat
  BY InfIsTyped
<1>2. v * v <= n * n /\ v * v \in Nat /\ n * n \in Nat
  <2>1. PICK d \in Nat : n = v + d
    OBVIOUS
  <2>2. (v + d) * (v + d) = v * v + v * d + d * v + d * d
    OBVIOUS
  <2>3. v * d >= 0 /\ d * v >= 0 /\ d * d >= 0 /\ v * v >= 0
    OBVIOUS
  <2>. QED  BY <2>1, <2>2, <2>3
<1>3. f[v] \in Nat /\ f[v] <= INF
  BY <1>1
<1>4. n * n <= INF
  BY DEF Fits
<1>. DEFINE vv == v * v
            fv == f[v]
<1>5. vv \in Nat /\ vv <= INF /\ fv \in Nat /\ fv <= INF
  <2>. DEFINE nn == n * n
  <2>1. vv <= nn /\ nn <= INF /\ vv \in Nat /\ nn \in Nat
    BY <1>2, <1>4
  <2>. HIDE DEF vv, nn
  <2>. QED  BY <1>1, <1>3, <2>1
<1>6. Raise(f[v], v) = IF fv = INF THEN INF ELSE fv + vv
  BY DEF Raise
<1>. HIDE DEF vv, fv
<1>. QED  BY <1>1, <1>5, <1>6

LEMMA CostIsTyped ==
  ASSUME NEW n \in Nat \ {0}, Fits(n), NEW f \in [0..(n - 1) -> 0..INF],
         NEW v \in 0..(n - 1), NEW x \in Int
  PROVE  Cost(f, v, x) \in Int
<1>1. Raise(f[v], v) \in Nat
  BY RaisedIsTyped
<1>2. v * x \in Int
  OBVIOUS
<1>. QED  BY <1>1, <1>2 DEF Cost

LEMMA Intersections ==
  ASSUME NEW n \in Nat \ {0}, Fits(n), NEW f \in [0..(n - 1) -> 0..INF],
         NEW v \in 0..(n - 1), NEW r \in 0..(n - 1), v < r
  PROVE  /\ Intersection(f, r, v) \in Fraction
         /\ Less(MinusInfinity, Intersection(f, r, v))
         /\ \A x \in Int : Below(Intersection(f, r, v), x) <=> Cost(f, r, x) < Cost(f, v, x)
<1>. DEFINE a == Raise(f[r], r)
            b == Raise(f[v], v)
            i == Intersection(f, r, v)
<1>1. a \in Nat /\ b \in Nat /\ b <= 2 * INF
  BY RaisedIsTyped
<1>2. i.num = a - b /\ i.den = 2 * (r - v) /\ i = [num |-> a - b, den |-> 2 * (r - v)]
  BY DEF Intersection
<1>. HIDE DEF a, b
<1>3. i \in Fraction
  <2>1. a - b \in Int /\ 2 * (r - v) \in Nat \ {0}
    BY <1>1
  <2>. HIDE DEF i
  <2>. QED  BY <1>2, <2>1 DEF Fraction
<1>. HIDE DEF i
<1>4. Less(MinusInfinity, i)
  <2>1. (-2 * INF) * (2 * (r - v)) < (a - b) * 1
    <3>1. INF \in Nat \ {0}
      BY InfIsTyped
    <3>2. PICK d \in Nat \ {0} : d = r - v
      OBVIOUS
    <3>3. PICK k \in Nat : k = d - 1
      OBVIOUS
    <3>4. INF * k >= 0 /\ INF * d = INF + INF * k
      <4>1. d = k + 1 /\ INF * (k + 1) = INF + INF * k
        BY <3>1, <3>3
      <4>. QED  BY <3>1, <4>1
    <3>5. (-2 * INF) * (2 * d) = - (4 * (INF * d))
      BY <3>1
    <3>6. - (4 * (INF * d)) < a - b
      BY <1>1, <3>1, <3>4
    <3>7. (a - b) * 1 = a - b
      BY <1>1
    <3>. QED  BY <3>2, <3>5, <3>6, <3>7
  <2>. QED  BY <1>2, <2>1 DEF Less, MinusInfinity
<1>5. ASSUME NEW x \in Int PROVE Below(i, x) <=> Cost(f, r, x) < Cost(f, v, x)
  <2>1. x * (2 * (r - v)) = 2 * (r * x) - 2 * (v * x)
    OBVIOUS
  <2>2. r * x \in Int /\ v * x \in Int
    OBVIOUS
  <2>3. Cost(f, r, x) = a - 2 * (r * x) /\ Cost(f, v, x) = b - 2 * (v * x)
    BY DEF Cost, a, b
  <2>. QED  BY <1>1, <1>2, <2>1, <2>2, <2>3 DEF Below
<1>. QED  BY <1>3, <1>4, <1>5 DEF i

(* r overtakes p between where v overtakes p and where r overtakes v.       *)
LEMMA OvertakesInBetween ==
  ASSUME NEW n \in Nat \ {0}, Fits(n), NEW f \in [0..(n - 1) -> 0..INF],
         NEW p \in 0..(n - 1), NEW v \in 0..(n - 1), NEW r \in 0..(n - 1), p < v, v < r,
         ~ Less(Intersection(f, v, p), Intersection(f, r, v))
  PROVE  ~ Less(Intersection(f, v, p), Intersection(f, r, p))
<1>. DEFINE a == Intersection(f, r, v)
            b == Intersection(f, v, p)
            m == Intersection(f, r, p)
<1>1. p < r
  OBVIOUS
<1>2. a \in Fraction /\ b \in Fraction /\ m \in Fraction
  BY <1>1, Intersections
<1>3. m.num = a.num + b.num /\ m.den = a.den + b.den
  <2>1. /\ Raise(f[r], r) \in Int /\ Raise(f[v], v) \in Int /\ Raise(f[p], p) \in Int
    <3>1. ASSUME NEW w \in 0..(n - 1) PROVE Raise(f[w], w) \in Int
      <4>1. Raise(f[w], w) \in Nat
        BY RaisedIsTyped
      <4>. QED  BY <4>1
    <3>. QED  BY <3>1
  <2>2. /\ a.num = Raise(f[r], r) - Raise(f[v], v) /\ a.den = 2 * (r - v)
        /\ b.num = Raise(f[v], v) - Raise(f[p], p) /\ b.den = 2 * (v - p)
        /\ m.num = Raise(f[r], r) - Raise(f[p], p) /\ m.den = 2 * (r - p)
    BY DEF Intersection
  <2>. HIDE DEF a, b, m
  <2>. QED  BY <2>1, <2>2
<1>. HIDE DEF a, b, m
<1>4. ~ Less(b, a)
  BY DEF a, b
<1>5. ~ Less(b, m)
  BY <1>2, <1>3, <1>4, Mediant
<1>. QED  BY <1>5 DEF b, m

-----------------------------------------------------------------------------
(* The envelope                                                             *)

(* Parabola k of the envelope is the one between its break and the next.    *)
UsedAt(e, k, x) == Below(e[k].z, x) /\ (k < Len(e) => ~ Below(e[k + 1].z, x))

(* e is the envelope of the parabolas of 0 to q.                            *)
Linked(f, q, e) ==
  /\ e \in Seq([v : 0..q, z : Fraction])
  /\ Len(e) \in Nat \ {0}
  /\ e[1].z = MinusInfinity
  /\ \A k \in 1..(Len(e) - 1) : /\ e[k].v < e[k + 1].v
                                /\ e[k + 1].z = Intersection(f, e[k + 1].v, e[k].v)
  /\ \A i, j \in 1..Len(e) : i < j => Less(e[i].z, e[j].z)
Lowest(f, q, e) ==
  \A x \in Nat : \A k \in 1..Len(e) : UsedAt(e, k, x) =>
    \A p \in 0..q : Cost(f, e[k].v, x) <= Cost(f, p, x)
EnvelopeOf(f, q, e) == Linked(f, q, e) /\ Lowest(f, q, e)

LEMMA LessIsNotAbove ==
  ASSUME NEW a \in Fraction, NEW b \in Fraction, Less(a, b)
  PROVE  ~ Less(b, a)
<1>1. a.num * b.den \in Int /\ b.num * a.den \in Int
  BY DEF Fraction
<1>. QED  BY <1>1 DEF Less

LEMMA Items ==
  ASSUME NEW f, NEW q \in Nat, NEW e, Linked(f, q, e), NEW k \in 1..Len(e)
  PROVE  e[k].v \in 0..q /\ e[k].z \in Fraction
<1>1. e[k] \in [v : 0..q, z : Fraction]
  BY ElementOfSeq DEF Linked
<1>. QED  BY <1>1

(* The parabola used at x is the last one with its break below x.           *)
LEMMA LastBelowIsUsed ==
  ASSUME NEW f, NEW q \in Nat, NEW e, Linked(f, q, e), NEW x \in Nat
  PROVE  LET m == Max({k \in 1..Len(e) : Below(e[k].z, x)})
         IN m \in 1..Len(e) /\ UsedAt(e, m, x) /\ \A i \in 1..m : Below(e[i].z, x)
<1>. DEFINE T == {k \in 1..Len(e) : Below(e[k].z, x)}
            m == Max(T)
<1>1. Len(e) \in Nat \ {0} /\ e[1].z = MinusInfinity
  BY DEF Linked
<1>2. 1 \in T
  <2>1. Below(MinusInfinity, x)
    <3>1. INF \in Nat \ {0}
      BY InfIsTyped
    <3>2. MinusInfinity.num = -2 * INF /\ MinusInfinity.den = 1
      BY DEF MinusInfinity
    <3>3. x * 1 = x /\ -2 * INF < 0
      BY <3>1
    <3>. QED  BY <3>1, <3>2, <3>3 DEF Below
  <2>. QED  BY <1>1, <2>1
<1>3. m \in T /\ \A y \in T : y <= m
  <2>1. T \subseteq 1..Len(e) /\ T # {}
    BY <1>2
  <2>. HIDE DEF T
  <2>. QED  BY <1>1, <2>1, GreatestElement
<1>. HIDE DEF m
<1>4. m \in 1..Len(e) /\ Below(e[m].z, x)
  BY <1>3
<1>5. m < Len(e) => ~ Below(e[m + 1].z, x)
  <2>. SUFFICES ASSUME m < Len(e), Below(e[m + 1].z, x) PROVE FALSE
    OBVIOUS
  <2>1. m + 1 \in T
    BY <1>1, <1>4
  <2>2. m + 1 <= m
    BY <1>3, <2>1
  <2>. QED  BY <1>4, <2>2
<1>6. ASSUME NEW i \in 1..m PROVE Below(e[i].z, x)
  <2>1. CASE i = m
    BY <1>4, <2>1
  <2>2. CASE i < m
    <3>1. i \in 1..Len(e)
      BY <1>4
    <3>2. Less(e[i].z, e[m].z)
      BY <1>4, <2>2, <3>1 DEF Linked
    <3>3. e[i].z \in Fraction /\ e[m].z \in Fraction
      BY <1>4, <3>1, Items
    <3>4. ~ Less(e[m].z, e[i].z)
      BY <3>2, <3>3, LessIsNotAbove
    <3>. QED  BY <1>4, <3>3, <3>4, BelowGoesDown
  <2>. QED  BY <1>4, <2>1, <2>2
<1>. QED  BY <1>4, <1>5, <1>6 DEF UsedAt, m

LEMMA HideIs ==
  ASSUME NEW f, NEW r, NEW e, Len(e) \in Nat
  PROVE  \E h : /\ Tops(f, r, e, Len(e), h)
                /\ Hide(f, r, e) =
                     IF h[Len(e)] = 0 THEN << [v |-> r, z |-> MinusInfinity] >>
                     ELSE Append(SubSeq(e, 1, h[Len(e)]),
                                 [v |-> r, z |-> Intersection(f, r, e[h[Len(e)]].v)])
<1>. DEFINE Overtaken(k) == Intersection(f, r, e[k].v)
            staying[k \in 0..Len(e)] ==
              IF k = 0 \/ ~ NotAbove(Overtaken(k), e[k].z) THEN k ELSE staying[k - 1]
<1>1. \E g : g = [k \in 0..Len(e) |->
                    IF k = 0 \/ ~ NotAbove(Overtaken(k), e[k].z) THEN k ELSE g[k - 1]]
  <2>1. \E g : Tops(f, r, e, Len(e), g)
    BY TopsExist
  <2>. QED  BY <2>1 DEF Tops, Stays
<1>2. Tops(f, r, e, Len(e), staying)
  <2>1. staying = [k \in 0..Len(e) |->
                    IF k = 0 \/ ~ NotAbove(Overtaken(k), e[k].z) THEN k ELSE staying[k - 1]]
    <3>. HIDE DEF Overtaken
    <3>. QED  BY <1>1
  <2>. HIDE DEF staying
  <2>. QED  BY <2>1 DEF Tops, Stays
<1>3. Hide(f, r, e) =
        IF staying[Len(e)] = 0 THEN << [v |-> r, z |-> MinusInfinity] >>
        ELSE Append(SubSeq(e, 1, staying[Len(e)]), [v |-> r, z |-> Overtaken(staying[Len(e)])])
  BY DEF Hide
<1>. HIDE DEF staying
<1>. QED  BY <1>2, <1>3

(* A parabola joins the envelope.                                           *)
LEMMA HideKeeps ==
  ASSUME NEW n \in Nat \ {0}, Fits(n), NEW f \in [0..(n - 1) -> 0..INF],
         NEW q \in Nat, q + 1 \in 0..(n - 1), NEW e, EnvelopeOf(f, q, e)
  PROVE  EnvelopeOf(f, q + 1, Hide(f, q + 1, e))
<1>. DEFINE r == q + 1
            m == Len(e)
            E == Hide(f, r, e)
<1>1. Linked(f, q, e) /\ Lowest(f, q, e)
  BY DEF EnvelopeOf
<1>2. m \in Nat \ {0} /\ e[1].z = MinusInfinity /\ e \in Seq([v : 0..q, z : Fraction])
  BY <1>1 DEF Linked
<1>3. PICK h : /\ Tops(f, r, e, m, h)
               /\ E = IF h[m] = 0 THEN << [v |-> r, z |-> MinusInfinity] >>
                      ELSE Append(SubSeq(e, 1, h[m]),
                                  [v |-> r, z |-> Intersection(f, r, e[h[m]].v)])
  BY <1>2, HideIs
<1>. DEFINE t == h[m]
            s == Intersection(f, r, e[t].v)
<1>. HIDE DEF E
<1>4. /\ t \in 0..m
      /\ t # 0 => Stays(f, r, e, t)
      /\ \A j \in 1..m : t < j => ~ Stays(f, r, e, j)
  BY <1>2, <1>3, TopStays
<1>5. /\ m = Len(e) /\ r = q + 1 /\ r \in 0..(n - 1) /\ t \in Int /\ m \in Nat \ {0}
      /\ r \in Nat \ {0}
  BY <1>2, <1>4
<1>6. t # 0 => E = Append(SubSeq(e, 1, t), [v |-> r, z |-> s])
  BY <1>3
<1>. HIDE DEF t, m, r
<1>7. ASSUME NEW k \in 1..m
      PROVE  /\ e[k].v \in 0..q /\ e[k].v \in 0..(n - 1) /\ e[k].v < r
             /\ e[k].z \in Fraction
             /\ Intersection(f, r, e[k].v) \in Fraction
             /\ Less(MinusInfinity, Intersection(f, r, e[k].v))
             /\ Stays(f, r, e, k) <=> Less(e[k].z, Intersection(f, r, e[k].v))
             /\ \A x \in Int : Below(Intersection(f, r, e[k].v), x)
                                 <=> Cost(f, r, x) < Cost(f, e[k].v, x)
  <2>1. e[k].v \in 0..q /\ e[k].z \in Fraction
    BY <1>5, <1>1, Items
  <2>2. e[k].v \in 0..(n - 1) /\ e[k].v < r /\ r \in 0..(n - 1)
    BY <1>5, <2>1
  <2>3. /\ Intersection(f, r, e[k].v) \in Fraction
        /\ Less(MinusInfinity, Intersection(f, r, e[k].v))
        /\ \A x \in Int : Below(Intersection(f, r, e[k].v), x)
                            <=> Cost(f, r, x) < Cost(f, e[k].v, x)
    BY <2>2, Intersections
  <2>4. Stays(f, r, e, k) <=> Less(e[k].z, Intersection(f, r, e[k].v))
    BY <2>1, <2>3, NotAboveIsNotLess DEF Stays
  <2>. QED  BY <2>1, <2>2, <2>3, <2>4
<1>8. t \in 1..m
  <2>1. 1 \in 1..m
    BY <1>5
  <2>2. Stays(f, r, e, 1)
    BY <1>2, <1>7, <2>1
  <2>3. ~ (t < 1)
    BY <1>4, <2>1, <2>2
  <2>. QED  BY <1>5, <1>2, <1>4, <2>3
<1>9. /\ E \in Seq([v : 0..r, z : Fraction])
      /\ Len(E) = t + 1
      /\ \A k \in 1..t : E[k] = e[k]
      /\ E[t + 1] = [v |-> r, z |-> s]
  <2>. DEFINE S == [v : 0..r, z : Fraction]
              b == SubSeq(e, 1, t)
              last == [v |-> r, z |-> s]
  <2>1. E = Append(b, last)
    <3>1. t # 0
      BY <1>5, <1>8
    <3>. QED  BY <1>6, <3>1
  <2>2. e \in Seq(S)
    <3>1. ASSUME NEW i \in 1..Len(e) PROVE e[i] \in S
      <4>1. e[i] \in [v : 0..q, z : Fraction]
        BY <1>2, ElementOfSeq
      <4>2. 0..q \subseteq 0..r
        BY <1>5
      <4>. QED  BY <4>1, <4>2
    <3>. HIDE DEF S
    <3>2. e = [i \in 1..Len(e) |-> e[i]] /\ Len(e) \in Nat
      BY <1>2, LenProperties
    <3>3. e \in [1..Len(e) -> S]
      BY <3>1, <3>2
    <3>. QED  BY <3>2, <3>3, SeqDef
  <2>3. last \in S
    <3>1. r \in 0..r /\ s \in Fraction
      BY <1>5, <1>7, <1>8
    <3>. HIDE DEF s
    <3>. QED  BY <3>1
  <2>. HIDE DEF S, last
  <2>4. b \in Seq(S) /\ Len(b) = t /\ \A k \in 1..t : b[k] = e[k]
    <3>1. 1 \in 1..(Len(e) + 1) /\ t \in 0..Len(e) /\ 1 <= t
      BY <1>5, <1>8
    <3>. HIDE DEF b
    <3>2. b \in Seq(S) /\ Len(b) = t - 1 + 1 /\ \A k \in 1..(t - 1 + 1) : b[k] = e[1 + k - 1]
      BY <2>2, <3>1, SubSeqProperties DEF b
    <3>3. t - 1 + 1 = t /\ \A k \in 1..t : 1 + k - 1 = k
      BY <1>5
    <3>. QED  BY <3>2, <3>3
  <2>. HIDE DEF b
  <2>5. /\ Append(b, last) \in Seq(S) /\ Len(Append(b, last)) = t + 1
        /\ Append(b, last)[t + 1] = last
        /\ \A k \in 1..t : Append(b, last)[k] = b[k]
    BY <2>3, <2>4, AppendProperties
  <2>. QED  BY <2>1, <2>4, <2>5 DEF S, last
<1>10. Len(E) = t + 1
  BY <1>9
<1>11. \A k \in 1..t : E[k] = e[k] /\ k \in 1..m
  <2>1. \A k \in 1..t : k \in 1..m
    BY <1>5, <1>8
  <2>. QED  BY <1>9, <2>1
<1>12. s \in Fraction /\ Less(e[t].z, s) /\ e[t].z \in Fraction /\ Len(E) \in Nat \ {0}
  <2>1. t # 0 /\ Len(E) \in Nat \ {0}
    BY <1>5, <1>8, <1>10
  <2>2. Stays(f, r, e, t)
    BY <1>4, <2>1
  <2>. QED  BY <1>7, <1>8, <2>1, <2>2
<1>13. ASSUME NEW k \in 1..(t + 1) PROVE k \in 1..t \/ k = t + 1
  BY <1>5, <1>8
<1>14. E[t + 1].v = r /\ E[t + 1].z = s
  BY <1>9
<1>. HIDE DEF s
<1>15. Linked(f, r, E)
  <2>1. E[1].z = MinusInfinity
    <3>1. 1 \in 1..t
      BY <1>5, <1>8
    <3>. QED  BY <1>2, <1>11, <3>1
  <2>2. ASSUME NEW k \in 1..(Len(E) - 1)
        PROVE  /\ E[k].v < E[k + 1].v
               /\ E[k + 1].z = Intersection(f, E[k + 1].v, E[k].v)
    <3>0. k \in 1..t
      BY <1>5, <1>10
    <3>1. k \in 1..t /\ E[k] = e[k]
      BY <1>11, <3>0
    <3>2. CASE k = t
      BY <1>7, <1>8, <1>9, <1>14, <3>1, <3>2 DEF s
    <3>3. CASE k < t
      <4>1. k \in 1..(m - 1) /\ k + 1 \in 1..t
        BY <1>5, <1>8, <3>0, <3>3
      <4>2. E[k + 1] = e[k + 1]
        BY <1>9, <4>1
      <4>. QED  BY <1>5, <1>1, <3>1, <4>1, <4>2 DEF Linked
    <3>. QED  BY <1>5, <1>8, <3>1, <3>2, <3>3
  <2>3. ASSUME NEW i \in 1..Len(E), NEW j \in 1..Len(E), i < j PROVE Less(E[i].z, E[j].z)
    <3>0. i \in 1..t
      BY <1>5, <1>10, <2>3
    <3>1. i \in 1..t /\ i \in 1..m /\ E[i] = e[i]
      BY <1>11, <3>0
    <3>2. CASE j \in 1..t
      <4>1. j \in 1..m /\ E[j] = e[j]
        BY <1>11, <3>2
      <4>. QED  BY <1>5, <1>1, <2>3, <3>1, <4>1 DEF Linked
    <3>3. CASE j = t + 1
      <4>1. E[j].z = s
        BY <1>14, <3>3
      <4>2. CASE i = t
        BY <1>12, <3>1, <4>1, <4>2
      <4>3. CASE i < t
        <5>1. Less(e[i].z, e[t].z)
          BY <1>5, <1>1, <1>8, <3>1, <4>3 DEF Linked
        <5>2. e[i].z \in Fraction
          BY <1>7, <3>1
        <5>. QED  BY <1>12, <3>1, <4>1, <5>1, <5>2, LessIsTransitive
      <4>. QED  BY <1>5, <1>8, <3>1, <4>2, <4>3
    <3>. QED  BY <1>9, <1>13, <3>2, <3>3
  <2>. QED  BY <1>9, <1>12, <2>1, <2>2, <2>3 DEF Linked
<1>16. ASSUME NEW x \in Nat, NEW k \in 1..Len(E), UsedAt(E, k, x), NEW p \in 0..r
       PROVE  Cost(f, E[k].v, x) <= Cost(f, p, x)
  <2>1. ASSUME NEW v \in 0..(n - 1) PROVE Cost(f, v, x) \in Int
    <3>1. x \in Int
      OBVIOUS
    <3>. QED  BY <3>1, CostIsTyped
  <2>2. r \in 0..(n - 1) /\ p \in 0..(n - 1) /\ (p = r \/ p \in 0..q) /\ x \in Int
    BY <1>5
  <2>3. Cost(f, p, x) \in Int /\ Cost(f, r, x) \in Int
    BY <2>1, <2>2
  <2>4. Below(s, x) <=> Cost(f, r, x) < Cost(f, e[t].v, x)
    BY <1>7, <1>8, <2>2 DEF s
  <2>5. ASSUME NEW i \in 1..m PROVE Cost(f, e[i].v, x) \in Int
    BY <1>7, <2>1
  <2>6. CASE k = t + 1
    <3>1. E[k].v = r /\ Below(s, x)
      BY <1>14, <1>16, <2>6 DEF UsedAt
    <3>2. CASE p = r
      BY <2>3, <3>1, <3>2
    <3>3. CASE p \in 0..q
      <4>1. PICK j \in 1..m : UsedAt(e, j, x) /\ \A i \in 1..j : Below(e[i].z, x)
        BY <1>5, <1>1, LastBelowIsUsed
      <4>2. Cost(f, e[j].v, x) <= Cost(f, p, x)
        BY <1>5, <1>1, <3>3, <4>1 DEF Lowest
      <4>3. Below(e[t].z, x)
        <5>1. ~ Less(s, e[t].z)
          BY <1>12, LessIsNotAbove
        <5>. QED  BY <1>12, <2>2, <3>1, <5>1, BelowGoesDown
      <4>4. ~ (j < t)
        <5>. SUFFICES ASSUME j < t PROVE FALSE
          OBVIOUS
        <5>1. j + 1 \in 1..m /\ j < m /\ j + 1 <= t /\ t \in 1..m
          BY <1>5, <1>8, <4>1
        <5>2. ~ Below(e[j + 1].z, x)
          BY <1>5, <4>1, <5>1 DEF UsedAt
        <5>3. CASE j + 1 = t
          BY <4>3, <5>2, <5>3
        <5>4. CASE j + 1 < t
          <6>1. Less(e[j + 1].z, e[t].z)
            BY <1>5, <1>1, <5>1, <5>4 DEF Linked
          <6>2. e[j + 1].z \in Fraction
            BY <1>7, <5>1
          <6>3. ~ Less(e[t].z, e[j + 1].z)
            BY <1>12, <6>1, <6>2, LessIsNotAbove
          <6>4. Below(e[j + 1].z, x)
            BY <1>12, <2>2, <4>3, <6>2, <6>3, BelowGoesDown
          <6>. QED  BY <5>2, <6>4
        <5>. QED  BY <5>1, <5>3, <5>4
      <4>5. Cost(f, r, x) < Cost(f, e[j].v, x)
        <5>1. CASE j = t
          BY <2>4, <3>1, <5>1
        <5>2. CASE t < j
          <6>1. ~ Less(e[j].z, Intersection(f, r, e[j].v))
            BY <1>4, <1>7, <4>1, <5>2
          <6>2. Below(e[j].z, x)
            BY <4>1 DEF UsedAt
          <6>3. Below(Intersection(f, r, e[j].v), x)
            BY <1>7, <2>2, <4>1, <6>1, <6>2, BelowGoesDown
          <6>. QED  BY <1>7, <2>2, <6>3
        <5>. QED  BY <1>5, <1>8, <4>1, <4>4, <5>1, <5>2
      <4>6. Cost(f, e[j].v, x) \in Int
        BY <2>5, <4>1
      <4>. QED  BY <2>3, <3>1, <4>2, <4>5, <4>6
    <3>. QED  BY <2>2, <3>2, <3>3
  <2>7. CASE k \in 1..t
    <3>0. k \in 1..m /\ k < t + 1
      BY <1>5, <1>8, <2>7
    <3>1. k \in 1..m /\ E[k] = e[k] /\ Below(e[k].z, x) /\ k < Len(E)
      BY <1>9, <1>16, <2>7, <3>0 DEF UsedAt
    <3>2. ~ Below(E[k + 1].z, x)
      BY <1>16, <3>1 DEF UsedAt
    <3>3. ~ Below(s, x) /\ UsedAt(e, k, x)
      <4>1. CASE k = t
        <5>1. ~ Below(s, x)
          BY <1>14, <3>2, <4>1
        <5>2. ASSUME k < m PROVE ~ Below(e[k + 1].z, x)
          <6>1. k + 1 \in 1..m /\ k \in 1..(m - 1) /\ t < k + 1
            BY <1>5, <3>0, <4>1, <5>2
          <6>2. ~ Less(e[k + 1].z, Intersection(f, r, e[k + 1].v))
            BY <1>4, <1>7, <6>1
          <6>3. e[k + 1].z = Intersection(f, e[k + 1].v, e[k].v) /\ e[k].v < e[k + 1].v
            BY <1>5, <1>1, <6>1 DEF Linked
          <6>4. /\ e[k].v \in 0..(n - 1) /\ e[k + 1].v \in 0..(n - 1) /\ e[k + 1].v < r
                /\ e[k + 1].z \in Fraction
            BY <1>7, <3>1, <6>1
          <6>5. ~ Less(Intersection(f, e[k + 1].v, e[k].v), Intersection(f, r, e[k].v))
            BY <2>2, <6>2, <6>3, <6>4, OvertakesInBetween
          <6>6. ~ Less(e[k + 1].z, s)
            BY <4>1, <6>3, <6>5 DEF s
          <6>. QED  BY <1>12, <2>2, <5>1, <6>4, <6>6, BelowGoesDown
        <5>. QED  BY <1>5, <3>1, <5>1, <5>2 DEF UsedAt
      <4>2. CASE k < t
        <5>1. k + 1 \in 1..t /\ k + 1 \in 1..m /\ E[k + 1] = e[k + 1]
          <6>1. k + 1 \in 1..t /\ k + 1 \in 1..m
            BY <1>5, <1>2, <1>8, <2>7, <4>2
          <6>. QED  BY <1>9, <6>1
        <5>2. ~ Below(e[k + 1].z, x) /\ e[k + 1].z \in Fraction
          BY <1>7, <3>2, <5>1
        <5>3. ~ Less(s, e[k + 1].z)
          <6>1. CASE k + 1 = t
            BY <1>12, <6>1, LessIsNotAbove
          <6>2. CASE k + 1 < t
            <7>1. Less(e[k + 1].z, e[t].z)
              BY <1>5, <1>1, <1>8, <5>1, <6>2 DEF Linked
            <7>2. Less(e[k + 1].z, s)
              BY <1>12, <5>2, <7>1, LessIsTransitive
            <7>. QED  BY <1>12, <5>2, <7>2, LessIsNotAbove
          <6>. QED  BY <1>5, <1>8, <4>2, <5>1, <6>1, <6>2
        <5>4. ~ Below(s, x)
          BY <1>12, <2>2, <5>2, <5>3, BelowGoesDown
        <5>. QED  BY <3>1, <5>2, <5>4 DEF UsedAt
      <4>. QED  BY <1>5, <1>8, <2>7, <4>1, <4>2
    <3>4. \A i \in 0..q : Cost(f, e[k].v, x) <= Cost(f, i, x)
      BY <1>5, <1>1, <3>1, <3>3 DEF Lowest
    <3>5. CASE p \in 0..q
      BY <3>1, <3>4, <3>5
    <3>6. CASE p = r
      <4>1. Cost(f, e[k].v, x) <= Cost(f, e[t].v, x)
        BY <1>7, <1>8, <3>4
      <4>2. ~ (Cost(f, r, x) < Cost(f, e[t].v, x))
        BY <2>4, <3>3
      <4>3. Cost(f, e[k].v, x) \in Int /\ Cost(f, e[t].v, x) \in Int
        BY <1>5, <1>8, <2>5, <3>1
      <4>. QED  BY <2>3, <3>1, <3>6, <4>1, <4>2, <4>3
    <3>. QED  BY <2>2, <3>5, <3>6
  <2>. QED  BY <1>9, <1>13, <2>6, <2>7
<1>. QED  BY <1>15, <1>16 DEF EnvelopeOf, Lowest, E, r

(* g gives for every k up to last the envelope of the parabolas of 0 to k.  *)
Grows(f, last, g) ==
  g = [q \in 0..last |->
         IF q = 0 THEN << [v |-> 0, z |-> MinusInfinity] >> ELSE Hide(f, q, g[q - 1])]

LEMMA GrowthExists ==
  ASSUME NEW f, NEW last \in Nat
  PROVE  \E g : Grows(f, last, g)
<1>. DEFINE Start == << [v |-> 0, z |-> MinusInfinity] >>
            Bad == {n \in Nat : ~ \E g : Grows(f, n, g)}
<1>1. 0 \notin Bad
  <2>. HIDE DEF Start
  <2>. DEFINE h == [q \in 0..0 |-> Start]
  <2>1. h = [q \in 0..0 |-> IF q = 0 THEN Start ELSE Hide(f, q, h[q - 1])]
    OBVIOUS
  <2>. QED  BY <2>1 DEF Grows, Start
<1>2. ASSUME NEW n \in Nat, n \notin Bad PROVE n + 1 \notin Bad
  <2>1. PICK g : Grows(f, n, g)
    BY <1>2
  <2>. DEFINE last1 == Hide(f, n + 1, g[n])
              h == [q \in 0..(n + 1) |-> IF q = n + 1 THEN last1 ELSE g[q]]
  <2>2. \A q \in 0..n : g[q] = IF q = 0 THEN Start ELSE Hide(f, q, g[q - 1])
    BY <2>1 DEF Grows
  <2>. HIDE DEF Start, last1
  <2>3. /\ \A q \in 0..n : h[q] = g[q]
        /\ h[n + 1] = last1 /\ h = [q \in 0..(n + 1) |-> h[q]]
    OBVIOUS
  <2>. HIDE DEF h
  <2>4. ASSUME NEW q \in 0..(n + 1)
        PROVE  h[q] = IF q = 0 THEN Start ELSE Hide(f, q, h[q - 1])
    <3>1. CASE q = n + 1
      <4>1. (n + 1) - 1 = n /\ n \in 0..n /\ n + 1 # 0
        OBVIOUS
      <4>. QED  BY <2>3, <3>1, <4>1 DEF last1
    <3>2. CASE q \in 0..n
      <4>1. q # 0 => q - 1 \in 0..n
        BY <3>2
      <4>. QED  BY <2>2, <2>3, <3>2, <4>1
    <3>. QED  BY <3>1, <3>2
  <2>5. Grows(f, n + 1, h)
    BY <2>3, <2>4 DEF Grows, Start
  <2>. QED  BY <2>5
<1>3. Bad = {}
  <2>. SUFFICES ASSUME Bad # {} PROVE FALSE
    OBVIOUS
  <2>1. PICK b \in Bad : \A c \in Bad : b <= c
    BY LeastElement
  <2>2. b \in Nat /\ b # 0 /\ b - 1 \in Nat /\ (b - 1) + 1 = b
    <3>1. b \in Nat /\ b # 0
      BY <1>1
    <3>. HIDE DEF Bad
    <3>. QED  BY <3>1
  <2>3. b - 1 \notin Bad
    <3>. HIDE DEF Bad
    <3>. QED  BY <2>1, <2>2
  <2>. QED  BY <1>2, <2>2, <2>3
<1>. QED  BY <1>3

(* The envelope of one parabola                                             *)
LEMMA OneParabola ==
  ASSUME NEW n \in Nat \ {0}, Fits(n), NEW f \in [0..(n - 1) -> 0..INF]
  PROVE  EnvelopeOf(f, 0, << [v |-> 0, z |-> MinusInfinity] >>)
<1>. DEFINE e == << [v |-> 0, z |-> MinusInfinity] >>
<1>1. MinusInfinity \in Fraction
  <2>1. -2 * INF \in Int /\ 1 \in Nat \ {0}
    BY InfIsTyped
  <2>. QED  BY <2>1 DEF MinusInfinity, Fraction
<1>2. /\ e \in Seq([v : 0..0, z : Fraction]) /\ Len(e) = 1
      /\ e[1].v = 0 /\ e[1].z = MinusInfinity
  BY <1>1
<1>. HIDE DEF e
<1>3. Linked(f, 0, e)
  BY <1>2 DEF Linked
<1>4. Lowest(f, 0, e)
  <2>. SUFFICES ASSUME NEW x \in Nat, NEW k \in 1..Len(e), NEW p \in 0..0
                PROVE  Cost(f, e[k].v, x) <= Cost(f, p, x)
    BY DEF Lowest
  <2>1. k = 1 /\ p = 0 /\ 0 \in 0..(n - 1) /\ x \in Int
    BY <1>2
  <2>2. Cost(f, 0, x) \in Int
    BY <2>1, CostIsTyped
  <2>. QED  BY <1>2, <2>1, <2>2
<1>. QED  BY <1>3, <1>4 DEF EnvelopeOf, e

(* Envelope computes the lower envelope of the parabolas of 0 to last.      *)
LEMMA EnvelopeIsLowest ==
  ASSUME NEW n \in Nat \ {0}, Fits(n), NEW f \in [0..(n - 1) -> 0..INF]
  PROVE  EnvelopeOf(f, n - 1, Envelope(f, n - 1))
<1>. DEFINE last == n - 1
            Start == << [v |-> 0, z |-> MinusInfinity] >>
            upTo[q \in 0..last] == IF q = 0 THEN Start ELSE Hide(f, q, upTo[q - 1])
<1>1. \E g : g = [q \in 0..last |-> IF q = 0 THEN Start ELSE Hide(f, q, g[q - 1])]
  <2>1. last \in Nat
    OBVIOUS
  <2>2. \E g : Grows(f, last, g)
    BY <2>1, GrowthExists
  <2>. QED  BY <2>2 DEF Grows
<1>2. upTo = [q \in 0..last |-> IF q = 0 THEN Start ELSE Hide(f, q, upTo[q - 1])]
  <2>. HIDE DEF Start
  <2>. QED  BY <1>1
<1>3. Envelope(f, last) = upTo[last]
  BY DEF Envelope
<1>. HIDE DEF upTo
<1>4. \A q \in 0..last : upTo[q] = IF q = 0 THEN Start ELSE Hide(f, q, upTo[q - 1])
  <2>. HIDE DEF Start
  <2>. QED  BY <1>2
<1>. DEFINE Bad == {q \in 0..last : ~ EnvelopeOf(f, q, upTo[q])}
<1>5. Bad = {}
  <2>. SUFFICES ASSUME Bad # {} PROVE FALSE
    OBVIOUS
  <2>1. PICK b \in Bad : \A c \in Bad : b <= c
    <3>1. Bad \subseteq Nat
      OBVIOUS
    <3>. HIDE DEF Bad
    <3>. QED  BY <3>1, LeastElement
  <2>2. b \in 0..last /\ ~ EnvelopeOf(f, b, upTo[b])
    OBVIOUS
  <2>3. CASE b = 0
    BY <1>4, <2>2, <2>3, OneParabola
  <2>4. CASE b # 0
    <3>. DEFINE q == b - 1
    <3>1. q \in Nat /\ q + 1 = b /\ q \in 0..last /\ ~ (b <= q) /\ q + 1 \in 0..(n - 1)
      BY <2>2, <2>4
    <3>. HIDE DEF q
    <3>2. q \notin Bad
      <4>. HIDE DEF Bad
      <4>. QED  BY <2>1, <3>1
    <3>3. EnvelopeOf(f, q, upTo[q])
      BY <3>1, <3>2
    <3>4. EnvelopeOf(f, q + 1, Hide(f, q + 1, upTo[q]))
      BY <3>1, <3>3, HideKeeps
    <3>5. upTo[b] = Hide(f, b, upTo[q])
      BY <1>4, <2>2, <2>4 DEF q
    <3>. QED  BY <2>2, <3>1, <3>4, <3>5
  <2>. QED  BY <2>3, <2>4
<1>6. last \in 0..last
  OBVIOUS
<1>. QED  BY <1>3, <1>5, <1>6

(* d is f carried along the line: every distance is the least to reach from *)
(* a value of f, and INF when f has none.                                   *)
Carried(f, n, d) ==
  \A q \in 0..(n - 1) :
    /\ (\A p \in 0..(n - 1) : f[p] = INF) => d[q] = INF
    /\ (\E p \in 0..(n - 1) : f[p] # INF) =>
         /\ \E v \in 0..(n - 1) : f[v] # INF /\ d[q] = Square(q - v) + f[v]
         /\ \A p \in 0..(n - 1) : f[p] # INF => d[q] <= Square(q - p) + f[p]

LEMMA SquaresAreSmall ==
  ASSUME NEW n \in Nat \ {0}, NEW v \in 0..(n - 1), NEW x \in 0..(n - 1)
  PROVE  /\ v * v \in Nat /\ v * v <= n * n /\ v * x \in Nat /\ v * x <= n * n
         /\ n * n \in Nat \ {0}
         /\ Square(x - v) \in Nat /\ Square(x - v) <= n * n
         /\ Square(x - v) = x * x + (v * v - 2 * (v * x))
<1>1. ASSUME NEW a \in 0..(n - 1), NEW b \in 0..(n - 1)
      PROVE  a * b \in Nat /\ a * b <= n * n
  <2>1. PICK c \in Nat : n = a + c
    OBVIOUS
  <2>2. PICK d \in Nat : n = b + d
    OBVIOUS
  <2>3. (a + c) * (b + d) = a * b + a * d + c * b + c * d
    OBVIOUS
  <2>4. a * b >= 0 /\ a * d >= 0 /\ c * b >= 0 /\ c * d >= 0
    OBVIOUS
  <2>5. a * b \in Int /\ a * d \in Int /\ c * b \in Int /\ c * d \in Int
    OBVIOUS
  <2>6. n * n = a * b + a * d + c * b + c * d
    BY <2>1, <2>2, <2>3
  <2>. QED  BY <2>4, <2>5, <2>6
<1>2. n * n \in Nat \ {0}
  <2>1. n * n > 0 /\ n * n \in Int
    OBVIOUS
  <2>. QED  BY <2>1
<1>3. Square(x - v) \in Nat /\ Square(x - v) <= n * n
  <2>1. CASE v <= x
    <3>1. x - v \in 0..(n - 1)
      BY <2>1
    <3>. QED  BY <1>1, <3>1 DEF Square
  <2>2. CASE x <= v
    <3>1. v - x \in 0..(n - 1) /\ (x - v) * (x - v) = (v - x) * (v - x)
      BY <2>2
    <3>. QED  BY <1>1, <3>1 DEF Square
  <2>. QED  BY <2>1, <2>2
<1>4. (x - v) * (x - v) = x * x + (v * v - 2 * (v * x))
  OBVIOUS
<1>. QED  BY <1>1, <1>2, <1>3, <1>4 DEF Square

(* One pass along a line is exact.                                          *)
LEMMA Edt1dIsExact ==
  ASSUME NEW n \in Nat \ {0}, NEW m \in Nat, m + 3 * (n * n) < INF,
         NEW f \in [0..(n - 1) -> 0..INF],
         \A p \in 0..(n - 1) : f[p] = INF \/ f[p] <= m
  PROVE  Carried(f, n, Edt1d(f, n))
<1>. DEFINE e == Envelope(f, n - 1)
            Used(q) == Max({1} \cup {k \in 2..Len(e) : e[k].z.num < q * e[k].z.den})
<1>1. INF \in Nat /\ n * n \in Nat /\ Fits(n) /\ n - 1 \in Nat
  <2>1. n * n > 0 /\ n * n \in Int
    OBVIOUS
  <2>2. n * n <= INF
    BY <2>1, InfIsTyped
  <2>. QED  BY <2>1, <2>2, InfIsTyped DEF Fits
<1>2. Linked(f, n - 1, e) /\ Lowest(f, n - 1, e)
  BY <1>1, EnvelopeIsLowest DEF EnvelopeOf
<1>3. \A q \in 0..(n - 1) :
        LET v == e[Used(q)].v
        IN Edt1d(f, n)[q] = IF f[v] = INF THEN INF ELSE Square(q - v) + f[v]
  BY DEF Edt1d, Square
<1>. HIDE DEF e
<1>4. ASSUME NEW q \in 0..(n - 1)
      PROVE  \E v \in 0..(n - 1) :
               /\ Edt1d(f, n)[q] = IF f[v] = INF THEN INF ELSE Square(q - v) + f[v]
               /\ \A p \in 0..(n - 1) : Cost(f, v, q) <= Cost(f, p, q)
  <2>. DEFINE T == {k \in 1..Len(e) : Below(e[k].z, q)}
              k == Max(T)
  <2>1. k \in 1..Len(e) /\ UsedAt(e, k, q) /\ \A i \in 1..k : Below(e[i].z, q)
    <3>1. q \in Nat
      OBVIOUS
    <3>. QED  BY <1>1, <1>2, <3>1, LastBelowIsUsed
  <2>2. Len(e) \in Nat \ {0}
    BY <1>2 DEF Linked
  <2>3. Below(e[1].z, q)
    <3>1. 1 \in 1..k
      BY <2>1, <2>2
    <3>. QED  BY <2>1, <3>1
  <2>4. T = {1} \cup {i \in 2..Len(e) : e[i].z.num < q * e[i].z.den}
    <3>1. 1..Len(e) = {1} \cup 2..Len(e)
      BY <2>2
    <3>2. T = {1} \cup {i \in 2..Len(e) : Below(e[i].z, q)}
      BY <2>3, <3>1
    <3>. QED  BY <3>2 DEF Below
  <2>5. Used(q) = k
    BY <2>4
  <2>. HIDE DEF k, Used
  <2>6. e[k].v \in 0..(n - 1)
    BY <1>1, <1>2, <2>1, Items
  <2>7. \A p \in 0..(n - 1) : Cost(f, e[k].v, q) <= Cost(f, p, q)
    BY <1>2, <2>1 DEF Lowest
  <2>8. Edt1d(f, n)[q] = IF f[e[k].v] = INF THEN INF ELSE Square(q - e[k].v) + f[e[k].v]
    BY <1>3, <2>5
  <2>. QED  BY <2>6, <2>7, <2>8
<1>5. SUFFICES ASSUME NEW q \in 0..(n - 1)
      PROVE
    /\ (\A p \in 0..(n - 1) : f[p] = INF) => Edt1d(f, n)[q] = INF
    /\ (\E p \in 0..(n - 1) : f[p] # INF) =>
         /\ \E v \in 0..(n - 1) : f[v] # INF /\ Edt1d(f, n)[q] = Square(q - v) + f[v]
         /\ \A p \in 0..(n - 1) : f[p] # INF => Edt1d(f, n)[q] <= Square(q - p) + f[p]
  BY DEF Carried
<1>6. PICK v \in 0..(n - 1) :
        /\ Edt1d(f, n)[q] = IF f[v] = INF THEN INF ELSE Square(q - v) + f[v]
        /\ \A p \in 0..(n - 1) : Cost(f, v, q) <= Cost(f, p, q)
  BY <1>4
<1>7. ASSUME NEW p \in 0..(n - 1)
      PROVE  /\ f[p] \in Nat /\ (f[p] = INF \/ f[p] <= m)
             /\ p * p \in Nat /\ p * p <= n * n /\ p * q \in Nat /\ p * q <= n * n
             /\ Square(q - p) \in Nat /\ Square(q - p) = q * q + (p * p - 2 * (p * q))
             /\ Cost(f, p, q) = IF f[p] = INF THEN INF - 2 * (p * q)
                                ELSE f[p] + p * p - 2 * (p * q)
  <2>1. f[p] \in Nat
    BY <1>1
  <2>2. Cost(f, p, q) = IF f[p] = INF THEN INF - 2 * (p * q)
                        ELSE f[p] + p * p - 2 * (p * q)
    BY DEF Cost, Raise
  <2>. QED  BY <2>1, <2>2, SquaresAreSmall
<1>8. ASSUME NEW p \in 0..(n - 1), f[p] # INF
      PROVE  f[v] # INF /\ Square(q - v) + f[v] <= Square(q - p) + f[p]
  <2>1. Cost(f, v, q) <= Cost(f, p, q)
    BY <1>6
  <2>2. Cost(f, p, q) = f[p] + p * p - 2 * (p * q) /\ f[p] <= m
    BY <1>7, <1>8
  <2>. DEFINE pq == p * q
              vq == v * q
              pp == p * p
              vv == v * v
              nn == n * n
              qq == q * q
              vc == Cost(f, v, q)
              pc == Cost(f, p, q)
              sv == Square(q - v)
              sp == Square(q - p)
              fv == f[v]
              fp == f[p]
  <2>3. /\ pq \in Nat /\ vq \in Nat /\ pp \in Nat /\ vv \in Nat /\ nn \in Nat /\ qq \in Nat
        /\ fv \in Nat /\ fp \in Nat /\ fp <= m /\ pq <= nn /\ vq <= nn /\ pp <= nn /\ vv <= nn
        /\ sv = qq + (vv - 2 * vq) /\ sp = qq + (pp - 2 * pq)
        /\ vc <= pc /\ pc = fp + pp - 2 * pq
        /\ vc = IF fv = INF THEN INF - 2 * vq ELSE fv + vv - 2 * vq
        /\ m + 3 * nn < INF
    BY <1>1, <1>7, <2>1, <2>2
  <2>. HIDE DEF pq, vq, pp, vv, nn, qq, vc, pc, sv, sp, fv, fp
  <2>4. fv # INF
    BY <1>1, <2>3, SMT
  <2>5. sv + fv <= sp + fp
    BY <1>1, <2>3, <2>4, SMT
  <2>. QED  BY <2>4, <2>5 DEF sv, sp, fv, fp
<1>. QED  BY <1>6, <1>8

LEMMA LeastIsMin ==
  ASSUME NEW S, S \subseteq Int, NEW d \in S, \A y \in S : d <= y
  PROVE  Min(S) = d
<1>1. Min(S) \in S /\ \A y \in S : Min(S) <= y
  <2>1. \E x \in S : \A y \in S : x <= y
    OBVIOUS
  <2>. QED  BY <2>1 DEF Min
<1>2. Min(S) \in Int /\ d \in Int /\ Min(S) <= d /\ d <= Min(S)
  BY <1>1
<1>. QED  BY <1>2

(* The rows, then the columns, give every cell its nearest site.            *)
THEOREM EveryDistanceIsNearest ==
  ASSUME NEW sites \in SUBSET Cells, NEW c \in Cells
  PROVE  EdtFromSites(sites)[c] = NearestSite(sites, c)
<1>. DEFINE W == Width
            H == Height
            row(y) == [x \in 0..(W - 1) |-> IF <<x, y>> \in sites THEN 0 ELSE INF]
            rows == [y \in 0..(H - 1) |-> Edt1d(row(y), W)]
            column(x) == [y \in 0..(H - 1) |-> rows[y][x]]
<1>1. CASE sites = {}
  BY <1>1 DEF EdtFromSites, NearestSite
<1>2. CASE sites # {}
  <2>1. /\ W \in Nat \ {0} /\ H \in Nat \ {0} /\ W * W \in Nat /\ H * H \in Nat
        /\ INF \in Nat \ {0}
        /\ 0 + 3 * (W * W) < INF /\ W * W + 3 * (H * H) < INF /\ W * W < INF
    <3>1. W \in Nat \ {0} /\ H \in Nat \ {0}
      BY GridSize
    <3>2. W * W >= 0 /\ H * H >= 0 /\ W * W \in Int /\ H * H \in Int
      BY <3>1
    <3>3. 3 * (W * W + H * H) < INF /\ INF \in Nat \ {0}
      BY GridSize, InfIsTyped
    <3>. QED  BY <3>1, <3>2, <3>3
  <2>2. PICK i \in 0..(W - 1), j \in 0..(H - 1) : c = <<i, j>>
    BY DEF Cells
  <2>3. EdtFromSites(sites)[c] = Edt1d(column(i), H)[j]
    BY <1>2, <2>2 DEF EdtFromSites, ColumnPass, RowPass
  <2>4. ASSUME NEW x \in 0..(W - 1), NEW y \in 0..(H - 1)
        PROVE  row(y)[x] = IF <<x, y>> \in sites THEN 0 ELSE INF
    OBVIOUS
  <2>5. ASSUME NEW y \in 0..(H - 1) PROVE Carried(row(y), W, rows[y])
    <3>1. row(y) \in [0..(W - 1) -> 0..INF]
      BY <2>1
    <3>2. \A p \in 0..(W - 1) : row(y)[p] = INF \/ row(y)[p] <= 0
      BY <2>4
    <3>3. rows[y] = Edt1d(row(y), W)
      OBVIOUS
    <3>. HIDE DEF row, rows
    <3>. QED  BY <2>1, <3>1, <3>2, <3>3, Edt1dIsExact
  <2>. HIDE DEF row, rows
  <2>6. ASSUME NEW y \in 0..(H - 1)
        PROVE  /\ rows[y][i] = INF \/ rows[y][i] \in 0..(W * W)
               /\ rows[y][i] # INF => \E x \in 0..(W - 1) :
                                        <<x, y>> \in sites /\ rows[y][i] = Square(i - x)
               /\ \A x \in 0..(W - 1) : <<x, y>> \in sites =>
                      rows[y][i] # INF /\ rows[y][i] <= Square(i - x)
    <3>1. ASSUME NEW x \in 0..(W - 1)
          PROVE  /\ Square(i - x) \in Nat /\ Square(i - x) <= W * W
                 /\ row(y)[x] = IF <<x, y>> \in sites THEN 0 ELSE INF
                 /\ row(y)[x] # INF <=> <<x, y>> \in sites
                 /\ Square(i - x) + 0 = Square(i - x)
      <4>1. Square(i - x) \in Nat /\ Square(i - x) <= W * W
        BY <2>1, SquaresAreSmall
      <4>. QED  BY <2>1, <2>4, <4>1
    <3>2. CASE \A x \in 0..(W - 1) : <<x, y>> \notin sites
      <4>1. \A x \in 0..(W - 1) : row(y)[x] = INF
        BY <3>1, <3>2
      <4>2. rows[y][i] = INF
        BY <2>5, <4>1 DEF Carried
      <4>. QED  BY <3>2, <4>2
    <3>3. CASE \E x \in 0..(W - 1) : <<x, y>> \in sites
      <4>1. \E x \in 0..(W - 1) : row(y)[x] # INF
        BY <3>1, <3>3
      <4>2. /\ \E x \in 0..(W - 1) : /\ row(y)[x] # INF
                                     /\ rows[y][i] = Square(i - x) + row(y)[x]
            /\ \A x \in 0..(W - 1) : row(y)[x] # INF =>
                                       rows[y][i] <= Square(i - x) + row(y)[x]
        BY <2>5, <4>1 DEF Carried
      <4>3. PICK x \in 0..(W - 1) : <<x, y>> \in sites /\ rows[y][i] = Square(i - x)
        BY <3>1, <4>2
      <4>4. rows[y][i] \in 0..(W * W) /\ rows[y][i] # INF
        BY <2>1, <3>1, <4>3
      <4>5. \A u \in 0..(W - 1) : <<u, y>> \in sites => rows[y][i] <= Square(i - u)
        BY <3>1, <4>2
      <4>. QED  BY <4>3, <4>4, <4>5
    <3>. QED  BY <3>2, <3>3
  <2>7. ASSUME NEW y \in 0..(H - 1) PROVE column(i)[y] = rows[y][i]
    OBVIOUS
  <2>8. column(i) \in [0..(H - 1) -> 0..INF]
    <3>1. ASSUME NEW y \in 0..(H - 1) PROVE rows[y][i] \in 0..INF
      <4>1. INF \in 0..INF /\ 0..(W * W) \subseteq 0..INF
        BY <2>1
      <4>. QED  BY <2>6, <4>1
    <3>. QED  BY <3>1
  <2>. HIDE DEF column
  <2>9. Carried(column(i), H, Edt1d(column(i), H))
    <3>1. \A y \in 0..(H - 1) : column(i)[y] = INF \/ column(i)[y] <= W * W
      BY <2>1, <2>6, <2>7
    <3>. QED  BY <2>1, <2>8, <3>1, Edt1dIsExact
  <2>. DEFINE d == Edt1d(column(i), H)[j]
              S == {Square(c[1] - s[1]) + Square(c[2] - s[2]) : s \in sites}
  <2>10. ASSUME NEW s \in sites
         PROVE  \E x \in 0..(W - 1), y \in 0..(H - 1) : s = <<x, y>>
    BY DEF Cells
  <2>11. \E y \in 0..(H - 1) : column(i)[y] # INF
    <3>1. PICK s \in sites : TRUE
      BY <1>2
    <3>2. PICK x \in 0..(W - 1), y \in 0..(H - 1) : s = <<x, y>>
      BY <2>10
    <3>. QED  BY <2>6, <2>7, <3>2
  <2>12. /\ \E y \in 0..(H - 1) : column(i)[y] # INF /\ d = Square(j - y) + column(i)[y]
         /\ \A y \in 0..(H - 1) : column(i)[y] # INF => d <= Square(j - y) + column(i)[y]
    BY <2>9, <2>11 DEF Carried
  <2>. HIDE DEF d
  <2>13. ASSUME NEW x \in 0..(W - 1), NEW y \in 0..(H - 1)
         PROVE  Square(i - x) \in Nat /\ Square(j - y) \in Nat
    BY <2>1, SquaresAreSmall
  <2>14. d \in S
    <3>1. PICK y \in 0..(H - 1) : column(i)[y] # INF /\ d = Square(j - y) + column(i)[y]
      BY <2>12
    <3>2. PICK x \in 0..(W - 1) : <<x, y>> \in sites /\ column(i)[y] = Square(i - x)
      BY <2>6, <2>7, <3>1
    <3>3. d = Square(i - x) + Square(j - y)
      BY <2>13, <3>1, <3>2
    <3>4. <<x, y>>[1] = x /\ <<x, y>>[2] = y /\ c[1] = i /\ c[2] = j
      BY <2>2
    <3>. QED  BY <3>2, <3>3, <3>4
  <2>15. ASSUME NEW s \in sites
         PROVE  /\ Square(c[1] - s[1]) + Square(c[2] - s[2]) \in Int
                /\ d <= Square(c[1] - s[1]) + Square(c[2] - s[2])
    <3>1. PICK x \in 0..(W - 1), y \in 0..(H - 1) : s = <<x, y>>
      BY <2>10
    <3>2. s[1] = x /\ s[2] = y /\ c[1] = i /\ c[2] = j
      BY <2>2, <3>1
    <3>3. column(i)[y] # INF /\ column(i)[y] <= Square(i - x)
      BY <2>6, <2>7, <3>1
    <3>4. d <= Square(j - y) + column(i)[y]
      BY <2>12, <3>3
    <3>5. column(i)[y] \in Int /\ d \in Int
      <4>1. \A u \in 0..(H - 1) : column(i)[u] \in Int
        BY <2>1, <2>8
      <4>2. PICK u \in 0..(H - 1) : d = Square(j - u) + column(i)[u]
        BY <2>12
      <4>3. Square(j - u) \in Int
        BY <2>13
      <4>. QED  BY <4>1, <4>2, <4>3
    <3>. QED  BY <2>13, <3>2, <3>3, <3>4, <3>5
  <2>16. S \subseteq Int /\ \A y \in S : d <= y
    BY <2>15
  <2>17. Min(S) = d
    <3>. HIDE DEF S
    <3>. QED  BY <2>14, <2>16, LeastIsMin
  <2>. QED  BY <1>2, <2>3, <2>17 DEF NearestSite, d
<1>. QED  BY <1>1, <1>2

-----------------------------------------------------------------------------
(* Recursion over a finite rank                                             *)

(* f[x] is base[x] where x stops, else it is joined to f of the next one.   *)
Gathers(D, V, stop, base, join, next, f) ==
  /\ f \in [D -> V]
  /\ \A x \in D : f[x] = IF x \in stop THEN base[x] ELSE join[x][f[next[x]]]

(* What every x has that all of lower rank give it, all have.               *)
LEMMA RankInduction ==
  ASSUME NEW D, NEW rank \in [D -> Nat], NEW good,
         \A x \in D : (\A y \in D : rank[y] < rank[x] => y \in good) => x \in good
  PROVE  D \subseteq good
<1>. DEFINE Bad == {n \in Nat : \E x \in D : rank[x] = n /\ x \notin good}
<1>. SUFFICES ASSUME Bad # {} PROVE FALSE
  OBVIOUS
<1>1. PICK m \in Bad : \A k \in Bad : m <= k
  BY LeastElement
<1>2. PICK x \in D : rank[x] = m /\ x \notin good
  OBVIOUS
<1>3. ASSUME NEW y \in D, rank[y] < rank[x], y \notin good PROVE FALSE
  <2>1. rank[y] \in Bad /\ rank[y] \in Nat /\ m \in Nat
    BY <1>3
  <2>. HIDE DEF Bad
  <2>. QED  BY <1>1, <1>2, <1>3, <2>1
<1>. QED  BY <1>2, <1>3

(* Such a function exists if every next one is of lower rank.               *)
LEMMA GatheringExists ==
  ASSUME NEW D, NEW V, NEW rank \in [D -> Nat],
         NEW top \in Nat, \A x \in D : rank[x] <= top,
         NEW stop, NEW base \in [D -> V], NEW join, NEW next,
         \A x \in D : x \notin stop =>
           next[x] \in D /\ rank[next[x]] < rank[x] /\ join[x] \in [V -> V]
  PROVE  \E f : Gathers(D, V, stop, base, join, next, f)
<1>. DEFINE Low(n) == {x \in D : rank[x] <= n}
            Good(n, f) == Gathers(Low(n), V, stop, base, join, next, f)
            Bad == {n \in Nat : ~ \E f : Good(n, f)}
<1>1. 0 \notin Bad
  <2>. DEFINE h == [x \in Low(0) |-> base[x]]
  <2>1. \A x \in Low(0) : x \in stop
    OBVIOUS
  <2>2. Good(0, h)
    BY <2>1 DEF Gathers
  <2>. QED  BY <2>2
<1>2. ASSUME NEW n \in Nat, n \notin Bad PROVE n + 1 \notin Bad
  <2>1. PICK g : Good(n, g)
    BY <1>2
  <2>. DEFINE h == [x \in Low(n + 1) |-> IF x \in stop THEN base[x] ELSE join[x][g[next[x]]]]
  <2>2. ASSUME NEW x \in Low(n + 1), x \notin stop
        PROVE  next[x] \in Low(n) /\ next[x] \in Low(n + 1)
    <3>1. next[x] \in D /\ rank[next[x]] < rank[x] /\ rank[x] <= n + 1
      BY <2>2
    <3>2. rank[next[x]] \in Nat /\ rank[x] \in Nat
      BY <2>2, <3>1
    <3>. QED  BY <3>1, <3>2
  <2>3. ASSUME NEW x \in Low(n), x \in Low(n + 1) PROVE h[x] = g[x]
    BY <2>1, <2>3 DEF Gathers
  <2>4. h \in [Low(n + 1) -> V]
    <3>1. ASSUME NEW x \in Low(n + 1), x \notin stop PROVE join[x][g[next[x]]] \in V
      <4>1. x \in D /\ g[next[x]] \in V
        BY <2>1, <2>2, <3>1 DEF Gathers
      <4>. QED  BY <3>1, <4>1
    <3>. QED  BY <3>1
  <2>. HIDE DEF Low
  <2>5. ASSUME NEW x \in Low(n + 1)
        PROVE  h[x] = IF x \in stop THEN base[x] ELSE join[x][h[next[x]]]
    <3>1. CASE x \in stop
      BY <3>1
    <3>2. CASE x \notin stop
      <4>1. h[next[x]] = g[next[x]]
        BY <2>2, <2>3, <3>2
      <4>. QED  BY <3>2, <4>1
    <3>. QED  BY <3>1, <3>2
  <2>6. Good(n + 1, h)
    <3>. HIDE DEF h
    <3>. QED  BY <2>4, <2>5 DEF Gathers
  <2>. QED  BY <2>6
<1>3. Bad = {}
  <2>. SUFFICES ASSUME Bad # {} PROVE FALSE
    OBVIOUS
  <2>. HIDE DEF Good
  <2>1. PICK m \in Bad : \A k \in Bad : m <= k
    BY LeastElement
  <2>2. m \in Nat /\ m # 0 /\ m - 1 \in Nat /\ (m - 1) + 1 = m
    <3>1. m \in Nat /\ m # 0
      BY <1>1
    <3>. HIDE DEF Bad
    <3>. QED  BY <3>1
  <2>3. m - 1 \notin Bad
    <3>. HIDE DEF Bad
    <3>. QED  BY <2>1, <2>2
  <2>. QED  BY <1>2, <2>2, <2>3
<1>4. Low(top) = D
  OBVIOUS
<1>. HIDE DEF Low
<1>. QED  BY <1>3, <1>4

(* Leaving some of a finite set makes it smaller.                           *)
LEMMA SmallerRest ==
  ASSUME NEW S, IsFiniteSet(S), NEW a, a \subseteq S, NEW b, b \subseteq a, b # a
  PROVE  /\ Cardinality(a) \in Nat /\ Cardinality(b) \in Nat
         /\ Cardinality(b) < Cardinality(a) /\ Cardinality(a) <= Cardinality(S)
<1>1. IsFiniteSet(a) /\ IsFiniteSet(b)
  BY FS_Subset
<1>2. Cardinality(a) \in Nat /\ Cardinality(b) \in Nat /\ Cardinality(S) \in Nat
  BY <1>1, FS_CardinalityType
<1>. QED  BY <1>1, <1>2, FS_Subset

-----------------------------------------------------------------------------
(* The components of a set of cells                                         *)

LEMMA CellsAreFinite == IsFiniteSet(Cells)
<1>1. Width - 1 \in Int /\ Height - 1 \in Int /\ 0 \in Int
  BY GridSize
<1>2. IsFiniteSet(0..(Width - 1)) /\ IsFiniteSet(0..(Height - 1))
  BY <1>1, FS_Interval
<1>. QED  BY <1>2, FS_Product DEF Cells

(* A flood has its start and stays within its cells.                        *)
LEMMA FloodIs ==
  ASSUME NEW within, IsFiniteSet(within), NEW start \in within
  PROVE  start \in Flood(within, start) /\ Flood(within, start) \subseteq within
<1>. DEFINE D == SUBSET within
            Around(x) == UNION {Beside(c) : c \in x}
            Next1(x) == x \cup (Around(x) \cap within)
            rank == [x \in D |-> Cardinality(within \ x)]
            stop == {x \in D : Next1(x) = x}
            base == [x \in D |-> x]
            join == [x \in D |-> [v \in D |-> v]]
            next == [x \in D |-> Next1(x)]
            Spread(f) == f = [x \in D |-> IF Next1(x) = x THEN x ELSE f[Next1(x)]]
            spread == CHOOSE f : Spread(f)
<1>1. rank \in [D -> Nat] /\ Cardinality(within) \in Nat
  BY FS_Subset, FS_CardinalityType
<1>2. \A x \in D : rank[x] <= Cardinality(within)
  BY FS_Subset
<1>3. ASSUME NEW x \in D, Next1(x) # x
      PROVE  Next1(x) \in D /\ rank[Next1(x)] < rank[x] /\ x \subseteq Next1(x)
  <2>1. Next1(x) \in D /\ x \subseteq Next1(x)
    <3>. HIDE DEF Around
    <3>. QED  OBVIOUS
  <2>2. within \ Next1(x) \subseteq within \ x /\ within \ Next1(x) # within \ x
    BY <1>3, <2>1
  <2>. HIDE DEF Next1
  <2>. QED  BY <2>1, <2>2, SmallerRest
<1>4. \E f : Spread(f)
  <2>. HIDE DEF Next1
  <2>1. PICK f : Gathers(D, D, stop, base, join, next, f)
    <3>1. \A x \in D : x \notin stop => /\ next[x] \in D /\ rank[next[x]] < rank[x]
                                        /\ join[x] \in [D -> D]
      BY <1>3
    <3>2. base \in [D -> D]
      OBVIOUS
    <3>. HIDE DEF D, rank, stop, base, join, next
    <3>. QED  BY <1>1, <1>2, <3>1, <3>2, GatheringExists
  <2>2. ASSUME NEW x \in D
        PROVE  f[x] = IF Next1(x) = x THEN x ELSE f[Next1(x)]
    <3>1. f \in [D -> D] /\ f[x] = IF x \in stop THEN base[x] ELSE join[x][f[next[x]]]
      BY <2>1 DEF Gathers
    <3>2. base[x] = x /\ next[x] = Next1(x) /\ (x \in stop <=> Next1(x) = x)
      OBVIOUS
    <3>3. CASE Next1(x) = x
      BY <3>1, <3>2, <3>3
    <3>4. CASE Next1(x) # x
      <4>1. f[Next1(x)] \in D
        BY <1>3, <3>1, <3>4
      <4>2. join[x][f[Next1(x)]] = f[Next1(x)]
        BY <4>1
      <4>. QED  BY <3>1, <3>2, <3>4, <4>2
    <3>. QED  BY <3>3, <3>4
  <2>3. f = [x \in D |-> f[x]]
    BY <2>1 DEF Gathers
  <2>4. Spread(f)
    BY <2>2, <2>3
  <2>. QED  BY <2>4
<1>5. Flood(within, start) = spread[{start}]
  BY DEF Flood
<1>6. Spread(spread)
  BY <1>4
<1>. DEFINE good == {x \in D : x \subseteq spread[x] /\ spread[x] \subseteq within}
<1>. HIDE DEF spread, Next1
<1>7. ASSUME NEW x \in D, \A y \in D : rank[y] < rank[x] => y \in good
      PROVE  x \in good
  <2>1. CASE Next1(x) = x
    BY <1>6, <2>1
  <2>2. CASE Next1(x) # x
    <3>1. Next1(x) \in good /\ x \subseteq Next1(x) /\ Next1(x) \in D
      BY <1>3, <1>7, <2>2
    <3>2. spread[x] = spread[Next1(x)]
      BY <1>6, <2>2
    <3>. QED  BY <3>1, <3>2
  <2>. QED  BY <2>1, <2>2
<1>8. D \subseteq good
  <2>. HIDE DEF D, rank, good
  <2>. QED  BY <1>1, <1>7, RankInduction
<1>9. {start} \in D
  OBVIOUS
<1>. QED  BY <1>5, <1>8, <1>9

(* The components of finitely many cells are a partition of them.           *)
Partition(parts, cells) ==
  /\ UNION parts = cells
  /\ \A p \in parts : p # {}
  /\ \A p, q \in parts : p \cap q # {} => p = q

LEMMA ComponentsPartition ==
  ASSUME NEW cells, IsFiniteSet(cells)
  PROVE  Partition(Components(cells), cells)
<1>. DEFINE D == SUBSET cells
            One(x) == Flood(x, CHOOSE c \in x : TRUE)
            rank == [x \in D |-> Cardinality(x)]
            base == [x \in D |-> {}]
            join == [x \in D |-> [v \in SUBSET D |-> {One(x)} \cup v]]
            next == [x \in D |-> x \ One(x)]
            Parts(f) == f = [x \in D |-> IF x = {} THEN {} ELSE {One(x)} \cup f[x \ One(x)]]
            parts == CHOOSE f : Parts(f)
<1>1. rank \in [D -> Nat] /\ Cardinality(cells) \in Nat
  BY FS_Subset, FS_CardinalityType
<1>2. \A x \in D : rank[x] <= Cardinality(cells)
  BY FS_Subset
<1>3. ASSUME NEW x \in D, x # {}
      PROVE  /\ One(x) # {} /\ One(x) \subseteq x
             /\ x \ One(x) \in D /\ rank[x \ One(x)] < rank[x]
  <2>1. IsFiniteSet(x) /\ (CHOOSE c \in x : TRUE) \in x
    BY <1>3, FS_Subset
  <2>2. One(x) # {} /\ One(x) \subseteq x
    BY <2>1, FloodIs
  <2>. HIDE DEF One
  <2>3. x \ One(x) \subseteq x /\ x \ One(x) # x
    BY <2>2
  <2>. QED  BY <2>2, <2>3, SmallerRest
<1>4. \E f : Parts(f)
  <2>. HIDE DEF One
  <2>1. PICK f : Gathers(D, SUBSET D, {{}}, base, join, next, f)
    <3>1. ASSUME NEW x \in D, x \notin {{}}
          PROVE  /\ next[x] \in D /\ rank[next[x]] < rank[x]
                 /\ join[x] \in [SUBSET D -> SUBSET D]
      <4>1. One(x) \in D /\ next[x] \in D /\ rank[next[x]] < rank[x]
        BY <1>3, <3>1
      <4>2. \A v \in SUBSET D : {One(x)} \cup v \in SUBSET D
        BY <4>1
      <4>. QED  BY <4>1, <4>2
    <3>2. base \in [D -> SUBSET D]
      OBVIOUS
    <3>. HIDE DEF D, rank, base, join, next
    <3>. QED  BY <1>1, <1>2, <3>1, <3>2, GatheringExists
  <2>2. ASSUME NEW x \in D
        PROVE  f[x] = IF x = {} THEN {} ELSE {One(x)} \cup f[x \ One(x)]
    <3>1. f \in [D -> SUBSET D] /\ f[x] = IF x \in {{}} THEN base[x] ELSE join[x][f[next[x]]]
      BY <2>1 DEF Gathers
    <3>2. CASE x = {}
      BY <3>1, <3>2
    <3>3. CASE x # {}
      <4>1. f[x \ One(x)] \in SUBSET D
        BY <1>3, <3>1, <3>3
      <4>2. join[x][f[x \ One(x)]] = {One(x)} \cup f[x \ One(x)]
        BY <4>1
      <4>. QED  BY <3>1, <3>3, <4>2
    <3>. QED  BY <3>2, <3>3
  <2>3. f = [x \in D |-> f[x]]
    BY <2>1 DEF Gathers
  <2>4. Parts(f)
    BY <2>2, <2>3
  <2>. QED  BY <2>4
<1>5. Components(cells) = parts[cells]
  BY DEF Components
<1>6. Parts(parts)
  BY <1>4
<1>. DEFINE good == {x \in D : Partition(parts[x], x)}
<1>. HIDE DEF parts, One
<1>7. ASSUME NEW x \in D, \A y \in D : rank[y] < rank[x] => y \in good
      PROVE  x \in good
  <2>1. CASE x = {}
    BY <1>6, <2>1 DEF Partition
  <2>2. CASE x # {}
    <3>1. Partition(parts[x \ One(x)], x \ One(x))
      BY <1>3, <1>7, <2>2
    <3>2. parts[x] = {One(x)} \cup parts[x \ One(x)]
      BY <1>6, <2>2
    <3>3. One(x) # {} /\ One(x) \subseteq x
      BY <1>3, <2>2
    <3>. DEFINE one == One(x)
                rest == parts[x \ One(x)]
    <3>. HIDE DEF one
    <3>0. UNION rest = x \ one /\ \A p \in rest : p # {} /\ p \subseteq UNION rest
      BY <3>1 DEF Partition, one
    <3>4. UNION rest = x \ one /\ \A p \in rest : p # {} /\ p \cap one = {}
      <4>. HIDE DEF rest
      <4>. QED  BY <3>0
    <3>5. parts[x] = {one} \cup rest
      BY <3>2 DEF one
    <3>6. \A p, q \in rest : p \cap q # {} => p = q
      BY <3>1 DEF Partition, one
    <3>. HIDE DEF rest
    <3>7. UNION parts[x] = x
      BY <3>3, <3>4, <3>5 DEF one
    <3>8. \A p \in parts[x] : p # {}
      BY <3>3, <3>4, <3>5 DEF one
    <3>9. \A p, q \in parts[x] : p \cap q # {} => p = q
      BY <3>4, <3>5, <3>6
    <3>. QED  BY <3>7, <3>8, <3>9 DEF Partition
  <2>. QED  BY <2>1, <2>2
<1>8. D \subseteq good
  <2>. HIDE DEF D, rank, good
  <2>. QED  BY <1>1, <1>7, RankInduction
<1>9. cells \in D
  OBVIOUS
<1>. QED  BY <1>5, <1>8, <1>9

-----------------------------------------------------------------------------
(* Numbers of a finite set                                                  *)

LEMMA LeastOf ==
  ASSUME NEW D, IsFiniteSet(D), D # {}, NEW f \in [D -> Int]
  PROVE  \E i \in D : \A j \in D : f[i] <= f[j]
<1>. DEFINE Has(s) == \E i \in s : \A j \in s : f[i] <= f[j]
            Bad == {n \in Nat : \E s \in SUBSET D : s # {} /\ Cardinality(s) = n /\ ~ Has(s)}
<1>1. Bad = {}
  <2>. SUFFICES ASSUME Bad # {} PROVE FALSE
    OBVIOUS
  <2>1. PICK m \in Bad : \A k \in Bad : m <= k
    BY LeastElement
  <2>2. PICK s \in SUBSET D : s # {} /\ Cardinality(s) = m /\ ~ Has(s)
    BY <2>1
  <2>3. PICK x \in s : TRUE
    BY <2>2
  <2>4. s \ {x} # {}
    BY <2>2, <2>3
  <2>5. Cardinality(s \ {x}) = m - 1 /\ m \in Nat /\ m - 1 \in Nat
    <3>1. IsFiniteSet(s) /\ Cardinality(s) \in Nat /\ Cardinality(s \ {x}) \in Nat
      BY FS_Subset, FS_CardinalityType
    <3>2. Cardinality(s \ {x}) = Cardinality(s) - 1
      BY <3>1, FS_RemoveElement
    <3>. QED  BY <2>2, <3>1, <3>2
  <2>6. m - 1 \notin Bad
    <3>. HIDE DEF Bad
    <3>. QED  BY <2>1, <2>5
  <2>7. Has(s \ {x})
    BY <2>4, <2>5, <2>6
  <2>8. PICK y \in s \ {x} : \A j \in s \ {x} : f[y] <= f[j]
    BY <2>7
  <2>9. f[x] \in Int /\ \A j \in s : f[j] \in Int
    BY <2>2, <2>3
  <2>10. CASE f[x] <= f[y]
    <3>1. \A j \in s : f[x] <= f[j]
      BY <2>8, <2>9, <2>10
    <3>. QED  BY <2>2, <2>3, <3>1
  <2>11. CASE f[y] <= f[x]
    <3>1. \A j \in s : f[y] <= f[j]
      BY <2>8, <2>9, <2>11
    <3>. QED  BY <2>2, <2>8, <3>1
  <2>. QED  BY <2>8, <2>9, <2>10, <2>11
<1>2. Cardinality(D) \in Nat /\ Cardinality(D) \notin Bad
  BY <1>1, FS_CardinalityType
<1>. QED  BY <1>2

LEMMA GreatestOf ==
  ASSUME NEW D, IsFiniteSet(D), D # {}, NEW f \in [D -> Int]
  PROVE  \E i \in D : \A j \in D : f[j] <= f[i]
<1>. DEFINE g == [i \in D |-> - f[i]]
<1>1. g \in [D -> Int] /\ \A i \in D : g[i] = - f[i] /\ f[i] \in Int
  OBVIOUS
<1>. HIDE DEF g
<1>2. PICK i \in D : \A j \in D : g[i] <= g[j]
  BY <1>1, LeastOf
<1>. QED  BY <1>1, <1>2

-----------------------------------------------------------------------------
(* The cell found first, and the component found first or last              *)

IndexOf == [c \in Cells |-> Index(c)]

LEMMA IndexIsInt == IndexOf \in [Cells -> Int]
<1>. SUFFICES ASSUME NEW c \in Cells PROVE c[2] * Width + c[1] \in Int
  BY DEF IndexOf, Index
<1>. QED  BY GridSize DEF Cells

LEMMA FirstIsThere ==
  ASSUME NEW p, p \subseteq Cells, p # {}
  PROVE  First(p) \in p /\ First(p) \in Cells /\ Index(First(p)) \in Int
<1>1. IsFiniteSet(p)
  BY CellsAreFinite, FS_Subset
<1>. DEFINE f == [c \in p |-> Index(c)]
<1>2. f \in [p -> Int]
  BY IndexIsInt DEF IndexOf
<1>3. \E c \in p : \A d \in p : f[c] <= f[d]
  <2>. HIDE DEF f
  <2>. QED  BY <1>1, <1>2, LeastOf
<1>4. First(p) \in p
  BY <1>3 DEF First
<1>. QED  BY <1>2, <1>4

(* Of a partition of some cells there is a largest part, and of those one   *)
(* that is found first and one that is found last.                          *)
LEMMA FoundIs ==
  ASSUME NEW cells \in SUBSET Cells, cells # {}
  PROVE  /\ FirstFound(Largest(Components(cells))) \in Components(cells)
         /\ LastFound(Largest(Components(cells))) \in Components(cells)
<1>. DEFINE parts == Components(cells)
            big == Largest(parts)
            size == [p \in parts |-> Cardinality(p)]
            found == [p \in big |-> Index(First(p))]
<1>1. IsFiniteSet(cells) /\ Partition(parts, cells)
  BY CellsAreFinite, FS_Subset, ComponentsPartition
<1>2. parts # {} /\ \A p \in parts : p \subseteq cells /\ p # {}
  BY <1>1 DEF Partition
<1>3. IsFiniteSet(parts)
  <2>1. IsFiniteSet(SUBSET cells) /\ parts \subseteq SUBSET cells
    BY <1>1, <1>2, FS_SUBSET
  <2>. QED  BY <2>1, FS_Subset
<1>. HIDE DEF parts
<1>4. size \in [parts -> Int]
  <2>1. ASSUME NEW p \in parts PROVE Cardinality(p) \in Nat
    BY <1>1, <1>2, FS_Subset, FS_CardinalityType
  <2>. QED  BY <2>1
<1>5. PICK p \in parts : \A q \in parts : size[q] <= size[p]
  BY <1>2, <1>3, <1>4, GreatestOf
<1>6. big # {} /\ big \subseteq parts /\ IsFiniteSet(big)
  <2>1. Cardinality(p) >= Cardinality(p) /\ \A q \in parts : Cardinality(p) >= Cardinality(q)
    BY <1>4, <1>5
  <2>2. p \in big
    BY <2>1 DEF Largest
  <2>3. big \subseteq parts
    BY DEF Largest
  <2>. QED  BY <1>3, <2>2, <2>3, FS_Subset
<1>. HIDE DEF big
<1>7. found \in [big -> Int]
  <2>1. ASSUME NEW q \in big PROVE Index(First(q)) \in Int
    BY <1>2, <1>6, FirstIsThere
  <2>. QED  BY <2>1
<1>8. FirstFound(big) \in big
  <2>1. PICK q \in big : \A o \in big : found[q] <= found[o]
    BY <1>6, <1>7, LeastOf
  <2>2. \A o \in big : Index(First(q)) <= Index(First(o))
    BY <2>1
  <2>. QED  BY <2>2 DEF FirstFound
<1>9. LastFound(big) \in big
  <2>1. PICK q \in big : \A o \in big : found[o] <= found[q]
    BY <1>6, <1>7, GreatestOf
  <2>2. \A o \in big : Index(First(q)) >= Index(First(o))
    BY <1>7, <2>1
  <2>. QED  BY <2>2 DEF LastFound
<1>. QED  BY <1>6, <1>8, <1>9 DEF parts, big

LEMMA RetainedIsPart ==
  ASSUME NEW free \in SUBSET Cells
  PROVE  RetainLargest(free) \subseteq free
<1>1. CASE free = {}
  BY <1>1 DEF RetainLargest
<1>2. CASE free # {}
  <2>1. Partition(Components(free), free)
    BY CellsAreFinite, FS_Subset, ComponentsPartition
  <2>2. RetainLargest(free) \in Components(free)
    BY <1>2, FoundIs DEF RetainLargest
  <2>. QED  BY <2>1, <2>2 DEF Partition
<1>. QED  BY <1>1, <1>2

(* Opening only takes cells away.                                           *)
LEMMA WindowIsMutual ==
  ASSUME NEW r \in Nat, NEW c \in Int \X Int, NEW d \in Window(c, r)
  PROVE  c \in Window(d, r) /\ d \in Int \X Int
<1>1. PICK dx \in -r..r, dy \in -r..r : d = <<c[1] + dx, c[2] + dy>>
  BY DEF Window
<1>2. -dx \in -r..r /\ -dy \in -r..r
  OBVIOUS
<1>3. c = <<d[1] + (-dx), d[2] + (-dy)>>
  BY <1>1
<1>. QED  BY <1>1, <1>2, <1>3 DEF Window

LEMMA OpenTakesAway ==
  ASSUME NEW free \in SUBSET Cells, NEW r \in Nat
  PROVE  OpenMask(free, r) \subseteq free
<1>. SUFFICES ASSUME NEW c \in Cells, Window(c, r) \cap Erode(free, r) # {}
              PROVE  c \in free
  BY DEF OpenMask, Dilate
<1>1. PICK d \in Window(c, r) : Window(d, r) \subseteq free
  BY DEF Erode
<1>2. c \in Int \X Int
  BY GridSize DEF Cells
<1>. QED  BY <1>1, <1>2, WindowIsMutual

(* A cleaned mask has only cells whose window sees free cells all around.   *)
LEMMA CleanedIsNearFree ==
  ASSUME NEW free \in SUBSET Cells, NEW r \in Nat, NEW c \in CleanMask(free, r)
  PROVE  c \in Cells /\ \A d \in Window(c, r) : Window(d, r) \cap free # {}
<1>1. CloseMask(free, r) \in SUBSET Cells
  BY DEF CloseMask, Erode
<1>2. OpenMask(CloseMask(free, r), r) \in SUBSET Cells
  BY DEF OpenMask, Dilate
<1>3. c \in CloseMask(free, r)
  BY <1>1, <1>2, RetainedIsPart, OpenTakesAway DEF CleanMask
<1>. QED  BY <1>3 DEF CloseMask, Erode, Dilate

(* The border that a part shares with the free cells                        *)
LEMMA BorderIsNat ==
  ASSUME NEW part \in SUBSET Cells, NEW free
  PROVE  SharedBorder(part, free) \in Nat
<1>. DEFINE D == SUBSET part
            Pick(s) == CHOOSE c \in s : TRUE
            At(c) == Cardinality(Beside(c) \cap free)
            rank == [s \in D |-> Cardinality(s)]
            base == [s \in D |-> 0]
            join == [s \in D |-> [n \in Nat |-> At(Pick(s)) + n]]
            next == [s \in D |-> s \ {Pick(s)}]
            Sums(f) == f = [s \in D |-> IF s = {} THEN 0 ELSE At(Pick(s)) + f[s \ {Pick(s)}]]
            sums == CHOOSE f : Sums(f)
<1>1. SharedBorder(part, free) = sums[part]
  BY DEF SharedBorder, MapThenSumSet, MapThenFoldSet
<1>2. IsFiniteSet(part)
  BY CellsAreFinite, FS_Subset
<1>3. rank \in [D -> Nat] /\ Cardinality(part) \in Nat /\ \A s \in D : rank[s] <= Cardinality(part)
  BY <1>2, FS_Subset, FS_CardinalityType
<1>4. ASSUME NEW s \in D, s # {}
      PROVE  At(Pick(s)) \in Nat /\ s \ {Pick(s)} \in D /\ rank[s \ {Pick(s)}] < rank[s]
  <2>1. Pick(s) \in s
    BY <1>4
  <2>2. Beside(Pick(s)) \in SUBSET Cells
    BY <2>1 DEF Beside, Neighbors
  <2>3. At(Pick(s)) \in Nat
    BY <2>2, CellsAreFinite, FS_Subset, FS_CardinalityType
  <2>4. s \ {Pick(s)} \subseteq s /\ s \ {Pick(s)} # s
    BY <2>1
  <2>. HIDE DEF Pick
  <2>. QED  BY <1>2, <2>3, <2>4, SmallerRest
<1>. HIDE DEF At, Pick
<1>5. \E f : f \in [D -> Nat] /\ Sums(f)
  <2>1. PICK f : Gathers(D, Nat, {{}}, base, join, next, f)
    <3>1. ASSUME NEW s \in D, s \notin {{}}
          PROVE  next[s] \in D /\ rank[next[s]] < rank[s] /\ join[s] \in [Nat -> Nat]
      <4>1. At(Pick(s)) \in Nat /\ next[s] \in D /\ rank[next[s]] < rank[s]
        BY <1>4, <3>1
      <4>2. \A n \in Nat : At(Pick(s)) + n \in Nat
        BY <4>1
      <4>. QED  BY <4>1, <4>2
    <3>2. base \in [D -> Nat]
      OBVIOUS
    <3>. HIDE DEF D, rank, base, join, next
    <3>. QED  BY <1>3, <3>1, <3>2, GatheringExists
  <2>2. ASSUME NEW s \in D
        PROVE  f[s] = IF s = {} THEN 0 ELSE At(Pick(s)) + f[s \ {Pick(s)}]
    <3>1. f \in [D -> Nat] /\ f[s] = IF s \in {{}} THEN base[s] ELSE join[s][f[next[s]]]
      BY <2>1 DEF Gathers
    <3>2. CASE s = {}
      BY <3>1, <3>2
    <3>3. CASE s # {}
      <4>1. f[s \ {Pick(s)}] \in Nat
        BY <1>4, <3>1, <3>3
      <4>2. join[s][f[s \ {Pick(s)}]] = At(Pick(s)) + f[s \ {Pick(s)}]
        BY <4>1
      <4>. QED  BY <3>1, <3>3, <4>2
    <3>. QED  BY <3>2, <3>3
  <2>3. f \in [D -> Nat] /\ f = [s \in D |-> f[s]]
    BY <2>1 DEF Gathers
  <2>. QED  BY <2>2, <2>3
<1>6. Sums(sums)
  BY <1>5
<1>. DEFINE good == {s \in D : sums[s] \in Nat}
<1>. HIDE DEF sums
<1>7. ASSUME NEW s \in D, \A t \in D : rank[t] < rank[s] => t \in good
      PROVE  s \in good
  <2>1. CASE s = {}
    BY <1>6, <2>1
  <2>2. CASE s # {}
    <3>1. At(Pick(s)) \in Nat /\ sums[s \ {Pick(s)}] \in Nat
      BY <1>4, <1>7, <2>2
    <3>2. sums[s] = At(Pick(s)) + sums[s \ {Pick(s)}]
      BY <1>6, <2>2
    <3>. QED  BY <3>1, <3>2
  <2>. QED  BY <2>1, <2>2
<1>8. D \subseteq good
  <2>. HIDE DEF D, rank, good
  <2>. QED  BY <1>3, <1>7, RankInduction
<1>9. part \in D
  OBVIOUS
<1>. QED  BY <1>1, <1>8, <1>9

(* No two cells have the same index.                                        *)
LEMMA IndexTells ==
  ASSUME NEW c \in Cells, NEW d \in Cells, Index(c) = Index(d)
  PROVE  c = d
<1>1. Width \in Nat \ {0}
  BY GridSize
<1>2. /\ c[1] \in 0..(Width - 1) /\ d[1] \in 0..(Width - 1)
      /\ c[2] \in Int /\ d[2] \in Int
      /\ c = <<c[1], c[2]>> /\ d = <<d[1], d[2]>>
  BY GridSize DEF Cells
<1>3. c[2] * Width + c[1] = d[2] * Width + d[1]
  BY DEF Index
<1>4. ASSUME NEW a \in Int, NEW b \in Int, NEW u \in 0..(Width - 1), NEW v \in 0..(Width - 1),
             a * Width + u = b * Width + v, a < b
      PROVE  FALSE
  <2>1. a + 1 <= b
    BY <1>4
  <2>2. (a + 1) * Width <= b * Width
    BY <1>1, <2>1
  <2>3. (a + 1) * Width = a * Width + Width
    BY <1>1
  <2>. DEFINE p == a * Width
              q == b * Width
  <2>4. p \in Int /\ q \in Int /\ p + Width <= q /\ p + u = q + v
    BY <1>1, <1>4, <2>2, <2>3
  <2>. HIDE DEF p, q
  <2>. QED  BY <1>1, <2>4
<1>5. ~ c[2] < d[2] /\ ~ d[2] < c[2]
  BY <1>2, <1>3, <1>4
<1>6. c[2] = d[2]
  BY <1>2, <1>5
<1>7. c[1] = d[1]
  <2>. DEFINE p == d[2] * Width
  <2>1. p \in Int /\ p + c[1] = p + d[1]
    BY <1>1, <1>2, <1>3, <1>6
  <2>. HIDE DEF p
  <2>. QED  BY <1>2, <2>1
<1>. QED  BY <1>2, <1>6, <1>7

(* Of some walls one is the longest, or the one of the longest found first. *)
LEMMA LongestIs ==
  ASSUME NEW cleaned, NEW walls, walls \subseteq Walls(cleaned), walls # {}
  PROVE  Longest(walls) \in walls
<1>. DEFINE blocked == Cells \ cleaned
            parts == Components(blocked)
            length == [w \in walls |-> w.border]
            longest == {w \in walls : \A o \in walls : o.border <= w.border}
            place == [w \in longest |-> Index(First(w.cells))]
<1>1. Partition(parts, blocked) /\ IsFiniteSet(parts)
  <2>1. IsFiniteSet(blocked)
    BY CellsAreFinite, FS_Subset
  <2>2. Partition(parts, blocked)
    BY <2>1, ComponentsPartition
  <2>3. parts \subseteq SUBSET blocked /\ IsFiniteSet(SUBSET blocked)
    BY <2>1, <2>2, FS_SUBSET DEF Partition
  <2>. QED  BY <2>2, <2>3, FS_Subset
<1>. DEFINE free == MainFree(cleaned)
            Wall(p) == [cells |-> p, border |-> SharedBorder(p, free)]
<1>2. \A w \in walls : w.cells \in parts /\ w = Wall(w.cells)
  BY DEF Walls
<1>3. IsFiniteSet(walls)
  <2>. DEFINE f == [w \in walls |-> w.cells]
  <2>1. f \in [walls -> parts]
    BY <1>2
  <2>2. \A v, w \in walls : f[v] = f[w] => v = w
    BY <1>2
  <2>. HIDE DEF f, parts
  <2>3. f \in Injection(walls, parts)
    BY <2>1, <2>2 DEF Injection, IsInjective
  <2>. QED  BY <1>1, <2>3, FS_Injection
<1>4. \A p \in parts : p # {} /\ p \subseteq Cells
  BY <1>1 DEF Partition
<1>. HIDE DEF parts, free
<1>5. \A w \in walls : w.border \in Nat
  <2>. SUFFICES ASSUME NEW w \in walls PROVE w.border \in Nat
    OBVIOUS
  <2>1. w.border = SharedBorder(w.cells, free) /\ w.cells \in SUBSET Cells
    BY <1>2, <1>4
  <2>. QED  BY <2>1, BorderIsNat
<1>6. longest # {}
  <2>1. length \in [walls -> Int]
    BY <1>5
  <2>2. PICK w \in walls : \A o \in walls : length[o] <= length[w]
    BY <1>3, <2>1, GreatestOf
  <2>. QED  BY <2>2
<1>7. PICK w \in longest : \A o \in longest : place[w] <= place[o]
  <2>1. place \in [longest -> Int]
    BY <1>2, <1>4, FirstIsThere
  <2>2. IsFiniteSet(longest)
    BY <1>3, FS_Subset
  <2>. HIDE DEF longest, place
  <2>. QED  BY <1>6, <2>1, <2>2, LeastOf
<1>8. ASSUME NEW o \in walls \ {w}
      PROVE  \/ w.border > o.border
             \/ /\ w.border = o.border
                /\ Index(First(w.cells)) < Index(First(o.cells))
  <2>1. o.border <= w.border /\ o.border \in Nat /\ w.border \in Nat
    BY <1>5
  <2>2. CASE o.border < w.border
    BY <2>1, <2>2
  <2>3. CASE o.border = w.border
    <3>1. o \in longest
      BY <2>3
    <3>2. Index(First(w.cells)) <= Index(First(o.cells))
      BY <1>7, <3>1
    <3>3. o.cells # w.cells /\ o.cells \in parts /\ w.cells \in parts
      BY <1>2
    <3>4. o.cells \cap w.cells = {}
      BY <1>1, <3>3 DEF Partition
    <3>5. /\ First(o.cells) \in o.cells /\ First(o.cells) \in Cells
          /\ First(w.cells) \in w.cells /\ First(w.cells) \in Cells
          /\ Index(First(o.cells)) \in Int /\ Index(First(w.cells)) \in Int
      BY <1>4, <3>3, FirstIsThere
    <3>6. Index(First(o.cells)) # Index(First(w.cells))
      BY <3>4, <3>5, IndexTells
    <3>. QED  BY <2>3, <3>2, <3>5, <3>6
  <2>. QED  BY <2>1, <2>2, <2>3
<1>9. w \in walls
  OBVIOUS
<1>. QED  BY <1>8, <1>9 DEF Longest

(* The two markers are parts of the blocked cells.                          *)
LEMMA MarkersAreWalls ==
  ASSUME NEW cleaned, SelectMarkers(cleaned).ok
  PROVE  \A k \in {1, 2} : /\ SelectMarkers(cleaned).value[k] \in SUBSET (Cells \ cleaned)
                           /\ SelectMarkers(cleaned).value[k] # {}
<1>. DEFINE walls == Walls(cleaned)
            a == Longest(walls)
            b == Longest(walls \ {a})
<1>1. ~ Cardinality(walls) < 2 /\ SelectMarkers(cleaned).value = <<a.cells, b.cells>>
  BY DEF SelectMarkers, Ok, Err
<1>2. walls # {}
  BY <1>1, FS_EmptySet
<1>3. a \in walls
  BY <1>2, LongestIs
<1>4. walls \ {a} # {}
  <2>1. Cardinality({a}) = 1
    BY FS_Singleton
  <2>. HIDE DEF a, walls
  <2>2. walls # {a}
    BY <1>1, <2>1
  <2>. QED  BY <1>3, <2>2
<1>5. b \in walls
  <2>. HIDE DEF a
  <2>1. walls \ {a} \subseteq Walls(cleaned)
    OBVIOUS
  <2>. HIDE DEF walls
  <2>. QED  BY <1>4, <2>1, LongestIs
<1>6. Partition(Components(Cells \ cleaned), Cells \ cleaned)
  BY CellsAreFinite, FS_Subset, ComponentsPartition
<1>7. \A w \in walls : w.cells \in Components(Cells \ cleaned)
  BY DEF Walls
<1>. HIDE DEF a, b, walls
<1>8. ASSUME NEW w \in walls PROVE w.cells \in SUBSET (Cells \ cleaned) /\ w.cells # {}
  BY <1>6, <1>7 DEF Partition
<1>9. \A k \in {1, 2} : <<a.cells, b.cells>>[k] \in {a.cells, b.cells}
  OBVIOUS
<1>. QED  BY <1>1, <1>3, <1>5, <1>8, <1>9

-----------------------------------------------------------------------------
(* The state of the solver's grid part                                      *)

GridInv ==
  /\ radius \in Nat
  /\ stage = "markers" => mask = CleanMask(FromOccupancy(map.grid), radius)
  /\ stage \in {"rows", "columns", "march"} =>
       \A k \in {1, 2} : markers[k] \in SUBSET Cells /\ markers[k] # {}
  /\ stage = "columns" => \A k \in {1, 2} : fields[k] = RowPass(markers[k])
  /\ stage = "march" => \A k \in {1, 2} : fields[k] = ColumnPass(RowPass(markers[k]))

LEMMA InitGridInv == SolverInit => GridInv
BY SolverSizes DEF SolverInit, GridInv

LEMMA StepGridInv == GridInv /\ [SolverNext]_solverVars => GridInv'
<1>. SUFFICES ASSUME GridInv, [SolverNext]_solverVars PROVE GridInv'
  OBVIOUS
<1>. USE DEF GridInv
<1>1. ASSUME NEW error, Fail(error) PROVE GridInv'
  BY <1>1 DEF Fail, Forget
<1>2. CASE Binarize
  <2>1. CASE GridError(map.grid) # "none"
    BY <1>1, <1>2, <2>1 DEF Binarize
  <2>2. CASE GridError(map.grid) = "none"
    BY <1>2, <2>2 DEF Binarize
  <2>. QED  BY <2>1, <2>2
<1>3. CASE ChooseMarkers
  <2>1. CASE ~ SelectMarkers(mask).ok
    BY <1>1, <1>3, <2>1 DEF ChooseMarkers
  <2>2. CASE SelectMarkers(mask).ok
    <3>1. /\ stage' = "rows" /\ radius' = radius
          /\ markers' = SelectMarkers(mask).value
      BY <1>3, <2>2 DEF ChooseMarkers
    <3>. QED  BY <2>2, <3>1, MarkersAreWalls
  <2>. QED  BY <2>1, <2>2
<1>4. CASE MeasureRows
  <2>1. \A k \in {1, 2} : fields'[k] = RowPass(markers[k])
    BY <1>4 DEF MeasureRows
  <2>. QED  BY <1>4, <2>1 DEF MeasureRows
<1>5. CASE MeasureColumns
  <2>1. \A k \in {1, 2} : fields'[k] = ColumnPass(fields[k])
    BY <1>5 DEF MeasureColumns
  <2>. QED  BY <1>5, <2>1 DEF MeasureColumns
<1>6. ASSUME NEW saddle \in {"a", "b", "tie"}, March(saddle) PROVE GridInv'
  <2>1. \/ \E error : Fail(error)
        \/ stage' \in {"endless", "reference"} /\ radius' = radius
    BY <1>6, Zenon DEF March, gridVars
  <2>. QED  BY <1>1, <2>1
<1>7. CASE Reference
  <2>1. \/ \E error : Fail(error)
        \/ stage' = "optimize" /\ radius' = 0
    BY <1>7 DEF Reference, Forget
  <2>. QED  BY <1>1, <2>1
<1>8. CASE Linearize \/ FallBack
  <2>1. \/ \E error : Fail(error)
        \/ stage' \in {"speeds", "optimize"} /\ radius' = radius
    BY <1>8 DEF Linearize, FallBack, Optimized, Degenerate, gridVars
  <2>. QED  BY <1>1, <2>1
<1>9. CASE BeginProfile \/ ProfilePass \/ Deliver
  BY <1>9 DEF BeginProfile, ProfilePass, Deliver, Finish, gridVars
<1>10. CASE SolveBoundaries
  <2>1. \/ \E error : Fail(error)
        \/ stage' = "done" /\ radius' = radius
    BY <1>10 DEF SolveBoundaries, Finish, gridVars
  <2>. QED  BY <1>1, <2>1
<1>11. CASE UNCHANGED solverVars
  BY <1>11 DEF solverVars, gridVars
<1>. QED
  BY <1>2, <1>3, <1>4, <1>5, <1>6, <1>7, <1>8, <1>9, <1>10, <1>11 DEF SolverNext

THEOREM GridInvariance == SolverSpec => []GridInv
BY InitGridInv, StepGridInv, PTL DEF SolverSpec

(* Cleaning the map never turns a cell of a thick obstacle into track, on   *)
(* any grid and for every radius: closing frees a blocked cell only if the  *)
(* whole window around it is near free cells, and opening and keeping the   *)
(* largest component only take cells away.                                  *)
THEOREM ThickObstaclesRemain == SolverSpec => []ThickObstaclesStay
<1>1. GridInv => ThickObstaclesStay
  <2>. SUFFICES ASSUME GridInv, stage = "markers",
                       NEW c \in mask, NEW d \in Window(c, radius)
                PROVE  Window(d, radius) \cap FromOccupancy(map.grid) # {}
    BY DEF ThickObstaclesStay
  <2>1. FromOccupancy(map.grid) \in SUBSET Cells
    BY DEF FromOccupancy
  <2>. QED  BY <2>1, CleanedIsNearFree DEF GridInv
<1>. QED  BY <1>1, GridInvariance, PTL

(* When the march begins, every cell has its distance to the nearest cell   *)
(* of each marker.                                                          *)
THEOREM TheFieldsAreExact == SolverSpec => []DistancesAreNearest
<1>1. GridInv => DistancesAreNearest
  <2>. SUFFICES ASSUME GridInv, stage = "march", NEW k \in {1, 2}, NEW c \in Cells
                PROVE  fields[k][c] = NearestSite(markers[k], c)
    BY DEF DistancesAreNearest
  <2>1. fields[k] = EdtFromSites(markers[k]) /\ markers[k] \in SUBSET Cells
    BY DEF GridInv, EdtFromSites
  <2>. QED  BY <2>1, EveryDistanceIsNearest
<1>. QED  BY <1>1, GridInvariance, PTL

-----------------------------------------------------------------------------
(* The sweeps of the velocity profile                                       *)

Least(a, b) == IF a > b THEN b ELSE a

SpeedSet == [Indices -> Nat]

(* pos goes once around the samples and ends where it began.                *)
Around(pos) ==
  /\ pos \in [0..Samples -> Indices] /\ pos[Samples] = pos[0]
  /\ \A j, k \in 0..(Samples - 1) : pos[j] = pos[k] => j = k

(* t is s swept along pos: no speed exceeds the one before it by over d,    *)
(* the first one having been lowered last.                                  *)
Swept(s, t, d, pos) ==
  /\ t \in SpeedSet
  /\ t[pos[1]] = Least(s[pos[1]], s[pos[0]] + d)
  /\ \A k \in 2..(Samples - 1) : t[pos[k]] = Least(s[pos[k]], t[pos[k - 1]] + d)
  /\ t[pos[0]] = Least(s[pos[0]], t[pos[Samples - 1]] + d)

Sweep(s, d, pos, v) ==
  v = [k \in 0..Samples |->
         IF k = 0 THEN s ELSE Lowered(v[k - 1], pos[k], v[k - 1][pos[k - 1]] + d)]

LEMMA LoweredIs ==
  ASSUME NEW s \in SpeedSet, NEW i \in Indices, NEW n \in Nat
  PROVE  /\ Lowered(s, i, n) \in SpeedSet
         /\ Lowered(s, i, n)[i] = Least(s[i], n)
         /\ \A j \in Indices \ {i} : Lowered(s, i, n)[j] = s[j]
BY DEF Lowered, Least, SpeedSet

LEMMA SweepExists ==
  ASSUME NEW s \in SpeedSet, NEW d \in Nat, NEW pos, Around(pos)
  PROVE  \E v : Sweep(s, d, pos, v)
<1>. DEFINE D == 0..Samples
            rank == [k \in D |-> k]
            base == [k \in D |-> s]
            join == [k \in D |-> [w \in SpeedSet |-> Lowered(w, pos[k], w[pos[k - 1]] + d)]]
            next == [k \in D |-> k - 1]
<1>1. Samples \in Nat
  BY SolverSizes
<1>2. ASSUME NEW k \in D, k \notin {0}
      PROVE  next[k] \in D /\ rank[next[k]] < rank[k] /\ join[k] \in [SpeedSet -> SpeedSet]
  <2>1. next[k] = k - 1 /\ k - 1 \in D
    BY <1>1, <1>2
  <2>2. pos[k] \in Indices /\ pos[k - 1] \in Indices
    BY <2>1 DEF Around
  <2>3. ASSUME NEW w \in SpeedSet PROVE Lowered(w, pos[k], w[pos[k - 1]] + d) \in SpeedSet
    <3>1. w[pos[k - 1]] + d \in Nat
      BY <2>2 DEF SpeedSet
    <3>. QED  BY <2>2, <3>1, LoweredIs
  <2>4. join[k] \in [SpeedSet -> SpeedSet]
    BY <2>3
  <2>. QED  BY <1>1, <2>1, <2>4
<1>3. rank \in [D -> Nat] /\ (\A k \in D : rank[k] <= Samples) /\ base \in [D -> SpeedSet]
  BY <1>1
<1>4. PICK v : Gathers(D, SpeedSet, {0}, base, join, next, v)
  <2>. HIDE DEF D, rank, base, join, next
  <2>. QED  BY <1>1, <1>2, <1>3, GatheringExists
<1>5. ASSUME NEW k \in D
      PROVE  v[k] = IF k = 0 THEN s ELSE Lowered(v[k - 1], pos[k], v[k - 1][pos[k - 1]] + d)
  <2>1. v \in [D -> SpeedSet] /\ v[k] = IF k \in {0} THEN base[k] ELSE join[k][v[next[k]]]
    BY <1>4 DEF Gathers
  <2>2. CASE k = 0
    BY <2>1, <2>2
  <2>3. CASE k # 0
    <3>1. k - 1 \in D /\ v[k - 1] \in SpeedSet
      BY <1>1, <2>1, <2>3
    <3>. HIDE DEF SpeedSet
    <3>2. join[k][v[k - 1]] = Lowered(v[k - 1], pos[k], v[k - 1][pos[k - 1]] + d)
      BY <3>1
    <3>. QED  BY <2>1, <2>3, <3>2
  <2>. QED  BY <2>2, <2>3
<1>6. v = [k \in D |-> v[k]]
  BY <1>4 DEF Gathers
<1>. QED  BY <1>5, <1>6 DEF Sweep

(* After k of its edges a sweep has settled the first k places.             *)
LEMMA SweepIsSwept ==
  ASSUME NEW s \in SpeedSet, NEW d \in Nat, NEW pos, Around(pos),
         NEW v, Sweep(s, d, pos, v)
  PROVE  Swept(s, v[Samples], d, pos)
<1>. DEFINE last == Samples - 1
            Settled(k) ==
              /\ v[k] \in SpeedSet
              /\ \A j \in 0..last : j > k \/ j = 0 => v[k][pos[j]] = s[pos[j]]
              /\ k >= 1 => v[k][pos[1]] = Least(s[pos[1]], s[pos[0]] + d)
              /\ \A j \in 2..k : v[k][pos[j]] = Least(s[pos[j]], v[k][pos[j - 1]] + d)
            Bad == {k \in 0..last : ~ Settled(k)}
<1>1. Samples \in Nat /\ Samples >= 3 /\ last \in Nat /\ last >= 2
  BY SolverSizes
<1>2. /\ \A j \in 0..Samples : pos[j] \in Indices
      /\ \A j, k \in 0..last : pos[j] = pos[k] => j = k
      /\ pos[Samples] = pos[0]
  BY DEF Around
<1>3. ASSUME NEW k \in 1..Samples, v[k - 1] \in SpeedSet
      PROVE  /\ v[k] \in SpeedSet
             /\ v[k][pos[k]] = Least(v[k - 1][pos[k]], v[k - 1][pos[k - 1]] + d)
             /\ \A i \in Indices \ {pos[k]} : v[k][i] = v[k - 1][i]
  <2>1. k \in 0..Samples /\ k - 1 \in 0..Samples /\ k # 0
    BY <1>1
  <2>2. v[k] = Lowered(v[k - 1], pos[k], v[k - 1][pos[k - 1]] + d)
    BY <2>1 DEF Sweep
  <2>3. v[k - 1][pos[k - 1]] + d \in Nat /\ pos[k] \in Indices
    BY <1>2, <1>3, <2>1 DEF SpeedSet
  <2>. DEFINE a == v[k - 1]
              n == v[k - 1][pos[k - 1]] + d
  <2>4. a \in SpeedSet /\ n \in Nat /\ v[k] = Lowered(a, pos[k], n)
    BY <1>3, <2>2, <2>3
  <2>. HIDE DEF a, n
  <2>. DEFINE i == pos[k]
              low == Lowered(a, i, n)
  <2>5. i \in Indices
    BY <2>3
  <2>. HIDE DEF i
  <2>6. low \in SpeedSet /\ low[i] = Least(a[i], n) /\ \A j \in Indices \ {i} : low[j] = a[j]
    BY <2>4, <2>5, LoweredIs
  <2>7. v[k] = low
    BY <2>4 DEF i
  <2>. HIDE DEF low
  <2>. QED  BY <2>6, <2>7 DEF a, i, n
<1>4. Settled(0)
  <2>1. v[0] = s
    BY <1>1 DEF Sweep
  <2>. QED  BY <1>1, <2>1
<1>5. ASSUME NEW k \in 0..(last - 1), Settled(k) PROVE Settled(k + 1)
  <2>1. k + 1 \in 1..Samples /\ (k + 1) - 1 = k /\ k + 1 \in 0..last /\ k \in 0..last
    BY <1>1
  <2>2. /\ v[k + 1] \in SpeedSet
        /\ v[k + 1][pos[k + 1]] = Least(v[k][pos[k + 1]], v[k][pos[k]] + d)
        /\ \A i \in Indices \ {pos[k + 1]} : v[k + 1][i] = v[k][i]
    BY <1>3, <1>5, <2>1
  <2>3. \A j \in 0..last : j # k + 1 => v[k + 1][pos[j]] = v[k][pos[j]]
    <3>. SUFFICES ASSUME NEW j \in 0..last, j # k + 1 PROVE v[k + 1][pos[j]] = v[k][pos[j]]
      OBVIOUS
    <3>1. pos[j] \in Indices /\ pos[j] # pos[k + 1]
      <4>1. j \in 0..Samples
        BY <1>1
      <4>. QED  BY <1>2, <2>1, <4>1
    <3>. QED  BY <2>2, <3>1
  <2>4. v[k][pos[k + 1]] = s[pos[k + 1]]
    BY <1>5, <2>1
  <2>5. \A j \in 0..last : j > k + 1 \/ j = 0 => v[k + 1][pos[j]] = s[pos[j]]
    BY <1>5, <2>1, <2>3
  <2>6. v[k + 1][pos[1]] = Least(s[pos[1]], s[pos[0]] + d)
    <3>1. CASE k = 0
      <4>1. v[k][pos[0]] = s[pos[0]]
        BY <1>1, <1>5
      <4>. QED  BY <2>2, <2>4, <3>1, <4>1
    <3>2. CASE k # 0
      <4>1. 1 \in 0..last /\ 1 # k + 1 /\ k >= 1
        BY <1>1, <3>2
      <4>. QED  BY <1>5, <2>3, <4>1
    <3>. QED  BY <3>1, <3>2
  <2>7. ASSUME NEW j \in 2..(k + 1)
        PROVE  v[k + 1][pos[j]] = Least(s[pos[j]], v[k + 1][pos[j - 1]] + d)
    <3>1. j \in 0..last /\ j - 1 \in 0..last /\ j - 1 # k + 1
      BY <1>1
    <3>2. v[k + 1][pos[j - 1]] = v[k][pos[j - 1]]
      BY <2>3, <3>1
    <3>3. CASE j = k + 1
      <4>1. j - 1 = k
        BY <3>3
      <4>. QED  BY <2>2, <2>4, <3>2, <3>3, <4>1
    <3>4. CASE j # k + 1
      <4>1. j \in 2..k
        BY <3>4
      <4>. QED  BY <1>5, <2>3, <3>1, <3>2, <3>4, <4>1
    <3>. QED  BY <3>3, <3>4
  <2>. QED  BY <2>2, <2>5, <2>6, <2>7
<1>6. Bad = {}
  <2>. SUFFICES ASSUME Bad # {} PROVE FALSE
    OBVIOUS
  <2>. HIDE DEF Settled, last
  <2>1. PICK m \in Bad : \A k \in Bad : m <= k
    <3>1. Bad \subseteq Nat
      BY <1>1
    <3>. HIDE DEF Bad
    <3>. QED  BY <3>1, LeastElement
  <2>2. m \in 0..last /\ ~ Settled(m) /\ m # 0
    BY <1>4
  <2>3. m - 1 \in 0..(last - 1) /\ m - 1 \in 0..last /\ (m - 1) + 1 = m /\ ~ m <= m - 1
    BY <1>1, <2>2
  <2>4. m - 1 \notin Bad
    <3>. HIDE DEF Bad
    <3>. QED  BY <2>1, <2>3
  <2>. QED  BY <1>5, <2>2, <2>3, <2>4
<1>7. Settled(last)
  <2>. HIDE DEF Settled
  <2>. QED  BY <1>1, <1>6
<1>. DEFINE w == v[last]
            t == v[Samples]
<1>8. /\ t \in SpeedSet /\ t[pos[0]] = Least(w[pos[0]], w[pos[last]] + d)
      /\ \A i \in Indices \ {pos[0]} : t[i] = w[i]
  <2>1. Samples \in 1..Samples
    BY <1>1
  <2>. QED  BY <1>2, <1>3, <1>7, <2>1
<1>9. \A j \in 1..last : t[pos[j]] = w[pos[j]]
  <2>. SUFFICES ASSUME NEW j \in 1..last PROVE t[pos[j]] = w[pos[j]]
    OBVIOUS
  <2>1. j \in 0..last /\ 0 \in 0..last /\ j \in 0..Samples /\ j # 0
    BY <1>1
  <2>2. pos[j] \in Indices /\ pos[j] # pos[0]
    BY <1>2, <2>1
  <2>. QED  BY <1>8, <2>2
<1>10. /\ w[pos[0]] = s[pos[0]]
       /\ w[pos[1]] = Least(s[pos[1]], s[pos[0]] + d)
       /\ \A j \in 2..last : w[pos[j]] = Least(s[pos[j]], w[pos[j - 1]] + d)
  BY <1>1, <1>7
<1>. HIDE DEF t, w
<1>11. 1 \in 1..last /\ last \in 1..last /\ \A j \in 2..last : j \in 1..last /\ j - 1 \in 1..last
  BY <1>1
<1>12. t[pos[1]] = Least(s[pos[1]], s[pos[0]] + d)
  BY <1>9, <1>10, <1>11
<1>13. \A k \in 2..last : t[pos[k]] = Least(s[pos[k]], t[pos[k - 1]] + d)
  BY <1>9, <1>10, <1>11
<1>14. t[pos[0]] = Least(s[pos[0]], t[pos[last]] + d)
  BY <1>8, <1>9, <1>10, <1>11
<1>. QED  BY <1>8, <1>12, <1>13, <1>14 DEF Swept, t

(* The remainder of what lies in one turn.                                  *)
LEMMA Remainder ==
  ASSUME NEW n \in Nat, n > 0, NEW m \in 0..n
  PROVE  m % n = IF m = n THEN 0 ELSE m
<1>. DEFINE q == m \div n
            r == m % n
            p == n * q
<1>1. r \in 0..(n - 1) /\ q \in Int /\ m = n * q + r
  OBVIOUS
<1>. HIDE DEF q, r
<1>2. p \in Int /\ m = p + r
  BY <1>1
<1>3. q < 0 => p <= -n
  <2>. SUFFICES ASSUME q <= -1 PROVE n * q <= n * (-1)
    BY <1>1
  <2>. QED  BY <1>1
<1>4. q > 1 => p >= n + n
  <2>. SUFFICES ASSUME q >= 2 PROVE n * q >= n * 2
    BY <1>1
  <2>. QED  BY <1>1
<1>5. q = 0 => p = 0
  BY <1>1
<1>6. q = 1 => p = n
  BY <1>1
<1>. HIDE DEF p
<1>7. q \in {0, 1}
  BY <1>1, <1>2, <1>3, <1>4
<1>8. r = IF m = n THEN 0 ELSE m
  BY <1>1, <1>2, <1>5, <1>6, <1>7
<1>. QED  BY <1>8 DEF r

LEMMA AfterIs ==
  /\ \A i \in 0..(Samples - 2) : After(i) = i + 1 /\ i \in Indices /\ i + 1 \in Indices
  /\ After(Samples - 1) = 0 /\ Samples - 1 \in Indices /\ 0 \in Indices
  /\ Indices = 0..(Samples - 2) \cup {Samples - 1}
<1>1. Samples \in Nat /\ Samples >= 3
  BY SolverSizes
<1>2. \A i \in 0..(Samples - 1) : (i + 1) % Samples = IF i + 1 = Samples THEN 0 ELSE i + 1
  BY <1>1, Remainder
<1>. QED  BY <1>1, <1>2 DEF After, Indices

(* The two ways around                                                      *)
Forth == [k \in 0..Samples |-> IF k = Samples THEN 0 ELSE k]
Back  == [k \in 0..Samples |-> IF k = 0 THEN 0 ELSE Samples - k]

LEMMA WaysGoAround == Around(Forth) /\ Around(Back)
BY SolverSizes DEF Around, Forth, Back, Indices

LEMMA ForwardPassIs ==
  ASSUME NEW s \in SpeedSet, AccelTwiceDs > 0
  PROVE  Swept(s, ForwardPass(s), AccelTwiceDs, Forth)
<1>. DEFINE d == AccelTwiceDs
            Step(v, k) == Lowered(v[k - 1], After(k - 1), v[k - 1][k - 1] + d)
            Runs(v) == v = [k \in 0..Samples |-> IF k = 0 THEN s ELSE Step(v, k)]
            run == CHOOSE v : Runs(v)
<1>1. Samples \in Nat /\ Samples >= 3 /\ d \in Nat
  BY SolverSizes
<1>2. ForwardPass(s) = run[Samples]
  BY <1>1 DEF ForwardPass
<1>3. \A k \in 1..Samples : After(k - 1) = Forth[k] /\ Forth[k - 1] = k - 1
  BY <1>1, AfterIs DEF Forth
<1>4. ASSUME NEW v PROVE Runs(v) <=> Sweep(s, d, Forth, v)
  <2>1. ASSUME NEW k \in 0..Samples
        PROVE  (IF k = 0 THEN s ELSE Step(v, k))
               = (IF k = 0 THEN s ELSE Lowered(v[k - 1], Forth[k], v[k - 1][Forth[k - 1]] + d))
    <3>1. CASE k = 0
      BY <3>1
    <3>2. CASE k # 0
      <4>1. k \in 1..Samples
        BY <1>1, <3>2
      <4>. QED  BY <1>3, <3>2, <4>1
    <3>. QED  BY <3>1, <3>2
  <2>. HIDE DEF Step
  <2>. QED  BY <2>1 DEF Sweep
<1>5. \E v : Runs(v)
  BY <1>1, <1>4, SweepExists, WaysGoAround
<1>6. Runs(run)
  BY <1>5
<1>. HIDE DEF Runs, run, d
<1>7. Sweep(s, d, Forth, run)
  BY <1>4, <1>6
<1>. QED  BY <1>1, <1>2, <1>7, SweepIsSwept, WaysGoAround DEF d

LEMMA BackwardPassIs ==
  ASSUME NEW s \in SpeedSet, BrakeTwiceDs > 0
  PROVE  Swept(s, BackwardPass(s), BrakeTwiceDs, Back)
<1>. DEFINE d == BrakeTwiceDs
            Step(v, k) == Lowered(v[k - 1], Samples - k, v[k - 1][After(Samples - k)] + d)
            Runs(v) == v = [k \in 0..Samples |-> IF k = 0 THEN s ELSE Step(v, k)]
            run == CHOOSE v : Runs(v)
<1>1. Samples \in Nat /\ Samples >= 3 /\ d \in Nat
  BY SolverSizes
<1>2. BackwardPass(s) = run[Samples]
  BY <1>1 DEF BackwardPass
<1>3. ASSUME NEW k \in 1..Samples
      PROVE  Samples - k = Back[k] /\ After(Samples - k) = Back[k - 1]
  <2>1. CASE k = 1
    BY <1>1, <2>1, AfterIs DEF Back
  <2>2. CASE k # 1
    <3>1. Samples - k \in 0..(Samples - 2) /\ k - 1 # 0 /\ (Samples - k) + 1 = Samples - (k - 1)
      BY <1>1, <2>2
    <3>2. After(Samples - k) = Samples - (k - 1)
      BY <3>1, AfterIs
    <3>. QED  BY <1>1, <3>1, <3>2 DEF Back
  <2>. QED  BY <2>1, <2>2
<1>4. ASSUME NEW v PROVE Runs(v) <=> Sweep(s, d, Back, v)
  <2>1. ASSUME NEW k \in 0..Samples
        PROVE  (IF k = 0 THEN s ELSE Step(v, k))
               = (IF k = 0 THEN s ELSE Lowered(v[k - 1], Back[k], v[k - 1][Back[k - 1]] + d))
    <3>1. CASE k = 0
      BY <3>1
    <3>2. CASE k # 0
      <4>1. k \in 1..Samples
        BY <1>1, <3>2
      <4>. QED  BY <1>3, <3>2, <4>1
    <3>. QED  BY <3>1, <3>2
  <2>. HIDE DEF Step
  <2>. QED  BY <2>1 DEF Sweep
<1>5. \E v : Runs(v)
  BY <1>1, <1>4, SweepExists, WaysGoAround
<1>6. Runs(run)
  BY <1>5
<1>. HIDE DEF Runs, run, d
<1>7. Sweep(s, d, Back, run)
  BY <1>4, <1>6
<1>. QED  BY <1>1, <1>2, <1>7, SweepIsSwept, WaysGoAround DEF d

Accelerable(s, i) == AccelTwiceDs > 0 => s[After(i)] <= s[i] + AccelTwiceDs
Brakeable(s, i) == BrakeTwiceDs > 0 => s[i] <= s[After(i)] + BrakeTwiceDs
Driveable(s) == \A i \in Indices : Accelerable(s, i) /\ Brakeable(s, i)

(* The two passes, place by place; the closing edge is the last one forward *)
(* and the first one backward.                                              *)
Forward(s, t) ==
  LET d == AccelTwiceDs
      last == Samples - 1
  IN /\ t \in SpeedSet
     /\ d = 0 => t = s
     /\ d > 0 => /\ t[1] = Least(s[1], s[0] + d)
                 /\ \A k \in 2..last : t[k] = Least(s[k], t[k - 1] + d)
                 /\ t[0] = Least(s[0], t[last] + d)
Backward(s, t) ==
  LET d == BrakeTwiceDs
      last == Samples - 1
  IN /\ t \in SpeedSet
     /\ d = 0 => t = s
     /\ d > 0 => /\ t[last] = Least(s[last], s[0] + d)
                 /\ \A k \in 1..(last - 1) : t[k] = Least(s[k], t[k + 1] + d)
                 /\ t[0] = Least(s[0], t[1] + d)

LEMMA PassesAre ==
  ASSUME NEW s \in SpeedSet
  PROVE  Forward(s, ForwardPass(s)) /\ Backward(s, BackwardPass(s))
<1>1. /\ Samples \in Nat /\ Samples >= 3
      /\ AccelTwiceDs \in Nat /\ BrakeTwiceDs \in Nat
  BY SolverSizes
<1>2. Forward(s, ForwardPass(s))
  <2>1. CASE AccelTwiceDs = 0
    BY <2>1 DEF Forward, ForwardPass
  <2>2. CASE AccelTwiceDs > 0
    <3>1. Swept(s, ForwardPass(s), AccelTwiceDs, Forth)
      BY <2>2, ForwardPassIs
    <3>2. \A k \in 0..(Samples - 1) : Forth[k] = k
      BY <1>1 DEF Forth
    <3>. QED  BY <1>1, <2>2, <3>1, <3>2 DEF Forward, Swept
  <2>. QED  BY <1>1, <2>1, <2>2
<1>3. Backward(s, BackwardPass(s))
  <2>1. CASE BrakeTwiceDs = 0
    BY <2>1 DEF Backward, BackwardPass
  <2>2. CASE BrakeTwiceDs > 0
    <3>. DEFINE t == BackwardPass(s)
                d == BrakeTwiceDs
    <3>1. Swept(s, t, d, Back)
      BY <2>2, BackwardPassIs
    <3>2. Back[0] = 0 /\ \A k \in 1..(Samples - 1) : Back[k] = Samples - k
      BY <1>1 DEF Back
    <3>. HIDE DEF t, d
    <3>3. /\ t \in SpeedSet
          /\ t[Samples - 1] = Least(s[Samples - 1], s[0] + d)
          /\ \A k \in 2..(Samples - 1) : t[Samples - k] = Least(s[Samples - k], t[Samples - (k - 1)] + d)
          /\ t[0] = Least(s[0], t[1] + d)
      <4>1. Back[1] = Samples - 1 /\ Back[Samples - 1] = 1
        BY <1>1, <3>2
      <4>. QED  BY <1>1, <3>1, <3>2, <4>1 DEF Swept
    <3>4. ASSUME NEW k \in 1..(Samples - 2)
          PROVE  t[k] = Least(s[k], t[k + 1] + d)
      <4>1. Samples - k \in 2..(Samples - 1)
        BY <1>1
      <4>2. Samples - (Samples - k) = k /\ Samples - ((Samples - k) - 1) = k + 1
        BY <1>1
      <4>. QED  BY <3>3, <4>1, <4>2
    <3>. QED  BY <1>1, <2>2, <3>3, <3>4 DEF Backward, t, d
  <2>. QED  BY <1>1, <2>1, <2>2
<1>. QED  BY <1>2, <1>3

(* A pass raises no speed.                                                  *)
LEMMA PassesLower ==
  ASSUME NEW s \in SpeedSet, NEW t, Forward(s, t) \/ Backward(s, t)
  PROVE  t \in SpeedSet /\ \A i \in Indices : t[i] <= s[i]
<1>1. /\ Samples \in Nat /\ Samples >= 3
      /\ AccelTwiceDs \in Nat /\ BrakeTwiceDs \in Nat
  BY SolverSizes
<1>2. t \in SpeedSet
  BY DEF Forward, Backward
<1>3. \A i \in Indices : s[i] \in Nat /\ t[i] \in Nat
  BY <1>2 DEF SpeedSet
<1>. SUFFICES ASSUME NEW i \in Indices PROVE t[i] <= s[i]
  BY <1>2
<1>4. i = 0 \/ i = 1 \/ i \in 2..(Samples - 1)
  BY <1>1 DEF Indices
<1>5. i = 0 \/ i = Samples - 1 \/ i \in 1..(Samples - 1 - 1)
  BY <1>1 DEF Indices
<1>6. CASE Forward(s, t)
  BY <1>1, <1>3, <1>4, <1>6 DEF Forward, Least
<1>7. CASE Backward(s, t)
  BY <1>1, <1>3, <1>5, <1>7 DEF Backward, Least
<1>. QED  BY <1>6, <1>7

(* Speeds that both passes leave alone are driveable, and the other way.    *)
LEMMA UnchangedIsDriveable ==
  ASSUME NEW s \in SpeedSet, BackwardPass(ForwardPass(s)) = s
  PROVE  Driveable(s)
<1>. DEFINE f == ForwardPass(s)
<1>1. Forward(s, f) /\ f \in SpeedSet
  BY PassesAre DEF Forward
<1>. HIDE DEF f
<1>2. Backward(f, s)
  BY <1>1, PassesAre DEF f
<1>3. \A i \in Indices : f[i] <= s[i] /\ s[i] <= f[i] /\ f[i] \in Nat /\ s[i] \in Nat
  BY <1>1, <1>2, PassesLower DEF SpeedSet
<1>4. f = s
  <2>1. \A i \in Indices : f[i] = s[i]
    BY <1>3
  <2>. QED  BY <1>1, <2>1 DEF SpeedSet
<1>5. Forward(s, s) /\ Backward(s, s)
  BY <1>1, <1>2, <1>4
<1>6. /\ Samples \in Nat /\ Samples >= 3
      /\ AccelTwiceDs \in Nat /\ BrakeTwiceDs \in Nat
  BY SolverSizes
<1>. DEFINE last == Samples - 1
<1>7. \A i \in 0..last : s[i] \in Nat
  BY DEF SpeedSet, Indices
<1>8. ASSUME AccelTwiceDs > 0, NEW i \in Indices PROVE s[After(i)] <= s[i] + AccelTwiceDs
  <2>1. /\ s[1] = Least(s[1], s[0] + AccelTwiceDs)
        /\ \A k \in 2..last : s[k] = Least(s[k], s[k - 1] + AccelTwiceDs)
        /\ s[0] = Least(s[0], s[last] + AccelTwiceDs)
    BY <1>5, <1>8 DEF Forward
  <2>2. CASE i = 0
    BY <1>6, <1>7, <2>1, <2>2, AfterIs DEF Least
  <2>3. CASE i = last
    BY <1>6, <1>7, <2>1, <2>3, AfterIs DEF Least
  <2>4. CASE i \in 1..(last - 1)
    <3>1. i + 1 \in 2..last /\ (i + 1) - 1 = i /\ After(i) = i + 1
      BY <1>6, <2>4, AfterIs
    <3>. QED  BY <1>6, <1>7, <2>1, <2>4, <3>1 DEF Least
  <2>. QED  BY <1>6, <2>2, <2>3, <2>4 DEF Indices
<1>9. ASSUME BrakeTwiceDs > 0, NEW i \in Indices PROVE s[i] <= s[After(i)] + BrakeTwiceDs
  <2>1. /\ s[last] = Least(s[last], s[0] + BrakeTwiceDs)
        /\ \A k \in 1..(last - 1) : s[k] = Least(s[k], s[k + 1] + BrakeTwiceDs)
        /\ s[0] = Least(s[0], s[1] + BrakeTwiceDs)
    BY <1>5, <1>9 DEF Backward
  <2>2. CASE i = 0
    BY <1>6, <1>7, <2>1, <2>2, AfterIs DEF Least
  <2>3. CASE i = last
    BY <1>6, <1>7, <2>1, <2>3, AfterIs DEF Least
  <2>4. CASE i \in 1..(last - 1)
    <3>1. i + 1 \in 0..last /\ After(i) = i + 1
      BY <1>6, <2>4, AfterIs
    <3>. QED  BY <1>6, <1>7, <2>1, <2>4, <3>1 DEF Least
  <2>. QED  BY <1>6, <2>2, <2>3, <2>4 DEF Indices
<1>. QED  BY <1>8, <1>9 DEF Driveable, Accelerable, Brakeable

LEMMA DriveableStays ==
  ASSUME NEW s \in SpeedSet, Driveable(s)
  PROVE  BackwardPass(ForwardPass(s)) = s
<1>. DEFINE last == Samples - 1
<1>1. /\ Samples \in Nat /\ Samples >= 3
      /\ AccelTwiceDs \in Nat /\ BrakeTwiceDs \in Nat
  BY SolverSizes
<1>2. \A i \in 0..last : s[i] \in Nat
  BY DEF SpeedSet, Indices
<1>3. ASSUME NEW t, Forward(s, t) PROVE t = s
  <2>1. CASE AccelTwiceDs = 0
    BY <1>3, <2>1 DEF Forward
  <2>2. CASE AccelTwiceDs > 0
    <3>. DEFINE Bad == {k \in 0..last : k >= 1 /\ t[k] # s[k]}
    <3>1. s[1] <= s[0] + AccelTwiceDs /\ s[0] <= s[last] + AccelTwiceDs
      BY <1>1, <2>2, AfterIs DEF Driveable, Accelerable
    <3>2. \A k \in 2..last : s[k] <= s[k - 1] + AccelTwiceDs
      <4>. SUFFICES ASSUME NEW k \in 2..last PROVE s[k] <= s[k - 1] + AccelTwiceDs
        OBVIOUS
      <4>1. k - 1 \in 0..(Samples - 2) /\ (k - 1) + 1 = k
        BY <1>1
      <4>. QED  BY <2>2, <4>1, AfterIs DEF Driveable, Accelerable
    <3>3. Bad = {}
      <4>. SUFFICES ASSUME Bad # {} PROVE FALSE
        OBVIOUS
      <4>1. PICK m \in Bad : \A k \in Bad : m <= k
        <5>1. Bad \subseteq Nat
          BY <1>1
        <5>. HIDE DEF Bad
        <5>. QED  BY <5>1, LeastElement
      <4>2. m \in 1..last /\ t[m] # s[m]
        BY <1>1
      <4>3. m # 1
        BY <1>1, <1>2, <1>3, <2>2, <3>1, <4>2 DEF Forward, Least
      <4>4. m \in 2..last /\ m - 1 \in 0..last /\ m - 1 >= 1 /\ ~ m <= m - 1
        BY <1>1, <4>2, <4>3
      <4>5. t[m - 1] = s[m - 1]
        BY <4>1, <4>4
      <4>6. t[m] = Least(s[m], s[m - 1] + AccelTwiceDs)
        BY <1>3, <2>2, <4>4, <4>5 DEF Forward
      <4>7. s[m] <= s[m - 1] + AccelTwiceDs /\ s[m] \in Nat /\ s[m - 1] \in Nat
        BY <1>2, <3>2, <4>4
      <4>. HIDE DEF Bad
      <4>. QED  BY <1>1, <4>2, <4>6, <4>7 DEF Least
    <3>4. t[0] = s[0]
      <4>1. t[last] = s[last] /\ s[0] \in Nat /\ s[last] \in Nat
        BY <1>1, <1>2, <3>3
      <4>. QED  BY <1>1, <1>3, <2>2, <3>1, <4>1 DEF Forward, Least
    <3>5. \A i \in Indices : t[i] = s[i]
      BY <1>1, <3>3, <3>4 DEF Indices
    <3>. QED  BY <1>3, <3>5 DEF Forward, SpeedSet
  <2>. QED  BY <1>1, <2>1, <2>2
<1>4. ASSUME NEW t, Backward(s, t) PROVE t = s
  <2>1. CASE BrakeTwiceDs = 0
    BY <1>4, <2>1 DEF Backward
  <2>2. CASE BrakeTwiceDs > 0
    <3>. DEFINE Bad == {n \in Nat : n < last /\ t[last - n] # s[last - n]}
    <3>1. s[last] <= s[0] + BrakeTwiceDs /\ s[0] <= s[1] + BrakeTwiceDs
      BY <1>1, <2>2, AfterIs DEF Driveable, Brakeable
    <3>2. \A k \in 1..(last - 1) : s[k] <= s[k + 1] + BrakeTwiceDs
      BY <1>1, <2>2, AfterIs DEF Driveable, Brakeable
    <3>3. Bad = {}
      <4>. SUFFICES ASSUME Bad # {} PROVE FALSE
        OBVIOUS
      <4>1. PICK m \in Bad : \A k \in Bad : m <= k
        <5>1. Bad \subseteq Nat
          BY <1>1
        <5>. HIDE DEF Bad
        <5>. QED  BY <5>1, LeastElement
      <4>2. m \in Nat /\ m < last /\ t[last - m] # s[last - m]
        BY <1>1
      <4>3. m # 0
        BY <1>1, <1>2, <1>4, <2>2, <3>1, <4>2 DEF Backward, Least
      <4>4. /\ last - m \in 1..(last - 1) /\ (last - m) + 1 = last - (m - 1)
            /\ m - 1 \in Nat /\ m - 1 < last /\ ~ m <= m - 1
            /\ (last - m) + 1 \in 0..last /\ last - m \in 0..last
        BY <1>1, <4>2, <4>3
      <4>5. t[(last - m) + 1] = s[(last - m) + 1]
        BY <4>1, <4>4
      <4>6. t[last - m] = Least(s[last - m], s[(last - m) + 1] + BrakeTwiceDs)
        BY <1>4, <2>2, <4>4, <4>5 DEF Backward
      <4>7. /\ s[last - m] <= s[(last - m) + 1] + BrakeTwiceDs
            /\ s[last - m] \in Nat /\ s[(last - m) + 1] \in Nat
        BY <1>2, <3>2, <4>4
      <4>. HIDE DEF Bad
      <4>. QED  BY <1>1, <4>2, <4>6, <4>7 DEF Least
    <3>4. \A k \in 1..last : t[k] = s[k]
      <4>. SUFFICES ASSUME NEW k \in 1..last PROVE t[k] = s[k]
        OBVIOUS
      <4>1. last - k \in Nat /\ last - k < last /\ last - (last - k) = k
        BY <1>1
      <4>2. last - k \notin Bad
        BY <3>3
      <4>. QED  BY <4>1, <4>2
    <3>5. t[0] = s[0]
      <4>1. t[1] = s[1] /\ s[0] \in Nat /\ s[1] \in Nat
        BY <1>1, <1>2, <3>4
      <4>. QED  BY <1>1, <1>4, <2>2, <3>1, <4>1 DEF Backward, Least
    <3>6. \A i \in Indices : t[i] = s[i]
      BY <1>1, <3>4, <3>5 DEF Indices
    <3>. QED  BY <1>4, <3>6 DEF Backward, SpeedSet
  <2>. QED  BY <1>1, <2>1, <2>2
<1>5. ForwardPass(s) = s
  BY <1>3, PassesAre
<1>6. BackwardPass(s) = s
  BY <1>4, PassesAre
<1>. QED  BY <1>5, <1>6

LEMMA SpeedSizes ==
  /\ Samples \in Nat /\ Samples >= 3
  /\ AccelTwiceDs \in Nat /\ BrakeTwiceDs \in Nat
BY SolverSizes

(* What a pass establishes: all of its edges but the one that leaves sample *)
(* 0, in its direction, and that one too if sample 0 was not lowered.       *)
LEMMA ForwardGives ==
  ASSUME NEW s \in SpeedSet, NEW t, Forward(s, t)
  PROVE  /\ \A i \in 1..(Samples - 1) : Accelerable(t, i)
         /\ t[0] = s[0] => Accelerable(t, 0)
<1>. DEFINE last == Samples - 1
<1>. SUFFICES ASSUME AccelTwiceDs > 0
              PROVE  /\ \A i \in 1..last : t[After(i)] <= t[i] + AccelTwiceDs
                     /\ t[0] = s[0] => t[After(0)] <= t[0] + AccelTwiceDs
  BY DEF Accelerable
<1>1. /\ t[1] = Least(s[1], s[0] + AccelTwiceDs)
      /\ \A k \in 2..last : t[k] = Least(s[k], t[k - 1] + AccelTwiceDs)
      /\ t[0] = Least(s[0], t[last] + AccelTwiceDs)
  BY DEF Forward
<1>2. \A i \in 0..last : s[i] \in Nat /\ t[i] \in Nat
  BY DEF SpeedSet, Indices, Forward
<1>3. ASSUME NEW i \in 1..last PROVE t[After(i)] <= t[i] + AccelTwiceDs
  <2>1. CASE i = last
    BY <1>1, <1>2, <2>1, SpeedSizes, AfterIs DEF Least
  <2>2. CASE i # last
    <3>1. i + 1 \in 2..last /\ (i + 1) - 1 = i /\ After(i) = i + 1
      BY <2>2, SpeedSizes, AfterIs
    <3>. QED  BY <1>1, <1>2, <3>1, SpeedSizes DEF Least
  <2>. QED  BY <2>1, <2>2
<1>4. ASSUME t[0] = s[0] PROVE t[After(0)] <= t[0] + AccelTwiceDs
  BY <1>1, <1>2, <1>4, SpeedSizes, AfterIs DEF Least
<1>. QED  BY <1>3, <1>4

LEMMA BackwardGives ==
  ASSUME NEW s \in SpeedSet, NEW t, Backward(s, t)
  PROVE  /\ \A i \in 0..(Samples - 2) : Brakeable(t, i)
         /\ t[0] = s[0] => Brakeable(t, Samples - 1)
<1>. DEFINE last == Samples - 1
<1>. SUFFICES ASSUME BrakeTwiceDs > 0
              PROVE  /\ \A i \in 0..(Samples - 2) : t[i] <= t[After(i)] + BrakeTwiceDs
                     /\ t[0] = s[0] => t[last] <= t[After(last)] + BrakeTwiceDs
  BY DEF Brakeable
<1>1. /\ t[last] = Least(s[last], s[0] + BrakeTwiceDs)
      /\ \A k \in 1..(last - 1) : t[k] = Least(s[k], t[k + 1] + BrakeTwiceDs)
      /\ t[0] = Least(s[0], t[1] + BrakeTwiceDs)
  BY DEF Backward
<1>2. \A i \in 0..last : s[i] \in Nat /\ t[i] \in Nat
  BY DEF SpeedSet, Indices, Backward
<1>3. ASSUME NEW i \in 0..(Samples - 2) PROVE t[i] <= t[After(i)] + BrakeTwiceDs
  <2>1. i \in 0..last /\ i + 1 \in 0..last /\ After(i) = i + 1
    BY SpeedSizes, AfterIs
  <2>2. CASE i = 0
    BY <1>1, <1>2, <2>1, <2>2, SpeedSizes DEF Least
  <2>3. CASE i # 0
    BY <1>1, <1>2, <2>1, <2>3, SpeedSizes DEF Least
  <2>. QED  BY <2>2, <2>3
<1>4. ASSUME t[0] = s[0] PROVE t[last] <= t[After(last)] + BrakeTwiceDs
  BY <1>1, <1>2, <1>4, SpeedSizes, AfterIs DEF Least
<1>. QED  BY <1>3, <1>4

(* What a pass keeps: every edge of the other kind.                         *)
LEMMA ForwardKeeps ==
  ASSUME NEW s \in SpeedSet, NEW t, Forward(s, t), NEW i \in Indices, Brakeable(s, i)
  PROVE  Brakeable(t, i)
<1>. DEFINE last == Samples - 1
            A == AccelTwiceDs
            B == BrakeTwiceDs
<1>. SUFFICES ASSUME B > 0 PROVE t[i] <= t[After(i)] + B
  BY DEF Brakeable
<1>1. s[i] <= s[After(i)] + B
  BY DEF Brakeable
<1>2. CASE A = 0
  BY <1>1, <1>2 DEF Forward
<1>3. CASE A > 0
  <2>1. /\ t[1] = Least(s[1], s[0] + A)
        /\ \A k \in 2..last : t[k] = Least(s[k], t[k - 1] + A)
        /\ t[0] = Least(s[0], t[last] + A)
    BY <1>3 DEF Forward
  <2>2. \A k \in 0..last : s[k] \in Nat /\ t[k] \in Nat /\ t[k] <= s[k]
    BY PassesLower DEF SpeedSet, Indices, Forward
  <2>3. CASE i = last
    BY <1>1, <2>1, <2>2, <2>3, SpeedSizes, AfterIs DEF Least
  <2>4. CASE i = 0
    BY <1>1, <2>1, <2>2, <2>4, SpeedSizes, AfterIs DEF Least
  <2>5. CASE i \in 1..(last - 1)
    <3>1. i + 1 \in 2..last /\ (i + 1) - 1 = i /\ After(i) = i + 1 /\ i \in 0..last /\ i + 1 \in 0..last
      BY <2>5, SpeedSizes, AfterIs
    <3>2. t[i + 1] = Least(s[i + 1], t[i] + A)
      BY <2>1, <3>1
    <3>. QED  BY <1>1, <2>2, <3>1, <3>2, SpeedSizes DEF Least
  <2>. QED  BY <2>3, <2>4, <2>5, SpeedSizes DEF Indices
<1>. QED  BY <1>2, <1>3, SpeedSizes

LEMMA BackwardKeeps ==
  ASSUME NEW s \in SpeedSet, NEW t, Backward(s, t), NEW i \in Indices, Accelerable(s, i)
  PROVE  Accelerable(t, i)
<1>. DEFINE last == Samples - 1
            A == AccelTwiceDs
            B == BrakeTwiceDs
<1>. SUFFICES ASSUME A > 0 PROVE t[After(i)] <= t[i] + A
  BY DEF Accelerable
<1>1. s[After(i)] <= s[i] + A
  BY DEF Accelerable
<1>2. CASE B = 0
  BY <1>1, <1>2 DEF Backward
<1>3. CASE B > 0
  <2>1. /\ t[last] = Least(s[last], s[0] + B)
        /\ \A k \in 1..(last - 1) : t[k] = Least(s[k], t[k + 1] + B)
        /\ t[0] = Least(s[0], t[1] + B)
    BY <1>3 DEF Backward
  <2>2. \A k \in 0..last : s[k] \in Nat /\ t[k] \in Nat /\ t[k] <= s[k]
    BY PassesLower DEF SpeedSet, Indices, Backward
  <2>3. CASE i = last
    BY <1>1, <2>1, <2>2, <2>3, SpeedSizes, AfterIs DEF Least
  <2>4. CASE i = 0
    BY <1>1, <2>1, <2>2, <2>4, SpeedSizes, AfterIs DEF Least
  <2>5. CASE i \in 1..(last - 1)
    <3>1. After(i) = i + 1 /\ i \in 0..last /\ i + 1 \in 0..last
      BY <2>5, SpeedSizes, AfterIs
    <3>2. t[i] = Least(s[i], t[i + 1] + B)
      BY <2>1, <2>5
    <3>. QED  BY <1>1, <2>2, <3>1, <3>2, SpeedSizes DEF Least
  <2>. QED  BY <2>3, <2>4, <2>5, SpeedSizes DEF Indices
<1>. QED  BY <1>2, <1>3, SpeedSizes

(* If all edges but the one that leaves sample 0 hold already, the pass     *)
(* does not lower sample 0: on its way around, a speed is its old one, or   *)
(* was lowered because of sample 0 and is then no smaller than that.        *)
LEMMA ForwardSettled ==
  ASSUME NEW s \in SpeedSet, NEW t, Forward(s, t),
         \A i \in 1..(Samples - 1) : Accelerable(s, i)
  PROVE  t[0] = s[0]
<1>. DEFINE last == Samples - 1
            A == AccelTwiceDs
            Bad == {k \in 1..last : ~ (t[k] = s[k] \/ t[k] >= s[0])}
<1>1. CASE A = 0
  BY <1>1 DEF Forward
<1>2. CASE A > 0
  <2>1. /\ t[1] = Least(s[1], s[0] + A)
        /\ \A k \in 2..last : t[k] = Least(s[k], t[k - 1] + A)
        /\ t[0] = Least(s[0], t[last] + A)
    BY <1>2 DEF Forward
  <2>2. \A k \in 0..last : s[k] \in Nat /\ t[k] \in Nat
    BY DEF SpeedSet, Indices, Forward
  <2>3. s[0] <= s[last] + A
    BY <1>2, SpeedSizes, AfterIs DEF Accelerable
  <2>4. ASSUME NEW k \in 2..last PROVE s[k] <= s[k - 1] + A
    <3>1. k - 1 \in 1..last /\ k - 1 \in 0..(Samples - 2) /\ (k - 1) + 1 = k
      BY SpeedSizes
    <3>. QED  BY <1>2, <3>1, AfterIs DEF Accelerable
  <2>5. Bad = {}
    <3>. SUFFICES ASSUME Bad # {} PROVE FALSE
      OBVIOUS
    <3>1. PICK m \in Bad : \A k \in Bad : m <= k
      <4>1. Bad \subseteq Nat
        BY SpeedSizes
      <4>. HIDE DEF Bad
      <4>. QED  BY <4>1, LeastElement
    <3>2. m \in 1..last /\ ~ (t[m] = s[m] \/ t[m] >= s[0])
      OBVIOUS
    <3>3. m # 1
      BY <2>1, <2>2, <3>2, SpeedSizes DEF Least
    <3>4. m \in 2..last /\ m - 1 \in 1..last /\ ~ m <= m - 1
      BY <3>2, <3>3, SpeedSizes
    <3>5. t[m - 1] = s[m - 1] \/ t[m - 1] >= s[0]
      BY <3>1, <3>4
    <3>6. t[m] = Least(s[m], t[m - 1] + A) /\ s[m] <= s[m - 1] + A
      BY <2>1, <2>4, <3>4
    <3>7. /\ s[m] \in Nat /\ s[m - 1] \in Nat /\ s[0] \in Nat
          /\ t[m] \in Nat /\ t[m - 1] \in Nat
      BY <2>2, <3>4, SpeedSizes
    <3>. HIDE DEF Bad
    <3>. QED  BY <3>2, <3>5, <3>6, <3>7, SpeedSizes DEF Least
  <2>6. t[last] = s[last] \/ t[last] >= s[0]
    BY <2>5, SpeedSizes
  <2>. HIDE DEF Bad
  <2>7. s[last] \in Nat /\ s[0] \in Nat /\ t[last] \in Nat
    BY <2>2, SpeedSizes
  <2>. QED  BY <2>1, <2>3, <2>6, <2>7, SpeedSizes DEF Least
<1>. QED  BY <1>1, <1>2, SpeedSizes

LEMMA BackwardSettled ==
  ASSUME NEW s \in SpeedSet, NEW t, Backward(s, t),
         \A i \in 0..(Samples - 2) : Brakeable(s, i)
  PROVE  t[0] = s[0]
<1>. DEFINE last == Samples - 1
            B == BrakeTwiceDs
            Bad == {n \in 0..(last - 1) : ~ \/ t[last - n] = s[last - n]
                                            \/ t[last - n] >= s[0]}
<1>1. CASE B = 0
  BY <1>1 DEF Backward
<1>2. CASE B > 0
  <2>1. /\ t[last] = Least(s[last], s[0] + B)
        /\ \A k \in 1..(last - 1) : t[k] = Least(s[k], t[k + 1] + B)
        /\ t[0] = Least(s[0], t[1] + B)
    BY <1>2 DEF Backward
  <2>2. \A k \in 0..last : s[k] \in Nat /\ t[k] \in Nat
    BY DEF SpeedSet, Indices, Backward
  <2>3. \A k \in 0..(last - 1) : s[k] <= s[k + 1] + B
    BY <1>2, SpeedSizes, AfterIs DEF Brakeable
  <2>4. Bad = {}
    <3>. SUFFICES ASSUME Bad # {} PROVE FALSE
      OBVIOUS
    <3>1. PICK m \in Bad : \A k \in Bad : m <= k
      <4>1. Bad \subseteq Nat
        BY SpeedSizes
      <4>. HIDE DEF Bad
      <4>. QED  BY <4>1, LeastElement
    <3>2. m \in 0..(last - 1) /\ ~ (t[last - m] = s[last - m] \/ t[last - m] >= s[0])
      OBVIOUS
    <3>3. m # 0
      BY <2>1, <2>2, <3>2, SpeedSizes DEF Least
    <3>4. /\ last - m \in 1..(last - 1) /\ m - 1 \in 0..(last - 1) /\ ~ m <= m - 1
          /\ last - (m - 1) = (last - m) + 1 /\ last - m \in 0..last /\ (last - m) + 1 \in 0..last
      BY <3>2, <3>3, SpeedSizes
    <3>5. m - 1 \notin Bad
      <4>. HIDE DEF Bad
      <4>. QED  BY <3>1, <3>4
    <3>6. t[(last - m) + 1] = s[(last - m) + 1] \/ t[(last - m) + 1] >= s[0]
      BY <3>4, <3>5
    <3>. DEFINE k == last - m
    <3>. HIDE DEF Bad
    <3>7. k \in 1..(last - 1) /\ k \in 0..(last - 1)
      BY <3>4
    <3>8. t[k + 1] = s[k + 1] \/ t[k + 1] >= s[0]
      BY <3>6
    <3>9. ~ (t[k] = s[k] \/ t[k] >= s[0])
      BY <3>2
    <3>10. /\ s[k] \in Nat /\ s[k + 1] \in Nat /\ s[0] \in Nat
           /\ t[k] \in Nat /\ t[k + 1] \in Nat
      BY <2>2, <3>4, SpeedSizes
    <3>. HIDE DEF k
    <3>11. t[k] = Least(s[k], t[k + 1] + B) /\ s[k] <= s[k + 1] + B
      BY <2>1, <2>3, <3>7
    <3>. QED  BY <3>8, <3>9, <3>10, <3>11, SpeedSizes DEF Least
  <2>5. t[1] = s[1] \/ t[1] >= s[0]
    <3>1. last - 1 \in 0..(last - 1) /\ last - (last - 1) = 1
      BY SpeedSizes
    <3>. QED  BY <2>4, <3>1
  <2>. HIDE DEF Bad
  <2>6. s[1] \in Nat /\ s[0] \in Nat /\ t[1] \in Nat /\ s[0] <= s[1] + B
    BY <2>2, <2>3, SpeedSizes
  <2>. QED  BY <2>1, <2>5, <2>6, SpeedSizes DEF Least
<1>. QED  BY <1>1, <1>2, SpeedSizes

LEMMA TwoPassesSettle ==
  ASSUME NEW c \in SpeedSet
  PROVE  Driveable(BackwardPass(ForwardPass(BackwardPass(ForwardPass(c)))))
<1>. DEFINE f == ForwardPass(c)
            g == BackwardPass(f)
            h == ForwardPass(g)
            l == BackwardPass(h)
<1>1. Forward(c, f) /\ f \in SpeedSet
  BY PassesAre DEF Forward
<1>. HIDE DEF f
<1>2. Backward(f, g) /\ g \in SpeedSet
  BY <1>1, PassesAre DEF Backward
<1>. HIDE DEF g
<1>3. Forward(g, h) /\ h \in SpeedSet
  BY <1>2, PassesAre DEF Forward
<1>. HIDE DEF h
<1>4. Backward(h, l) /\ l \in SpeedSet
  BY <1>3, PassesAre DEF Backward
<1>. HIDE DEF l
<1>5. /\ 1..(Samples - 1) \subseteq Indices /\ 0..(Samples - 2) \subseteq Indices
      /\ Indices = 0..(Samples - 2) \cup {Samples - 1}
      /\ Indices = {0} \cup 1..(Samples - 1)
  BY SpeedSizes DEF Indices
<1>6. \A i \in 1..(Samples - 1) : Accelerable(f, i)
  BY <1>1, ForwardGives
<1>7. \A i \in 1..(Samples - 1) : Accelerable(g, i)
  BY <1>1, <1>2, <1>5, <1>6, BackwardKeeps
<1>8. \A i \in 0..(Samples - 2) : Brakeable(g, i)
  BY <1>1, <1>2, BackwardGives
<1>9. \A i \in Indices : Accelerable(h, i)
  <2>1. h[0] = g[0]
    BY <1>2, <1>3, <1>7, ForwardSettled
  <2>. QED  BY <1>2, <1>3, <1>5, <2>1, ForwardGives
<1>10. \A i \in 0..(Samples - 2) : Brakeable(h, i)
  BY <1>2, <1>3, <1>5, <1>8, ForwardKeeps
<1>11. \A i \in Indices : Brakeable(l, i)
  <2>1. l[0] = h[0]
    BY <1>3, <1>4, <1>10, BackwardSettled
  <2>. QED  BY <1>3, <1>4, <1>5, <2>1, BackwardGives
<1>12. \A i \in Indices : Accelerable(l, i)
  BY <1>3, <1>4, <1>9, BackwardKeeps
<1>13. Driveable(l)
  BY <1>11, <1>12 DEF Driveable
<1>. QED  BY <1>13 DEF f, g, h, l

-----------------------------------------------------------------------------
(* The state of the velocity profile                                        *)

(* One pass after the other: the first one is known exactly, from the       *)
(* second one on the speeds are driveable and the third one finds so.       *)
PassesRun(p) ==
  /\ p \in [cap : SpeedSet, speed : SpeedSet, passes : Nat, converged : BOOLEAN]
  /\ \A i \in Indices : p.speed[i] <= p.cap[i]
  /\ p.passes = 0 => p.speed = p.cap /\ ~p.converged
  /\ p.passes = 1 => p.speed = BackwardPass(ForwardPass(p.cap))
  /\ p.passes >= 2 => Driveable(p.speed)
  /\ p.passes >= 3 => p.converged
  /\ p.converged => Driveable(p.speed)

ProfileInv ==
  /\ stage = "profile" => PassesRun(profile)
  /\ stage = "done" => profile = Nothing \/ PassesRun(profile)
  /\ stage \notin {"profile", "done"} => profile = Nothing

LEMMA BeginsAtTheCaps ==
  ASSUME NEW cap \in [Indices -> Caps]
  PROVE  PassesRun([cap |-> cap, speed |-> cap, passes |-> 0, converged |-> FALSE])
<1>1. cap \in SpeedSet
  BY SolverSizes DEF SpeedSet
<1>2. \A i \in Indices : cap[i] <= cap[i]
  BY <1>1 DEF SpeedSet
<1>. QED  BY <1>1, <1>2 DEF PassesRun

LEMMA PassRuns ==
  ASSUME NEW p, PassesRun(p), ~p.converged,
         NEW after, after = BackwardPass(ForwardPass(p.speed))
  PROVE  PassesRun([cap |-> p.cap, speed |-> after, passes |-> p.passes + 1,
                     converged |-> Converged(p.speed, after)])
<1>. DEFINE n == p.passes
            now == Converged(p.speed, after)
            q == [cap |-> p.cap, speed |-> after, passes |-> n + 1, converged |-> now]
            f == ForwardPass(p.speed)
<1>1. p.cap \in SpeedSet /\ p.speed \in SpeedSet /\ n \in Nat
  BY DEF PassesRun
<1>2. q.cap = p.cap /\ q.speed = after /\ q.passes = n + 1 /\ q.converged = now
  OBVIOUS
<1>3. Forward(p.speed, f) /\ f \in SpeedSet
  BY <1>1, PassesAre DEF Forward
<1>4. Backward(f, after) /\ after \in SpeedSet
  <2>. HIDE DEF f
  <2>1. after = BackwardPass(f)
    BY DEF f
  <2>. QED  BY <1>3, <2>1, PassesAre DEF Backward
<1>. HIDE DEF f
<1>5. \A i \in Indices : after[i] <= p.cap[i]
  <2>1. \A i \in Indices : f[i] <= p.speed[i] /\ after[i] <= f[i]
    BY <1>1, <1>3, <1>4, PassesLower
  <2>2. \A i \in Indices : p.speed[i] <= p.cap[i]
    BY DEF PassesRun
  <2>. QED  BY <1>1, <1>3, <1>4, <2>1, <2>2 DEF SpeedSet
<1>6. n = 0 => after = BackwardPass(ForwardPass(p.cap))
  BY DEF PassesRun
<1>7. n >= 1 => Driveable(after)
  <2>1. CASE n = 1
    <3>1. p.speed = BackwardPass(ForwardPass(p.cap))
      BY <2>1 DEF PassesRun
    <3>. QED  BY <1>1, <3>1, TwoPassesSettle
  <2>2. CASE n >= 2
    <3>1. Driveable(p.speed)
      BY <2>2 DEF PassesRun
    <3>. QED  BY <1>1, <3>1, DriveableStays
  <2>. QED  BY <1>1, <2>1, <2>2
<1>8. n >= 2 => now
  <2>. SUFFICES ASSUME n >= 2 PROVE after = p.speed
    BY DEF Converged
  <2>1. Driveable(p.speed)
    BY DEF PassesRun
  <2>. QED  BY <1>1, <2>1, DriveableStays
<1>9. now => Driveable(after)
  BY <1>1, UnchangedIsDriveable DEF Converged
<1>10. q \in [cap : SpeedSet, speed : SpeedSet, passes : Nat, converged : BOOLEAN]
  <2>1. now \in BOOLEAN
    BY DEF Converged
  <2>. HIDE DEF now
  <2>. QED  BY <1>1, <1>4, <2>1
<1>. HIDE DEF q, now, n
<1>11. PassesRun(q)
  BY <1>1, <1>2, <1>4, <1>5, <1>6, <1>7, <1>8, <1>9, <1>10 DEF PassesRun
<1>. QED  BY <1>11 DEF q, now, n

LEMMA InitProfileInv == SolverInit => ProfileInv
BY DEF SolverInit, ProfileInv

LEMMA StepProfileInv == ProfileInv /\ [SolverNext]_solverVars => ProfileInv'
<1>. SUFFICES ASSUME ProfileInv, [SolverNext]_solverVars PROVE ProfileInv'
  OBVIOUS
<1>. USE DEF ProfileInv
<1>1. ASSUME NEW error, Fail(error) PROVE ProfileInv'
  BY <1>1 DEF Fail
<1>2. ASSUME stage \notin {"profile", "done"}, stage' \notin {"profile", "done"},
             profile' = profile
      PROVE  ProfileInv'
  BY <1>2
<1>3. CASE Binarize
  <2>1. CASE GridError(map.grid) # "none"
    BY <1>1, <1>3, <2>1 DEF Binarize
  <2>2. CASE GridError(map.grid) = "none"
    BY <1>2, <1>3, <2>2 DEF Binarize, lineVars
  <2>. QED  BY <2>1, <2>2
<1>4. CASE ChooseMarkers
  <2>1. CASE ~ SelectMarkers(mask).ok
    BY <1>1, <1>4, <2>1 DEF ChooseMarkers
  <2>2. CASE SelectMarkers(mask).ok
    BY <1>2, <1>4, <2>2 DEF ChooseMarkers, lineVars
  <2>. QED  BY <2>1, <2>2
<1>5. CASE MeasureRows \/ MeasureColumns
  BY <1>2, <1>5 DEF MeasureRows, MeasureColumns, lineVars
<1>6. ASSUME NEW saddle \in {"a", "b", "tie"}, March(saddle) PROVE ProfileInv'
  <2>1. \/ \E error : Fail(error)
        \/ stage = "march" /\ stage' \in {"endless", "reference"} /\ profile' = profile
    BY <1>6, Zenon DEF March, lineVars
  <2>. QED  BY <1>1, <1>2, <2>1
<1>7. CASE Reference
  <2>1. \/ \E error : Fail(error)
        \/ stage = "reference" /\ stage' = "optimize" /\ profile' = profile
    BY <1>7 DEF Reference
  <2>. QED  BY <1>1, <1>2, <2>1
<1>8. CASE Linearize \/ FallBack
  <2>1. \/ \E error : Fail(error)
        \/ stage = "optimize" /\ stage' \in {"speeds", "optimize"} /\ profile' = profile
    BY <1>8 DEF Linearize, FallBack, Optimized, Degenerate
  <2>. QED  BY <1>1, <1>2, <2>1
<1>9. CASE BeginProfile
  <2>1. PICK cap \in [Indices -> Caps] :
          profile' = [cap |-> cap, speed |-> cap, passes |-> 0, converged |-> FALSE]
    BY <1>9 DEF BeginProfile
  <2>2. PassesRun(profile')
    BY <2>1, BeginsAtTheCaps
  <2>. QED  BY <1>9, <2>2 DEF BeginProfile
<1>10. CASE ProfilePass
  <2>1. PassesRun(profile) /\ ~profile.converged
    BY <1>10 DEF ProfilePass
  <2>. DEFINE after == BackwardPass(ForwardPass(profile.speed))
  <2>2. profile' = [cap |-> profile.cap, speed |-> after, passes |-> profile.passes + 1,
                  converged |-> Converged(profile.speed, after)]
    BY <1>10 DEF ProfilePass
  <2>3. PassesRun(profile')
    BY <2>1, <2>2, PassRuns
  <2>. QED  BY <1>10, <2>3 DEF ProfilePass
<1>11. CASE Deliver
  BY <1>11 DEF Deliver, Finish
<1>12. CASE SolveBoundaries
  <2>1. \/ \E error : Fail(error)
        \/ stage = "boundaries" /\ stage' = "done" /\ profile' = profile
    BY <1>12 DEF SolveBoundaries, Finish, lineVars
  <2>. QED  BY <1>1, <2>1
<1>13. CASE UNCHANGED solverVars
  BY <1>13 DEF solverVars, lineVars
<1>. QED
  BY <1>3, <1>4, <1>5, <1>6, <1>7, <1>8, <1>9, <1>10, <1>11, <1>12, <1>13 DEF SolverNext

(* Whatever the caps, the limits and the number of samples: a converged     *)
(* profile, and any from the second pass on, can be driven, the closing     *)
(* edge of the line included, and the third pass finds nothing to lower.    *)
THEOREM SpeedsAreDriveable == SolverSpec => []ProfileIsDriveable
<1>1. ProfileInv => ProfileIsDriveable
  <2>. SUFFICES ASSUME PassesRun(profile) PROVE ProfileIsDriveable
    BY DEF ProfileInv, ProfileIsDriveable
  <2>1. profile.converged \/ profile.passes >= 2 => Driveable(profile.speed)
    BY DEF PassesRun
  <2>2. \A i \in Indices : profile.speed[i] <= profile.cap[i]
    BY DEF PassesRun
  <2>3. profile.passes >= 3 => profile.converged
    BY DEF PassesRun
  <2>. QED  BY <2>1, <2>2, <2>3 DEF ProfileIsDriveable, Driveable, Accelerable, Brakeable
<1>. QED  BY <1>1, InitProfileInv, StepProfileInv, PTL DEF SolverSpec

-----------------------------------------------------------------------------
(* The lines of the separatrix                                              *)

(* A finite set of integers has its least and its greatest.                 *)
LEMMA ExtremesAreThere ==
  ASSUME NEW s, s \subseteq Int, IsFiniteSet(s), s # {}
  PROVE  /\ Min(s) \in s /\ \A e \in s : Min(s) <= e
         /\ Max(s) \in s /\ \A e \in s : Max(s) >= e
<1>1. [e \in s |-> e] \in [s -> Int]
  OBVIOUS
<1>2. \E d \in s : \A e \in s : d <= e
  <2>1. \E d \in s : \A e \in s : [i \in s |-> i][d] <= [i \in s |-> i][e]
    BY <1>1, LeastOf
  <2>. QED  BY <2>1
<1>3. \E d \in s : \A e \in s : d >= e
  <2>1. \E d \in s : \A e \in s : [i \in s |-> i][e] <= [i \in s |-> i][d]
    BY <1>1, GreatestOf
  <2>. QED  BY <2>1
<1>. QED  BY <1>2, <1>3 DEF Min, Max

(* What a fold over a set of indices is, the greatest of them outermost: it *)
(* exists, and keeps to what its steps keep to.                             *)
Folding(S, V, base, step, f) ==
  /\ f \in [SUBSET S -> V]
  /\ \A s \in SUBSET S : f[s] = IF s = {} THEN base ELSE step[Max(s)][f[s \ {Max(s)}]]

LEMMA FoldingExists ==
  ASSUME NEW S, S \subseteq Int, IsFiniteSet(S), NEW V, NEW base \in V,
         NEW step, \A x \in S : step[x] \in [V -> V]
  PROVE  \E f : Folding(S, V, base, step, f)
<1>. DEFINE D == SUBSET S
            rank == [s \in D |-> Cardinality(s)]
            bases == [s \in D |-> base]
            join == [s \in D |-> step[Max(s)]]
            next == [s \in D |-> s \ {Max(s)}]
<1>1. rank \in [D -> Nat] /\ Cardinality(S) \in Nat /\ \A s \in D : rank[s] <= Cardinality(S)
  BY FS_Subset, FS_CardinalityType
<1>2. ASSUME NEW s \in D, s \notin {{}}
      PROVE  next[s] \in D /\ rank[next[s]] < rank[s] /\ join[s] \in [V -> V]
  <2>1. IsFiniteSet(s) /\ s # {} /\ s \subseteq Int
    BY <1>2, FS_Subset
  <2>2. Max(s) \in s
    BY <2>1, ExtremesAreThere
  <2>3. s \ {Max(s)} \subseteq s /\ s \ {Max(s)} # s
    BY <2>2
  <2>4. rank[s \ {Max(s)}] < rank[s]
    BY <2>3, SmallerRest
  <2>. QED  BY <2>2, <2>3, <2>4
<1>3. PICK f : Gathers(D, V, {{}}, bases, join, next, f)
  <2>1. bases \in [D -> V]
    OBVIOUS
  <2>. HIDE DEF D, rank, bases, join, next
  <2>. QED  BY <1>1, <1>2, <2>1, GatheringExists
<1>4. f \in [D -> V]
  BY <1>3 DEF Gathers
<1>5. ASSUME NEW s \in D
      PROVE  f[s] = IF s = {} THEN base ELSE step[Max(s)][f[s \ {Max(s)}]]
  <2>1. f[s] = IF s \in {{}} THEN bases[s] ELSE join[s][f[next[s]]]
    BY <1>3 DEF Gathers
  <2>2. bases[s] = base /\ join[s] = step[Max(s)] /\ next[s] = s \ {Max(s)}
    OBVIOUS
  <2>. QED  BY <2>1, <2>2
<1>. QED  BY <1>4, <1>5 DEF Folding

LEMMA FoldingStays ==
  ASSUME NEW S, S \subseteq Int, IsFiniteSet(S), NEW V, NEW f, f[{}] \in V,
         \A s \in SUBSET S : s # {} /\ f[s \ {Max(s)}] \in V => f[s] \in V
  PROVE  f[S] \in V
<1>. DEFINE D == SUBSET S
            rank == [s \in D |-> Cardinality(s)]
            good == {s \in D : f[s] \in V}
<1>1. rank \in [D -> Nat]
  BY FS_Subset, FS_CardinalityType
<1>2. ASSUME NEW s \in D, \A t \in D : rank[t] < rank[s] => t \in good
      PROVE  s \in good
  <2>1. CASE s = {}
    BY <2>1
  <2>2. CASE s # {}
    <3>1. IsFiniteSet(s) /\ s \subseteq Int
      BY FS_Subset
    <3>2. Max(s) \in s
      BY <2>2, <3>1, ExtremesAreThere
    <3>3. s \ {Max(s)} \subseteq s /\ s \ {Max(s)} # s
      BY <3>2
    <3>4. rank[s \ {Max(s)}] < rank[s]
      BY <3>3, SmallerRest
    <3>5. s \ {Max(s)} \in good
      BY <1>2, <3>3, <3>4
    <3>. QED  BY <2>2, <3>5
  <2>. QED  BY <2>1, <2>2
<1>3. D \subseteq good
  <2>. HIDE DEF D, rank, good
  <2>. QED  BY <1>1, <1>2, RankInduction
<1>. QED  BY <1>3

(* Points in doubled coordinates, and the lines between two of them that    *)
(* lie in one square of free cells                                          *)
Spots == Int \X Int
InSquare(p, c) == p \in Spots /\ CellsAt(p) \subseteq ToSet(Corners(c))
Open(p, q, free) == \E c \in Squares(free) : InSquare(p, c) /\ InSquare(q, c)
FreeLines(free) == {l \in Spots \X Spots : Open(l[1], l[2], free)}

(* The cells whose centre a point is, or lies between                       *)
LEMMA HalvesOfAnInteger ==
  ASSUME NEW x \in Int
  PROVE  /\ (2 * x) \div 2 = x /\ (2 * x) % 2 = 0
         /\ (x + (x + 1)) \div 2 = x /\ (x + (x + 1)) % 2 = 1
         /\ ((x + (x + 1)) + 1) \div 2 = x + 1 /\ (2 * x + 0) \div 2 = x
OBVIOUS

LEMMA CellsOfACentre ==
  ASSUME NEW x \in Int, NEW y \in Int
  PROVE  CellsAt(<<2 * x, 2 * y>>) = {<<x, y>>}
<1>. DEFINE X == {2 * x, 2 * x + 0}
            Y == {2 * y, 2 * y + 0}
<1>1. CellsAt(<<2 * x, 2 * y>>) = {<<u \div 2, v \div 2>> : u \in X, v \in Y}
  BY HalvesOfAnInteger DEF CellsAt
<1>2. \A u \in X, v \in Y : <<u \div 2, v \div 2>> = <<x, y>>
  BY HalvesOfAnInteger
<1>3. X # {} /\ Y # {}
  OBVIOUS
<1>. HIDE DEF X, Y
<1>. QED  BY <1>1, <1>2, <1>3

LEMMA CellsBetween ==
  ASSUME NEW x \in Int, NEW y \in Int
  PROVE  /\ CellsAt(<<x + (x + 1), y + y>>) = {<<x, y>>, <<x + 1, y>>}
         /\ CellsAt(<<x + x, y + (y + 1)>>) = {<<x, y>>, <<x, y + 1>>}
<1>. DEFINE s == x + (x + 1)
            t == y + (y + 1)
            X == {x + x, (x + x) + 0}
            Y == {y + y, (y + y) + 0}
            U == {s, s + 1}
            W == {t, t + 1}
<1>1. x + x = 2 * x /\ y + y = 2 * y
  OBVIOUS
<1>2. /\ \A u \in X : u \div 2 = x
      /\ \A u \in Y : u \div 2 = y
      /\ s \div 2 = x /\ (s + 1) \div 2 = x + 1 /\ t \div 2 = y /\ (t + 1) \div 2 = y + 1
      /\ s % 2 = 1 /\ t % 2 = 1 /\ (x + x) % 2 = 0 /\ (y + y) % 2 = 0
  BY <1>1, HalvesOfAnInteger
<1>3. CellsAt(<<s, y + y>>) = {<<u \div 2, v \div 2>> : u \in U, v \in Y}
  <2>. HIDE DEF s
  <2>. QED  BY <1>2 DEF CellsAt
<1>4. CellsAt(<<x + x, t>>) = {<<u \div 2, v \div 2>> : u \in X, v \in W}
  <2>. HIDE DEF t
  <2>. QED  BY <1>2 DEF CellsAt
<1>5. (x + x) \in X /\ (y + y) \in Y
  OBVIOUS
<1>. HIDE DEF s, t, X, Y
<1>6. {<<u \div 2, v \div 2>> : u \in U, v \in Y} = {<<x, y>>, <<x + 1, y>>}
  BY <1>2, <1>5
<1>7. {<<u \div 2, v \div 2>> : u \in X, v \in W} = {<<x, y>>, <<x, y + 1>>}
  BY <1>2, <1>5
<1>. QED  BY <1>3, <1>4, <1>6, <1>7 DEF s, t

LEMMA CrossingIsOneOfThree ==
  ASSUME NEW phi, NEW p, NEW q
  PROVE  CrossingPoint(phi, p, q) \in
           {<<2 * p[1], 2 * p[2]>>, <<2 * q[1], 2 * q[2]>>, <<p[1] + q[1], p[2] + q[2]>>}
BY Zenon DEF CrossingPoint

(* A crossing is on an edge of its square.                                  *)
LEMMA CrossingIsInItsSquare ==
  ASSUME NEW phi, NEW c \in Cells, NEW e \in 1..4
  PROVE  InSquare(CrossingPoint(phi, Corners(c)[Edges[e][1]], Corners(c)[Edges[e][2]]), c)
<1>1. PICK x \in Int, y \in Int : c = <<x, y>> /\ c[1] = x /\ c[2] = y
  BY GridSize DEF Cells
<1>. DEFINE k == Corners(c)
<1>2. /\ k[1] = <<x, y>> /\ k[2] = <<x + 1, y>> /\ k[3] = <<x + 1, y + 1>> /\ k[4] = <<x, y + 1>>
      /\ ToSet(k) = {k[1], k[2], k[3], k[4]}
  BY <1>1 DEF Corners, ToSet
<1>. HIDE DEF k
<1>3. ASSUME NEW u \in Int, NEW v \in Int, <<u, v>> \in ToSet(k)
      PROVE  InSquare(<<2 * u, 2 * v>>, c)
  BY <1>3, CellsOfACentre DEF InSquare, Spots, k
<1>4. ASSUME NEW u \in Int, NEW v \in Int, <<u, v>> \in ToSet(k), <<u + 1, v>> \in ToSet(k)
      PROVE  InSquare(CrossingPoint(phi, <<u, v>>, <<u + 1, v>>), c)
  <2>1. InSquare(<<2 * u, 2 * v>>, c) /\ InSquare(<<2 * (u + 1), 2 * v>>, c)
    BY <1>3, <1>4
  <2>2. InSquare(<<u + (u + 1), v + v>>, c)
    <3>1. CellsAt(<<u + (u + 1), v + v>>) = {<<u, v>>, <<u + 1, v>>}
      BY CellsBetween
    <3>2. <<u + (u + 1), v + v>> \in Spots
      BY DEF Spots
    <3>3. {<<u, v>>, <<u + 1, v>>} \subseteq ToSet(Corners(c))
      BY <1>4 DEF k
    <3>. QED  BY <3>1, <3>2, <3>3 DEF InSquare
  <2>3. CrossingPoint(phi, <<u, v>>, <<u + 1, v>>) \in
          {<<2 * u, 2 * v>>, <<2 * (u + 1), 2 * v>>, <<u + (u + 1), v + v>>}
    BY CrossingIsOneOfThree
  <2>. QED  BY <2>1, <2>2, <2>3
<1>5. ASSUME NEW u \in Int, NEW v \in Int, <<u, v>> \in ToSet(k), <<u, v + 1>> \in ToSet(k)
      PROVE  InSquare(CrossingPoint(phi, <<u, v>>, <<u, v + 1>>), c)
  <2>1. InSquare(<<2 * u, 2 * v>>, c) /\ InSquare(<<2 * u, 2 * (v + 1)>>, c)
    BY <1>3, <1>5
  <2>2. InSquare(<<u + u, v + (v + 1)>>, c)
    <3>1. CellsAt(<<u + u, v + (v + 1)>>) = {<<u, v>>, <<u, v + 1>>}
      BY CellsBetween
    <3>2. <<u + u, v + (v + 1)>> \in Spots
      BY DEF Spots
    <3>3. {<<u, v>>, <<u, v + 1>>} \subseteq ToSet(Corners(c))
      BY <1>5 DEF k
    <3>. QED  BY <3>1, <3>2, <3>3 DEF InSquare
  <2>3. CrossingPoint(phi, <<u, v>>, <<u, v + 1>>) \in
          {<<2 * u, 2 * v>>, <<2 * u, 2 * (v + 1)>>, <<u + u, v + (v + 1)>>}
    BY CrossingIsOneOfThree
  <2>. QED  BY <2>1, <2>2, <2>3
<1>6. e \in {1, 2, 3, 4}
  OBVIOUS
<1>7. /\ Edges[1][1] = 1 /\ Edges[1][2] = 2 /\ Edges[2][1] = 2 /\ Edges[2][2] = 3
      /\ Edges[3][1] = 4 /\ Edges[3][2] = 3 /\ Edges[4][1] = 1 /\ Edges[4][2] = 4
  BY DEF Edges
<1>8. \A i \in {1, 2, 3, 4} : k[i] \in ToSet(k)
  BY <1>2
<1>9. CASE e = 1
  BY <1>2, <1>4, <1>7, <1>8, <1>9 DEF k
<1>10. CASE e = 2
  BY <1>2, <1>5, <1>7, <1>8, <1>10 DEF k
<1>11. CASE e = 3
  BY <1>2, <1>4, <1>7, <1>8, <1>11 DEF k
<1>12. CASE e = 4
  BY <1>2, <1>5, <1>7, <1>8, <1>12 DEF k
<1>. QED  BY <1>6, <1>9, <1>10, <1>11, <1>12

(* All that marching through a free square gives are lines of that square.  *)
LEMMA LinesOfASquare ==
  ASSUME NEW free, NEW phi, NEW saddle, NEW c \in Squares(free)
  PROVE  CellSegments(phi, c, saddle) \in Seq(FreeLines(free))
<1>. DEFINE k == Corners(c)
            crossed == {e \in 1..4 : Negative(phi[k[Edges[e][1]]]) # Negative(phi[k[Edges[e][2]]])}
            at(e) == CrossingPoint(phi, k[Edges[e][1]], k[Edges[e][2]])
            S == Seq(FreeLines(free))
<1>1. c \in Cells
  BY DEF Squares
<1>2. ASSUME NEW d \in 1..4, NEW e \in 1..4
      PROVE  Segment(at(d), at(e)) \in S
  <2>1. InSquare(at(d), c) /\ InSquare(at(e), c)
    BY <1>1, CrossingIsInItsSquare
  <2>. HIDE DEF at
  <2>2. <<at(d), at(e)>> \in FreeLines(free)
    BY <2>1 DEF FreeLines, Open, InSquare
  <2>. HIDE DEF FreeLines
  <2>. QED  BY <2>2 DEF Segment
<1>3. << >> \in S /\ \A s, t \in S : s \o t \in S
  <2>. HIDE DEF FreeLines
  <2>. QED  OBVIOUS
<1>4. crossed \subseteq 1..4 /\ IsFiniteSet(crossed)
  <2>1. IsFiniteSet(1..4)
    <3>1. 1 \in Int /\ 4 \in Int
      OBVIOUS
    <3>. QED  BY <3>1, FS_Interval
  <2>2. crossed \subseteq 1..4
    OBVIOUS
  <2>. HIDE DEF crossed
  <2>. QED  BY <2>1, <2>2, FS_Subset
<1>5. crossed # {} => Min(crossed) \in 1..4 /\ Max(crossed) \in 1..4
  <2>. HIDE DEF crossed
  <2>1. crossed \subseteq Int
    BY <1>4
  <2>. QED  BY <1>4, <2>1, ExtremesAreThere
<1>6. /\ Segment(at(1), at(2)) \in S /\ Segment(at(3), at(4)) \in S
      /\ Segment(at(1), at(4)) \in S /\ Segment(at(2), at(3)) \in S
  <2>0. 1 \in 1..4 /\ 2 \in 1..4 /\ 3 \in 1..4 /\ 4 \in 1..4
    OBVIOUS
  <2>. HIDE DEF at, S
  <2>. QED  BY <1>2, <2>0
<1>7. CellSegments(phi, c, saddle) =
        IF crossed = {} THEN << >>
        ELSE IF Cardinality(crossed) = 2 THEN Segment(at(Min(crossed)), at(Max(crossed)))
        ELSE IF saddle = "a" THEN Segment(at(1), at(2)) \o Segment(at(3), at(4))
        ELSE Segment(at(1), at(4)) \o Segment(at(2), at(3))
  BY DEF CellSegments
<1>. HIDE DEF S, crossed, at
<1>8. crossed # {} => Segment(at(Min(crossed)), at(Max(crossed))) \in S
  BY <1>2, <1>5
<1>9. CellSegments(phi, c, saddle) \in S
  BY <1>3, <1>6, <1>7, <1>8
<1>. QED  BY <1>9 DEF S

(* Every segment is a line of a free square.                                *)
LEMMA SegmentsAreFree ==
  ASSUME NEW free, NEW phi, NEW saddle
  PROVE  Segments(free, phi, saddle) \in Seq(FreeLines(free))
<1>. DEFINE S == DOMAIN RowMajor
            V == Seq(FreeLines(free))
            squares == Squares(free)
            With(acc, c) == IF c \in squares THEN acc \o CellSegments(phi, c, saddle) ELSE acc
            Folds(f) == f = [s \in SUBSET S |->
                               IF s = {} THEN << >>
                               ELSE With(f[s \ {Max(s)}], RowMajor[Max(s)])]
            segments == CHOOSE f : Folds(f)
            step == [i \in S |-> [v \in V |-> With(v, RowMajor[i])]]
<1>1. Segments(free, phi, saddle) = segments[S]
  BY DEF Segments, FoldLeft, MapThenFoldSet
<1>2. S \subseteq Int /\ IsFiniteSet(S)
  <2>1. Width * Height \in Nat
    BY GridSize
  <2>2. S = 1..(Width * Height)
    BY DEF RowMajor
  <2>. QED  BY <2>1, <2>2, FS_Interval
<1>3. ASSUME NEW v \in V, NEW c PROVE With(v, c) \in V
  <2>1. CASE c \in squares
    <3>1. CellSegments(phi, c, saddle) \in V
      BY <2>1, LinesOfASquare
    <3>2. \A x, y \in V : x \o y \in V
      <4>. HIDE DEF FreeLines
      <4>. QED  OBVIOUS
    <3>. HIDE DEF V
    <3>. QED  BY <2>1, <3>1, <3>2
  <2>2. CASE c \notin squares
    BY <2>2
  <2>. QED  BY <2>1, <2>2
<1>4. << >> \in V
  OBVIOUS
<1>. HIDE DEF V, S, With
<1>5. \E f : Folds(f)
  <2>1. \A i \in S : step[i] \in [V -> V]
    BY <1>3
  <2>. DEFINE none == << >>
  <2>. HIDE DEF none, step
  <2>2. PICK f : Folding(S, V, none, step, f)
    <3>1. none \in V
      BY <1>4 DEF none
    <3>. QED  BY <1>2, <2>1, <3>1, FoldingExists
  <2>. USE DEF none, step, Folding
  <2>3. ASSUME NEW s \in SUBSET S
        PROVE  f[s] = IF s = {} THEN << >> ELSE With(f[s \ {Max(s)}], RowMajor[Max(s)])
    <3>1. CASE s = {}
      BY <2>2, <3>1
    <3>2. CASE s # {}
      <4>1. IsFiniteSet(s) /\ s \subseteq Int
        BY <1>2, FS_Subset
      <4>2. Max(s) \in S
        BY <3>2, <4>1, ExtremesAreThere
      <4>3. f[s \ {Max(s)}] \in V
        BY <2>2
      <4>4. step[Max(s)][f[s \ {Max(s)}]] = With(f[s \ {Max(s)}], RowMajor[Max(s)])
        BY <4>2, <4>3
      <4>. HIDE DEF step
      <4>. QED  BY <2>2, <3>2, <4>4
    <3>. QED  BY <3>1, <3>2
  <2>4. f = [s \in SUBSET S |-> f[s]]
    BY <2>2
  <2>. QED  BY <2>3, <2>4
<1>6. Folds(segments)
  BY <1>5
<1>. HIDE DEF segments
<1>7. segments[{}] \in V
  BY <1>4, <1>6
<1>8. \A s \in SUBSET S : s # {} /\ segments[s \ {Max(s)}] \in V => segments[s] \in V
  BY <1>3, <1>6
<1>9. segments[S] \in V
  BY <1>2, <1>7, <1>8, FoldingStays
<1>. QED  BY <1>1, <1>9 DEF V

-----------------------------------------------------------------------------
(* The cycles of their graph                                                *)

(* The parts of a step of trace_cycle                                       *)
EndsOf(edges) == UNION {ToSet(edge) : edge \in ToSet(edges)}
Reached(edges, w) == OtherEnd(edges[w.edge], w.cycle[Len(w.cycle)])
WaysOn(edges, alive, w) == (Incident(edges, Reached(edges, w)) \cap alive) \ {w.edge}
WayOn(edges, alive, w) ==
  Min(IF WaysOn(edges, alive, w) \ (w.used \cup {w.edge}) # {}
      THEN WaysOn(edges, alive, w) \ (w.used \cup {w.edge})
      ELSE WaysOn(edges, alive, w))
Repeats(edges, w) == w.edge \in w.used /\ <<w.edge, Reached(edges, w)>> \in w.walked
TurnsBack(edges, alive, w) ==
  OtherEnd(edges[WayOn(edges, alive, w)], Reached(edges, w)) = w.cycle[Len(w.cycle)]
GoesOn(edges, alive, w) ==
  [used |-> w.used \cup {w.edge},
   walked |-> IF w.edge \in w.used THEN w.walked \cup {<<w.edge, Reached(edges, w)>>} ELSE {},
   cycle |-> Append(w.cycle, Reached(edges, w)),
   edge |-> WayOn(edges, alive, w)]
Stopped(kind, points, w) == [kind |-> kind, points |-> points, used |-> w.used \cup {w.edge}]
(* Where the walk halts, and with what                                      *)
Halts(edges, alive, w) ==
  \/ Reached(edges, w) = w.cycle[1] \/ WaysOn(edges, alive, w) = {}
  \/ TurnsBack(edges, alive, w) \/ Repeats(edges, w)
StopsWith(edges, alive, w) ==
  IF Reached(edges, w) = w.cycle[1] THEN Stopped("cycle", w.cycle, w)
  ELSE IF WaysOn(edges, alive, w) = {} \/ TurnsBack(edges, alive, w)
  THEN Stopped("none", << >>, w)
  ELSE Stopped("endless", << >>, w)

(* trace_cycle, a function of the walk so far                               *)
Traces(edges, alive, f) ==
  f = [w \in Walks(edges) |->
         IF Reached(edges, w) = w.cycle[1] THEN Stopped("cycle", w.cycle, w)
         ELSE IF WaysOn(edges, alive, w) = {} THEN Stopped("none", << >>, w)
         ELSE IF TurnsBack(edges, alive, w) THEN Stopped("none", << >>, w)
         ELSE IF Repeats(edges, w) THEN Stopped("endless", << >>, w)
         ELSE f[GoesOn(edges, alive, w)]]

StartOf(edges, usedBefore, first) ==
  [used |-> usedBefore, walked |-> {}, cycle |-> <<edges[first][1]>>, edge |-> first]

LEMMA TraceUnfolds ==
  ASSUME NEW edges, NEW alive, NEW usedBefore, NEW first
  PROVE  Trace(edges, alive, usedBefore, first) =
           (CHOOSE f : Traces(edges, alive, f))[StartOf(edges, usedBefore, first)]
BY DEF Trace, Traces, StartOf, Stopped, Reached, WaysOn, WayOn, Repeats, TurnsBack, GoesOn

Outcomes(edges) ==
  [kind : {"cycle", "none", "endless"}, points : Seq(EndsOf(edges)), used : SUBSET DOMAIN edges]

(* Ranks of two digits, the second below K                                  *)
LEMMA TwoDigits ==
  ASSUME NEW K \in Nat, NEW m \in Nat, NEW n \in Nat, NEW a \in Nat, NEW b \in Nat
  PROVE  /\ m * K + a \in Nat
         /\ m <= n /\ a <= b => m * K + a <= n * K + b
         /\ m < n /\ a < K => m * K + a < n * K + b
         /\ m = n /\ a < b => m * K + a < n * K + b
<1>1. m * K \in Nat /\ n * K \in Nat
  OBVIOUS
<1>2. m <= n => m * K <= n * K
  OBVIOUS
<1>3. m < n => m * K + K <= n * K
  <2>1. m + 1 <= n => (m + 1) * K <= n * K
    OBVIOUS
  <2>2. (m + 1) * K = m * K + K
    OBVIOUS
  <2>. QED  BY <2>1, <2>2
<1>. DEFINE x == m * K
            y == n * K
<1>4. m = n => x = y
  OBVIOUS
<1>5. x \in Nat /\ y \in Nat /\ (m <= n => x <= y) /\ (m < n => x + K <= y)
  BY <1>1, <1>2, <1>3
<1>. HIDE DEF x, y
<1>6. /\ x + a \in Nat
      /\ m <= n /\ a <= b => x + a <= y + b
      /\ m < n /\ a < K => x + a < y + b
      /\ m = n /\ a < b => x + a < y + b
  BY <1>4, <1>5
<1>. QED  BY <1>6 DEF x, y

(* The edge a walk goes on along is one of those it may.                    *)
LEMMA WayOnIsOne ==
  ASSUME NEW P, NEW edges \in Seq(P \X P), NEW alive, NEW w, WaysOn(edges, alive, w) # {}
  PROVE  WayOn(edges, alive, w) \in WaysOn(edges, alive, w)
<1>. DEFINE others == WaysOn(edges, alive, w)
            fresh == others \ (w.used \cup {w.edge})
            some == IF fresh # {} THEN fresh ELSE others
<1>1. others \subseteq DOMAIN edges
  BY DEF WaysOn, Incident
<1>2. some # {} /\ some \subseteq others
  OBVIOUS
<1>3. Len(edges) \in Nat /\ DOMAIN edges = 1..Len(edges)
  OBVIOUS
<1>4. IsFiniteSet(DOMAIN edges) /\ DOMAIN edges \subseteq Int
  BY <1>3, FS_Interval
<1>5. IsFiniteSet(some) /\ some \subseteq Int
  <2>. HIDE DEF some
  <2>. QED  BY <1>1, <1>2, <1>4, FS_Subset
<1>6. WayOn(edges, alive, w) = Min(some)
  BY DEF WayOn
<1>. HIDE DEF some, others
<1>7. Min(some) \in some
  BY <1>2, <1>5, ExtremesAreThere
<1>. QED  BY <1>2, <1>6, <1>7 DEF others

(* Every step of a walk uses a new edge, or takes one it has not taken      *)
(* since, that way round.                                                   *)
Descends(edges, alive, rank, top) ==
  /\ top \in Nat /\ rank \in [Walks(edges) -> Nat]
  /\ \A w \in Walks(edges) :
       /\ rank[w] <= top
       /\ ~ Halts(edges, alive, w) =>
            GoesOn(edges, alive, w) \in Walks(edges) /\ rank[GoesOn(edges, alive, w)] < rank[w]

LEMMA TraceDescends ==
  ASSUME NEW P, NEW edges \in Seq(P \X P), NEW alive
  PROVE  \E rank, top : Descends(edges, alive, rank, top)
<1>. DEFINE W == Walks(edges)
            E == DOMAIN edges
            ends == EndsOf(edges)
            Pairs == E \X ends
            K == Cardinality(Pairs) + 1
            rank == [w \in W |-> Cardinality(E \ w.used) * K + Cardinality(Pairs \ w.walked)]
            top == Cardinality(E) * K + Cardinality(Pairs)
<1>1. Len(edges) \in Nat /\ E = 1..Len(edges) /\ \A e \in E : edges[e] \in P \X P
  OBVIOUS
<1>2. ASSUME NEW e \in E PROVE ToSet(edges[e]) = {edges[e][1], edges[e][2]}
  <2>1. edges[e] \in P \X P
    BY <1>1
  <2>. QED  BY <2>1 DEF ToSet
<1>3. \A e \in E : edges[e][1] \in ends /\ edges[e][2] \in ends
  BY <1>2 DEF EndsOf, ToSet
<1>4. IsFiniteSet(E) /\ E \subseteq Int
  BY <1>1, FS_Interval
<1>5. IsFiniteSet(ends)
  <2>1. ToSet(edges) = {edges[e] : e \in E}
    BY DEF ToSet
  <2>. DEFINE pairs == {ToSet(edge) : edge \in ToSet(edges)}
  <2>2. pairs = {ToSet(edges[e]) : e \in E}
    BY <2>1
  <2>3. IsFiniteSet({ToSet(edges[e]) : e \in E})
    <3>. DEFINE f == [e \in E |-> ToSet(edges[e])]
    <3>1. f \in Surjection(E, {ToSet(edges[e]) : e \in E})
      BY DEF Surjection
    <3>. QED  BY <1>4, <3>1, FS_Surjection
  <2>4. \A x \in pairs : IsFiniteSet(x)
    <3>1. ASSUME NEW e \in E PROVE IsFiniteSet(ToSet(edges[e]))
      <4>1. IsFiniteSet({edges[e][1]}) 
        BY FS_Singleton
      <4>2. IsFiniteSet({edges[e][1], edges[e][2]})
        <5>1. {edges[e][1], edges[e][2]} = {edges[e][1]} \cup {edges[e][2]}
          OBVIOUS
        <5>. QED  BY <4>1, <5>1, FS_AddElement
      <4>. QED  BY <1>2, <4>2
    <3>. QED  BY <2>2, <3>1
  <2>. HIDE DEF pairs
  <2>5. IsFiniteSet(UNION pairs)
    BY <2>2, <2>3, <2>4, FS_UNION
  <2>. QED  BY <2>5 DEF EndsOf, pairs
<1>6. IsFiniteSet(Pairs)
  BY <1>4, <1>5, FS_Product
<1>7. Cardinality(Pairs) \in Nat /\ K \in Nat /\ Cardinality(E) \in Nat
  BY <1>4, <1>6, FS_CardinalityType
<1>8. ASSUME NEW w \in W
      PROVE  /\ w.used \in SUBSET E /\ w.walked \in SUBSET Pairs
             /\ w.cycle \in Seq(ends) /\ w.edge \in E
             /\ Reached(edges, w) \in ends
  <2>1. /\ w.used \in SUBSET E /\ w.walked \in SUBSET Pairs
        /\ w.cycle \in Seq(ends) /\ w.edge \in E
    BY DEF Walks, EndsOf
  <2>. HIDE DEF ends
  <2>. QED  BY <1>3, <2>1 DEF Reached, OtherEnd
<1>. HIDE DEF E, ends
<1>9. ASSUME NEW w \in W
      PROVE  /\ Cardinality(E \ w.used) \in Nat /\ Cardinality(Pairs \ w.walked) \in Nat
             /\ Cardinality(E \ w.used) <= Cardinality(E)
             /\ Cardinality(Pairs \ w.walked) <= Cardinality(Pairs)
             /\ Cardinality(Pairs \ w.walked) < K
  <2>1. /\ E \ w.used \subseteq E /\ Pairs \ w.walked \subseteq Pairs
    OBVIOUS
  <2>. HIDE DEF Pairs
  <2>. QED  BY <1>4, <1>6, <1>7, <2>1, FS_Subset, FS_CardinalityType
<1>10. rank \in [W -> Nat] /\ \A w \in W : rank[w] <= top
  <2>. HIDE DEF Pairs, K
  <2>1. ASSUME NEW w \in W PROVE rank[w] \in Nat /\ rank[w] <= top
    <3>1. Cardinality(Pairs \ w.walked) <= Cardinality(Pairs)
      BY <1>9
    <3>2. rank[w] = Cardinality(E \ w.used) * K + Cardinality(Pairs \ w.walked)
      OBVIOUS
    <3>. DEFINE m == Cardinality(E \ w.used)
                n == Cardinality(E)
                a == Cardinality(Pairs \ w.walked)
                b == Cardinality(Pairs)
    <3>3. m \in Nat /\ n \in Nat /\ a \in Nat /\ b \in Nat /\ m <= n /\ a <= b /\ K \in Nat
      <4>1. K \in Nat /\ n \in Nat /\ b \in Nat
        BY <1>7
      <4>2. m \in Nat /\ a \in Nat /\ m <= n
        BY <1>9
      <4>. QED  BY <3>1, <4>1, <4>2
    <3>4. rank[w] = m * K + a /\ top = n * K + b
      BY <3>2
    <3>. HIDE DEF m, n, a, b, rank, top, W
    <3>5. m * K + a \in Nat /\ m * K + a <= n * K + b
      BY <3>3, TwoDigits
    <3>. QED  BY <3>4, <3>5
  <2>2. rank = [w \in W |-> rank[w]]
    OBVIOUS
  <2>. HIDE DEF rank, top
  <2>. QED  BY <2>1, <2>2
<1>11. ASSUME NEW w \in W, WaysOn(edges, alive, w) # {}
       PROVE  WayOn(edges, alive, w) \in WaysOn(edges, alive, w)
  BY <1>11, WayOnIsOne
<1>12. ASSUME NEW w \in W, ~ Halts(edges, alive, w)
       PROVE  GoesOn(edges, alive, w) \in W /\ rank[GoesOn(edges, alive, w)] < rank[w]
  <2>. DEFINE v == GoesOn(edges, alive, w)
              pair == <<w.edge, Reached(edges, w)>>
  <2>1. WayOn(edges, alive, w) \in E
    <3>1. WaysOn(edges, alive, w) # {}
      BY <1>12 DEF Halts
    <3>. QED  BY <1>11, <3>1 DEF WaysOn, Incident, E
  <2>2. pair \in Pairs
    BY <1>8
  <2>3. /\ v.used = w.used \cup {w.edge}
        /\ v.walked = IF w.edge \in w.used THEN w.walked \cup {pair} ELSE {}
    BY DEF GoesOn
  <2>4. v \in W
    <3>1. v.used \in SUBSET E /\ v.walked \in SUBSET Pairs
      BY <1>8, <2>2, <2>3
    <3>2. v.cycle \in Seq(ends) /\ v.edge \in E
      <4>1. v.cycle = Append(w.cycle, Reached(edges, w)) /\ v.edge = WayOn(edges, alive, w)
        BY DEF GoesOn
      <4>. QED  BY <1>8, <2>1, <4>1
    <3>3. v = [used |-> v.used, walked |-> v.walked, cycle |-> v.cycle, edge |-> v.edge]
      BY DEF GoesOn
    <3>. HIDE DEF v
    <3>4. W = [used : SUBSET E, walked : SUBSET Pairs, cycle : Seq(ends), edge : E]
      BY DEF Walks, E, ends, EndsOf
    <3>. HIDE DEF W, Pairs
    <3>. QED  BY <3>1, <3>2, <3>3, <3>4
  <2>. HIDE DEF v, pair
  <2>5. /\ rank[w] = Cardinality(E \ w.used) * K + Cardinality(Pairs \ w.walked)
        /\ rank[v] = Cardinality(E \ v.used) * K + Cardinality(Pairs \ v.walked)
    BY <2>4
  <2>. DEFINE m == Cardinality(E \ v.used)
              n == Cardinality(E \ w.used)
              a == Cardinality(Pairs \ v.walked)
              b == Cardinality(Pairs \ w.walked)
  <2>6. m \in Nat /\ n \in Nat /\ a \in Nat /\ b \in Nat /\ a < K /\ K \in Nat
    BY <1>7, <1>9, <2>4
  <2>7. ASSUME w.edge \in w.used PROVE rank[v] < rank[w]
    <3>1. v.used = w.used /\ v.walked = w.walked \cup {pair} /\ pair \notin w.walked
      BY <1>12, <2>3, <2>7 DEF Halts, Repeats, pair
    <3>2. Pairs \ v.walked \subseteq Pairs \ w.walked /\ Pairs \ v.walked # Pairs \ w.walked
      BY <2>2, <3>1
    <3>3. Pairs \ w.walked \subseteq Pairs
      OBVIOUS
    <3>. HIDE DEF Pairs
    <3>4. a < b
      BY <1>6, <3>2, <3>3, SmallerRest
    <3>5. m = n
      BY <3>1
    <3>. HIDE DEF m, n, a, b, K, W, rank, v, pair
    <3>6. m * K + a < n * K + b
      BY <2>6, <3>4, <3>5, TwoDigits
    <3>7. rank[w] = n * K + b /\ rank[v] = m * K + a
      BY <2>5 DEF m, n, a, b
    <3>. QED  BY <3>6, <3>7
  <2>8. ASSUME w.edge \notin w.used PROVE rank[v] < rank[w]
    <3>1. E \ v.used \subseteq E \ w.used /\ E \ v.used # E \ w.used
      BY <1>8, <2>3, <2>8
    <3>2. m < n
      BY <1>4, <3>1, SmallerRest
    <3>. HIDE DEF m, n, a, b, K, W, rank
    <3>3. m * K + a < n * K + b
      BY <2>6, <3>2, TwoDigits
    <3>4. rank[w] = n * K + b /\ rank[v] = m * K + a
      BY <2>5 DEF m, n, a, b
    <3>. QED  BY <3>3, <3>4
  <2>. QED  BY <2>4, <2>7, <2>8 DEF v
<1>13. top \in Nat
  <2>. HIDE DEF K
  <2>. QED  BY <1>7, TwoDigits
<1>. HIDE DEF rank, top
<1>14. Descends(edges, alive, rank, top)
  BY <1>10, <1>12, <1>13 DEF Descends
<1>. QED  BY <1>14

(* So there is a function as trace_cycle is defined.                        *)
LEMMA TraceExists ==
  ASSUME NEW P, NEW edges \in Seq(P \X P), NEW alive
  PROVE  \E f : f \in [Walks(edges) -> Outcomes(edges)] /\ Traces(edges, alive, f)
<1>. DEFINE W == Walks(edges)
            V == Outcomes(edges)
            stop == {w \in W : Halts(edges, alive, w)}
            base == [w \in W |-> StopsWith(edges, alive, w)]
            join == [w \in W |-> [v \in V |-> v]]
            next == [w \in W |-> GoesOn(edges, alive, w)]
<1>1. PICK rank, top : Descends(edges, alive, rank, top)
  BY TraceDescends
<1>2. ASSUME NEW w \in W, ~ Halts(edges, alive, w)
      PROVE  GoesOn(edges, alive, w) \in W
  BY <1>1, <1>2 DEF Descends
<1>3. ASSUME NEW w \in W PROVE StopsWith(edges, alive, w) \in V
  <2>1. /\ w.used \cup {w.edge} \in SUBSET DOMAIN edges
        /\ w.cycle \in Seq(EndsOf(edges)) /\ << >> \in Seq(EndsOf(edges))
    BY DEF Walks, EndsOf
  <2>2. ASSUME NEW kind \in {"cycle", "none", "endless"}, NEW points \in Seq(EndsOf(edges))
        PROVE  Stopped(kind, points, w) \in V
    BY <2>1 DEF Stopped, Outcomes
  <2>. HIDE DEF V
  <2>. QED  BY <2>1, <2>2 DEF StopsWith
<1>4. PICK f : Gathers(W, V, stop, base, join, next, f)
  <2>1. \A w \in W : w \notin stop => /\ next[w] \in W /\ rank[next[w]] < rank[w]
                                      /\ join[w] \in [V -> V]
    BY <1>1 DEF Descends
  <2>2. base \in [W -> V]
    BY <1>3
  <2>3. top \in Nat /\ rank \in [W -> Nat] /\ \A w \in W : rank[w] <= top
    BY <1>1 DEF Descends
  <2>. HIDE DEF W, V, stop, base, join, next
  <2>. QED  BY <2>1, <2>2, <2>3, GatheringExists
<1>5. ASSUME NEW w \in W
       PROVE  f[w] = IF Halts(edges, alive, w) THEN StopsWith(edges, alive, w)
                     ELSE f[GoesOn(edges, alive, w)]
  <2>1. f \in [W -> V] /\ f[w] = IF w \in stop THEN base[w] ELSE join[w][f[next[w]]]
    BY <1>4 DEF Gathers
  <2>2. /\ w \in stop <=> Halts(edges, alive, w)
        /\ base[w] = StopsWith(edges, alive, w) /\ next[w] = GoesOn(edges, alive, w)
    OBVIOUS
  <2>3. CASE Halts(edges, alive, w)
    <3>. HIDE DEF base, stop, join, next, W, V
    <3>. QED  BY <2>1, <2>2, <2>3
  <2>4. CASE ~ Halts(edges, alive, w)
    <3>1. f[GoesOn(edges, alive, w)] \in V
      <4>1. GoesOn(edges, alive, w) \in W
        BY <1>2, <2>4
      <4>. HIDE DEF V, W
      <4>. QED  BY <2>1, <4>1
    <3>2. \A x \in V : join[w][x] = x
      OBVIOUS
    <3>. HIDE DEF base, stop, join, next, W, V
    <3>. QED  BY <2>1, <2>2, <2>4, <3>1, <3>2
  <2>. QED  BY <2>3, <2>4
<1>6. f \in [W -> V]
  BY <1>4 DEF Gathers
<1>7. Traces(edges, alive, f)
  <2>1. ASSUME NEW w \in W
        PROVE  f[w] = IF Reached(edges, w) = w.cycle[1] THEN Stopped("cycle", w.cycle, w)
                      ELSE IF WaysOn(edges, alive, w) = {} THEN Stopped("none", << >>, w)
                      ELSE IF TurnsBack(edges, alive, w) THEN Stopped("none", << >>, w)
                      ELSE IF Repeats(edges, w) THEN Stopped("endless", << >>, w)
                      ELSE f[GoesOn(edges, alive, w)]
    <3>. HIDE DEF W
    <3>. QED  BY <1>5 DEF Halts, StopsWith
  <2>2. f = [w \in W |-> f[w]]
    BY <1>6
  <2>. HIDE DEF V
  <2>. QED  BY <2>1, <2>2 DEF Traces
<1>. QED  BY <1>6, <1>7

(* Points of which each is joined to the next by a line of a free square    *)
Chain(points, free) ==
  /\ points \in Seq(Spots) /\ Len(points) >= 1
  /\ \A k \in 1..(Len(points) - 1) : Open(points[k], points[k + 1], free)
(* A chain whose last point is joined to the first                          *)
Loop(points, free) == Chain(points, free) /\ Open(points[Len(points)], points[1], free)

(* A line is as free one way as the other.                                  *)
LEMMA OpenBothWays ==
  ASSUME NEW p, NEW q, NEW free, Open(p, q, free) PROVE Open(q, p, free)
BY DEF Open

(* By induction over the walk: what it has visited is a chain, and when it  *)
(* comes back to its first point the chain is closed.                       *)
LEMMA TraceIsALoop ==
  ASSUME NEW free, NEW edges \in Seq(FreeLines(free)), NEW alive,
         NEW usedBefore \in SUBSET DOMAIN edges, NEW first \in DOMAIN edges
  PROVE  LET t == Trace(edges, alive, usedBefore, first)
         IN /\ t.used \in SUBSET DOMAIN edges
            /\ t.kind = "cycle" => Loop(t.points, free)
<1>. DEFINE W == Walks(edges)
            E == DOMAIN edges
            f == CHOOSE g : Traces(edges, alive, g)
            OkWalk(w) == /\ Chain(w.cycle, free)
                         /\ w.cycle[Len(w.cycle)] \in {edges[w.edge][1], edges[w.edge][2]}
            OkResult(t) == /\ t.used \in SUBSET E
                           /\ t.kind = "cycle" => Loop(t.points, free)
            ends == EndsOf(edges)
            Pairs == E \X ends
            start == StartOf(edges, usedBefore, first)
<1>1. Trace(edges, alive, usedBefore, first) = f[start]
  BY TraceUnfolds
<1>2. Traces(edges, alive, f)
  <2>1. edges \in Seq(Spots \X Spots)
    <3>1. FreeLines(free) \subseteq Spots \X Spots
      BY DEF FreeLines
    <3>. QED  BY <3>1
  <2>2. \E g : Traces(edges, alive, g)
    BY <2>1, TraceExists
  <2>. QED  BY <2>2
<1>3. ASSUME NEW e \in E
      PROVE  /\ edges[e] \in Spots \X Spots
             /\ edges[e][1] \in Spots /\ edges[e][2] \in Spots
             /\ Open(edges[e][1], edges[e][2], free)
  <2>1. edges[e] \in FreeLines(free)
    OBVIOUS
  <2>. QED  BY <2>1 DEF FreeLines
<1>4. PICK rank, top : Descends(edges, alive, rank, top)
  <2>1. edges \in Seq(Spots \X Spots)
    BY <1>3
  <2>. QED  BY <2>1, TraceDescends
<1>5. ASSUME NEW w \in W
      PROVE  f[w] = IF Halts(edges, alive, w) THEN StopsWith(edges, alive, w)
                    ELSE f[GoesOn(edges, alive, w)]
  <2>. HIDE DEF W, f
  <2>. QED  BY <1>2 DEF Traces, Halts, StopsWith, W
<1>. HIDE DEF f
<1>6. ASSUME NEW w \in W, OkWalk(w)
      PROVE  LET p == w.cycle[Len(w.cycle)]
                 q == Reached(edges, w)
             IN  /\ w.edge \in E /\ p \in Spots /\ q \in Spots /\ Open(p, q, free)
                 /\ q \in {edges[w.edge][1], edges[w.edge][2]}
  <2>. DEFINE p == w.cycle[Len(w.cycle)]
              q == Reached(edges, w)
              a == edges[w.edge][1]
              b == edges[w.edge][2]
  <2>1. w.edge \in E
    BY DEF Walks
  <2>2. a \in Spots /\ b \in Spots /\ Open(a, b, free) /\ Open(b, a, free)
    BY <1>3, <2>1, OpenBothWays
  <2>3. p \in {a, b}
    BY <1>6
  <2>4. q = IF a = p THEN b ELSE a
    BY DEF Reached, OtherEnd
  <2>. HIDE DEF a, b, p, q
  <2>5. p \in Spots /\ q \in Spots /\ Open(p, q, free) /\ q \in {a, b}
    BY <2>2, <2>3, <2>4
  <2>. QED  BY <2>1, <2>5 DEF a, b, p, q
<1>7. ASSUME NEW w \in W, OkWalk(w), Halts(edges, alive, w)
      PROVE  OkResult(StopsWith(edges, alive, w))
  <2>1. w.used \cup {w.edge} \in SUBSET E
    BY DEF Walks
  <2>2. StopsWith(edges, alive, w).used = w.used \cup {w.edge}
    BY DEF StopsWith, Stopped
  <2>3. CASE Reached(edges, w) = w.cycle[1]
    <3>1. StopsWith(edges, alive, w).points = w.cycle
      BY <2>3 DEF StopsWith, Stopped
    <3>2. Open(w.cycle[Len(w.cycle)], w.cycle[1], free)
      BY <1>6, <1>7, <2>3
    <3>. QED  BY <1>7, <2>1, <2>2, <3>1, <3>2 DEF Loop
  <2>4. CASE Reached(edges, w) # w.cycle[1]
    <3>1. StopsWith(edges, alive, w).kind # "cycle"
      BY <2>4 DEF StopsWith, Stopped
    <3>. QED  BY <2>1, <2>2, <3>1
  <2>. QED  BY <2>3, <2>4
<1>8. ASSUME NEW w \in W, OkWalk(w), ~ Halts(edges, alive, w)
      PROVE  OkWalk(GoesOn(edges, alive, w)) /\ GoesOn(edges, alive, w) \in W
  <2>. DEFINE v == GoesOn(edges, alive, w)
              q == Reached(edges, w)
  <2>1. v \in W
    BY <1>4, <1>8 DEF Descends
  <2>2. v.cycle = Append(w.cycle, q) /\ v.edge = WayOn(edges, alive, w)
    BY DEF GoesOn
  <2>3. q \in Spots /\ Open(w.cycle[Len(w.cycle)], q, free)
    BY <1>6, <1>8
  <2>4. Chain(v.cycle, free) /\ v.cycle[Len(v.cycle)] = q
    <3>. DEFINE s == w.cycle
    <3>1. s \in Seq(Spots) /\ Len(s) \in Nat /\ Len(s) >= 1
          /\ \A k \in 1..(Len(s) - 1) : Open(s[k], s[k + 1], free)
      BY <1>8 DEF Chain
    <3>. DEFINE t == Append(s, q)
    <3>. HIDE DEF s, q
    <3>2. /\ t \in Seq(Spots) /\ Len(t) = Len(s) + 1 /\ t[Len(s) + 1] = q
          /\ \A k \in 1..Len(s) : t[k] = s[k]
      BY <2>3, <3>1 DEF s, q
    <3>. HIDE DEF t
    <3>3. ASSUME NEW k \in 1..(Len(t) - 1) PROVE Open(t[k], t[k + 1], free)
      <4>1. CASE k = Len(s)
        <5>1. t[k] = s[Len(s)] /\ t[k + 1] = q
          BY <3>1, <3>2, <4>1
        <5>. QED  BY <2>3, <5>1 DEF s, q
      <4>2. CASE k # Len(s)
        <5>1. k \in 1..(Len(s) - 1) /\ k \in 1..Len(s) /\ k + 1 \in 1..Len(s)
          BY <3>1, <3>2, <4>2
        <5>. QED  BY <3>1, <3>2, <5>1
      <4>. QED  BY <4>1, <4>2
    <3>4. Chain(t, free) /\ t[Len(t)] = q
      BY <3>1, <3>2, <3>3 DEF Chain
    <3>. QED  BY <2>2, <3>4 DEF t, s, q
  <2>5. q \in {edges[v.edge][1], edges[v.edge][2]}
    <3>1. WaysOn(edges, alive, w) # {}
      BY <1>8 DEF Halts
    <3>2. WayOn(edges, alive, w) \in WaysOn(edges, alive, w)
      <4>1. edges \in Seq(Spots \X Spots)
        BY <1>3
      <4>. QED  BY <3>1, <4>1, WayOnIsOne
    <3>3. WayOn(edges, alive, w) \in Incident(edges, q)
      BY <3>2 DEF WaysOn
    <3>. QED  BY <2>2, <3>3 DEF Incident
  <2>. QED  BY <2>1, <2>4, <2>5
<1>9. start \in W /\ OkWalk(start)
  <2>. DEFINE p == edges[first][1]
  <2>1. p \in Spots /\ p \in EndsOf(edges)
    <3>1. edges[first] \in Spots \X Spots /\ p \in Spots
      BY <1>3
    <3>2. p \in ToSet(edges[first]) /\ edges[first] \in ToSet(edges)
      BY <3>1 DEF ToSet
    <3>. QED  BY <3>1, <3>2 DEF EndsOf
  <2>. HIDE DEF p
  <2>2. /\ start.used = usedBefore /\ start.walked = {} /\ start.cycle = <<p>>
        /\ start.edge = first
    BY DEF StartOf, p
  <2>3. start \in W
    BY <2>1 DEF StartOf, Walks, p, EndsOf
  <2>4. Chain(<<p>>, free) /\ <<p>>[Len(<<p>>)] = p
    BY <2>1 DEF Chain
  <2>. QED  BY <2>2, <2>3, <2>4 DEF p
<1>. DEFINE good == {w \in W : OkWalk(w) => OkResult(f[w])}
<1>10. ASSUME NEW w \in W, \A v \in W : rank[v] < rank[w] => v \in good
       PROVE  w \in good
  <2>1. CASE OkWalk(w) /\ Halts(edges, alive, w)
    <3>. HIDE DEF OkWalk, OkResult, W
    <3>. QED  BY <1>5, <1>7, <2>1
  <2>2. CASE OkWalk(w) /\ ~ Halts(edges, alive, w)
    <3>. DEFINE v == GoesOn(edges, alive, w)
    <3>1. v \in W /\ OkWalk(v) /\ rank[v] < rank[w]
      BY <1>4, <1>8, <2>2 DEF Descends
    <3>2. f[w] = f[v]
      BY <1>5, <2>2
    <3>. HIDE DEF OkWalk, OkResult, W, v
    <3>. QED  BY <1>10, <3>1, <3>2
  <2>. QED  BY <2>1, <2>2
<1>11. W \subseteq good
  <2>1. rank \in [W -> Nat]
    BY <1>4 DEF Descends
  <2>. HIDE DEF W, good
  <2>. QED  BY <1>10, <2>1, RankInduction
<1>12. OkResult(f[start])
  <2>. HIDE DEF OkWalk, OkResult, W, start
  <2>. QED  BY <1>9, <1>11
<1>. QED  BY <1>1, <1>12

(* What extract_cycles does with one edge                                   *)
Taken(edges, alive, acc, i) ==
  IF i \notin alive \/ i \in acc.used THEN acc
  ELSE [used |-> Trace(edges, alive, acc.used, i).used,
        endless |-> acc.endless \/ Trace(edges, alive, acc.used, i).kind = "endless",
        cycles |-> IF /\ Trace(edges, alive, acc.used, i).kind = "cycle"
                      /\ Len(Trace(edges, alive, acc.used, i).points) >= 3
                   THEN acc.cycles \cup {Trace(edges, alive, acc.used, i).points}
                   ELSE acc.cycles]

(* Every cycle extracted is closed and has three points or more.            *)
LEMMA CyclesAreLoops ==
  ASSUME NEW free, NEW edges \in Seq(FreeLines(free))
  PROVE  \A points \in ExtractCycles(edges).cycles : Loop(points, free) /\ Len(points) >= 3
<1>. DEFINE S == DOMAIN [i \in DOMAIN edges |-> i]
            loops == {p \in Seq(Spots) : Loop(p, free) /\ Len(p) >= 3}
            V == [used : SUBSET S, endless : BOOLEAN, cycles : SUBSET loops]
            alive == PruneOpenChains(edges)
            base == [used |-> {}, endless |-> FALSE, cycles |-> {}]
            With(acc, i) == Taken(edges, alive, acc, i)
            Folds(f) == f = [s \in SUBSET S |->
                               IF s = {} THEN base
                               ELSE With(f[s \ {Max(s)}], [i \in DOMAIN edges |-> i][Max(s)])]
            extracted == CHOOSE f : Folds(f)
            step == [i \in S |-> [v \in V |-> With(v, [j \in DOMAIN edges |-> j][i])]]
<1>1. ExtractCycles(edges) = extracted[S]
  BY DEF ExtractCycles, FoldLeft, MapThenFoldSet, Taken
<1>2. S = DOMAIN edges /\ \A i \in S : [j \in DOMAIN edges |-> j][i] = i
  OBVIOUS
<1>3. S \subseteq Int /\ IsFiniteSet(S)
  <2>1. Len(edges) \in Nat /\ DOMAIN edges = 1..Len(edges)
    OBVIOUS
  <2>. HIDE DEF S
  <2>. QED  BY <1>2, <2>1, FS_Interval
<1>. HIDE DEF S, alive
<1>4. ASSUME NEW acc \in V, NEW i \in S PROVE With(acc, i) \in V
  <2>1. CASE i \notin alive \/ i \in acc.used
    BY <2>1 DEF Taken
  <2>2. CASE ~ (i \notin alive \/ i \in acc.used)
    <3>. DEFINE t == Trace(edges, alive, acc.used, i)
                r == With(acc, i)
                cycles == IF t.kind = "cycle" /\ Len(t.points) >= 3
                          THEN acc.cycles \cup {t.points} ELSE acc.cycles
    <3>1. acc.used \in SUBSET DOMAIN edges /\ i \in DOMAIN edges /\ acc.cycles \in SUBSET loops
      BY <1>2
    <3>2. t.used \in SUBSET DOMAIN edges /\ (t.kind = "cycle" => Loop(t.points, free))
      BY <3>1, TraceIsALoop
    <3>3. t.used \in SUBSET S
      BY <1>2, <3>2
    <3>4. r = [used |-> t.used, endless |-> acc.endless \/ t.kind = "endless", cycles |-> cycles]
      BY <2>2 DEF Taken
    <3>. HIDE DEF t
    <3>5. cycles \in SUBSET loops
      <4>1. CASE t.kind = "cycle" /\ Len(t.points) >= 3
        <5>1. t.points \in loops
          BY <3>2, <4>1 DEF Loop, Chain
        <5>. HIDE DEF loops
        <5>. QED  BY <3>1, <4>1, <5>1
      <4>2. CASE ~ (t.kind = "cycle" /\ Len(t.points) >= 3)
        <5>. HIDE DEF loops
        <5>. QED  BY <3>1, <4>2
      <4>. QED  BY <4>1, <4>2
    <3>6. (acc.endless \/ t.kind = "endless") \in BOOLEAN
      OBVIOUS
    <3>. DEFINE endless == acc.endless \/ t.kind = "endless"
    <3>. HIDE DEF cycles, loops, endless
    <3>7. [used |-> t.used, endless |-> endless, cycles |-> cycles] \in V
      BY <3>3, <3>5, <3>6 DEF endless
    <3>. QED  BY <3>4, <3>7 DEF endless
  <2>. QED  BY <2>1, <2>2
<1>5. base \in V
  OBVIOUS
<1>. HIDE DEF V, With, base
<1>6. \E f : Folds(f)
  <2>1. \A i \in S : step[i] \in [V -> V]
    <3>1. ASSUME NEW i \in S, NEW v \in V PROVE With(v, [j \in DOMAIN edges |-> j][i]) \in V
      <4>1. [j \in DOMAIN edges |-> j][i] = i
        BY <1>2
      <4>. QED  BY <1>4, <4>1
    <3>. QED  BY <3>1
  <2>. HIDE DEF step
  <2>2. PICK f : Folding(S, V, base, step, f)
    BY <1>3, <1>5, <2>1, FoldingExists
  <2>. USE DEF step, Folding
  <2>3. ASSUME NEW s \in SUBSET S
        PROVE  f[s] = IF s = {} THEN base
                      ELSE With(f[s \ {Max(s)}], [i \in DOMAIN edges |-> i][Max(s)])
    <3>1. CASE s = {}
      BY <2>2, <3>1
    <3>2. CASE s # {}
      <4>1. IsFiniteSet(s) /\ s \subseteq Int
        BY <1>3, FS_Subset
      <4>2. Max(s) \in S
        BY <3>2, <4>1, ExtremesAreThere
      <4>3. f[s \ {Max(s)}] \in V
        BY <2>2
      <4>4. step[Max(s)][f[s \ {Max(s)}]] =
              With(f[s \ {Max(s)}], [i \in DOMAIN edges |-> i][Max(s)])
        BY <4>2, <4>3
      <4>. HIDE DEF step
      <4>. QED  BY <2>2, <3>2, <4>4
    <3>. QED  BY <3>1, <3>2
  <2>4. f = [s \in SUBSET S |-> f[s]]
    BY <2>2
  <2>. QED  BY <2>3, <2>4
<1>7. Folds(extracted)
  BY <1>6
<1>. HIDE DEF extracted
<1>8. extracted[{}] \in V
  BY <1>5, <1>7
<1>9. ASSUME NEW s \in SUBSET S, s # {}, extracted[s \ {Max(s)}] \in V
      PROVE  extracted[s] \in V
  <2>1. IsFiniteSet(s) /\ s \subseteq Int
    BY <1>3, FS_Subset
  <2>2. Max(s) \in S
    BY <1>9, <2>1, ExtremesAreThere
  <2>3. [i \in DOMAIN edges |-> i][Max(s)] = Max(s)
    BY <1>2, <2>2
  <2>4. extracted[s] = With(extracted[s \ {Max(s)}], Max(s))
    BY <1>7, <1>9, <2>3
  <2>. QED  BY <1>4, <1>9, <2>2, <2>4
<1>10. extracted[S] \in V
  BY <1>3, <1>8, <1>9, FoldingStays
<1>11. ExtractCycles(edges).cycles \in SUBSET loops
  BY <1>1, <1>10 DEF V
<1>. QED  BY <1>11

-----------------------------------------------------------------------------
(* The contour of the solver                                                *)

(* The contour is one of those cycles, in the mask it was marched through.  *)
ContourInv == stage = "reference" => Loop(contour, mask) /\ Len(contour) >= 3

LEMMA StepContourInv == ContourInv /\ [SolverNext]_solverVars => ContourInv'
<1>. SUFFICES ASSUME ContourInv, [SolverNext]_solverVars PROVE ContourInv'
  OBVIOUS
<1>1. ASSUME NEW error, Fail(error) PROVE stage' = "done"
  BY <1>1 DEF Fail
<1>2. ASSUME stage' # "reference" PROVE ContourInv'
  BY <1>2 DEF ContourInv
<1>3. CASE Binarize \/ ChooseMarkers \/ MeasureRows \/ MeasureColumns
  <2>1. stage' # "reference"
    BY <1>1, <1>3 DEF Binarize, ChooseMarkers, MeasureRows, MeasureColumns
  <2>. QED  BY <1>2, <2>1
<1>4. ASSUME NEW saddle \in {"a", "b", "tie"}, March(saddle) PROVE ContourInv'
  <2>. DEFINE segments == Segments(mask, Phi, saddle)
              stitched == ExtractCycles(segments)
  <2>1. \/ \E error : Fail(error)
        \/ stage' = "endless"
        \/ mask' = mask /\ \E points \in stitched.cycles : contour' = points
    BY <1>4, Zenon DEF March
  <2>2. \A points \in stitched.cycles : Loop(points, mask) /\ Len(points) >= 3
    BY SegmentsAreFree, CyclesAreLoops
  <2>. HIDE DEF stitched
  <2>3. CASE stage' # "reference"
    BY <1>2, <2>3
  <2>4. CASE stage' = "reference"
    <3>1. mask' = mask /\ Loop(contour', mask) /\ Len(contour') >= 3
      BY <1>1, <2>1, <2>2, <2>4
    <3>2. Loop(contour', mask')
      BY <3>1
    <3>. QED  BY <3>1, <3>2 DEF ContourInv
  <2>. QED  BY <2>3, <2>4
<1>5. CASE Reference \/ Linearize \/ FallBack
  <2>1. stage' # "reference"
    BY <1>1, <1>5 DEF Reference, Linearize, FallBack, Optimized, Degenerate
  <2>. QED  BY <1>2, <2>1
<1>6. CASE BeginProfile \/ ProfilePass \/ Deliver \/ SolveBoundaries
  <2>1. stage' # "reference"
    BY <1>1, <1>6 DEF BeginProfile, ProfilePass, Deliver, SolveBoundaries, Finish
  <2>. QED  BY <1>2, <2>1
<1>7. CASE UNCHANGED solverVars
  BY <1>7 DEF solverVars, gridVars, ContourInv
<1>. QED  BY <1>3, <1>4, <1>5, <1>6, <1>7 DEF SolverNext

(* A point and the one after it, round the end                              *)
LEMMA NextPointIs ==
  ASSUME Loop(contour, mask), NEW k \in DOMAIN contour
  PROVE  Open(contour[k], NextPoint(k), mask)
<1>. DEFINE n == Len(contour)
<1>1. n \in Nat /\ n > 0 /\ DOMAIN contour = 1..n /\ k \in 1..n /\ k \in 0..n
  BY DEF Loop, Chain
<1>. HIDE DEF n
<1>2. k % n = IF k = n THEN 0 ELSE k
  BY <1>1, Remainder
<1>3. NextPoint(k) = contour[(k % n) + 1]
  BY DEF NextPoint, n
<1>4. CASE k = n
  BY <1>2, <1>3, <1>4 DEF Loop, n
<1>5. CASE k # n
  <2>1. k \in 1..(n - 1) /\ NextPoint(k) = contour[k + 1]
    BY <1>1, <1>2, <1>3, <1>5
  <2>. QED  BY <2>1 DEF Loop, Chain, n
<1>. QED  BY <1>4, <1>5

(* On every grid, for every choice at a saddle: the contour handed to the   *)
(* reference step is closed, has three points or more, and each of its      *)
(* lines, the closing one too, lies in one square of four free cells, so it *)
(* never touches a wall.                                                    *)
THEOREM ContourStaysOnTheTrack == SolverSpec => []ContourIsFree
<1>1. SolverInit => ContourInv
  BY DEF SolverInit, ContourInv
<1>2. ContourInv => ContourIsFree
  <2>. SUFFICES ASSUME Loop(contour, mask), Len(contour) >= 3, NEW k \in DOMAIN contour
                PROVE  \E c \in Cells :
                         /\ ToSet(Corners(c)) \subseteq mask
                         /\ CellsAt(contour[k]) \cup CellsAt(NextPoint(k))
                              \subseteq ToSet(Corners(c))
    BY DEF ContourInv, ContourIsFree
  <2>1. PICK c \in Squares(mask) : InSquare(contour[k], c) /\ InSquare(NextPoint(k), c)
    BY NextPointIs DEF Open
  <2>. QED  BY <2>1 DEF InSquare, Squares
<1>. QED  BY <1>1, <1>2, StepContourInv, PTL DEF SolverSpec
=============================================================================
