------------------------ MODULE MappingWorker_proofs ------------------------
(***************************************************************************)
(* Proofs, for every capacity of the queue and every number of scans, that *)
(* the mapping worker loses no scan unaccounted for, publishes its status  *)
(* ahead of its map and implements MapFeed.                                *)
(***************************************************************************)
EXTENDS MappingWorker, FiniteSetTheorems, FunctionTheorems, TLAPS

(* What the counting lemmas are about.                                      *)
Positions(q) == {i \in 1 .. Len(q) : q[i] = "Integrate"}

(* A queue holds finitely many scans.                                       *)
LEMMA PositionsFinite ==
  ASSUME NEW q \in Seq(Items)
  PROVE  IsFiniteSet(Positions(q)) /\ Cardinality(Positions(q)) \in Nat
<1>1. Len(q) \in Nat
  OBVIOUS
<1>2. IsFiniteSet(1 .. Len(q))
  BY <1>1, FS_Interval
<1>3. Positions(q) \in SUBSET (1 .. Len(q))
  BY DEF Positions
<1>4. IsFiniteSet(Positions(q))
  BY <1>2, <1>3, FS_Subset
<1>5. QED
  BY <1>4, FS_CardinalityType

(* Sending a scan adds one, sending anything else adds none.                *)
LEMMA ScansAppend ==
  ASSUME NEW q \in Seq(Items), NEW item \in Items
  PROVE  ScansIn(Append(q, item)) =
           ScansIn(q) + IF item = "Integrate" THEN 1 ELSE 0
<1> DEFINE last == Len(q) + 1
<1>1. Positions(Append(q, item)) =
        IF item = "Integrate" THEN Positions(q) \cup {last} ELSE Positions(q)
  <2>1. /\ Append(q, item) \in Seq(Items) /\ Len(Append(q, item)) = last
        /\ Append(q, item)[last] = item
        /\ \A i \in 1 .. Len(q) : Append(q, item)[i] = q[i]
    OBVIOUS
  <2>2. Len(q) \in Nat
    OBVIOUS
  <2>3. 1 .. last = (1 .. Len(q)) \cup {last}
    BY <2>2
  <2> HIDE DEF last
  <2>4. QED
    BY <2>1, <2>3 DEF Positions
<1>2. last \notin Positions(q)
  BY DEF Positions
<1>3. IsFiniteSet(Positions(q)) /\ Cardinality(Positions(q)) \in Nat
  BY PositionsFinite
<1>4. Cardinality(Positions(q) \cup {last}) = Cardinality(Positions(q)) + 1
  BY <1>2, <1>3, FS_AddElement
<1>5. /\ ScansIn(q) = Cardinality(Positions(q))
      /\ ScansIn(Append(q, item)) = Cardinality(Positions(Append(q, item)))
  BY DEF ScansIn, Positions
<1> HIDE DEF last
<1>6. CASE item = "Integrate"
  BY <1>1, <1>3, <1>4, <1>5, <1>6
<1>7. CASE item # "Integrate"
  BY <1>1, <1>3, <1>5, <1>7
<1>8. QED
  BY <1>6, <1>7

(* Receiving a scan takes one away, receiving anything else none.           *)
LEMMA ScansTail ==
  ASSUME NEW q \in Seq(Items), q # <<>>
  PROVE  ScansIn(q) = ScansIn(Tail(q)) + IF Head(q) = "Integrate" THEN 1 ELSE 0
<1> DEFINE rest == Positions(Tail(q))
           behind == {i \in Positions(q) : i # 1}
           shift == [i \in rest |-> i + 1]
<1>1. /\ Len(q) \in Nat \ {0} /\ Tail(q) \in Seq(Items) /\ Len(Tail(q)) = Len(q) - 1
      /\ \A i \in 1 .. (Len(q) - 1) : Tail(q)[i] = q[i + 1]
      /\ Head(q) = q[1]
  OBVIOUS
<1>2. IsFiniteSet(rest) /\ Cardinality(rest) \in Nat
  BY <1>1, PositionsFinite
<1>3. ExistsBijection(rest, behind)
  <2>1. rest \subseteq 1 .. (Len(q) - 1)
    BY <1>1 DEF Positions
  <2>2. \A i \in rest : i + 1 \in behind
    BY <1>1 DEF Positions
  <2>3. shift \in [rest -> behind]
    BY <2>2
  <2>4. \A i, j \in rest : shift[i] = shift[j] => i = j
    BY <2>1
  <2>5. \A k \in behind : \E i \in rest : shift[i] = k
    <3> SUFFICES ASSUME NEW k \in behind PROVE \E i \in rest : shift[i] = k
      OBVIOUS
    <3>1. k \in 2 .. Len(q) /\ q[k] = "Integrate"
      BY <1>1 DEF Positions
    <3>2. k - 1 \in 1 .. (Len(q) - 1) /\ Tail(q)[k - 1] = q[k]
      BY <3>1, <1>1
    <3>3. k - 1 \in rest
      BY <3>1, <3>2, <1>1 DEF Positions
    <3>4. shift[k - 1] = k
      BY <3>1, <3>3
    <3>5. QED
      BY <3>3, <3>4
  <2>6. shift \in Bijection(rest, behind)
    BY <2>3, <2>4, <2>5 DEF Bijection, Injection, Surjection, IsInjective
  <2>7. QED
    BY <2>6 DEF ExistsBijection
<1>4. IsFiniteSet(behind) /\ Cardinality(behind) = Cardinality(rest)
  BY <1>2, <1>3, FS_Bijection
<1>5. Positions(q) = IF Head(q) = "Integrate" THEN behind \cup {1} ELSE behind
  BY <1>1 DEF Positions
<1>6. Cardinality(behind \cup {1}) = Cardinality(behind) + 1
  BY <1>4, FS_AddElement
<1>7. ScansIn(q) = Cardinality(Positions(q)) /\ ScansIn(Tail(q)) = Cardinality(rest)
  BY DEF ScansIn, Positions
<1> HIDE DEF rest, behind, shift
<1>8. CASE Head(q) = "Integrate"
  BY <1>2, <1>4, <1>5, <1>6, <1>7, <1>8
<1>9. CASE Head(q) # "Integrate"
  BY <1>2, <1>4, <1>5, <1>7, <1>9
<1>10. QED
  BY <1>8, <1>9

-----------------------------------------------------------------------------
(* The revision a reader finds, 0 before the first map.                     *)
Shown == IF map = NoMap THEN 0 ELSE map.revision

(* How far mapper, status and map are apart at each point of the loop.      *)
PublicationInv ==
  /\ mapper.revision <= mapper.scans
  /\ map # NoMap => map.revision \in Nat
  /\ Shown <= mapper.revision /\ mapper.revision <= Shown + 1
  /\ status.revision = IF thread = "publish_status" THEN Shown
                                                    ELSE mapper.revision
  /\ thread \in {"recv", "exited"} => Shown = mapper.revision

(* A complete map is owed to a lap mark.                                    *)
LapInv ==
  /\ map.complete => mapper.complete
  /\ mapper.complete => marked
  /\ (\E i \in 1 .. Len(queue) : queue[i] = "LapComplete") => marked

OfferedInv == offered <= MaxScans

IInv == TypeOK /\ EveryScanAccounted /\ PublicationInv /\ LapInv /\ OfferedInv

(* The initial state satisfies the inductive invariant.                     *)
LEMMA InitIInv == Init => IInv
<1> SUFFICES ASSUME Init PROVE IInv
  OBVIOUS
<1> USE CapacityAssumption, ScansAssumption DEF Init
<1>1. TypeOK
  <2>1. queue \in Seq(Items) /\ Len(queue) <= Capacity
    <3>1. queue \in Seq(Items) /\ Len(queue) = 0
      OBVIOUS
    <3>2. QED
      BY <3>1
  <2>2. mapper \in Mapper /\ status \in Status /\ map \in Maps
    BY DEF Mapper, Status, Maps, NoMap, None
  <2>3. thread \in ThreadStates /\ caller \in CallerStates
    BY DEF ThreadStates, CallerStates
  <2>4. sender \in BOOLEAN /\ marked \in BOOLEAN
        /\ offered \in Nat /\ refused \in Nat
    OBVIOUS
  <2> HIDE DEF Init
  <2>5. QED
    BY <2>1, <2>2, <2>3, <2>4 DEF TypeOK
<1>2. EveryScanAccounted
  <2>1. {i \in 1 .. Len(queue) : queue[i] = "Integrate"} = {}
    OBVIOUS
  <2>2. ScansIn(queue) = 0
    BY <2>1, FS_EmptySet DEF ScansIn
  <2>3. QED
    BY <2>2 DEF EveryScanAccounted
<1>3. PublicationInv /\ LapInv /\ OfferedInv
  BY DEF PublicationInv, LapInv, OfferedInv, Shown, NoMap
<1>4. QED
  BY <1>1, <1>2, <1>3 DEF IInv

(* Counting a drop keeps the status typed.                                   *)
LEMMA CountKeepsStatus ==
  ASSUME NEW s \in Status PROVE [s EXCEPT !.dropped = @ + 1] \in Status
  BY DEF Status

(* Each conjunct is preserved by every step; the counting lemmas carry the  *)
(* steps that change the queue.                                             *)
LEMMA StepType == TypeOK /\ [Next]_vars => TypeOK'
<1> SUFFICES ASSUME TypeOK, [Next]_vars PROVE TypeOK'
  OBVIOUS
<1> USE CapacityAssumption, ScansAssumption
    DEF TypeOK, ThreadStates, CallerStates, Mapper, Status, Maps, NoMap, None,
        history
<1>1. ASSUME NEW item \in Items, TrySend(item)
      PROVE  queue' \in Seq(Items) /\ Len(queue') <= Capacity
  <2>1. CASE HasRoom(queue)
    <3>1. queue' = Append(queue, item)
      BY <1>1, <2>1 DEF TrySend
    <3>2. queue' \in Seq(Items) /\ Len(queue') = Len(queue) + 1
      BY <3>1
    <3>3. QED
      BY <2>1, <3>2 DEF HasRoom
  <2>2. CASE ~HasRoom(queue)
    BY <1>1, <2>2 DEF TrySend
  <2>3. QED
    BY <2>1, <2>2
<1>2. ASSUME queue # <<>>, queue' = Tail(queue)
      PROVE  queue' \in Seq(Items) /\ Len(queue') <= Capacity
  BY <1>2
<1>3. CASE Submit
  BY <1>1, <1>3 DEF Submit, Items
<1>4. CASE CountDrop
  <2> HIDE DEF Status
  <2>1. status' \in Status
    BY <1>4, CountKeepsStatus DEF CountDrop
  <2>2. QED
    BY <1>4, <2>1 DEF CountDrop
<1>5. CASE MarkLapComplete
  BY <1>1, <1>5 DEF MarkLapComplete, Items
<1>6. CASE BeginShutdown
  BY <1>1, <1>6 DEF BeginShutdown, Items
<1>7. CASE Join
  BY <1>7 DEF Join
<1>8. CASE RecvScan
  <2>1. PICK occupied, closes \in BOOLEAN : mapper' = Integrate(occupied, closes)
    BY <1>8 DEF RecvScan
  <2> DEFINE rev == IF occupied THEN mapper.revision + 1 ELSE mapper.revision
  <2>2. rev \in Nat /\ mapper.scans + 1 \in Nat
    OBVIOUS
  <2>3. mapper' = [mapper EXCEPT !.scans = mapper.scans + 1,
                                 !.revision = rev, !.closure = closes]
    BY <2>1 DEF Integrate
  <2> HIDE DEF rev
  <2>4. mapper' \in Mapper
    BY <2>2, <2>3
  <2>5. QED
    BY <1>2, <1>8, <2>4 DEF RecvScan
<1>9. CASE RecvLapComplete
  BY <1>2, <1>9 DEF RecvLapComplete
<1>10. CASE Exit
  BY <1>2, <1>10 DEF Exit
<1>11. CASE PublishStatus
  BY <1>11 DEF PublishStatus
<1>12. CASE PublishMap
  BY <1>12 DEF PublishMap
<1>13. CASE UNCHANGED vars
  BY <1>13 DEF vars
<1>14. QED
  BY <1>3, <1>4, <1>5, <1>6, <1>7, <1>8, <1>9, <1>10, <1>11, <1>12, <1>13
  DEF Next

(* Sending an item adds a scan only when a scan is sent and there is room.  *)
LEMMA SendCounts ==
  ASSUME queue \in Seq(Items), ScansIn(queue) \in Nat, NEW item \in Items,
         TrySend(item)
  PROVE  /\ HasRoom(queue) /\ item = "Integrate"
              => ScansIn(queue') = ScansIn(queue) + 1
         /\ ~(HasRoom(queue) /\ item = "Integrate")
              => ScansIn(queue') = ScansIn(queue)
<1>1. CASE HasRoom(queue)
  <2>1. queue' = Append(queue, item)
    BY <1>1 DEF TrySend
  <2>2. ScansIn(queue') = ScansIn(Append(queue, item))
    BY <2>1, Zenon
  <2>3. ScansIn(Append(queue, item)) =
          ScansIn(queue) + IF item = "Integrate" THEN 1 ELSE 0
    BY ScansAppend, Zenon
  <2>4. QED
    BY <1>1, <2>2, <2>3
<1>2. CASE ~HasRoom(queue)
  <2>1. queue' = queue
    BY <1>2 DEF TrySend
  <2>2. ScansIn(queue') = ScansIn(queue)
    BY <2>1, Zenon
  <2>3. QED
    BY <1>2, <2>2
<1>3. QED
  BY <1>1, <1>2

(* Taking the first item removes a scan exactly when that item is a scan.   *)
LEMMA TakeCounts ==
  ASSUME queue \in Seq(Items), queue # <<>>, queue' = Tail(queue)
  PROVE  /\ ScansIn(queue') \in Nat
         /\ Head(queue) = "Integrate" => ScansIn(queue) = ScansIn(queue') + 1
         /\ Head(queue) # "Integrate" => ScansIn(queue') = ScansIn(queue)
<1>1. Tail(queue) \in Seq(Items)
  OBVIOUS
<1>2. ScansIn(Tail(queue)) \in Nat
  BY <1>1, PositionsFinite DEF ScansIn, Positions
<1>3. ScansIn(queue') = ScansIn(Tail(queue))
  BY Zenon
<1>4. ScansIn(queue) =
        ScansIn(Tail(queue)) + IF Head(queue) = "Integrate" THEN 1 ELSE 0
  BY ScansTail, Zenon
<1>5. QED
  BY <1>2, <1>3, <1>4

(* A scan moves from the queue into the map, or into the drop counter.      *)
LEMMA StepAccounted ==
  TypeOK /\ EveryScanAccounted /\ [Next]_vars => EveryScanAccounted'
<1> SUFFICES ASSUME TypeOK, EveryScanAccounted, [Next]_vars
             PROVE  EveryScanAccounted'
  OBVIOUS
<1>q. queue \in Seq(Items) /\ ScansIn(queue) \in Nat
  BY PositionsFinite DEF TypeOK, ScansIn, Positions
<1>1. \A item \in Items : TrySend(item) =>
        /\ HasRoom(queue) /\ item = "Integrate"
             => ScansIn(queue') = ScansIn(queue) + 1
        /\ ~(HasRoom(queue) /\ item = "Integrate")
             => ScansIn(queue') = ScansIn(queue)
  BY <1>q, SendCounts, Zenon
<1>2. queue # <<>> /\ queue' = Tail(queue) =>
        /\ ScansIn(queue') \in Nat
        /\ Head(queue) = "Integrate" => ScansIn(queue) = ScansIn(queue') + 1
        /\ Head(queue) # "Integrate" => ScansIn(queue') = ScansIn(queue)
  BY <1>q, TakeCounts, Zenon
<1>s. TrySend("Integrate") =>
        /\ HasRoom(queue) => ScansIn(queue') = ScansIn(queue) + 1
        /\ ~HasRoom(queue) => ScansIn(queue') = ScansIn(queue)
  <2>1. "Integrate" \in Items
    BY DEF Items
  <2>2. QED
    BY <1>1, <2>1, Zenon
<1> USE DEF EveryScanAccounted, Mapper, Status, history
<1>t. /\ queue \in Seq(Items) /\ ScansIn(queue) \in Nat
      /\ offered \in Nat /\ refused \in Nat
      /\ mapper \in Mapper /\ status \in Status
  BY <1>q DEF TypeOK
<1>3. CASE Submit
  <2>1. TrySend("Integrate")
    BY <1>3 DEF Submit
  <2>2. CASE HasRoom(queue)
    <3>1. ScansIn(queue') = ScansIn(queue) + 1
      BY <1>s, <2>1, <2>2
    <3>2. offered' = offered + 1 /\ UNCHANGED <<refused, mapper, status, caller>>
      BY <1>3, <2>2 DEF Submit
    <3>3. QED
      BY <1>t, <3>1, <3>2
  <2>3. CASE ~HasRoom(queue)
    <3>1. ScansIn(queue') = ScansIn(queue)
      BY <1>s, <2>1, <2>3
    <3>2. /\ offered' = offered + 1 /\ refused' = refused + 1
          /\ caller = "idle" /\ caller' = "counting"
          /\ UNCHANGED <<mapper, status>>
      BY <1>3, <2>3 DEF Submit
    <3>3. QED
      BY <1>t, <3>1, <3>2
  <2>4. QED
    BY <2>2, <2>3
<1>4. CASE CountDrop
  <2>1. /\ caller = "counting" /\ caller' = "idle"
        /\ UNCHANGED <<queue, offered, refused, mapper>>
    BY <1>4 DEF CountDrop
  <2>2. status'.dropped = status.dropped + 1
    BY <1>4, <1>t DEF CountDrop
  <2>3. QED
    BY <1>t, <2>1, <2>2
<1>5. CASE MarkLapComplete
  <2>1. ScansIn(queue') = ScansIn(queue)
    BY <1>1, <1>5, <1>t DEF MarkLapComplete, Items
  <2>2. QED
    BY <1>5, <2>1 DEF MarkLapComplete
<1>6. CASE BeginShutdown
  <2>1. ScansIn(queue') = ScansIn(queue)
    BY <1>1, <1>6, <1>t DEF BeginShutdown, Items
  <2>2. QED
    BY <1>6, <2>1 DEF BeginShutdown
<1>7. CASE Join
  BY <1>7 DEF Join
<1>8. CASE RecvScan
  <2>1. ScansIn(queue') \in Nat /\ ScansIn(queue) = ScansIn(queue') + 1
    BY <1>2, <1>8 DEF RecvScan
  <2>2. mapper'.scans = mapper.scans + 1
    BY <1>8, <1>t DEF RecvScan, Integrate
  <2>3. UNCHANGED <<offered, refused, status, caller>>
    BY <1>8 DEF RecvScan
  <2>4. QED
    BY <1>t, <2>1, <2>2, <2>3
<1>9. CASE RecvLapComplete
  <2>1. ScansIn(queue') = ScansIn(queue)
    BY <1>2, <1>9, <1>t DEF RecvLapComplete
  <2>2. QED
    BY <1>9, <1>t, <2>1 DEF RecvLapComplete
<1>10. CASE Exit
  <2>1. CASE queue # <<>> /\ Head(queue) = "Shutdown" /\ queue' = Tail(queue)
    <3>1. Head(queue) # "Integrate"
      BY <2>1
    <3>2. ScansIn(queue') = ScansIn(queue)
      BY <1>2, <2>1, <3>1
    <3>3. QED
      BY <1>10, <3>2 DEF Exit
  <2>2. CASE queue' = queue
    BY <1>10, <2>2 DEF Exit
  <2>3. QED
    BY <1>10, <2>1, <2>2 DEF Exit
<1>11. CASE PublishStatus
  BY <1>11, <1>t DEF PublishStatus
<1>12. CASE PublishMap
  BY <1>12 DEF PublishMap
<1>13. CASE UNCHANGED vars
  BY <1>13 DEF vars
<1>14. QED
  BY <1>3, <1>4, <1>5, <1>6, <1>7, <1>8, <1>9, <1>10, <1>11, <1>12, <1>13
  DEF Next

(* The loop publishes the status first and the map second.                  *)
LEMMA StepPublication ==
  TypeOK /\ PublicationInv /\ [Next]_vars => PublicationInv'
<1> SUFFICES ASSUME TypeOK, PublicationInv, [Next]_vars PROVE PublicationInv'
  OBVIOUS
<1> USE DEF TypeOK, PublicationInv, Shown, Mapper, Status, Maps, NoMap, None,
            ThreadStates, history
<1>1. CASE Submit \/ MarkLapComplete \/ BeginShutdown \/ Join \/ UNCHANGED vars
  BY <1>1 DEF Submit, MarkLapComplete, BeginShutdown, Join, vars
<1>2. CASE CountDrop
  BY <1>2 DEF CountDrop
<1>3. CASE RecvScan
  BY <1>3 DEF RecvScan, Integrate
<1>4. CASE RecvLapComplete
  BY <1>4 DEF RecvLapComplete
<1>5. CASE Exit
  BY <1>5 DEF Exit
<1>6. CASE PublishStatus
  BY <1>6 DEF PublishStatus
<1>7. CASE PublishMap
  BY <1>7 DEF PublishMap
<1>8. QED
  BY <1>1, <1>2, <1>3, <1>4, <1>5, <1>6, <1>7 DEF Next

(* A complete flag travels from the mark through queue and mapper.          *)
LEMMA StepLap == TypeOK /\ LapInv /\ [Next]_vars => LapInv'
<1> SUFFICES ASSUME TypeOK, LapInv, [Next]_vars PROVE LapInv'
  OBVIOUS
<1> USE DEF LapInv, Mapper, Maps, NoMap, history
<1>t. queue \in Seq(Items) /\ mapper \in Mapper /\ map \in Maps
  BY DEF TypeOK
<1>1. ASSUME NEW item \in Items \ {"LapComplete"}, TrySend(item)
      PROVE  (\E i \in 1 .. Len(queue') : queue'[i] = "LapComplete") => marked
  <2>1. CASE queue' = queue
    BY <2>1
  <2>2. CASE queue' = Append(queue, item)
    <3>1. Len(queue) \in Nat /\ Len(queue') = Len(queue) + 1
      BY <1>t, <2>2
    <3>2. \A i \in 1 .. Len(queue) : queue'[i] = queue[i]
      BY <1>t, <2>2
    <3>3. queue'[Len(queue) + 1] = item
      BY <1>t, <2>2
    <3>4. QED
      BY <3>1, <3>2, <3>3
  <2>3. QED
    BY <1>1, <2>1, <2>2 DEF TrySend
<1>2. ASSUME queue # <<>>, queue' = Tail(queue)
      PROVE  /\ (\E i \in 1 .. Len(queue') : queue'[i] = "LapComplete") => marked
             /\ Head(queue) = "LapComplete" => marked
  <2>1. /\ Len(queue) \in Nat \ {0} /\ Len(queue') = Len(queue) - 1
        /\ \A i \in 1 .. (Len(queue) - 1) : queue'[i] = queue[i + 1]
        /\ Head(queue) = queue[1]
    BY <1>2, <1>t
  <2>2. QED
    BY <2>1
<1>3. CASE Submit
  BY <1>1, <1>3 DEF Submit, Items
<1>4. CASE MarkLapComplete
  BY <1>4 DEF MarkLapComplete
<1>5. CASE BeginShutdown
  BY <1>1, <1>5 DEF BeginShutdown, Items
<1>6. CASE CountDrop \/ Join \/ UNCHANGED vars
  BY <1>6 DEF CountDrop, Join, vars
<1>7. CASE RecvScan
  BY <1>2, <1>7, <1>t DEF RecvScan, Integrate
<1>8. CASE RecvLapComplete
  BY <1>2, <1>8, <1>t DEF RecvLapComplete
<1>9. CASE Exit
  BY <1>2, <1>9 DEF Exit
<1>10. CASE PublishStatus
  BY <1>10 DEF PublishStatus
<1>11. CASE PublishMap
  BY <1>11 DEF PublishMap
<1>12. QED
  BY <1>3, <1>4, <1>5, <1>6, <1>7, <1>8, <1>9, <1>10, <1>11 DEF Next

(* No more scans are offered than the bound allows.                         *)
LEMMA StepOffered == TypeOK /\ OfferedInv /\ [Next]_vars => OfferedInv'
  BY ScansAssumption
  DEF TypeOK, OfferedInv, Next, vars, history, Submit, CountDrop,
      MarkLapComplete, BeginShutdown, Join, RecvScan, RecvLapComplete, Exit,
      PublishStatus, PublishMap

(* The inductive invariant holds in every reachable state.                  *)
THEOREM Invariance == Spec => []IInv
<1>1. IInv /\ [Next]_vars => IInv'
  BY StepType, StepAccounted, StepPublication, StepLap, StepOffered DEF IInv
<1>2. QED
  BY InitIInv, <1>1, PTL DEF Spec

(* Type correctness; the queue never holds more than its capacity.          *)
THEOREM TypeCorrect == Spec => []TypeOK
<1>1. IInv => TypeOK
  BY DEF IInv
<1>2. QED
  BY <1>1, Invariance, PTL

(* Every scan offered is waiting, integrated, or counted as dropped.        *)
THEOREM ScansAreAccounted == Spec => []EveryScanAccounted
<1>1. IInv => EveryScanAccounted
  BY DEF IInv
<1>2. QED
  BY <1>1, Invariance, PTL

(* The status is as new as the map, or one revision newer.                  *)
THEOREM StatusIsAhead == Spec => []StatusLeadsMap
<1>1. IInv => StatusLeadsMap
  BY DEF IInv, PublicationInv, Shown, StatusLeadsMap, TypeOK, Mapper, Status,
         NoMap, ThreadStates
<1>2. QED
  BY <1>1, Invariance, PTL

-----------------------------------------------------------------------------
(* Every step of the worker or of its owner is a step of MapFeed, or leaves *)
(* the map and the mark unchanged.                                          *)
LEMMA StepRefines == IInv /\ [Next]_vars => [Feed!Next]_Feed!vars
<1> SUFFICES ASSUME IInv, [Next]_vars PROVE [Feed!Next]_Feed!vars
  OBVIOUS
<1> USE DEF IInv, history
<1>1. CASE MarkLapComplete
  BY <1>1 DEF MarkLapComplete, Feed!Next, Feed!CrossLine
<1>2. CASE PublishMap
  <2> DEFINE m == [revision |-> mapper.revision, complete |-> mapper.complete]
  <2>1. mapper.scans <= MaxScans
    <3>1. ScansIn(queue) \in Nat
      BY PositionsFinite DEF TypeOK, ScansIn, Positions
    <3>2. QED
      BY <3>1, ScansAssumption
      DEF TypeOK, EveryScanAccounted, OfferedInv, Mapper
  <2>2. m \in Feed!Maps
    BY <2>1, ScansAssumption DEF TypeOK, PublicationInv, Mapper, Feed!Maps
  <2>3. Feed!Base = Shown
    BY DEF Feed!Base, Feed!NoMap, Feed!None, Shown, NoMap, None
  <2>4. Shown \in Nat
    BY DEF Shown, PublicationInv
  <2>5. m.revision \in {Feed!Base, Feed!Base + 1}
    BY <2>3, <2>4 DEF PublicationInv, TypeOK, Mapper
  <2>6. (map.complete => m.complete) /\ (m.complete => marked)
    BY DEF LapInv
  <2>7. map' = m /\ marked' = marked
    BY <1>2 DEF PublishMap
  <2> HIDE DEF m
  <2>8. Feed!Publish
    BY <2>2, <2>5, <2>6, <2>7 DEF Feed!Publish
  <2>9. QED
    BY <2>8 DEF Feed!Next
<1>3. CASE Submit \/ CountDrop \/ BeginShutdown \/ Join \/ RecvScan
           \/ RecvLapComplete \/ Exit \/ PublishStatus \/ UNCHANGED vars
  BY <1>3 DEF Submit, CountDrop, BeginShutdown, Join, RecvScan, RecvLapComplete,
              Exit, PublishStatus, vars, Feed!vars
<1>4. QED
  BY <1>1, <1>2, <1>3 DEF Next

(* The mapping worker implements MapFeed: what its readers find never goes  *)
(* back, and is complete only after the start line was crossed.             *)
THEOREM WorkerImplementsMapFeed == Spec => ImplementsMapFeed
<1>1. Init => Feed!Init
  BY DEF Init, Feed!Init, NoMap, None, Feed!NoMap, Feed!None
<1>2. QED
  BY <1>1, StepRefines, Invariance, PTL DEF Spec, ImplementsMapFeed, Feed!Spec
=============================================================================
