------------------------- MODULE RateLimiterProofs -------------------------
(***************************************************************************)
(* Proofs about the limiter as the engine uses it (Spec of RateLimiter)    *)
(* and, in the last section, with its whole interface (SpecWithExtend):    *)
(* for every limit, every set of workflows and every set of slot counts.   *)
(***************************************************************************)
EXTENDS RateLimiter, FiniteSetTheorems, TLAPS

\* A map from workflow IDs to reservations, as activeReservations is.
IsMap(res) ==
    /\ DOMAIN res \subseteq Workflows
    /\ \A w \in DOMAIN res : res[w] \in Reservation

\* The slots of a map are finitely many, and those still unspent are part of
\* those reserved (calculateTotalReserved over-counts what can still be used).
LEMMA SlotsFinite ==
    ASSUME NEW res, IsMap(res)
    PROVE  /\ IsFiniteSet(ReservedSlots(res))
           /\ IsFiniteSet(UnspentSlots(res))
           /\ Cardinality(ReservedSlots(res)) \in Nat
           /\ Cardinality(UnspentSlots(res)) \in Nat
           /\ UnspentSlots(res) \subseteq ReservedSlots(res)
           /\ Cardinality(UnspentSlots(res)) <= Cardinality(ReservedSlots(res))
<1> DEFINE All == Workflows \X (1 .. MaxSlots)
<1>1. IsFiniteSet(All)
  <2>1. MaxSlots \in Int
    BY MaxSlotsAssumption
  <2>2. IsFiniteSet(1 .. MaxSlots)
    BY <2>1, FS_Interval
  <2> QED
    BY <2>2, FS_Product, WorkflowsAssumption
<1>2. ReservedSlots(res) \subseteq All
  BY MaxSlotsAssumption DEF ReservedSlots, IsMap, Reservation
<1>3. UnspentSlots(res) \subseteq ReservedSlots(res)
  BY DEF UnspentSlots, ReservedSlots, IsMap, Reservation
<1>4. IsFiniteSet(ReservedSlots(res))
  BY <1>1, <1>2, FS_Subset
<1>5. IsFiniteSet(UnspentSlots(res)) /\ Cardinality(UnspentSlots(res)) <= Cardinality(ReservedSlots(res))
  BY <1>3, <1>4, FS_Subset
<1> QED
  BY <1>3, <1>4, <1>5, FS_CardinalityType

\* Taking slots away, from one reservation or with it, leaves no more unspent.
LEMMA FewerSlots ==
    ASSUME NEW old, IsMap(old), NEW new, IsMap(new),
           DOMAIN new \subseteq DOMAIN old,
           \A w \in DOMAIN new :
               /\ new[w].slotsReserved <= old[w].slotsReserved
               /\ new[w].slotsConsumed = old[w].slotsConsumed
    PROVE  Cardinality(UnspentSlots(new)) <= Cardinality(UnspentSlots(old))
<1>1. UnspentSlots(new) \subseteq UnspentSlots(old)
  BY DEF UnspentSlots, IsMap, Reservation
<1> QED
  BY <1>1, SlotsFinite, FS_Subset

\* Reserving `count` slots for a new workflow adds at most `count` slots to
\* what can be spent, if everything reserved before is counted as spendable.
LEMMA OneMoreReservation ==
    ASSUME NEW res, IsMap(res), NEW w \in Workflows, NEW count \in Counts
    PROVE  LET new == [v \in DOMAIN res \cup {w} |->
                          IF v = w THEN NewReservation(count) ELSE res[v]]
           IN  /\ IsMap(new)
               /\ Cardinality(UnspentSlots(new))
                     <= Cardinality(ReservedSlots(res)) + count
<1> DEFINE new == [v \in DOMAIN res \cup {w} |->
                      IF v = w THEN NewReservation(count) ELSE res[v]]
           mine == {w} \X (1 .. count)
<1>1. count \in 1 .. MaxSlots
  BY CountsAssumption
<1>2. IsMap(new)
  BY <1>1, MaxSlotsAssumption DEF IsMap, Reservation, NewReservation
<1>3. UnspentSlots(new) \subseteq ReservedSlots(res) \cup mine
  <2> SUFFICES ASSUME NEW s \in UnspentSlots(new)
               PROVE  s \in ReservedSlots(res) \cup mine
    OBVIOUS
  <2>1. PICK v \in DOMAIN new :
           s \in {v} \X ((new[v].slotsConsumed + 1) .. new[v].slotsReserved)
    BY DEF UnspentSlots
  <2>2. CASE v = w
    <3>1. new[v] = NewReservation(count)
      BY <2>2
    <3>2. s \in {w} \X ((0 + 1) .. count)
      BY <2>1, <2>2, <3>1 DEF NewReservation
    <3> QED
      BY <3>2
  <2>3. CASE v # w
    <3>1. v \in DOMAIN res /\ new[v] = res[v]
      BY <2>3
    <3>2. s \in {v} \X ((res[v].slotsConsumed + 1) .. res[v].slotsReserved)
      BY <2>1, <3>1
    <3>3. s \in UnspentSlots(res)
      BY <3>1, <3>2 DEF UnspentSlots
    <3> QED
      BY <3>3, SlotsFinite
  <2> QED
    BY <2>2, <2>3
<1>4. IsFiniteSet(mine) /\ Cardinality(mine) = count
  <2>1. IsFiniteSet({w}) /\ Cardinality({w}) = 1
    BY FS_Singleton
  <2>2. count \in Int /\ ~(1 > count) /\ count - 1 + 1 = count /\ 1 * count = count
    BY <1>1, MaxSlotsAssumption
  <2>3. IsFiniteSet(1 .. count) /\ Cardinality(1 .. count) = count
    BY <2>2, FS_Interval
  <2>4. /\ IsFiniteSet({w} \X (1 .. count))
        /\ Cardinality({w} \X (1 .. count))
              = Cardinality({w}) * Cardinality(1 .. count)
    BY <2>1, <2>3, FS_Product
  <2> QED
    BY <2>1, <2>2, <2>3, <2>4
<1>5. /\ IsFiniteSet(ReservedSlots(res) \cup mine)
      /\ Cardinality(ReservedSlots(res) \cup mine)
            = Cardinality(ReservedSlots(res)) + Cardinality(mine)
                - Cardinality(ReservedSlots(res) \cap mine)
  BY <1>4, SlotsFinite, FS_Union
<1>6. Cardinality(ReservedSlots(res) \cap mine) \in Nat
  BY SlotsFinite, FS_Intersection, FS_CardinalityType
<1>7. Cardinality(UnspentSlots(new)) <= Cardinality(ReservedSlots(res) \cup mine)
  BY <1>3, <1>5, FS_Subset
<1>8. /\ Cardinality(ReservedSlots(res)) \in Nat
      /\ Cardinality(UnspentSlots(new)) \in Nat
      /\ count \in Nat
  BY <1>1, <1>2, SlotsFinite, MaxSlotsAssumption
<1>9. Cardinality(UnspentSlots(new)) <= Cardinality(ReservedSlots(res)) + count
  BY <1>4, <1>5, <1>6, <1>7, <1>8
<1> QED
  BY <1>2, <1>9

\* Consume turns exactly one unspent slot of its workflow into a call.
LEMMA SpendOne ==
    ASSUME NEW res, IsMap(res), NEW w \in DOMAIN res,
           res[w].slotsConsumed < res[w].slotsReserved
    PROVE  LET new == [res EXCEPT ![w].slotsConsumed = @ + 1]
           IN  /\ IsMap(new)
               /\ Cardinality(UnspentSlots(new)) + 1
                     = Cardinality(UnspentSlots(res))
<1> DEFINE new == [res EXCEPT ![w].slotsConsumed = @ + 1]
           slot == <<w, res[w].slotsConsumed + 1>>
<1>1. IsMap(new)
  BY MaxSlotsAssumption DEF IsMap, Reservation
<1>2. UnspentSlots(new) = UnspentSlots(res) \ {slot}
  BY DEF UnspentSlots, IsMap, Reservation
<1>3. slot \in UnspentSlots(res)
  BY DEF UnspentSlots, IsMap, Reservation
<1>4. Cardinality(UnspentSlots(new)) = Cardinality(UnspentSlots(res)) - 1
  <2>1. IsFiniteSet(UnspentSlots(res))
    BY SlotsFinite
  <2>2. Cardinality(UnspentSlots(res) \ {slot})
           = IF slot \in UnspentSlots(res)
             THEN Cardinality(UnspentSlots(res)) - 1
             ELSE Cardinality(UnspentSlots(res))
    BY <2>1, FS_RemoveElement
  <2> QED
    BY <1>2, <1>3, <2>2
<1>5. Cardinality(UnspentSlots(res)) \in Nat
  BY SlotsFinite
<1>6. Cardinality(UnspentSlots(new)) + 1 = Cardinality(UnspentSlots(res))
  BY <1>4, <1>5
<1> QED
  BY <1>1, <1>6

\* What GrantHeads makes of a map: a map, with the granted workflows in it and
\* the other reservations as they were.
LEMMA GrantHeadsMap ==
    ASSUME TypeOK, NEW res, IsMap(res), NEW k \in 0 .. Len(waitQueue)
    PROVE  LET granted == {waitQueue[i].workflowID : i \in 1 .. k}
               new == GrantHeads(res, k)
           IN  /\ IsMap(new)
               /\ DOMAIN new = DOMAIN res \cup granted
               /\ granted \subseteq Workflows
               /\ \A w \in granted : new[w].slotsConsumed = 0
               /\ \A w \in DOMAIN res \ granted : new[w] = res[w]
<1> DEFINE granted == {waitQueue[i].workflowID : i \in 1 .. k}
           position(w) == CHOOSE i \in 1 .. k : waitQueue[i].workflowID = w
           new == GrantHeads(res, k)
<1>1. \A i \in 1 .. k : waitQueue[i] \in WaitingWorkflow
  BY DEF TypeOK
<1>2. granted \subseteq Workflows
  BY <1>1 DEF WaitingWorkflow
<1>3. new = [w \in DOMAIN res \cup granted |->
                IF w \in granted
                THEN NewReservation(waitQueue[position(w)].requestedSlots)
                ELSE res[w]]
  BY DEF GrantHeads
<1>4. ASSUME NEW w \in granted
      PROVE  /\ new[w] = NewReservation(waitQueue[position(w)].requestedSlots)
             /\ waitQueue[position(w)].requestedSlots \in Counts
  <2>1. \E i \in 1 .. k : waitQueue[i].workflowID = w
    OBVIOUS
  <2>2. position(w) \in 1 .. k
    BY <2>1
  <2>3. waitQueue[position(w)].requestedSlots \in Counts
    BY <1>1, <2>2 DEF WaitingWorkflow
  <2> QED
    BY <1>3, <2>3
<1>5. ASSUME NEW count \in Counts
      PROVE  /\ NewReservation(count) \in Reservation
             /\ NewReservation(count).slotsConsumed = 0
  BY CountsAssumption, MaxSlotsAssumption DEF NewReservation, Reservation
<1>6. ASSUME NEW w \in granted
      PROVE  new[w] \in Reservation /\ new[w].slotsConsumed = 0
  <2> DEFINE count == waitQueue[position(w)].requestedSlots
  <2>1. new[w] = NewReservation(count) /\ count \in Counts
    BY <1>4
  <2> HIDE DEF new, count
  <2> QED
    BY <2>1, <1>5
<1>7. \A w \in DOMAIN res \ granted : new[w] = res[w]
  BY <1>3
<1>8. DOMAIN new = DOMAIN res \cup granted
  BY <1>3
<1>9. IsMap(new)
  BY <1>2, <1>6, <1>7, <1>8 DEF IsMap
<1> QED
  BY <1>2, <1>6, <1>7, <1>8, <1>9

\* tryGrantWaiting keeps the types of everything it changes.
LEMMA TryGrantKeepsTypes ==
    ASSUME TypeOK, NEW res, IsMap(res), tryGrantWaiting(res)
    PROVE  /\ IsMap(activeReservations')
           /\ consumed' \in Nat
           /\ elapsed' \in BOOLEAN
           /\ waitQueue' \in Seq(WaitingWorkflow)
           /\ ready' \subseteq Workflows
<1>1. CASE waitQueue = <<>>
  BY <1>1 DEF tryGrantWaiting, TypeOK
<1>2. CASE waitQueue # <<>>
  <2>1. consumed' = ConsumedAfterReset /\ elapsed' = FALSE
    BY <1>2 DEF tryGrantWaiting, resetWindowIfNeeded
  <2>2. consumed' \in Nat
    BY <2>1 DEF ConsumedAfterReset, TypeOK
  <2>3. PICK k \in 0 .. Len(waitQueue) :
           /\ activeReservations' = GrantHeads(res, k)
           /\ waitQueue' = SubSeq(waitQueue, k + 1, Len(waitQueue))
           /\ ready' = ready \cup {waitQueue[i].workflowID : i \in 1 .. k}
    BY <1>2 DEF tryGrantWaiting
  <2>4. /\ IsMap(activeReservations')
        /\ {waitQueue[i].workflowID : i \in 1 .. k} \subseteq Workflows
    BY <2>3, GrantHeadsMap
  <2>5. waitQueue' \in Seq(WaitingWorkflow)
    BY <2>3 DEF TypeOK
  <2>6. ready' \subseteq Workflows
    BY <2>3, <2>4 DEF TypeOK
  <2> QED
    BY <2>1, <2>2, <2>4, <2>5, <2>6
<1> QED
  BY <1>1, <1>2

\* If the map it starts from is within the budget, tryGrantWaiting keeps the
\* budget: it grants only what fits beside everything reserved.
LEMMA TryGrantKeepsBudget ==
    ASSUME TypeOK, NEW res, IsMap(res),
           consumed + Cardinality(UnspentSlots(res)) <= Limit,
           tryGrantWaiting(res)
    PROVE  consumed' + Cardinality(UnspentSlots(activeReservations')) <= Limit
<1>1. CASE waitQueue = <<>>
  BY <1>1 DEF tryGrantWaiting
<1>2. CASE waitQueue # <<>>
  <2>1. consumed' = ConsumedAfterReset
    BY <1>2 DEF tryGrantWaiting, resetWindowIfNeeded
  <2>2. consumed' \in Nat /\ consumed' <= consumed /\ consumed \in Nat
    BY <2>1 DEF ConsumedAfterReset, TypeOK
  <2>3. PICK k \in 0 .. Len(waitQueue) :
           /\ k \in Grantable(res, ConsumedAfterReset)
           /\ activeReservations' = GrantHeads(res, k)
    BY <1>2 DEF tryGrantWaiting
  <2>4. IsMap(activeReservations')
    BY TryGrantKeepsTypes
  <2>5. CASE k = 0
    <3>1. /\ DOMAIN activeReservations' = DOMAIN res
          /\ \A w \in DOMAIN res : activeReservations'[w] = res[w]
      <4>1. {waitQueue[i].workflowID : i \in 1 .. k} = {}
        BY <2>5
      <4> QED
        BY <2>3, <4>1, GrantHeadsMap
    <3>2. UnspentSlots(activeReservations') = UnspentSlots(res)
      BY <3>1 DEF UnspentSlots
    <3>3. Cardinality(UnspentSlots(res)) \in Nat
      BY SlotsFinite
    <3> QED
      BY <2>2, <3>2, <3>3, LimitAssumption
  <2>6. CASE k # 0
    <3>1. k \in 1 .. k
      BY <2>6
    <3>2. consumed' + Cardinality(ReservedSlots(activeReservations')) <= Limit
      BY <2>1, <2>3, <3>1 DEF Grantable, calculateTotalReserved
    <3>3. /\ Cardinality(UnspentSlots(activeReservations'))
                <= Cardinality(ReservedSlots(activeReservations'))
          /\ Cardinality(UnspentSlots(activeReservations')) \in Nat
          /\ Cardinality(ReservedSlots(activeReservations')) \in Nat
      BY <2>4, SlotsFinite
    <3> QED
      BY <2>2, <3>2, <3>3, LimitAssumption
  <2> QED
    BY <2>5, <2>6
<1> QED
  BY <1>1, <1>2

-----------------------------------------------------------------------------
(* Types *)

\* The variables start with their types.
LEMMA TypeInit == Init => TypeOK
<1> SUFFICES ASSUME Init PROVE TypeOK
  OBVIOUS
<1>1. DOMAIN activeReservations = {}
  BY DEF Init
<1>2. waitQueue \in Seq(WaitingWorkflow)
  BY DEF Init
<1>3. NoExtension \in [target : 0 .. MaxSlots, due : BOOLEAN]
  BY MaxSlotsAssumption DEF NoExtension
<1>4. /\ caller \in [Workflows -> Callers]
      /\ extension \in [Workflows -> [target : 0 .. MaxSlots, due : BOOLEAN]]
  BY <1>3 DEF Init, Callers
<1>5. consumed \in Nat /\ elapsed \in BOOLEAN /\ ready \subseteq Workflows
  BY DEF Init
<1> QED
  BY <1>1, <1>2, <1>4, <1>5 DEF TypeOK

\* The maps that AdjustDown, SignalComplete and Release hand to tryGrantWaiting
\* are maps of reservations.
LEMMA UsedMaps ==
    ASSUME IsMap(activeReservations), NEW w \in DOMAIN activeReservations
    PROVE  /\ \A newTotal \in 0 .. Limit :
                 IsMap([activeReservations EXCEPT ![w].slotsReserved = newTotal])
           /\ IsMap([activeReservations EXCEPT ![w].completed = TRUE])
           /\ IsMap([v \in DOMAIN activeReservations \ {w} |-> activeReservations[v]])
<1>1. ASSUME NEW newTotal \in 0 .. Limit
      PROVE  IsMap([activeReservations EXCEPT ![w].slotsReserved = newTotal])
  BY MaxSlotsAssumption, LimitAssumption DEF IsMap, Reservation
<1>2. IsMap([activeReservations EXCEPT ![w].completed = TRUE])
  BY DEF IsMap, Reservation
<1>3. IsMap([v \in DOMAIN activeReservations \ {w} |-> activeReservations[v]])
  BY DEF IsMap
<1> QED
  BY <1>1, <1>2, <1>3

\* Every step keeps the types; the charge stays within the reservation because
\* ConsumeWithOperation refuses a call that passes it.
LEMMA TypeStep == TypeOK /\ [Next]_vars => TypeOK'
<1> SUFFICES ASSUME TypeOK, [Next]_vars PROVE TypeOK'
  OBVIOUS
<1>t. IsMap(activeReservations)
  BY DEF TypeOK, IsMap
<1>r. ConsumedAfterReset \in Nat
  BY DEF ConsumedAfterReset, TypeOK
<1>g. ASSUME NEW res, IsMap(res), tryGrantWaiting(res),
             caller' \in [Workflows -> Callers], extension' = extension
      PROVE  TypeOK'
  <2>1. /\ IsMap(activeReservations')
        /\ consumed' \in Nat
        /\ elapsed' \in BOOLEAN
        /\ waitQueue' \in Seq(WaitingWorkflow)
        /\ ready' \subseteq Workflows
    BY <1>g, TryGrantKeepsTypes
  <2> QED
    BY <1>g, <2>1 DEF TypeOK, IsMap
<1>1. CASE WindowElapses
  <2>1. extension' \in [Workflows -> [target : 0 .. MaxSlots, due : BOOLEAN]]
    BY <1>1 DEF WindowElapses, TypeOK
  <2> QED
    BY <1>1, <2>1 DEF WindowElapses, TypeOK
<1>2. CASE windowResetWatcher
  BY <1>2, <1>t, <1>g DEF windowResetWatcher, TypeOK
<1>3. CASE Stats
  BY <1>3, <1>r DEF Stats, resetWindowIfNeeded, TypeOK
<1>4. ASSUME NEW w \in Workflows, NEW count \in Counts, ReserveGranted(w, count)
      PROVE  TypeOK'
  <2>1. activeReservations' =
           [v \in DOMAIN activeReservations \cup {w} |->
               IF v = w THEN NewReservation(count) ELSE activeReservations[v]]
    BY <1>4 DEF ReserveGranted
  <2>2. IsMap(activeReservations')
    BY <1>t, <2>1, OneMoreReservation
  <2>3. consumed' = ConsumedAfterReset /\ elapsed' = FALSE
    BY <1>4 DEF ReserveGranted, resetWindowIfNeeded
  <2> QED
    BY <1>4, <1>r, <2>2, <2>3 DEF ReserveGranted, TypeOK, IsMap, Callers
<1>5. ASSUME NEW w \in Workflows, NEW count \in Counts, ReserveQueued(w, count)
      PROVE  TypeOK'
  <2>1. waitQueue' \in Seq(WaitingWorkflow)
    BY <1>5 DEF ReserveQueued, TypeOK, WaitingWorkflow
  <2> QED
    BY <1>5, <1>r, <2>1
    DEF ReserveQueued, resetWindowIfNeeded, TypeOK, Callers
<1>6. ASSUME NEW w \in Workflows, ReserveReady(w) \/ ReserveCtxDone(w)
      PROVE  TypeOK'
  BY <1>6 DEF ReserveReady, ReserveCtxDone, TypeOK, Callers
<1>8. ASSUME NEW w \in Workflows, ReserveAbandoned(w)
      PROVE  TypeOK'
  <2>1. waitQueue' \in Seq(WaitingWorkflow)
    <3> DEFINE entries == {i \in 1 .. Len(waitQueue) :
                              waitQueue[i].workflowID = w}
    <3>1. CASE entries = {}
      BY <1>8, <3>1 DEF ReserveAbandoned, removeFromQueue, TypeOK
    <3>2. CASE entries # {}
      <4>1. PICK i \in entries :
               waitQueue' = [j \in 1 .. Len(waitQueue) - 1 |->
                               IF j < i THEN waitQueue[j] ELSE waitQueue[j + 1]]
        BY <1>8, <3>2 DEF ReserveAbandoned, removeFromQueue
      <4>2. /\ Len(waitQueue) - 1 \in Nat
            /\ \A j \in 1 .. Len(waitQueue) - 1 :
                  waitQueue[j] \in WaitingWorkflow /\ waitQueue[j + 1] \in WaitingWorkflow
        BY <3>2 DEF TypeOK
      <4>3. waitQueue' \in [1 .. Len(waitQueue) - 1 -> WaitingWorkflow]
        BY <4>1, <4>2
      <4> QED
        BY <4>2, <4>3
    <3> QED
      BY <3>1, <3>2
  <2> QED
    BY <1>8, <2>1 DEF ReserveAbandoned, TypeOK, Callers
<1>9. ASSUME NEW w \in Workflows, ConsumeWithOperation(w)
      PROVE  TypeOK'
  <2>1. /\ w \in DOMAIN activeReservations
        /\ activeReservations[w].slotsConsumed < activeReservations[w].slotsReserved
        /\ activeReservations' =
              [activeReservations EXCEPT ![w].slotsConsumed = @ + 1]
        /\ consumed' = ConsumedAfterReset + 1
    BY <1>9 DEF ConsumeWithOperation, Holds
  <2>2. IsMap(activeReservations')
    BY <1>t, <2>1, SpendOne
  <2>3. consumed' \in Nat
    BY <1>r, <2>1
  <2>4. elapsed' = FALSE /\ UNCHANGED <<waitQueue, ready, caller, extension>>
    BY <1>9 DEF ConsumeWithOperation
  <2> QED
    BY <2>2, <2>3, <2>4 DEF TypeOK, IsMap
<1>10. ASSUME NEW w \in Workflows, NEW newTotal \in 0 .. Limit,
              AdjustDown(w, newTotal)
       PROVE  TypeOK'
  <2>1. /\ w \in DOMAIN activeReservations
        /\ tryGrantWaiting([activeReservations EXCEPT ![w].slotsReserved = newTotal])
        /\ UNCHANGED <<caller, extension>>
    BY <1>10 DEF AdjustDown, Holds
  <2> QED
    BY <1>t, <2>1, UsedMaps, <1>g DEF TypeOK
<1>11. ASSUME NEW w \in Workflows, SignalComplete(w)
       PROVE  TypeOK'
  <2>1. /\ w \in DOMAIN activeReservations
        /\ tryGrantWaiting([activeReservations EXCEPT ![w].completed = TRUE])
        /\ UNCHANGED <<caller, extension>>
    BY <1>11 DEF SignalComplete, Holds
  <2> QED
    BY <1>t, <2>1, UsedMaps, <1>g DEF TypeOK
<1>12. ASSUME NEW w \in Workflows, Release(w)
       PROVE  TypeOK'
  <2>1. /\ w \in DOMAIN activeReservations
        /\ tryGrantWaiting([v \in DOMAIN activeReservations \ {w} |->
                               activeReservations[v]])
        /\ caller' = [caller EXCEPT ![w] = "none"] /\ extension' = extension
    BY <1>12 DEF Release, Holds
  <2>2. caller' \in [Workflows -> Callers]
    BY <2>1 DEF TypeOK, Callers
  <2> QED
    BY <1>t, <2>1, <2>2, UsedMaps, <1>g
<1>13. CASE UNCHANGED vars
  BY <1>13 DEF vars, TypeOK
<1> QED
  BY <1>1, <1>2, <1>3, <1>4, <1>5, <1>6, <1>8, <1>9, <1>10, <1>11, <1>12, <1>13
  DEF Next

-----------------------------------------------------------------------------
(* The budget of a window *)

BudgetInv == TypeOK /\ WindowBudget

\* The limiter starts within its budget: nothing is charged, nothing reserved.
LEMMA BudgetInit == Init => BudgetInv
<1> SUFFICES ASSUME Init PROVE WindowBudget
  BY TypeInit DEF BudgetInv
<1>1. UnspentSlots(activeReservations) = {}
  BY DEF Init, UnspentSlots
<1>2. Cardinality(UnspentSlots(activeReservations)) = 0
  BY <1>1, FS_EmptySet
<1> QED
  BY <1>2, LimitAssumption DEF WindowBudget, Init

\* Every call of the limiter, every tick and every reset keeps the budget.
LEMMA BudgetStep == BudgetInv /\ [Next]_vars => BudgetInv'
<1> SUFFICES ASSUME BudgetInv, [Next]_vars PROVE WindowBudget'
  BY TypeStep DEF BudgetInv
<1> DEFINE slots == Cardinality(UnspentSlots(activeReservations))
<1>t. /\ TypeOK
      /\ IsMap(activeReservations)
      /\ consumed \in Nat
      /\ slots \in Nat
      /\ consumed + slots <= Limit
      /\ Limit \in Nat
  BY SlotsFinite, LimitAssumption DEF BudgetInv, TypeOK, WindowBudget, IsMap
<1>r. ConsumedAfterReset \in Nat /\ ConsumedAfterReset + slots <= Limit
  BY <1>t DEF ConsumedAfterReset
<1>g. ASSUME NEW res, IsMap(res), tryGrantWaiting(res),
             Cardinality(UnspentSlots(res)) <= slots
      PROVE  WindowBudget'
  <2>1. consumed + Cardinality(UnspentSlots(res)) <= Limit
    BY <1>g, <1>t, SlotsFinite
  <2> QED
    BY <1>g, <1>t, <2>1, TryGrantKeepsBudget DEF WindowBudget
<1>1. CASE \/ WindowElapses
           \/ \E w \in Workflows :
                 ReserveReady(w) \/ ReserveCtxDone(w) \/ ReserveAbandoned(w)
           \/ UNCHANGED vars
  <2>1. UNCHANGED <<consumed, activeReservations>>
    BY <1>1 DEF WindowElapses, ReserveReady, ReserveCtxDone, ReserveAbandoned, vars
  <2> QED
    BY <1>t, <2>1 DEF WindowBudget
<1>2. CASE windowResetWatcher
  BY <1>2, <1>t, <1>g DEF windowResetWatcher
<1>3. CASE Stats \/ \E w \in Workflows, count \in Counts : ReserveQueued(w, count)
  <2>1. consumed' = ConsumedAfterReset /\ activeReservations' = activeReservations
    BY <1>3 DEF Stats, ReserveQueued, resetWindowIfNeeded
  <2> QED
    BY <1>r, <2>1 DEF WindowBudget
<1>4. ASSUME NEW w \in Workflows, NEW count \in Counts, ReserveGranted(w, count)
      PROVE  WindowBudget'
  <2> DEFINE total == Cardinality(ReservedSlots(activeReservations))
  <2>1. ConsumedAfterReset + total + count <= Limit
    BY <1>4 DEF ReserveGranted, Fits, calculateTotalReserved
  <2>2. /\ IsMap(activeReservations')
        /\ Cardinality(UnspentSlots(activeReservations')) <= total + count
    <3>1. activeReservations' =
             [v \in DOMAIN activeReservations \cup {w} |->
                 IF v = w THEN NewReservation(count) ELSE activeReservations[v]]
      BY <1>4 DEF ReserveGranted
    <3> QED
      BY <1>t, <3>1, OneMoreReservation
  <2>3. /\ Cardinality(UnspentSlots(activeReservations')) \in Nat
        /\ total \in Nat
        /\ count \in Nat
    BY <1>t, <2>2, SlotsFinite, CountsAssumption
  <2>4. consumed' = ConsumedAfterReset
    BY <1>4 DEF ReserveGranted, resetWindowIfNeeded
  <2> QED
    BY <1>r, <1>t, <2>1, <2>2, <2>3, <2>4 DEF WindowBudget
<1>5. ASSUME NEW w \in Workflows, ConsumeWithOperation(w)
      PROVE  WindowBudget'
  <2>1. /\ w \in DOMAIN activeReservations
        /\ activeReservations[w].slotsConsumed < activeReservations[w].slotsReserved
        /\ activeReservations' =
              [activeReservations EXCEPT ![w].slotsConsumed = @ + 1]
        /\ consumed' = ConsumedAfterReset + 1
    BY <1>5 DEF ConsumeWithOperation, Holds
  <2>2. /\ IsMap(activeReservations')
        /\ Cardinality(UnspentSlots(activeReservations')) + 1 = slots
    BY <1>t, <2>1, SpendOne
  <2>3. Cardinality(UnspentSlots(activeReservations')) \in Nat
    BY <2>2, SlotsFinite
  <2> QED
    BY <1>r, <1>t, <2>1, <2>2, <2>3 DEF WindowBudget
<1>6. ASSUME NEW w \in Workflows, NEW newTotal \in 0 .. Limit,
             AdjustDown(w, newTotal)
      PROVE  WindowBudget'
  <2> DEFINE res == [activeReservations EXCEPT ![w].slotsReserved = newTotal]
  <2>1. IsMap(res) /\ tryGrantWaiting(res)
    BY <1>6, <1>t, UsedMaps DEF AdjustDown, Holds
  <2>2. /\ DOMAIN res = DOMAIN activeReservations
        /\ \A v \in DOMAIN res :
              /\ res[v].slotsReserved <= activeReservations[v].slotsReserved
              /\ res[v].slotsConsumed = activeReservations[v].slotsConsumed
    BY <1>6, <1>t DEF AdjustDown, IsMap, Reservation, Holds
  <2> HIDE DEF res
  <2>3. Cardinality(UnspentSlots(res)) <= slots
    BY <1>t, <2>1, <2>2, FewerSlots
  <2> QED
    BY <2>1, <2>3, <1>g
<1>7. ASSUME NEW w \in Workflows, SignalComplete(w)
      PROVE  WindowBudget'
  <2> DEFINE res == [activeReservations EXCEPT ![w].completed = TRUE]
  <2>1. IsMap(res) /\ tryGrantWaiting(res)
    BY <1>7, <1>t, UsedMaps DEF SignalComplete, Holds
  <2>2. /\ DOMAIN res = DOMAIN activeReservations
        /\ \A v \in DOMAIN res :
              /\ res[v].slotsReserved <= activeReservations[v].slotsReserved
              /\ res[v].slotsConsumed = activeReservations[v].slotsConsumed
    BY <1>7, <1>t DEF SignalComplete, IsMap, Reservation, Holds
  <2> HIDE DEF res
  <2>3. Cardinality(UnspentSlots(res)) <= slots
    BY <1>t, <2>1, <2>2, FewerSlots
  <2> QED
    BY <2>1, <2>3, <1>g
<1>8. ASSUME NEW w \in Workflows, Release(w)
      PROVE  WindowBudget'
  <2> DEFINE res == [v \in DOMAIN activeReservations \ {w} |->
                        activeReservations[v]]
  <2>1. IsMap(res) /\ tryGrantWaiting(res)
    BY <1>8, <1>t, UsedMaps DEF Release, Holds
  <2>2. /\ DOMAIN res \subseteq DOMAIN activeReservations
        /\ \A v \in DOMAIN res :
              /\ res[v].slotsReserved <= activeReservations[v].slotsReserved
              /\ res[v].slotsConsumed = activeReservations[v].slotsConsumed
    BY <1>t DEF IsMap, Reservation
  <2> HIDE DEF res
  <2>3. Cardinality(UnspentSlots(res)) <= slots
    BY <1>t, <2>1, <2>2, FewerSlots
  <2> QED
    BY <2>1, <2>3, <1>g
<1> QED
  BY <1>1, <1>2, <1>3, <1>4, <1>5, <1>6, <1>7, <1>8 DEF Next

\* The calls charged to a window and all those that granted reservations may
\* still make never pass the limit, for any limit and any set of workflows.
THEOREM BudgetHolds == Spec => []WindowBudget
<1>1. BudgetInv => WindowBudget
  BY DEF BudgetInv
<1> QED
  BY <1>1, BudgetInit, BudgetStep, PTL DEF Spec

-----------------------------------------------------------------------------
(* Nobody waits unseen: the queue, the closed channels and the reservations *)

\* What tryGrantWaiting does, seen from the queue: it takes a prefix off it,
\* signals exactly that prefix and gives exactly that prefix a reservation.
LEMMA TryGrantTakesPrefix ==
    ASSUME TypeOK, NEW res, IsMap(res), tryGrantWaiting(res)
    PROVE  \E k \in 0 .. Len(waitQueue) :
              LET granted == {waitQueue[i].workflowID : i \in 1 .. k}
              IN  /\ Len(waitQueue') = Len(waitQueue) - k
                  /\ \A i \in 1 .. Len(waitQueue') :
                        waitQueue'[i] = waitQueue[i + k]
                  /\ ready' = ready \cup granted
                  /\ DOMAIN activeReservations' = DOMAIN res \cup granted
                  /\ \A w \in DOMAIN res \ granted :
                        activeReservations'[w] = res[w]
<1>1. CASE waitQueue = <<>>
  <2> DEFINE granted == {waitQueue[i].workflowID : i \in 1 .. 0}
  <2>1. granted = {} /\ 0 \in 0 .. Len(waitQueue)
    BY <1>1
  <2>2. /\ activeReservations' = res
        /\ waitQueue' = waitQueue
        /\ ready' = ready
    BY <1>1 DEF tryGrantWaiting
  <2>3. /\ Len(waitQueue') = Len(waitQueue) - 0
        /\ \A i \in 1 .. Len(waitQueue') : waitQueue'[i] = waitQueue[i + 0]
    BY <2>2, <1>1
  <2> QED
    BY <2>1, <2>2, <2>3
<1>2. CASE waitQueue # <<>>
  <2>1. PICK k \in 0 .. Len(waitQueue) :
           /\ activeReservations' = GrantHeads(res, k)
           /\ waitQueue' = SubSeq(waitQueue, k + 1, Len(waitQueue))
           /\ ready' = ready \cup {waitQueue[i].workflowID : i \in 1 .. k}
    BY <1>2 DEF tryGrantWaiting
  <2>2. /\ Len(waitQueue') = Len(waitQueue) - k
        /\ \A i \in 1 .. Len(waitQueue') : waitQueue'[i] = waitQueue[i + k]
    BY <2>1 DEF TypeOK
  <2> DEFINE granted == {waitQueue[i].workflowID : i \in 1 .. k}
  <2>3. /\ DOMAIN activeReservations' = DOMAIN res \cup granted
        /\ \A w \in DOMAIN res \ granted : activeReservations'[w] = res[w]
    BY <2>1, GrantHeadsMap
  <2> QED
    BY <2>1, <2>2, <2>3
<1> QED
  BY <1>1, <1>2

\* A queued workflow is blocked in Reserve, unsignalled and without slots.
LEMMA QueuedHasNothing ==
    ASSUME TypeOK, WaitersAccounted, NEW i \in 1 .. Len(waitQueue)
    PROVE  /\ waitQueue[i].workflowID \in Workflows
           /\ caller[waitQueue[i].workflowID] \in {"waiting", "cancelled"}
           /\ waitQueue[i].workflowID \notin ready
           /\ waitQueue[i].workflowID \notin DOMAIN activeReservations
<1> DEFINE w == waitQueue[i].workflowID
<1>1. w \in Workflows
  <2>1. waitQueue[i] \in WaitingWorkflow
    BY DEF TypeOK
  <2> QED
    BY <2>1 DEF WaitingWorkflow
<1>2. Queued(w)
  BY DEF Queued
<1>3. caller[w] \in Callers
  BY <1>1 DEF TypeOK
<1> HIDE DEF w
<1>4. caller[w] \in {"waiting", "cancelled"}
  BY <1>1, <1>2, <1>3 DEF WaitersAccounted, Callers
<1>5. w \notin ready /\ ~Holds(w)
  BY <1>1, <1>2, <1>4 DEF WaitersAccounted
<1> QED
  BY <1>1, <1>4, <1>5 DEF w, Holds

\* The accounting survives tryGrantWaiting, when the map it works on has the
\* holders it had (or one less, which stopped holding in the same step).
LEMMA TryGrantAccounts ==
    ASSUME TypeOK, WaitersAccounted, NEW res, IsMap(res), tryGrantWaiting(res),
           caller' \in [Workflows -> Callers],
           \A w \in Workflows :
              \/ caller'[w] = caller[w] /\ (w \in DOMAIN res <=> Holds(w))
              \/ caller[w] = "holding" /\ caller'[w] = "none"
    PROVE  WaitersAccounted'
<1>1. PICK k \in 0 .. Len(waitQueue) :
         LET granted == {waitQueue[i].workflowID : i \in 1 .. k}
         IN  /\ Len(waitQueue') = Len(waitQueue) - k
             /\ \A i \in 1 .. Len(waitQueue') :
                   waitQueue'[i] = waitQueue[i + k]
             /\ ready' = ready \cup granted
             /\ DOMAIN activeReservations' = DOMAIN res \cup granted
  BY TryGrantTakesPrefix
<1> DEFINE granted == {waitQueue[i].workflowID : i \in 1 .. k}
<1>2. Len(waitQueue) \in Nat /\ k \in Nat
  BY DEF TypeOK
<1>3. \A i, j \in 1 .. Len(waitQueue) :
         waitQueue[i].workflowID = waitQueue[j].workflowID => i = j
  BY DEF WaitersAccounted
<1>4. ASSUME NEW w
      PROVE  Queued(w)' <=> Queued(w) /\ w \notin granted
  <2>1. ASSUME Queued(w)' PROVE Queued(w) /\ w \notin granted
    <3>1. PICK i \in 1 .. Len(waitQueue') : waitQueue'[i].workflowID = w
      BY <2>1 DEF Queued
    <3>2. i + k \in 1 .. Len(waitQueue) /\ waitQueue[i + k].workflowID = w
      BY <1>1, <1>2, <3>1
    <3>3. ASSUME w \in granted PROVE FALSE
      <4>1. PICK j \in 1 .. k : waitQueue[j].workflowID = w
        BY <3>3
      <4>2. j \in 1 .. Len(waitQueue) /\ j # i + k
        BY <1>2, <3>1, <1>1
      <4> QED
        BY <1>3, <3>2, <4>1, <4>2
    <3> QED
      BY <3>2, <3>3 DEF Queued
  <2>2. ASSUME Queued(w), w \notin granted PROVE Queued(w)'
    <3>1. PICK i \in 1 .. Len(waitQueue) : waitQueue[i].workflowID = w
      BY <2>2 DEF Queued
    <3>2. i \notin 1 .. k
      BY <2>2, <3>1
    <3>3. i - k \in 1 .. Len(waitQueue') /\ (i - k) + k = i
      BY <1>1, <1>2, <3>1, <3>2
    <3>4. waitQueue'[i - k].workflowID = w
      BY <1>1, <3>1, <3>3
    <3> QED
      BY <3>3, <3>4 DEF Queued
  <2> QED
    BY <2>1, <2>2
<1>5. ASSUME NEW w \in granted
      PROVE  /\ w \in Workflows
             /\ caller[w] \in {"waiting", "cancelled"}
             /\ Queued(w)
             /\ w \notin ready
             /\ ~Holds(w)
  <2>1. PICK i \in 1 .. k : waitQueue[i].workflowID = w
    OBVIOUS
  <2>2. i \in 1 .. Len(waitQueue)
    BY <1>2
  <2> QED
    BY <2>1, <2>2, QueuedHasNothing DEF Queued, Holds
<1>6. \A w : w \in ready' <=> w \in ready \/ w \in granted
  BY <1>1
<1>7. \A w : Holds(w)' <=> w \in DOMAIN res \/ w \in granted
  BY <1>1 DEF Holds
<1>8. \A i, j \in 1 .. Len(waitQueue') :
         waitQueue'[i].workflowID = waitQueue'[j].workflowID => i = j
  <2> SUFFICES ASSUME NEW i \in 1 .. Len(waitQueue'),
                      NEW j \in 1 .. Len(waitQueue'),
                      waitQueue'[i].workflowID = waitQueue'[j].workflowID
               PROVE  i = j
    OBVIOUS
  <2>1. i + k \in 1 .. Len(waitQueue) /\ j + k \in 1 .. Len(waitQueue)
    BY <1>1, <1>2
  <2>2. waitQueue[i + k].workflowID = waitQueue[j + k].workflowID
    BY <1>1
  <2>3. i + k = j + k
    BY <1>3, <2>1, <2>2
  <2> QED
    BY <1>2, <2>3
<1> HIDE DEF granted
<1>9. ASSUME NEW w \in Workflows
      PROVE  /\ caller'[w] \in {"waiting", "cancelled"} =>
                   /\ Queued(w)' <=> w \notin ready'
                   /\ Holds(w)' <=> w \in ready'
             /\ caller'[w] \in {"none", "holding", "extending"} =>
                   ~Queued(w)' /\ w \notin ready'
             /\ caller'[w] \in {"holding", "extending"} => Holds(w)'
  <2>1. /\ caller[w] \in {"waiting", "cancelled"} =>
              (Queued(w) <=> w \notin ready) /\ (Holds(w) <=> w \in ready)
        /\ caller[w] \in {"none", "holding", "extending"} =>
              ~Queued(w) /\ w \notin ready
        /\ caller[w] \in {"holding", "extending"} => Holds(w)
    BY DEF WaitersAccounted
  <2> QED
    BY <1>4, <1>5, <1>6, <1>7, <2>1
<1> QED
  BY <1>8, <1>9 DEF WaitersAccounted

AccountingInv == TypeOK /\ WaitersAccounted

\* Every step keeps the accounting of the waiters.
LEMMA AccountingStep == AccountingInv /\ [Next]_vars => WaitersAccounted'
<1> SUFFICES ASSUME AccountingInv, [Next]_vars PROVE WaitersAccounted'
  OBVIOUS
<1>t. /\ TypeOK
      /\ WaitersAccounted
      /\ IsMap(activeReservations)
      /\ caller \in [Workflows -> Callers]
      /\ waitQueue \in Seq(WaitingWorkflow)
  BY DEF AccountingInv, TypeOK, IsMap
<1>1. CASE WindowElapses
  BY <1>1, <1>t DEF WindowElapses, WaitersAccounted, Queued, Holds
<1>2. CASE windowResetWatcher
  <2>1. tryGrantWaiting(activeReservations) /\ caller' = caller
    BY <1>2 DEF windowResetWatcher
  <2> QED
    BY <1>t, <2>1, TryGrantAccounts DEF Holds
<1>3. CASE Stats
  BY <1>3, <1>t DEF Stats, WaitersAccounted, Queued, Holds
<1>4. ASSUME NEW w \in Workflows, NEW count \in Counts, ReserveGranted(w, count)
      PROVE  WaitersAccounted'
  <2>1. /\ caller[w] = "none"
        /\ caller' = [caller EXCEPT ![w] = "holding"]
        /\ DOMAIN activeReservations' = DOMAIN activeReservations \cup {w}
        /\ waitQueue' = waitQueue
        /\ ready' = ready
    BY <1>4 DEF ReserveGranted, CanReserve
  <2> QED
    BY <1>t, <2>1 DEF WaitersAccounted, Queued, Holds
<1>5. ASSUME NEW w \in Workflows, NEW count \in Counts, ReserveQueued(w, count)
      PROVE  WaitersAccounted'
  <2> DEFINE n == Len(waitQueue)
  <2>1. /\ caller[w] = "none"
        /\ ~Holds(w)
        /\ caller' = [caller EXCEPT ![w] = "waiting"]
        /\ activeReservations' = activeReservations
        /\ ready' = ready
        /\ waitQueue' = Append(waitQueue,
                               [workflowID |-> w, requestedSlots |-> count])
    BY <1>5 DEF ReserveQueued, CanReserve
  <2>2. ~Queued(w) /\ w \notin ready
    BY <1>t, <2>1 DEF WaitersAccounted
  <2>3. /\ n \in Nat
        /\ Len(waitQueue') = n + 1
        /\ waitQueue'[n + 1].workflowID = w
        /\ \A i \in 1 .. n : waitQueue'[i] = waitQueue[i]
    BY <1>t, <2>1
  <2>4. \A v : Queued(v)' <=> Queued(v) \/ v = w
    BY <2>3 DEF Queued
  <2>5. \A i, j \in 1 .. Len(waitQueue') :
           waitQueue'[i].workflowID = waitQueue'[j].workflowID => i = j
    <3> SUFFICES ASSUME NEW i \in 1 .. Len(waitQueue'),
                        NEW j \in 1 .. Len(waitQueue'),
                        waitQueue'[i].workflowID = waitQueue'[j].workflowID
                 PROVE  i = j
      OBVIOUS
    <3>1. \A l \in 1 .. n : waitQueue'[l].workflowID # w
      BY <2>2, <2>3 DEF Queued
    <3>2. (i \in 1 .. n \/ i = n + 1) /\ (j \in 1 .. n \/ j = n + 1)
      BY <2>3
    <3>3. CASE i \in 1 .. n /\ j \in 1 .. n
      BY <1>t, <2>3, <3>3 DEF WaitersAccounted
    <3> QED
      BY <2>3, <3>1, <3>2, <3>3
  <2> HIDE DEF n
  <2> QED
    BY <1>t, <2>1, <2>2, <2>4, <2>5 DEF WaitersAccounted, Holds
<1>6. ASSUME NEW w \in Workflows, ReserveReady(w)
      PROVE  WaitersAccounted'
  <2>1. /\ caller[w] = "waiting"
        /\ w \in ready
        /\ ready' = ready \ {w}
        /\ caller' = [caller EXCEPT ![w] = "holding"]
        /\ activeReservations' = activeReservations
        /\ waitQueue' = waitQueue
    BY <1>6 DEF ReserveReady
  <2>2. \A v : (Queued(v)' <=> Queued(v)) /\ (Holds(v)' <=> Holds(v))
    BY <2>1 DEF Queued, Holds
  <2>3. \A i, j \in 1 .. Len(waitQueue') :
           waitQueue'[i].workflowID = waitQueue'[j].workflowID => i = j
    BY <1>t, <2>1 DEF WaitersAccounted
  <2> QED
    BY <1>t, <2>1, <2>2, <2>3 DEF WaitersAccounted
<1>7. ASSUME NEW w \in Workflows, ReserveCtxDone(w)
      PROVE  WaitersAccounted'
  BY <1>7, <1>t DEF ReserveCtxDone, WaitersAccounted, Queued, Holds
<1>8. ASSUME NEW w \in Workflows, ReserveAbandoned(w)
      PROVE  WaitersAccounted'
  <2> DEFINE entries == {i \in 1 .. Len(waitQueue) :
                            waitQueue[i].workflowID = w}
  <2>1. /\ caller[w] = "cancelled"
        /\ ready' = ready \ {w}
        /\ caller' = [caller EXCEPT ![w] = "none"]
        /\ activeReservations' = activeReservations
    BY <1>8 DEF ReserveAbandoned
  <2>2. /\ ~Queued(w)'
        /\ \A v : v # w => (Queued(v)' <=> Queued(v))
        /\ \A i, j \in 1 .. Len(waitQueue') :
              waitQueue'[i].workflowID = waitQueue'[j].workflowID => i = j
    <3>1. CASE entries = {}
      <4>1. waitQueue' = waitQueue
        BY <1>8, <3>1 DEF ReserveAbandoned, removeFromQueue
      <4> QED
        BY <1>t, <3>1, <4>1 DEF Queued, WaitersAccounted
    <3>2. CASE entries # {}
      <4>1. PICK i \in entries :
               waitQueue' = [j \in 1 .. Len(waitQueue) - 1 |->
                               IF j < i THEN waitQueue[j] ELSE waitQueue[j + 1]]
        BY <1>8, <3>2 DEF ReserveAbandoned, removeFromQueue
      <4> DEFINE old(j) == IF j < i THEN j ELSE j + 1
      <4>2. /\ Len(waitQueue) \in Nat
            /\ i \in 1 .. Len(waitQueue)
            /\ waitQueue[i].workflowID = w
            /\ Len(waitQueue') = Len(waitQueue) - 1
        BY <1>t, <4>1
      <4>3. \A j \in 1 .. Len(waitQueue') :
               /\ old(j) \in 1 .. Len(waitQueue)
               /\ old(j) # i
               /\ waitQueue'[j] = waitQueue[old(j)]
        BY <4>1, <4>2
      <4>4. \A j, l \in 1 .. Len(waitQueue') : old(j) = old(l) => j = l
        BY <4>2
      <4>5. \A j, l \in 1 .. Len(waitQueue) :
               waitQueue[j].workflowID = waitQueue[l].workflowID => j = l
        BY <1>t DEF WaitersAccounted
      <4>6. \A j \in 1 .. Len(waitQueue) :
               j # i => \E l \in 1 .. Len(waitQueue') : old(l) = j
        <5> SUFFICES ASSUME NEW j \in 1 .. Len(waitQueue), j # i
                     PROVE  \E l \in 1 .. Len(waitQueue') : old(l) = j
          OBVIOUS
        <5>1. CASE j < i
          BY <4>2, <5>1
        <5>2. CASE j > i
          <6>1. j - 1 \in 1 .. Len(waitQueue') /\ old(j - 1) = j
            BY <4>2, <5>2
          <6> QED
            BY <6>1
        <5> QED
          BY <4>2, <5>1, <5>2
      <4> HIDE DEF old
      <4>7. ~Queued(w)'
        BY <4>2, <4>3, <4>5 DEF Queued
      <4>8. ASSUME NEW v, v # w PROVE Queued(v)' <=> Queued(v)
        <5>1. ASSUME Queued(v)' PROVE Queued(v)
          BY <4>3, <5>1 DEF Queued
        <5>2. ASSUME Queued(v) PROVE Queued(v)'
          <6>1. PICK j \in 1 .. Len(waitQueue) : waitQueue[j].workflowID = v
            BY <5>2 DEF Queued
          <6>2. j # i
            BY <4>2, <4>8, <6>1
          <6>3. PICK l \in 1 .. Len(waitQueue') : old(l) = j
            BY <4>6, <6>2
          <6>4. waitQueue'[l].workflowID = v
            BY <4>3, <6>1, <6>3
          <6> QED
            BY <6>4 DEF Queued
        <5> QED
          BY <5>1, <5>2
      <4>9. \A j, l \in 1 .. Len(waitQueue') :
               waitQueue'[j].workflowID = waitQueue'[l].workflowID => j = l
        BY <4>3, <4>4, <4>5
      <4> QED
        BY <4>7, <4>8, <4>9
    <3> QED
      BY <3>1, <3>2
  <2>3. \A v : Holds(v)' <=> Holds(v)
    BY <2>1 DEF Holds
  <2> QED
    BY <1>t, <2>1, <2>2, <2>3 DEF WaitersAccounted
<1>9. ASSUME NEW w \in Workflows, ConsumeWithOperation(w)
      PROVE  WaitersAccounted'
  <2>1. /\ DOMAIN activeReservations' = DOMAIN activeReservations
        /\ UNCHANGED <<waitQueue, ready, caller>>
    BY <1>9 DEF ConsumeWithOperation
  <2> QED
    BY <1>t, <2>1 DEF WaitersAccounted, Queued, Holds
<1>10. ASSUME NEW w \in Workflows, NEW newTotal \in 0 .. Limit,
              AdjustDown(w, newTotal)
       PROVE  WaitersAccounted'
  <2> DEFINE res == [activeReservations EXCEPT ![w].slotsReserved = newTotal]
  <2>1. /\ IsMap(res)
        /\ tryGrantWaiting(res)
        /\ DOMAIN res = DOMAIN activeReservations
        /\ caller' = caller
    BY <1>10, <1>t, MaxSlotsAssumption, LimitAssumption, SMTT(30)
    DEF AdjustDown, IsMap, Reservation
  <2> HIDE DEF res
  <2> QED
    BY <1>t, <2>1, TryGrantAccounts DEF Holds
<1>11. ASSUME NEW w \in Workflows, SignalComplete(w)
       PROVE  WaitersAccounted'
  <2> DEFINE res == [activeReservations EXCEPT ![w].completed = TRUE]
  <2>1. /\ IsMap(res)
        /\ tryGrantWaiting(res)
        /\ DOMAIN res = DOMAIN activeReservations
        /\ caller' = caller
    BY <1>11, <1>t DEF SignalComplete, IsMap, Reservation
  <2> HIDE DEF res
  <2> QED
    BY <1>t, <2>1, TryGrantAccounts DEF Holds
<1>12. ASSUME NEW w \in Workflows, Release(w)
       PROVE  WaitersAccounted'
  <2> DEFINE res == [v \in DOMAIN activeReservations \ {w} |->
                        activeReservations[v]]
  <2>1. /\ IsMap(res)
        /\ tryGrantWaiting(res)
        /\ DOMAIN res = DOMAIN activeReservations \ {w}
        /\ caller[w] = "holding"
        /\ caller' = [caller EXCEPT ![w] = "none"]
    BY <1>12, <1>t DEF Release, IsMap, Reservation
  <2>2. caller' \in [Workflows -> Callers]
    BY <1>t, <2>1 DEF Callers
  <2> HIDE DEF res
  <2> QED
    BY <1>t, <2>1, <2>2, TryGrantAccounts DEF Holds
<1>13. CASE UNCHANGED vars
  BY <1>13, <1>t DEF vars, WaitersAccounted, Queued, Holds
<1> QED
  BY <1>1, <1>2, <1>3, <1>4, <1>5, <1>6, <1>7, <1>8, <1>9, <1>10, <1>11,
     <1>12, <1>13
  DEF Next

-----------------------------------------------------------------------------
(* What a step may never do *)

\* Every step either leaves the reservations of others alone, or is a
\* tryGrantWaiting whose map keeps the other reservations and their charges.
LEMMA StepShape ==
    ASSUME AccountingInv, [Next]_vars
    PROVE  \/ \E res :
                 /\ IsMap(res)
                 /\ tryGrantWaiting(res)
                 /\ DOMAIN res \subseteq DOMAIN activeReservations
                 /\ \A w \in DOMAIN activeReservations :
                       \/ /\ w \in DOMAIN res
                          /\ res[w].slotsConsumed
                                = activeReservations[w].slotsConsumed
                       \/ caller[w] = "holding" /\ caller'[w] = "none"
           \/ /\ DOMAIN activeReservations \subseteq DOMAIN activeReservations'
              /\ \A w \in DOMAIN activeReservations :
                    activeReservations'[w].slotsConsumed
                       >= activeReservations[w].slotsConsumed
              /\ \A w \in DOMAIN activeReservations' :
                    w \in DOMAIN activeReservations \/ caller[w] = "none"
<1>t. /\ TypeOK
      /\ IsMap(activeReservations)
      /\ caller \in [Workflows -> Callers]
      /\ \A w \in DOMAIN activeReservations :
            activeReservations[w].slotsConsumed \in Nat
  BY DEF AccountingInv, TypeOK, IsMap, Reservation
<1>1. CASE windowResetWatcher
  BY <1>1, <1>t DEF windowResetWatcher
<1>2. ASSUME NEW w \in Workflows, NEW newTotal \in 0 .. Limit,
             AdjustDown(w, newTotal)
      PROVE  \E res :
                 /\ IsMap(res)
                 /\ tryGrantWaiting(res)
                 /\ DOMAIN res = DOMAIN activeReservations
                 /\ \A v \in DOMAIN activeReservations :
                       res[v].slotsConsumed = activeReservations[v].slotsConsumed
  <2> DEFINE res == [activeReservations EXCEPT ![w].slotsReserved = newTotal]
  <2>1. /\ IsMap(res)
        /\ tryGrantWaiting(res)
        /\ DOMAIN res = DOMAIN activeReservations
        /\ \A v \in DOMAIN activeReservations :
              res[v].slotsConsumed = activeReservations[v].slotsConsumed
    BY <1>2, <1>t, MaxSlotsAssumption, LimitAssumption
    DEF AdjustDown, IsMap, Reservation
  <2> HIDE DEF res
  <2> QED
    BY <2>1
<1>3. ASSUME NEW w \in Workflows, SignalComplete(w)
      PROVE  \E res :
                 /\ IsMap(res)
                 /\ tryGrantWaiting(res)
                 /\ DOMAIN res = DOMAIN activeReservations
                 /\ \A v \in DOMAIN activeReservations :
                       res[v].slotsConsumed = activeReservations[v].slotsConsumed
  <2> DEFINE res == [activeReservations EXCEPT ![w].completed = TRUE]
  <2>1. /\ IsMap(res)
        /\ tryGrantWaiting(res)
        /\ DOMAIN res = DOMAIN activeReservations
        /\ \A v \in DOMAIN activeReservations :
              res[v].slotsConsumed = activeReservations[v].slotsConsumed
    BY <1>3, <1>t DEF SignalComplete, IsMap, Reservation
  <2> HIDE DEF res
  <2> QED
    BY <2>1
<1>4. ASSUME NEW w \in Workflows, Release(w)
      PROVE  \E res :
                 /\ IsMap(res)
                 /\ tryGrantWaiting(res)
                 /\ DOMAIN res \subseteq DOMAIN activeReservations
                 /\ \A v \in DOMAIN activeReservations :
                       \/ /\ v \in DOMAIN res
                          /\ res[v].slotsConsumed
                                = activeReservations[v].slotsConsumed
                       \/ caller[v] = "holding" /\ caller'[v] = "none"
  <2> DEFINE res == [v \in DOMAIN activeReservations \ {w} |->
                        activeReservations[v]]
  <2>1. /\ IsMap(res)
        /\ tryGrantWaiting(res)
        /\ DOMAIN res = DOMAIN activeReservations \ {w}
        /\ \A v \in DOMAIN res : res[v] = activeReservations[v]
    BY <1>4, <1>t DEF Release, IsMap, Reservation
  <2>2. caller[w] = "holding" /\ caller'[w] = "none"
    BY <1>4, <1>t DEF Release
  <2> HIDE DEF res
  <2> QED
    BY <2>1, <2>2
<1>5. ASSUME NEW w \in Workflows, NEW count \in Counts, ReserveGranted(w, count)
      PROVE  /\ DOMAIN activeReservations' = DOMAIN activeReservations \cup {w}
             /\ caller[w] = "none"
             /\ \A v \in DOMAIN activeReservations :
                   activeReservations'[v] = activeReservations[v]
  BY <1>5 DEF ReserveGranted, CanReserve, Holds
<1>6. ASSUME NEW w \in Workflows, ConsumeWithOperation(w)
      PROVE  /\ DOMAIN activeReservations' = DOMAIN activeReservations
             /\ \A v \in DOMAIN activeReservations :
                   activeReservations'[v].slotsConsumed
                       >= activeReservations[v].slotsConsumed
  BY <1>6, <1>t DEF ConsumeWithOperation, Holds, IsMap, Reservation
<1>7. CASE activeReservations' = activeReservations
  BY <1>7, <1>t
<1>8. ASSUME NEW w \in Workflows,
             \/ \E count \in Counts : ReserveQueued(w, count)
             \/ ReserveReady(w)
             \/ ReserveCtxDone(w)
             \/ ReserveAbandoned(w)
      PROVE  activeReservations' = activeReservations
  BY <1>8 DEF ReserveQueued, ReserveReady, ReserveCtxDone, ReserveAbandoned
<1>9. ASSUME WindowElapses \/ Stats \/ UNCHANGED vars
      PROVE  activeReservations' = activeReservations
  BY <1>9 DEF WindowElapses, Stats, vars
<1>10. CASE \E w \in Workflows, count \in Counts : ReserveGranted(w, count)
  <2>1. PICK w \in Workflows, count \in Counts : ReserveGranted(w, count)
    BY <1>10
  <2>2. /\ DOMAIN activeReservations' = DOMAIN activeReservations \cup {w}
        /\ caller[w] = "none"
        /\ \A v \in DOMAIN activeReservations :
              activeReservations'[v] = activeReservations[v]
    BY <2>1, <1>5
  <2> QED
    BY <2>2, <1>t
<1>11. CASE \E w \in Workflows : ConsumeWithOperation(w)
  <2>1. PICK w \in Workflows : ConsumeWithOperation(w)
    BY <1>11
  <2>2. /\ DOMAIN activeReservations' = DOMAIN activeReservations
        /\ \A v \in DOMAIN activeReservations :
              activeReservations'[v].slotsConsumed
                  >= activeReservations[v].slotsConsumed
    BY <2>1, <1>6
  <2> QED
    BY <2>2
<1>12. CASE \E w \in Workflows :
               \/ \E newTotal \in 0 .. Limit : AdjustDown(w, newTotal)
               \/ SignalComplete(w)
               \/ Release(w)
  <2> SUFFICES ASSUME NEW w \in Workflows,
                      \/ \E newTotal \in 0 .. Limit : AdjustDown(w, newTotal)
                      \/ SignalComplete(w)
                      \/ Release(w)
               PROVE  \E res :
                          /\ IsMap(res)
                          /\ tryGrantWaiting(res)
                          /\ DOMAIN res \subseteq DOMAIN activeReservations
                          /\ \A v \in DOMAIN activeReservations :
                                \/ /\ v \in DOMAIN res
                                   /\ res[v].slotsConsumed
                                         = activeReservations[v].slotsConsumed
                                \/ caller[v] = "holding" /\ caller'[v] = "none"
    BY <1>12
  <2>1. CASE \E newTotal \in 0 .. Limit : AdjustDown(w, newTotal)
    <3>1. PICK newTotal \in 0 .. Limit : AdjustDown(w, newTotal)
      BY <2>1
    <3>2. PICK res : /\ IsMap(res)
                     /\ tryGrantWaiting(res)
                     /\ DOMAIN res = DOMAIN activeReservations
                     /\ \A v \in DOMAIN activeReservations :
                           res[v].slotsConsumed
                             = activeReservations[v].slotsConsumed
      BY <3>1, <1>2
    <3> QED
      BY <3>2
  <2>2. CASE SignalComplete(w)
    <3>1. PICK res : /\ IsMap(res)
                     /\ tryGrantWaiting(res)
                     /\ DOMAIN res = DOMAIN activeReservations
                     /\ \A v \in DOMAIN activeReservations :
                           res[v].slotsConsumed
                             = activeReservations[v].slotsConsumed
      BY <2>2, <1>3
    <3> QED
      BY <3>1
  <2>3. CASE Release(w)
    BY <2>3, <1>4
  <2> QED
    BY <2>1, <2>2, <2>3
<1> QED
  BY <1>1, <1>7, <1>8, <1>9, <1>10, <1>11, <1>12 DEF Next

\* What QueueIsFIFO asks of a step.
QueueStep ==
    \A j \in 1 .. Len(waitQueue) :
        waitQueue[j].workflowID \in DOMAIN activeReservations' =>
            \A i \in 1 .. j : waitQueue[i].workflowID \in DOMAIN activeReservations'

\* A step takes nobody out of the queue before those in front of it.
LEMMA StepServesQueue ==
    ASSUME AccountingInv, [Next]_vars
    PROVE  QueueStep
<1>t. /\ TypeOK
      /\ WaitersAccounted
      /\ Len(waitQueue) \in Nat
  BY DEF AccountingInv, TypeOK
<1> SUFFICES ASSUME NEW j \in 1 .. Len(waitQueue), NEW i \in 1 .. j,
                    waitQueue[j].workflowID \in DOMAIN activeReservations'
             PROVE  waitQueue[i].workflowID \in DOMAIN activeReservations'
  BY DEF QueueStep
<1>1. /\ waitQueue[j].workflowID \notin DOMAIN activeReservations
      /\ caller[waitQueue[j].workflowID] # "none"
  BY <1>t, QueuedHasNothing
<1>2. PICK res : /\ IsMap(res)
                 /\ tryGrantWaiting(res)
                 /\ DOMAIN res \subseteq DOMAIN activeReservations
  BY <1>1, StepShape
<1>3. PICK k \in 0 .. Len(waitQueue) :
         DOMAIN activeReservations'
             = DOMAIN res \cup {waitQueue[l].workflowID : l \in 1 .. k}
  BY <1>t, <1>2, TryGrantTakesPrefix
<1>4. PICK l \in 1 .. k : waitQueue[l].workflowID = waitQueue[j].workflowID
  BY <1>1, <1>2, <1>3
<1>5. l = j
  BY <1>t, <1>4 DEF WaitersAccounted
<1>6. i \in 1 .. k
  BY <1>t, <1>5
<1> QED
  BY <1>3, <1>6

\* What ReservationsSurvive asks of a step.
SurvivalStep ==
    \A w \in DOMAIN activeReservations :
        \/ /\ w \in DOMAIN activeReservations'
           /\ activeReservations'[w].slotsConsumed
                 >= activeReservations[w].slotsConsumed
        \/ caller[w] = "holding" /\ caller'[w] = "none"

\* A step ends only the reservation that its own workflow releases.
LEMMA StepKeepsReservations ==
    ASSUME AccountingInv, [Next]_vars
    PROVE  SurvivalStep
<1>t. /\ TypeOK
      /\ WaitersAccounted
      /\ Len(waitQueue) \in Nat
      /\ \A w \in DOMAIN activeReservations :
            activeReservations[w].slotsConsumed \in Nat
  BY DEF AccountingInv, TypeOK, Reservation
<1> SUFFICES ASSUME NEW w \in DOMAIN activeReservations,
                    ~(caller[w] = "holding" /\ caller'[w] = "none")
             PROVE  /\ w \in DOMAIN activeReservations'
                    /\ activeReservations'[w].slotsConsumed
                          >= activeReservations[w].slotsConsumed
  BY DEF SurvivalStep
<1>1. CASE \E res : /\ IsMap(res)
                    /\ tryGrantWaiting(res)
                    /\ w \in DOMAIN res
                    /\ res[w].slotsConsumed
                          = activeReservations[w].slotsConsumed
  <2>1. PICK res : /\ IsMap(res)
                   /\ tryGrantWaiting(res)
                   /\ w \in DOMAIN res
                   /\ res[w].slotsConsumed
                         = activeReservations[w].slotsConsumed
    BY <1>1
  <2>2. PICK k \in 0 .. Len(waitQueue) :
           LET granted == {waitQueue[l].workflowID : l \in 1 .. k}
           IN  /\ DOMAIN activeReservations' = DOMAIN res \cup granted
               /\ \A v \in DOMAIN res \ granted :
                     activeReservations'[v] = res[v]
    BY <1>t, <2>1, TryGrantTakesPrefix
  <2>3. \A l \in 1 .. k : waitQueue[l].workflowID # w
    <3> SUFFICES ASSUME NEW l \in 1 .. k PROVE waitQueue[l].workflowID # w
      OBVIOUS
    <3>1. l \in 1 .. Len(waitQueue)
      BY <1>t
    <3> QED
      BY <1>t, <3>1, QueuedHasNothing
  <2>4. activeReservations'[w] = res[w] /\ w \in DOMAIN activeReservations'
    BY <2>1, <2>2, <2>3
  <2> QED
    BY <1>t, <2>1, <2>4
<1>2. CASE /\ DOMAIN activeReservations \subseteq DOMAIN activeReservations'
           /\ activeReservations'[w].slotsConsumed
                  >= activeReservations[w].slotsConsumed
  BY <1>2
<1> QED
  BY <1>1, <1>2, StepShape

-----------------------------------------------------------------------------
(* The contract of each operation, as its callers rely on it *)

\* What a step of the workflows in S leaves to everybody else: who holds slots
\* keeps them as they are, who gets some gets what it queued for, and nobody is
\* queued anew.
Undisturbed(S) ==
    /\ \A v \in Workflows \ S :
          /\ caller'[v] = caller[v]
          /\ Holds(v) => Holds(v)' /\ activeReservations'[v] = activeReservations[v]
          /\ ~Holds(v) /\ Holds(v)' =>
                \E i \in 1 .. Len(waitQueue) :
                   /\ waitQueue[i].workflowID = v
                   /\ activeReservations'[v]
                         = NewReservation(waitQueue[i].requestedSlots)
    /\ \A i \in 1 .. Len(waitQueue') :
          waitQueue'[i].workflowID \in S
             \/ \E j \in 1 .. Len(waitQueue) : waitQueue'[i] = waitQueue[j]

\* The step only takes entries from the waiting queue.
NobodyQueues ==
    \A i \in 1 .. Len(waitQueue') :
        \E j \in 1 .. Len(waitQueue) : waitQueue'[i] = waitQueue[j]

\* A granted workflow gets the slots of its entry in the queue.
LEMMA GrantHeadsGives ==
    ASSUME TypeOK, NEW res, NEW k \in 0 .. Len(waitQueue),
           NEW w \in {waitQueue[i].workflowID : i \in 1 .. k}
    PROVE  \E i \in 1 .. Len(waitQueue) :
              /\ waitQueue[i].workflowID = w
              /\ GrantHeads(res, k)[w] = NewReservation(waitQueue[i].requestedSlots)
<1> DEFINE granted == {waitQueue[i].workflowID : i \in 1 .. k}
           position(v) == CHOOSE i \in 1 .. k : waitQueue[i].workflowID = v
<1>1. position(w) \in 1 .. k /\ waitQueue[position(w)].workflowID = w
  <2>1. \E i \in 1 .. k : waitQueue[i].workflowID = w
    OBVIOUS
  <2> QED
    BY <2>1
<1>2. GrantHeads(res, k)
         = [v \in DOMAIN res \cup granted |->
               IF v \in granted
               THEN NewReservation(waitQueue[position(v)].requestedSlots)
               ELSE res[v]]
  BY DEF GrantHeads
<1>3. GrantHeads(res, k)[w] = NewReservation(waitQueue[position(w)].requestedSlots)
  BY <1>2
<1>4. position(w) \in 1 .. Len(waitQueue)
  <2>1. Len(waitQueue) \in Nat
    BY DEF TypeOK
  <2> QED
    BY <1>1, <2>1
<1> HIDE DEF position
<1> QED
  BY <1>1, <1>3, <1>4

\* tryGrantWaiting leaves the map it is given as it is, but for those who queued.
LEMMA TryGrantLeaves ==
    ASSUME AccountingInv, NEW res, IsMap(res), tryGrantWaiting(res)
    PROVE  /\ \A v \in DOMAIN res :
                 (Holds(v) \/ ~Queued(v))
                    => Holds(v)' /\ activeReservations'[v] = res[v]
           /\ \A v : v \notin DOMAIN res /\ Holds(v)' =>
                 \E i \in 1 .. Len(waitQueue) :
                    /\ waitQueue[i].workflowID = v
                    /\ activeReservations'[v]
                          = NewReservation(waitQueue[i].requestedSlots)
           /\ NobodyQueues
<1>t. TypeOK /\ WaitersAccounted
  BY DEF AccountingInv
<1>1. CASE waitQueue = <<>>
  <2>1. activeReservations' = res /\ waitQueue' = waitQueue
    BY <1>1 DEF tryGrantWaiting
  <2> QED
    BY <2>1 DEF NobodyQueues, Holds
<1>2. CASE waitQueue # <<>>
  <2>1. PICK k \in 0 .. Len(waitQueue) :
           /\ activeReservations' = GrantHeads(res, k)
           /\ waitQueue' = SubSeq(waitQueue, k + 1, Len(waitQueue))
    BY <1>2 DEF tryGrantWaiting
  <2> DEFINE granted == {waitQueue[i].workflowID : i \in 1 .. k}
  <2>2. /\ DOMAIN activeReservations' = DOMAIN res \cup granted
        /\ \A w \in DOMAIN res \ granted : activeReservations'[w] = res[w]
    BY <1>t, <2>1, GrantHeadsMap
  <2>3. k \in Nat /\ Len(waitQueue) \in Nat /\ k <= Len(waitQueue)
    BY <1>t DEF TypeOK
  <2>4. ASSUME NEW v \in granted PROVE Queued(v) /\ ~Holds(v)
    <3>1. PICK i \in 1 .. k : waitQueue[i].workflowID = v
      OBVIOUS
    <3>2. i \in 1 .. Len(waitQueue)
      BY <2>3
    <3> QED
      BY <1>t, <3>1, <3>2, QueuedHasNothing DEF Queued, Holds
  <2>5. ASSUME NEW v \in granted
        PROVE  \E i \in 1 .. Len(waitQueue) :
                  /\ waitQueue[i].workflowID = v
                  /\ activeReservations'[v]
                        = NewReservation(waitQueue[i].requestedSlots)
    BY <1>t, <2>1, GrantHeadsGives
  <2>6. \A i \in 1 .. Len(waitQueue') :
           \E j \in 1 .. Len(waitQueue) : waitQueue'[i] = waitQueue[j]
    <3>1. /\ Len(waitQueue') = Len(waitQueue) - k
          /\ \A i \in 1 .. Len(waitQueue') : waitQueue'[i] = waitQueue[i + k]
      BY <1>t, <2>1 DEF TypeOK
    <3>2. \A i \in 1 .. Len(waitQueue') : i + k \in 1 .. Len(waitQueue)
      BY <2>3, <3>1
    <3> QED
      BY <3>1, <3>2
  <2> HIDE DEF granted
  <2> QED
    BY <2>2, <2>4, <2>5, <2>6 DEF NobodyQueues, Holds
<1> QED
  BY <1>1, <1>2

\* A workflow that is in no limiter call, or holds slots, is not in the queue.
LEMMA NotQueued ==
    ASSUME AccountingInv, NEW w \in Workflows, caller[w] \in {"none", "holding"}
    PROVE  ~Queued(w) /\ (caller[w] = "holding" => Holds(w))
  BY DEF AccountingInv, WaitersAccounted

\* The clock, Stats and the watcher disturb nobody.
LEMMA ClockContract ==
    ASSUME AccountingInv, WindowElapses \/ Stats \/ windowResetWatcher
    PROVE  Undisturbed({})
<1>t. /\ IsMap(activeReservations)
      /\ \A v \in DOMAIN activeReservations : Holds(v)
  BY DEF AccountingInv, TypeOK, IsMap, Holds
<1>1. CASE WindowElapses \/ Stats
  BY <1>1 DEF WindowElapses, Stats, Undisturbed, Holds
<1>2. CASE windowResetWatcher
  <2>1. tryGrantWaiting(activeReservations) /\ caller' = caller
    BY <1>2 DEF windowResetWatcher
  <2> QED
    BY <1>t, <2>1, TryGrantLeaves DEF Undisturbed, NobodyQueues, Holds
<1> QED
  BY <1>1, <1>2

\* Reserve that finds room.
LEMMA ReserveGrantedContract ==
    ASSUME AccountingInv, NEW w \in Workflows, NEW count, ReserveGranted(w, count)
    PROVE  /\ Undisturbed({w})
           /\ caller[w] = "none" /\ caller'[w] = "holding"
           /\ Holds(w)' /\ activeReservations'[w] = NewReservation(count)
           /\ waitQueue' = waitQueue
<1>1. caller \in [Workflows -> Callers]
  BY DEF AccountingInv, TypeOK
<1> QED
  BY <1>1 DEF ReserveGranted, CanReserve, Undisturbed, Holds

\* Reserve that queues itself.
LEMMA ReserveQueuedContract ==
    ASSUME AccountingInv, NEW w \in Workflows, NEW count \in Counts,
           ReserveQueued(w, count)
    PROVE  /\ Undisturbed({w})
           /\ caller[w] = "none" /\ caller'[w] = "waiting"
           /\ ~Holds(w)'
           /\ \A i \in 1 .. Len(waitQueue') :
                 \/ waitQueue'[i].workflowID = w /\ waitQueue'[i].requestedSlots = count
                 \/ \E j \in 1 .. Len(waitQueue) : waitQueue'[i] = waitQueue[j]
<1>1. caller \in [Workflows -> Callers] /\ waitQueue \in Seq(WaitingWorkflow)
  BY DEF AccountingInv, TypeOK
<1> DEFINE entry == [workflowID |-> w, requestedSlots |-> count]
<1>2. /\ waitQueue' = Append(waitQueue, entry)
      /\ caller[w] = "none" /\ ~Holds(w)
      /\ caller' = [caller EXCEPT ![w] = "waiting"]
      /\ activeReservations' = activeReservations
  BY DEF ReserveQueued, CanReserve
<1>3. entry \in WaitingWorkflow /\ entry.workflowID = w /\ entry.requestedSlots = count
  BY DEF WaitingWorkflow
<1> HIDE DEF entry
<1>4. \A i \in 1 .. Len(waitQueue') :
         waitQueue'[i] = entry \/ \E j \in 1 .. Len(waitQueue) : waitQueue'[i] = waitQueue[j]
  BY <1>1, <1>2, <1>3
<1> QED
  BY <1>1, <1>2, <1>3, <1>4 DEF Undisturbed, NobodyQueues, Holds

\* The ways out of a blocked Reserve move nothing but the caller.
LEMMA ReserveEndsContract ==
    ASSUME AccountingInv, NEW w \in Workflows,
           ReserveReady(w) \/ ReserveCtxDone(w) \/ ReserveAbandoned(w)
    PROVE  /\ Undisturbed({w})
           /\ activeReservations' = activeReservations
           /\ ReserveReady(w) =>
                 Holds(w) /\ caller[w] = "waiting" /\ caller'[w] = "holding"
           /\ ReserveCtxDone(w) => caller[w] = "waiting" /\ caller'[w] = "cancelled"
           /\ ReserveAbandoned(w) => caller[w] = "cancelled" /\ caller'[w] = "none"
           /\ NobodyQueues
<1>1. caller \in [Workflows -> Callers] /\ waitQueue \in Seq(WaitingWorkflow) /\ WaitersAccounted
  BY DEF AccountingInv, TypeOK
<1>2. activeReservations' = activeReservations
  BY DEF ReserveReady, ReserveCtxDone, ReserveAbandoned
<1>3. \A v \in Workflows \ {w} : caller'[v] = caller[v]
  BY <1>1 DEF ReserveReady, ReserveCtxDone, ReserveAbandoned
<1>4. \A i \in 1 .. Len(waitQueue') :
         \E j \in 1 .. Len(waitQueue) : waitQueue'[i] = waitQueue[j]
  <2>1. CASE waitQueue' = waitQueue
    BY <2>1
  <2>2. CASE ReserveAbandoned(w) /\ waitQueue' # waitQueue
    <3>1. PICK i \in 1 .. Len(waitQueue) :
             waitQueue' = [j \in 1 .. Len(waitQueue) - 1 |->
                              IF j < i THEN waitQueue[j] ELSE waitQueue[j + 1]]
      BY <2>2 DEF ReserveAbandoned, removeFromQueue
    <3>2. Len(waitQueue) \in Nat /\ Len(waitQueue) # 0
      BY <1>1, <3>1
    <3>3. Len(waitQueue') = Len(waitQueue) - 1
      BY <3>1, <3>2
    <3> QED
      BY <3>1, <3>2, <3>3
  <2> QED
    BY <2>1, <2>2 DEF ReserveReady, ReserveCtxDone
<1>5. ReserveReady(w) => Holds(w) /\ caller[w] = "waiting" /\ caller'[w] = "holding"
  BY <1>1 DEF ReserveReady, WaitersAccounted
<1>6. /\ ReserveCtxDone(w) => caller[w] = "waiting" /\ caller'[w] = "cancelled"
      /\ ReserveAbandoned(w) => caller[w] = "cancelled" /\ caller'[w] = "none"
  BY <1>1 DEF ReserveCtxDone, ReserveAbandoned
<1> QED
  BY <1>2, <1>3, <1>4, <1>5, <1>6 DEF Undisturbed, NobodyQueues, Holds

\* A call is charged to its own reservation.
LEMMA ConsumeContract ==
    ASSUME AccountingInv, NEW w \in Workflows, ConsumeWithOperation(w)
    PROVE  /\ Undisturbed({w})
           /\ UNCHANGED <<caller, waitQueue>>
           /\ Holds(w) /\ Holds(w)'
           /\ activeReservations'[w].slotsReserved = activeReservations[w].slotsReserved
           /\ activeReservations'[w].slotsConsumed
                 = activeReservations[w].slotsConsumed + 1
<1>1. activeReservations[w] \in Reservation
  BY DEF AccountingInv, TypeOK, ConsumeWithOperation, Holds
<1> QED
  BY <1>1 DEF ConsumeWithOperation, Undisturbed, Holds, Reservation

\* AdjustDown and SignalComplete change the caller's own reservation only.
LEMMA AdjustContract ==
    ASSUME AccountingInv, NEW w \in Workflows, NEW newTotal \in 0 .. Limit,
           AdjustDown(w, newTotal)
    PROVE  /\ Undisturbed({w})
           /\ NobodyQueues
           /\ caller' = caller
           /\ Holds(w) /\ Holds(w)'
           /\ activeReservations'[w].slotsReserved = newTotal
           /\ activeReservations'[w].slotsConsumed = activeReservations[w].slotsConsumed
<1> DEFINE res == [activeReservations EXCEPT ![w].slotsReserved = newTotal]
<1>1. /\ caller[w] = "holding" /\ Holds(w) /\ tryGrantWaiting(res) /\ caller' = caller
  BY DEF AdjustDown
<1>2. IsMap(activeReservations) /\ w \in DOMAIN activeReservations
  BY <1>1 DEF AccountingInv, TypeOK, IsMap, Holds
<1>3. /\ IsMap(res) /\ DOMAIN res = DOMAIN activeReservations
      /\ \A v \in DOMAIN res \ {w} : res[v] = activeReservations[v]
      /\ res[w].slotsReserved = newTotal
      /\ res[w].slotsConsumed = activeReservations[w].slotsConsumed
  BY <1>2, MaxSlotsAssumption, LimitAssumption DEF IsMap, Reservation
<1> HIDE DEF res
<1> QED
  BY <1>1, <1>2, <1>3, TryGrantLeaves DEF Undisturbed, NobodyQueues, Holds

\* SignalComplete leaves the slots of its caller.
LEMMA CompleteContract ==
    ASSUME AccountingInv, NEW w \in Workflows, SignalComplete(w)
    PROVE  /\ Undisturbed({w}) /\ NobodyQueues
           /\ caller' = caller
           /\ Holds(w) /\ Holds(w)'
           /\ activeReservations'[w].slotsReserved = activeReservations[w].slotsReserved
           /\ activeReservations'[w].slotsConsumed = activeReservations[w].slotsConsumed
<1> DEFINE res == [activeReservations EXCEPT ![w].completed = TRUE]
<1>1. /\ caller[w] = "holding" /\ Holds(w) /\ tryGrantWaiting(res) /\ caller' = caller
  BY DEF SignalComplete
<1>2. IsMap(activeReservations) /\ w \in DOMAIN activeReservations
  BY <1>1 DEF AccountingInv, TypeOK, IsMap, Holds
<1>3. /\ IsMap(res) /\ DOMAIN res = DOMAIN activeReservations
      /\ \A v \in DOMAIN res \ {w} : res[v] = activeReservations[v]
      /\ res[w].slotsReserved = activeReservations[w].slotsReserved
      /\ res[w].slotsConsumed = activeReservations[w].slotsConsumed
  BY <1>2 DEF IsMap, Reservation
<1> HIDE DEF res
<1> QED
  BY <1>1, <1>2, <1>3, TryGrantLeaves DEF Undisturbed, NobodyQueues, Holds

\* After Release its caller holds nothing, whoever is granted in the same step.
LEMMA ReleaseContract ==
    ASSUME AccountingInv, NEW w \in Workflows, Release(w)
    PROVE  /\ Undisturbed({w}) /\ NobodyQueues
           /\ caller[w] = "holding" /\ caller'[w] = "none"
           /\ ~Holds(w)'
<1> DEFINE res == [v \in DOMAIN activeReservations \ {w} |-> activeReservations[v]]
<1>1. /\ caller[w] = "holding" /\ Holds(w) /\ tryGrantWaiting(res)
      /\ caller' = [caller EXCEPT ![w] = "none"]
  BY DEF Release
<1>2. IsMap(activeReservations) /\ caller \in [Workflows -> Callers]
  BY DEF AccountingInv, TypeOK, IsMap
<1>3. /\ IsMap(res) /\ DOMAIN res = DOMAIN activeReservations \ {w}
      /\ \A v \in DOMAIN res : res[v] = activeReservations[v]
  BY <1>2 DEF IsMap
<1>4. ~Queued(w)
  BY <1>1, NotQueued
<1> HIDE DEF res
<1>5. ~Holds(w)'
  BY <1>1, <1>3, <1>4, TryGrantLeaves DEF Queued
<1> QED
  BY <1>1, <1>2, <1>3, <1>5, TryGrantLeaves DEF Undisturbed, NobodyQueues, Holds

-----------------------------------------------------------------------------
(* The whole interface: SpecWithExtend *)

\* Extend breaks the budget of the window (it does not look at the slots of
\* other workflows), so the proofs of this section never use WindowBudget.
ExtendStep(w) ==
    \/ \E additional \in Counts : ExtendGranted(w, additional)
    \/ \E additional \in Counts : ExtendBlocks(w, additional)
    \/ ExtendRetries(w)
    \/ ExtendCtxDone(w)

\* What a reservation must satisfy for every later charge to stay within it: it
\* is not overdrawn, and an Extend that waits with a total computed before it
\* unlocked will not shrink the reservation when it wakes up.
Sound(v) ==
    Holds(v) =>
        /\ activeReservations[v].slotsConsumed <= activeReservations[v].slotsReserved
        /\ caller[v] = "extending" =>
              activeReservations[v].slotsReserved <= extension[v].target

ExtendInv == AccountingInv /\ \A v \in Workflows : Sound(v)

\* Every step of Extend grows the reservation of its caller or leaves it, keeps
\* what was charged to it, and touches no other workflow and no queue entry.
LEMMA ExtendContract ==
    ASSUME ExtendInv, NEW w \in Workflows, ExtendStep(w)
    PROVE  /\ DOMAIN activeReservations' = DOMAIN activeReservations
           /\ w \in DOMAIN activeReservations
           /\ activeReservations'[w] \in Reservation
           /\ activeReservations[w].slotsReserved <= activeReservations'[w].slotsReserved
           /\ activeReservations'[w].slotsConsumed = activeReservations[w].slotsConsumed
           /\ \A v \in DOMAIN activeReservations \ {w} :
                 activeReservations'[v] = activeReservations[v]
           /\ UNCHANGED <<waitQueue, ready>>
           /\ caller[w] \in {"holding", "extending"}
<1>t. /\ caller[w] \in {"holding", "extending"}
      /\ w \in DOMAIN activeReservations
      /\ UNCHANGED <<waitQueue, ready>>
  <2>1. caller[w] = "extending" => w \in DOMAIN activeReservations
    BY DEF ExtendInv, AccountingInv, WaitersAccounted, Holds
  <2> QED
    BY <2>1 DEF ExtendStep, ExtendGranted, ExtendBlocks, ExtendRetries, ExtendCtxDone,
        ExtendReturns, Holds
<1>m. /\ activeReservations[w] \in Reservation
      /\ extension[w].target \in 0 .. MaxSlots
  BY <1>t DEF ExtendInv, AccountingInv, TypeOK
<1>s. ASSUME NEW total \in 0 .. MaxSlots, SetReserved(w, total),
             activeReservations[w].slotsReserved <= total
      PROVE  /\ DOMAIN activeReservations' = DOMAIN activeReservations
             /\ activeReservations'[w] \in Reservation
             /\ activeReservations[w].slotsReserved <= activeReservations'[w].slotsReserved
             /\ activeReservations'[w].slotsConsumed = activeReservations[w].slotsConsumed
             /\ \A v \in DOMAIN activeReservations \ {w} :
                   activeReservations'[v] = activeReservations[v]
  <2>1. /\ DOMAIN activeReservations' = DOMAIN activeReservations
        /\ activeReservations'[w] = [activeReservations[w] EXCEPT !.slotsReserved = total]
        /\ \A v \in DOMAIN activeReservations \ {w} :
              activeReservations'[v] = activeReservations[v]
    BY <1>s, <1>t DEF SetReserved
  <2> QED
    BY <1>s, <1>m, <2>1 DEF Reservation
<1>1. CASE \E additional \in Counts : ExtendGranted(w, additional)
  <2>1. PICK additional \in Counts : ExtendGranted(w, additional)
    BY <1>1
  <2> DEFINE total == activeReservations[w].slotsReserved + additional
  <2>2. total <= MaxSlots /\ SetReserved(w, total)
    BY <2>1 DEF ExtendGranted
  <2>3. additional \in Nat /\ activeReservations[w].slotsReserved \in Nat
    BY <1>m, CountsAssumption, MaxSlotsAssumption DEF Reservation
  <2>4. total \in 0 .. MaxSlots /\ activeReservations[w].slotsReserved <= total
    BY <2>2, <2>3, MaxSlotsAssumption
  <2> HIDE DEF total
  <2> QED
    BY <1>t, <1>s, <2>2, <2>4
<1>2. CASE ExtendRetries(w) /\ SetReserved(w, extension[w].target)
  <2>1. activeReservations[w].slotsReserved <= extension[w].target
    BY <1>2, <1>t DEF ExtendRetries, ExtendInv, Sound, Holds
  <2> QED
    BY <1>2, <1>t, <1>m, <1>s, <2>1
<1>3. CASE activeReservations' = activeReservations
  BY <1>3, <1>t, <1>m DEF Reservation
<1> QED
  BY <1>1, <1>2, <1>3 DEF ExtendStep, ExtendBlocks, ExtendRetries, ExtendCtxDone

\* Every step of Extend keeps the types and the accounting of the waiters.
LEMMA ExtendKeepsAccounting ==
    ASSUME ExtendInv, NEW w \in Workflows, ExtendStep(w)
    PROVE  AccountingInv'
<1>t. TypeOK /\ WaitersAccounted
  BY DEF ExtendInv, AccountingInv
<1>c. /\ DOMAIN activeReservations' = DOMAIN activeReservations
      /\ w \in DOMAIN activeReservations
      /\ activeReservations'[w] \in Reservation
      /\ \A v \in DOMAIN activeReservations \ {w} :
            activeReservations'[v] = activeReservations[v]
      /\ UNCHANGED <<waitQueue, ready>>
      /\ caller[w] \in {"holding", "extending"}
  BY ExtendContract
<1>1. /\ caller' \in [Workflows -> Callers]
      /\ caller'[w] \in {"holding", "extending"}
      /\ \A v \in Workflows \ {w} : caller'[v] = caller[v]
  BY <1>t, <1>c DEF ExtendStep, ExtendGranted, ExtendBlocks, ExtendRetries, ExtendCtxDone,
     ExtendReturns, TypeOK, Callers
<1>2. extension' \in [Workflows -> [target : 0 .. MaxSlots, due : BOOLEAN]]
  <2>1. extension \in [Workflows -> [target : 0 .. MaxSlots, due : BOOLEAN]]
    BY <1>t DEF TypeOK
  <2>2. NoExtension \in [target : 0 .. MaxSlots, due : BOOLEAN]
    BY MaxSlotsAssumption DEF NoExtension
  <2>3. ASSUME NEW additional \in Counts, ExtendBlocks(w, additional)
        PROVE  extension' \in [Workflows -> [target : 0 .. MaxSlots, due : BOOLEAN]]
    <3> DEFINE total == activeReservations[w].slotsReserved + additional
    <3>1. /\ total <= MaxSlots
          /\ extension' = [extension EXCEPT ![w] = [target |-> total, due |-> FALSE]]
      BY <2>3 DEF ExtendBlocks
    <3>2. activeReservations[w].slotsReserved \in Nat /\ additional \in Nat
      BY <1>t, <1>c, CountsAssumption, MaxSlotsAssumption DEF TypeOK, Reservation
    <3>3. total \in 0 .. MaxSlots
      BY <3>1, <3>2, MaxSlotsAssumption
    <3> HIDE DEF total
    <3> QED
      BY <2>1, <3>1, <3>3
  <2> QED
    BY <2>1, <2>2, <2>3 DEF ExtendStep, ExtendGranted, ExtendRetries, ExtendCtxDone,
       ExtendReturns
<1>3. consumed' \in Nat /\ elapsed' \in BOOLEAN
  <2>1. ConsumedAfterReset \in Nat
    BY <1>t DEF ConsumedAfterReset, TypeOK
  <2> QED
    BY <1>t, <2>1 DEF ExtendStep, ExtendGranted, ExtendBlocks, ExtendRetries, ExtendCtxDone,
       resetWindowIfNeeded, TypeOK
<1>4. TypeOK'
  BY <1>t, <1>c, <1>1, <1>2, <1>3 DEF TypeOK
<1>5. WaitersAccounted'
  <2>1. \A v : (Queued(v)' <=> Queued(v)) /\ (Holds(v)' <=> Holds(v))
    BY <1>c DEF Queued, Holds
  <2>2. \A i, j \in 1 .. Len(waitQueue') :
           waitQueue'[i].workflowID = waitQueue'[j].workflowID => i = j
    BY <1>t, <1>c DEF WaitersAccounted
  <2>3. ASSUME NEW v \in Workflows
        PROVE  /\ caller'[v] \in {"waiting", "cancelled"} =>
                     (Queued(v)' <=> v \notin ready') /\ (Holds(v)' <=> v \in ready')
               /\ caller'[v] \in {"none", "holding", "extending"} =>
                     ~Queued(v)' /\ v \notin ready'
               /\ caller'[v] \in {"holding", "extending"} => Holds(v)'
    BY <1>t, <1>c, <1>1, <2>1 DEF WaitersAccounted
  <2> QED
    BY <2>2, <2>3 DEF WaitersAccounted
<1> QED
  BY <1>4, <1>5 DEF AccountingInv

\* A step of others leaves a sound reservation sound, and what it grants is sound.
LEMMA OthersStaySound ==
    ASSUME AccountingInv, NEW S, Undisturbed(S), NEW v \in Workflows \ S, Sound(v),
           extension'[v].target = extension[v].target
    PROVE  Sound(v)'
<1>1. CASE Holds(v)
  BY <1>1 DEF Undisturbed, Sound
<1>2. CASE ~Holds(v) /\ Holds(v)'
  <2>1. PICK i \in 1 .. Len(waitQueue) :
           /\ waitQueue[i].workflowID = v
           /\ activeReservations'[v] = NewReservation(waitQueue[i].requestedSlots)
    BY <1>2 DEF Undisturbed
  <2>2. waitQueue[i] \in WaitingWorkflow
    BY DEF AccountingInv, TypeOK
  <2>3. waitQueue[i].requestedSlots \in Nat
    <3>1. waitQueue[i].requestedSlots \in Counts
      BY <2>2 DEF WaitingWorkflow
    <3>2. \A count \in Counts : count \in Nat
      BY CountsAssumption, MaxSlotsAssumption
    <3> QED
      BY <3>1, <3>2
  <2>4. /\ activeReservations'[v].slotsConsumed = 0
        /\ activeReservations'[v].slotsReserved = waitQueue[i].requestedSlots
    BY <2>1 DEF NewReservation
  <2>5. caller[v] \in {"waiting", "cancelled"}
    BY <2>1, QueuedHasNothing DEF AccountingInv
  <2>6. caller'[v] = caller[v]
    BY DEF Undisturbed
  <2> QED
    BY <2>3, <2>4, <2>5, <2>6 DEF Sound
<1> QED
  BY <1>1, <1>2 DEF Sound

\* Nothing but Extend itself touches the total a waiting Extend remembers.
LEMMA TargetsKept ==
    ASSUME TypeOK, [Next]_vars, NEW v \in Workflows
    PROVE  extension'[v].target = extension[v].target
<1>1. CASE WindowElapses
  <2>1. extension[v] \in [target : 0 .. MaxSlots, due : BOOLEAN]
    BY DEF TypeOK
  <2>2. \/ extension'[v] = [extension[v] EXCEPT !.due = TRUE]
        \/ extension'[v] = extension[v]
    BY <1>1 DEF WindowElapses
  <2> QED
    BY <2>1, <2>2
<1>2. CASE extension' = extension
  BY <1>2
<1> QED
  BY <1>1, <1>2 DEF Next, windowResetWatcher, Stats, ReserveGranted, ReserveQueued,
     ReserveReady, ReserveCtxDone, ReserveAbandoned, ConsumeWithOperation, AdjustDown,
     SignalComplete, Release, vars

\* Every call other than Extend keeps the reservations sound.
LEMMA UseStaysSound ==
    ASSUME ExtendInv, [Next]_vars, NEW v \in Workflows
    PROVE  Sound(v)'
<1>t. AccountingInv /\ TypeOK /\ Sound(v) /\ extension'[v].target = extension[v].target
  BY TargetsKept DEF ExtendInv, AccountingInv
<1>o. ASSUME NEW S, Undisturbed(S), v \notin S PROVE Sound(v)'
  BY <1>t, <1>o, OthersStaySound
<1>1. CASE WindowElapses \/ Stats \/ windowResetWatcher
  BY <1>1, <1>t, <1>o, ClockContract
<1>2. ASSUME NEW w \in Workflows, NEW count \in Counts, ReserveGranted(w, count)
      PROVE  Sound(v)'
  <2>1. /\ Undisturbed({w})
        /\ caller'[w] = "holding"
        /\ activeReservations'[w] = NewReservation(count)
    BY <1>2, <1>t, ReserveGrantedContract
  <2>2. count \in Nat
    BY CountsAssumption, MaxSlotsAssumption
  <2>3. NewReservation(count).slotsConsumed = 0 /\ NewReservation(count).slotsReserved = count
    BY DEF NewReservation
  <2>4. Sound(w)'
    BY <2>1, <2>2, <2>3 DEF Sound
  <2> QED
    BY <2>1, <2>4, <1>o
<1>3. ASSUME NEW w \in Workflows, NEW count \in Counts, ReserveQueued(w, count)
      PROVE  Sound(v)'
  <2>1. Undisturbed({w}) /\ ~Holds(w)'
    BY <1>3, <1>t, ReserveQueuedContract
  <2>2. Sound(w)'
    BY <2>1 DEF Sound
  <2> QED
    BY <2>1, <2>2, <1>o
<1>4. ASSUME NEW w \in Workflows,
             ReserveReady(w) \/ ReserveCtxDone(w) \/ ReserveAbandoned(w)
      PROVE  Sound(v)'
  <2>1. /\ Undisturbed({w})
        /\ activeReservations' = activeReservations
        /\ caller'[w] \in {"holding", "cancelled", "none"}
    BY <1>4, <1>t, ReserveEndsContract
  <2>2. Sound(w)
    BY DEF ExtendInv
  <2>3. Sound(w)'
    BY <2>1, <2>2 DEF Sound, Holds
  <2> QED
    BY <2>1, <2>3, <1>o
<1>5. ASSUME NEW w \in Workflows, ConsumeWithOperation(w)
      PROVE  Sound(v)'
  <2>1. /\ Undisturbed({w})
        /\ caller' = caller
        /\ Holds(w)
        /\ activeReservations'[w].slotsReserved = activeReservations[w].slotsReserved
        /\ activeReservations'[w].slotsConsumed
              = activeReservations[w].slotsConsumed + 1
    BY <1>5, <1>t, ConsumeContract
  <2>2. activeReservations[w].slotsConsumed < activeReservations[w].slotsReserved
    BY <1>5 DEF ConsumeWithOperation
  <2>3. Sound(w) /\ extension' = extension
    BY <1>5 DEF ExtendInv, ConsumeWithOperation
  <2>4. activeReservations[w] \in Reservation
    BY <1>t, <2>1 DEF TypeOK, Holds
  <2>5. activeReservations'[w].slotsConsumed <= activeReservations'[w].slotsReserved
    BY <2>1, <2>2, <2>4 DEF Reservation
  <2>6. Sound(w)'
    BY <2>1, <2>3, <2>5 DEF Sound
  <2> QED
    BY <2>1, <2>6, <1>o
<1>6. ASSUME NEW w \in Workflows, NEW newTotal \in 0 .. Limit, AdjustDown(w, newTotal)
      PROVE  Sound(v)'
  <2>1. /\ Undisturbed({w})
        /\ caller' = caller
        /\ activeReservations'[w].slotsReserved = newTotal
        /\ activeReservations'[w].slotsConsumed = activeReservations[w].slotsConsumed
    BY <1>6, <1>t, AdjustContract
  <2>2. caller[w] = "holding" /\ newTotal >= activeReservations[w].slotsConsumed
    BY <1>6 DEF AdjustDown
  <2>3. Sound(w)'
    BY <2>1, <2>2 DEF Sound
  <2> QED
    BY <2>1, <2>3, <1>o
<1>7. ASSUME NEW w \in Workflows, SignalComplete(w)
      PROVE  Sound(v)'
  <2>1. /\ Undisturbed({w})
        /\ caller' = caller
        /\ Holds(w)
        /\ activeReservations'[w].slotsReserved = activeReservations[w].slotsReserved
        /\ activeReservations'[w].slotsConsumed = activeReservations[w].slotsConsumed
    BY <1>7, <1>t, CompleteContract
  <2>2. caller[w] = "holding" /\ Sound(w)
    BY <1>7 DEF SignalComplete, ExtendInv
  <2>3. Sound(w)'
    BY <2>1, <2>2 DEF Sound
  <2> QED
    BY <2>1, <2>3, <1>o
<1>8. ASSUME NEW w \in Workflows, Release(w)
      PROVE  Sound(v)'
  <2>1. Undisturbed({w}) /\ ~Holds(w)'
    BY <1>8, <1>t, ReleaseContract
  <2>2. Sound(w)'
    BY <2>1 DEF Sound
  <2> QED
    BY <2>1, <2>2, <1>o
<1>9. CASE UNCHANGED vars
  BY <1>9, <1>t DEF vars, Sound, Holds
<1> QED
  BY <1>1, <1>2, <1>3, <1>4, <1>5, <1>6, <1>7, <1>8, <1>9 DEF Next

\* Every step of Extend keeps the reservations sound.
LEMMA ExtendStaysSound ==
    ASSUME ExtendInv, NEW w \in Workflows, ExtendStep(w), NEW v \in Workflows
    PROVE  Sound(v)'
<1>t. /\ TypeOK /\ Sound(v) /\ Sound(w)
      /\ extension \in [Workflows -> [target : 0 .. MaxSlots, due : BOOLEAN]]
      /\ caller \in [Workflows -> Callers]
  BY DEF ExtendInv, AccountingInv, TypeOK
<1>c. /\ DOMAIN activeReservations' = DOMAIN activeReservations
      /\ w \in DOMAIN activeReservations
      /\ activeReservations'[w] \in Reservation
      /\ activeReservations[w].slotsReserved <= activeReservations'[w].slotsReserved
      /\ activeReservations'[w].slotsConsumed = activeReservations[w].slotsConsumed
      /\ \A u \in DOMAIN activeReservations \ {w} :
            activeReservations'[u] = activeReservations[u]
  BY ExtendContract
<1>1. CASE v # w
  <2>1. caller'[v] = caller[v] /\ extension'[v] = extension[v]
    BY <1>1, <1>t DEF ExtendStep, ExtendGranted, ExtendBlocks, ExtendRetries,
       ExtendCtxDone, ExtendReturns
  <2> QED
    BY <1>1, <1>t, <1>c, <2>1 DEF Sound, Holds
<1>2. Sound(w)'
  <2>1. activeReservations[w] \in Reservation
    BY <1>t, <1>c DEF TypeOK
  <2>2. activeReservations'[w].slotsConsumed <= activeReservations'[w].slotsReserved
    <3>1. activeReservations[w].slotsConsumed <= activeReservations[w].slotsReserved
      BY <1>t, <1>c DEF Sound, Holds
    <3> QED
      BY <1>c, <2>1, <3>1 DEF Reservation
  <2>3. CASE \E additional \in Counts : ExtendBlocks(w, additional)
    <3>1. PICK additional \in Counts : ExtendBlocks(w, additional)
      BY <2>3
    <3> DEFINE total == activeReservations[w].slotsReserved + additional
    <3>2. /\ extension' = [extension EXCEPT ![w] = [target |-> total, due |-> FALSE]]
          /\ activeReservations' = activeReservations
      BY <3>1 DEF ExtendBlocks
    <3>3. activeReservations[w].slotsReserved <= total
      BY <2>1, CountsAssumption, MaxSlotsAssumption DEF Reservation
    <3> HIDE DEF total
    <3>4. extension'[w].target = total
      BY <1>t, <3>2
    <3> QED
      BY <2>2, <3>2, <3>3, <3>4 DEF Sound
  <2>4. CASE ~\E additional \in Counts : ExtendBlocks(w, additional)
    <3>1. caller'[w] = "holding"
      BY <1>t, <2>4 DEF ExtendStep, ExtendGranted, ExtendRetries, ExtendCtxDone,
         ExtendReturns
    <3> QED
      BY <2>2, <3>1 DEF Sound
  <2> QED
    BY <2>3, <2>4
<1> QED
  BY <1>1, <1>2

\* A step of the whole interface is one of the engine's calls or one of Extend.
LEMMA WholeInterface == [NextWithExtend]_vars <=> [Next]_vars \/ \E w \in Workflows : ExtendStep(w)
  BY DEF NextWithExtend, ExtendStep

\* The invariant of the whole interface.
LEMMA ExtendInvariant == SpecWithExtend => []ExtendInv
<1>1. Init => ExtendInv
  <2>1. Init => WaitersAccounted
    BY DEF Init, WaitersAccounted, Queued, Holds
  <2>2. Init => \A v \in Workflows : Sound(v)
    BY DEF Init, Sound, Holds
  <2> QED
    BY <2>1, <2>2, TypeInit DEF AccountingInv, ExtendInv
<1>2. ExtendInv /\ [NextWithExtend]_vars => ExtendInv'
  <2> SUFFICES ASSUME ExtendInv, [NextWithExtend]_vars PROVE ExtendInv'
    OBVIOUS
  <2>1. CASE [Next]_vars
    <3>1. AccountingInv'
      BY <2>1, TypeStep, AccountingStep DEF ExtendInv, AccountingInv
    <3> QED
      BY <2>1, <3>1, UseStaysSound DEF ExtendInv
  <2>2. ASSUME NEW w \in Workflows, ExtendStep(w) PROVE ExtendInv'
    BY <2>2, ExtendKeepsAccounting, ExtendStaysSound DEF ExtendInv
  <2> QED
    BY <2>1, <2>2, WholeInterface
<1> QED
  BY <1>1, <1>2, PTL DEF SpecWithExtend

\* What is shown here holds of the limiter as the engine uses it.
LEMMA EngineUse == Spec => SpecWithExtend
<1>1. [Next]_vars => [NextWithExtend]_vars
  BY WholeInterface
<1> QED
  BY <1>1, PTL DEF Spec, SpecWithExtend

\* No workflow ever charges more calls than it reserved, whatever order Consume,
\* AdjustDown and the two halves of Extend come in.
THEOREM ChargesWithinReservation == SpecWithExtend => []WithinReservation
<1>1. ExtendInv => WithinReservation
  BY DEF ExtendInv, AccountingInv, TypeOK, Sound, Holds, WithinReservation
<1> QED
  BY <1>1, ExtendInvariant, PTL

\* Type correctness of the limiter: every variable keeps its type in every
\* behaviour of its whole interface.
THEOREM TypeCorrect == SpecWithExtend => []TypeOK
<1>1. ExtendInv => TypeOK
  BY DEF ExtendInv, AccountingInv
<1> QED
  BY <1>1, ExtendInvariant, PTL

\* No wakeup is lost: whoever blocks in Reserve is queued exactly once until it
\* is signalled, and holds its slots from the moment it is.
THEOREM WaitersHold == SpecWithExtend => []WaitersAccounted
<1>1. ExtendInv => WaitersAccounted
  BY DEF ExtendInv, AccountingInv
<1> QED
  BY <1>1, ExtendInvariant, PTL

\* A queued workflow never overtakes one that was queued before it.
THEOREM QueueServedInOrder == SpecWithExtend => QueueIsFIFO
<1>1. ASSUME ExtendInv, [NextWithExtend]_vars
      PROVE  QueueStep
  <2>1. CASE [Next]_vars
    BY <1>1, <2>1, StepServesQueue DEF ExtendInv
  <2>2. ASSUME NEW w \in Workflows, ExtendStep(w)
        PROVE  QueueStep
    <3>1. DOMAIN activeReservations' = DOMAIN activeReservations
      BY <1>1, <2>2, ExtendContract
    <3>2. \A j \in 1 .. Len(waitQueue) :
             waitQueue[j].workflowID \notin DOMAIN activeReservations
      BY <1>1, QueuedHasNothing DEF ExtendInv, AccountingInv
    <3> QED
      BY <3>1, <3>2 DEF QueueStep
  <2> QED
    BY <1>1, <2>1, <2>2, WholeInterface
<1> QED
  BY <1>1, ExtendInvariant, PTL DEF SpecWithExtend, QueueIsFIFO, QueueStep

\* A reservation and its charges outlive every reset of the window and every
\* step of another workflow; only the Release of its owner ends it.
THEOREM ReservationsOutliveWindows == SpecWithExtend => ReservationsSurvive
<1>1. ASSUME ExtendInv, [NextWithExtend]_vars
      PROVE  SurvivalStep
  <2>1. CASE [Next]_vars
    BY <1>1, <2>1, StepKeepsReservations DEF ExtendInv
  <2>2. ASSUME NEW w \in Workflows, ExtendStep(w)
        PROVE  SurvivalStep
    <3>1. /\ DOMAIN activeReservations' = DOMAIN activeReservations
          /\ activeReservations'[w].slotsConsumed = activeReservations[w].slotsConsumed
          /\ \A v \in DOMAIN activeReservations \ {w} :
                activeReservations'[v] = activeReservations[v]
      BY <1>1, <2>2, ExtendContract
    <3>2. \A v \in DOMAIN activeReservations : activeReservations[v].slotsConsumed \in Nat
      BY <1>1 DEF ExtendInv, AccountingInv, TypeOK, Reservation
    <3> QED
      BY <3>1, <3>2 DEF SurvivalStep
  <2> QED
    BY <1>1, <2>1, <2>2, WholeInterface
<1> QED
  BY <1>1, ExtendInvariant, PTL DEF SpecWithExtend, ReservationsSurvive, SurvivalStep
=============================================================================
