------------------------ MODULE DealPipelineProofs ------------------------
(***************************************************************************)
(* Proofs about the engine under the limiter: it implements RateLimiter,   *)
(* keeps its budget, and has the slots it counts on, for every set of      *)
(* deals, list of bots, limit and number of workers.                       *)
(***************************************************************************)
EXTENDS DealPipeline, FiniteSetTheorems, TLAPS

\* The limiter with what is proved about it.
L == INSTANCE RateLimiterProofs
       WITH Workflows <- Deals \cup {Producer},
            Counts <- {2, Limit},
            MaxSlots <- Limit

Users == Deals \cup {Producer}

\* The engine's constants are ones the limiter was proved for.
LEMMA Constants ==
    /\ Limit \in Nat \ {0}
    /\ Limit \in Nat /\ Limit <= Limit
    /\ {2, Limit} \subseteq 1 .. Limit
    /\ L!IsFiniteSet(Deals \cup {Producer})
<1>1. IsFiniteSet(Deals \cup {Producer})
  BY PipelineAssumption, FS_AddElement
<1>2. L!IsFiniteSet(Deals \cup {Producer})
  BY <1>1 DEF IsFiniteSet, L!IsFiniteSet
<1> QED
  BY <1>2, PipelineAssumption

\* The limiter of the engine and the one proved about are the same.
LEMMA SameHelpers ==
    /\ Limiter!vars = L!vars
    /\ Limiter!Init <=> L!Init
    /\ Limiter!TypeOK <=> L!TypeOK
    /\ Limiter!WindowBudget <=> L!WindowBudget
    /\ \A w : Limiter!Holds(w) <=> L!Holds(w)
  BY DEF Limiter!vars, L!vars, Limiter!Init, L!Init, Limiter!TypeOK, L!TypeOK,
         Limiter!WindowBudget, L!WindowBudget, Limiter!Holds, L!Holds,
         Limiter!NewReservation, L!NewReservation, Limiter!NoExtension, L!NoExtension,
         Limiter!Reservation, L!Reservation, Limiter!WaitingWorkflow, L!WaitingWorkflow,
         Limiter!Callers, L!Callers, Limiter!UnspentSlots, L!UnspentSlots,
         Limiter!Cardinality, L!Cardinality

\* ... so is what time does to it: the window that ends, Stats and the watcher.
LEMMA SameClock ==
    /\ Limiter!WindowElapses <=> L!WindowElapses
    /\ Limiter!Stats <=> L!Stats
    /\ Limiter!windowResetWatcher <=> L!windowResetWatcher
  BY DEF Limiter!WindowElapses, L!WindowElapses, Limiter!Stats, L!Stats,
         Limiter!windowResetWatcher, L!windowResetWatcher, Limiter!tryGrantWaiting,
         L!tryGrantWaiting, Limiter!resetWindowIfNeeded, L!resetWindowIfNeeded,
         Limiter!ConsumedAfterReset, L!ConsumedAfterReset, Limiter!Grantable, L!Grantable,
         Limiter!GrantHeads, L!GrantHeads, Limiter!NewReservation, L!NewReservation,
         Limiter!calculateTotalReserved, L!calculateTotalReserved,
         Limiter!ReservedSlots, L!ReservedSlots, Limiter!Cardinality, L!Cardinality

\* ... so is every part of Reserve.
LEMMA SameReserve ==
    ASSUME NEW w, NEW count
    PROVE  /\ Limiter!ReserveGranted(w, count) <=> L!ReserveGranted(w, count)
           /\ Limiter!ReserveQueued(w, count) <=> L!ReserveQueued(w, count)
           /\ Limiter!ReserveReady(w) <=> L!ReserveReady(w)
           /\ Limiter!ReserveCtxDone(w) <=> L!ReserveCtxDone(w)
           /\ Limiter!ReserveAbandoned(w) <=> L!ReserveAbandoned(w)
  BY DEF Limiter!ReserveGranted, L!ReserveGranted, Limiter!ReserveQueued, L!ReserveQueued,
         Limiter!ReserveReady, L!ReserveReady, Limiter!ReserveCtxDone, L!ReserveCtxDone,
         Limiter!ReserveAbandoned, L!ReserveAbandoned, Limiter!removeFromQueue,
         L!removeFromQueue, Limiter!CanReserve, L!CanReserve, Limiter!Holds, L!Holds,
         Limiter!Fits, L!Fits, Limiter!resetWindowIfNeeded, L!resetWindowIfNeeded,
         Limiter!ConsumedAfterReset, L!ConsumedAfterReset, Limiter!NewReservation,
         L!NewReservation, Limiter!calculateTotalReserved, L!calculateTotalReserved,
         Limiter!ReservedSlots, L!ReservedSlots, Limiter!Cardinality, L!Cardinality

\* ... and every operation on slots that were granted.
LEMMA SameUse ==
    ASSUME NEW w, NEW newTotal
    PROVE  /\ Limiter!ConsumeWithOperation(w) <=> L!ConsumeWithOperation(w)
           /\ Limiter!AdjustDown(w, newTotal) <=> L!AdjustDown(w, newTotal)
           /\ Limiter!SignalComplete(w) <=> L!SignalComplete(w)
           /\ Limiter!Release(w) <=> L!Release(w)
  BY DEF Limiter!ConsumeWithOperation, L!ConsumeWithOperation, Limiter!AdjustDown,
         L!AdjustDown, Limiter!SignalComplete, L!SignalComplete, Limiter!Release, L!Release,
         Limiter!InUse, L!InUse, Limiter!Holds, L!Holds, Limiter!tryGrantWaiting,
         L!tryGrantWaiting, Limiter!resetWindowIfNeeded, L!resetWindowIfNeeded,
         Limiter!ConsumedAfterReset, L!ConsumedAfterReset, Limiter!Grantable, L!Grantable,
         Limiter!GrantHeads, L!GrantHeads, Limiter!NewReservation, L!NewReservation,
         Limiter!calculateTotalReserved, L!calculateTotalReserved,
         Limiter!ReservedSlots, L!ReservedSlots, Limiter!Cardinality, L!Cardinality

\* The two limiters take the same steps.
LEMMA SameNext == Limiter!Next <=> L!Next
  BY SameClock, SameReserve, SameUse DEF Limiter!Next, L!Next

-----------------------------------------------------------------------------
(* Refinement *)

\* AdjustDown of the engine is one of the limiter, or changes nothing.
LEMMA AdjustIsLimiterStep ==
    ASSUME L!AccountingInv, NEW w \in Users, NEW newTotal \in Nat,
           AdjustDown(w, newTotal)
    PROVE  \/ newTotal \in 0 .. Limit /\ L!AdjustDown(w, newTotal)
           \/ /\ \/ newTotal < activeReservations[w].slotsConsumed
                 \/ newTotal >= activeReservations[w].slotsReserved
              /\ UNCHANGED limiterVars
<1>1. CASE L!AdjustDown(w, newTotal)
  <2>1. L!Holds(w) /\ newTotal < activeReservations[w].slotsReserved
    BY <1>1 DEF L!AdjustDown
  <2>2. activeReservations[w].slotsReserved \in 0 .. Limit
    BY <2>1 DEF L!AccountingInv, L!TypeOK, L!Holds, L!Reservation
  <2>3. newTotal \in 0 .. Limit
    BY <2>1, <2>2, PipelineAssumption
  <2> QED
    BY <1>1, <2>3
<1> QED
  BY <1>1, SameUse DEF AdjustDown

\* What the engine does to the limiter is a step of the limiter, or none.
LEMMA ImplementsLimiter ==
    ASSUME L!AccountingInv, [Next]_vars
    PROVE  [L!Next]_(L!vars)
<1> USE DEF Users
<1>u. ASSUME UNCHANGED limiterVars PROVE [L!Next]_(L!vars)
  BY <1>u DEF limiterVars, L!vars
<1>n. 1 + Len(BotList) \in Nat
  BY PipelineAssumption
<1>a. ASSUME NEW w \in Users, NEW newTotal \in Nat, AdjustDown(w, newTotal)
      PROVE  [L!Next]_(L!vars)
  BY <1>a, <1>u, AdjustIsLimiterStep DEF L!Next
<1>1. CASE Clock \/ Watcher
  BY <1>1, SameClock DEF Clock, Watcher, L!Next
<1>2. CASE Produce
  <2>1. CASE ProduceStarts
    BY <2>1, SameClock DEF ProduceStarts, L!Next
  <2>2. CASE ProduceReserves
    BY <2>2, SameReserve DEF ProduceReserves, L!Next
  <2>3. CASE ProduceGranted
    BY <2>3, SameReserve DEF ProduceGranted, L!Next
  <2>4. CASE ProduceListsBots
    BY <2>4, <1>u, SameUse DEF ProduceListsBots, L!Next
  <2>5. CASE ProduceHasBots \/ ProduceWaits
    BY <2>5, <1>u DEF ProduceHasBots, ProduceWaits
  <2>6. CASE ProduceAdjusts
    BY <2>6, <1>a, <1>n DEF ProduceAdjusts
  <2>7. CASE ProduceCompletes \/ ProduceReleases
    BY <2>7, SameUse DEF ProduceCompletes, ProduceReleases, L!Next
  <2> QED
    BY <1>2, <2>1, <2>2, <2>3, <2>4, <2>5, <2>6, <2>7 DEF Produce
<1>3. ASSUME NEW i \in 1 .. Len(BotList), Poll(i) PROVE [L!Next]_(L!vars)
  <2>1. CASE BotConsumes(BotList[i])
    BY <2>1, <1>u, SameUse DEF BotConsumes, L!Next
  <2>2. CASE BotStarts(i) \/ BotAnswered(BotList[i]) \/ BotFinishes(BotList[i])
               \/ \E d \in Deals : BotAddsDeal(BotList[i], d)
    BY <2>2, <1>u DEF BotStarts, BotAnswered, BotFinishes, BotAddsDeal
  <2> QED
    BY <1>3, <2>1, <2>2 DEF Poll
<1>4. CASE WorkerGets
  BY <1>4, <1>u DEF WorkerGets
<1>5. ASSUME NEW d \in Deals, Handle(d) PROVE [L!Next]_(L!vars)
  <2>1. CASE DealReserves(d)
    BY <2>1, <1>u, SameReserve DEF DealReserves, L!Next
  <2>2. CASE DealGranted(d) \/ DealAbandons(d)
    BY <2>2, SameReserve DEF DealGranted, DealAbandons, L!Next
  <2>3. CASE DealConsumes(d)
    BY <2>3, <1>u, SameUse DEF DealConsumes, L!Next
  <2>4. CASE DealAnswered(d) \/ DealProcessed(d) \/ WorkerFinishes(d)
    BY <2>4, <1>u DEF DealAnswered, DealProcessed, WorkerFinishes
  <2>5. CASE DealAdjusts(d)
    BY <2>5, <1>a DEF DealAdjusts
  <2>6. CASE DealCompletes(d) \/ DealReleases(d)
    BY <2>6, SameUse DEF DealCompletes, DealReleases, L!Next
  <2> QED
    BY <1>5, <2>1, <2>2, <2>3, <2>4, <2>5, <2>6 DEF Handle
<1>6. ASSUME NEW d \in Deals, DealDeadline(d) PROVE [L!Next]_(L!vars)
  BY <1>6, SameReserve DEF DealDeadline, L!Next
<1>7. ASSUME NEW d \in Deals, BackoffEnds(d) PROVE [L!Next]_(L!vars)
  BY <1>7, <1>u DEF BackoffEnds
<1>8. CASE UNCHANGED vars
  BY <1>8, <1>u DEF vars
<1> QED
  BY <1>1, <1>2, <1>3, <1>4, <1>5, <1>6, <1>7, <1>8 DEF Next

\* The limiter's own invariant holds of the engine.
LEMMA LimiterInvariant == Spec => []L!AccountingInv
<1>1. Init => L!AccountingInv
  <2>1. Init => L!Init
    BY SameHelpers DEF Init
  <2>2. L!Init => L!TypeOK
    BY Constants, L!TypeInit
  <2>3. L!Init => L!WaitersAccounted
    BY DEF L!Init, L!WaitersAccounted, L!Queued, L!Holds
  <2> QED
    BY <2>1, <2>2, <2>3 DEF L!AccountingInv
<1>2. L!AccountingInv /\ [Next]_vars => L!AccountingInv'
  BY Constants, ImplementsLimiter, L!TypeStep, L!AccountingStep DEF L!AccountingInv
<1> QED
  BY <1>1, <1>2, PTL DEF Spec

\* The engine uses the limiter only in the ways its specification allows.
THEOREM EngineRefinesLimiter == Spec => LimiterRefined
<1>1. Init => Limiter!Init
  BY DEF Init
<1>2. L!AccountingInv /\ [Next]_vars => [Limiter!Next]_(Limiter!vars)
  BY ImplementsLimiter, SameNext DEF Limiter!vars, L!vars
<1> QED
  BY <1>1, <1>2, LimiterInvariant, PTL DEF Spec, LimiterRefined, Limiter!Spec

\* The calls of the engine and those it may still make never pass the limit.
THEOREM EngineWithinBudget == Spec => []WindowBudget
<1>1. Init => L!BudgetInv
  <2>1. Init => L!Init
    BY SameHelpers DEF Init
  <2> QED
    BY <2>1, Constants, L!BudgetInit
<1>2. L!AccountingInv /\ L!BudgetInv /\ [Next]_vars => L!BudgetInv'
  BY Constants, ImplementsLimiter, L!BudgetStep
<1>3. L!BudgetInv => WindowBudget
  BY SameHelpers DEF L!BudgetInv, WindowBudget
<1> QED
  BY <1>1, <1>2, <1>3, LimiterInvariant, PTL DEF Spec

-----------------------------------------------------------------------------
(* The work queue: a key is handed out to one worker at a time *)

\* The types of the work queue's variables and of what the workers keep.
QueueTyped ==
    /\ queue \in Seq(Deals)
    /\ dirty \subseteq Deals /\ processing \subseteq Deals /\ delayed \subseteq Deals
    /\ requeues \in [Deals -> 0 .. MaxRequeues]
    /\ work \in [Deals -> WorkStates]
    /\ outcome \in [Deals -> {"ok", "error", "canceled"}]
    /\ found \in [Bots -> SUBSET Deals]

\* The queue holds dirty keys that are with no worker, each once; a key that is being
\* worked on is in processing.
KeysOnce ==
    /\ \A i \in 1 .. Len(queue) : queue[i] \in dirty \ processing
    /\ \A i, j \in 1 .. Len(queue) : queue[i] = queue[j] => i = j
    /\ \A d \in Deals : work[d] # "none" => d \in processing

\* The work queue's part of the invariant.
WorkQueueInv == QueueTyped /\ KeysOnce

\* Add, from the ticker or after a backoff.
LEMMA AddKeeps ==
    ASSUME WorkQueueInv, NEW d \in Deals, Add(d), UNCHANGED <<processing, work>>
    PROVE  KeysOnce' /\ queue' \in Seq(Deals) /\ dirty' \subseteq Deals
<1>t. queue \in Seq(Deals) /\ dirty \subseteq Deals
  BY DEF WorkQueueInv, QueueTyped
<1>1. CASE d \in dirty
  BY <1>1, <1>t DEF Add, WorkQueueInv, KeysOnce
<1>2. CASE d \notin dirty
  <2>1. dirty' = dirty \cup {d} /\ queue' = IF d \in processing THEN queue ELSE Append(queue, d)
    BY <1>2 DEF Add
  <2>2. \A i \in 1 .. Len(queue) : queue[i] # d
    BY <1>2 DEF WorkQueueInv, KeysOnce
  <2>3. CASE d \in processing
    BY <2>1, <2>3, <1>t DEF WorkQueueInv, KeysOnce
  <2>4. CASE d \notin processing
    <3>1. queue' = Append(queue, d) /\ queue' \in Seq(Deals)
      BY <2>1, <2>4, <1>t
    <3>2. /\ Len(queue') = Len(queue) + 1 /\ Len(queue) \in Nat
          /\ queue'[Len(queue')] = d
          /\ \A i \in 1 .. Len(queue) : queue'[i] = queue[i]
      BY <3>1, <1>t
    <3> QED
      BY <1>t, <2>1, <2>2, <2>4, <3>1, <3>2 DEF WorkQueueInv, KeysOnce
  <2> QED
    BY <2>3, <2>4
<1> QED
  BY <1>1, <1>2

\* Add, Get and Done, in the order ticker, backoff and workers call them, keep the keys
\* of the work queue apart.
LEMMA WorkQueueStep == WorkQueueInv /\ [Next]_vars => WorkQueueInv'
<1> SUFFICES ASSUME WorkQueueInv, [Next]_vars PROVE WorkQueueInv'
  OBVIOUS
<1>t. /\ queue \in Seq(Deals) /\ Len(queue) \in Nat
      /\ dirty \subseteq Deals /\ processing \subseteq Deals /\ delayed \subseteq Deals
      /\ requeues \in [Deals -> 0 .. MaxRequeues]
      /\ work \in [Deals -> WorkStates]
      /\ outcome \in [Deals -> {"ok", "error", "canceled"}]
      /\ found \in [Bots -> SUBSET Deals]
  BY DEF WorkQueueInv, QueueTyped
<1>w. WorkStates = {"none", "reserve", "blocked", "get", "getting", "adjust",
                    "process", "complete", "release", "finish"}
  BY DEF WorkStates
<1>u. ASSUME UNCHANGED <<queueVars, workVars>>, found' \in [Bots -> SUBSET Deals]
      PROVE  WorkQueueInv'
  BY <1>u DEF queueVars, workVars, WorkQueueInv, QueueTyped, KeysOnce
\* A deal that moves from one step of HandleDeal to the next.
<1>g. ASSUME NEW d \in Deals, NEW l \in WorkStates, work[d] # "none", Goto(d, l),
             outcome' \in [Deals -> {"ok", "error", "canceled"}],
             UNCHANGED <<queueVars, found>>
      PROVE  WorkQueueInv'
  BY <1>g, <1>t DEF Goto, queueVars, WorkQueueInv, QueueTyped, KeysOnce
<1>f. ASSUME NEW d \in Deals, NEW err \in {"error", "canceled"}, Fails(d, err)
      PROVE  outcome' \in [Deals -> {"ok", "error", "canceled"}]
  BY <1>f, <1>t DEF Fails
<1>1. CASE Clock \/ Watcher \/ Produce
  BY <1>1, <1>t, <1>u
  DEF Clock, Watcher, Produce, ProduceStarts, ProduceReserves, ProduceGranted,
      ProduceListsBots, ProduceHasBots, ProduceAdjusts, ProduceWaits, ProduceCompletes,
      ProduceReleases, producerVars
<1>2. ASSUME NEW i \in 1 .. Len(BotList), Poll(i) PROVE WorkQueueInv'
  <2> DEFINE b == BotList[i]
  <2>1. b \in Bots
    BY DEF Bots
  <2>2. CASE BotStarts(i) \/ BotConsumes(b) \/ BotFinishes(b)
    BY <2>2, <1>t, <1>u DEF BotStarts, BotConsumes, BotFinishes
  <2>3. CASE BotAnswered(b)
    <3>1. found' \in [Bots -> SUBSET Deals]
      BY <2>3, <1>t DEF BotAnswered
    <3> QED
      BY <2>3, <3>1, <1>u DEF BotAnswered
  <2>4. ASSUME NEW d \in Deals, BotAddsDeal(b, d) PROVE WorkQueueInv'
    <3>1. Add(d) /\ UNCHANGED <<processing, delayed, requeues, work, outcome>>
      BY <2>4 DEF BotAddsDeal, workVars
    <3>2. found' \in [Bots -> SUBSET Deals]
      BY <2>1, <2>4, <1>t DEF BotAddsDeal
    <3> QED
      BY <1>t, <3>1, <3>2, AddKeeps DEF WorkQueueInv, QueueTyped
  <2> QED
    BY <1>2, <2>2, <2>3, <2>4 DEF Poll
<1>3. CASE WorkerGets
  <2> DEFINE d == Head(queue)
  <2>1. /\ queue # <<>> /\ queue' = Tail(queue) /\ dirty' = dirty \ {d}
        /\ processing' = processing \cup {d}
        /\ work' = [work EXCEPT ![d] = "reserve"]
        /\ UNCHANGED <<delayed, requeues, outcome, found>>
    BY <1>3 DEF WorkerGets, producerVars
  <2>2. /\ d \in Deals /\ d = queue[1] /\ 1 \in 1 .. Len(queue)
        /\ queue' \in Seq(Deals) /\ Len(queue') = Len(queue) - 1
        /\ \A i \in 1 .. Len(queue') : queue'[i] = queue[i + 1] /\ i + 1 \in 1 .. Len(queue)
    BY <2>1, <1>t
  <2>3. \A i \in 1 .. Len(queue') : queue'[i] \in dirty \ processing /\ queue'[i] # d
    <3>1. \A i \in 1 .. Len(queue') : queue[i + 1] # queue[1]
      BY <2>2, <1>t DEF WorkQueueInv, KeysOnce
    <3> QED
      BY <2>2, <3>1 DEF WorkQueueInv, KeysOnce
  <2>4. \A i, j \in 1 .. Len(queue') : queue'[i] = queue'[j] => i = j
    <3> SUFFICES ASSUME NEW i \in 1 .. Len(queue'), NEW j \in 1 .. Len(queue'),
                        queue'[i] = queue'[j]
                 PROVE  i = j
      OBVIOUS
    <3>1. i + 1 = j + 1
      BY <2>2, SMTT(30) DEF WorkQueueInv, KeysOnce
    <3> QED
      BY <3>1, <2>2, <1>t
  <2> HIDE DEF d
  <2> QED
    BY <1>t, <1>w, <2>1, <2>2, <2>3, <2>4 DEF WorkQueueInv, QueueTyped, KeysOnce
<1>4. ASSUME NEW d \in Deals, Handle(d) \/ DealDeadline(d) PROVE WorkQueueInv'
  <2>1. CASE DealReserves(d)
    BY <2>1, <1>t, <1>w, <1>g, <1>f DEF DealReserves, producerVars
  <2>2. CASE DealGranted(d)
    BY <2>2, <1>t, <1>w, <1>g DEF DealGranted, producerVars
  <2>3. CASE DealAbandons(d)
    BY <2>3, <1>t, <1>w, <1>g, <1>f DEF DealAbandons, producerVars
  <2>4. CASE DealConsumes(d)
    BY <2>4, <1>t, <1>w, <1>g, <1>f DEF DealConsumes, producerVars
  <2>5. CASE DealAnswered(d)
    BY <2>5, <1>t, <1>w, <1>g, <1>f DEF DealAnswered, producerVars
  <2>6. CASE DealAdjusts(d)
    BY <2>6, <1>t, <1>w, <1>g DEF DealAdjusts, producerVars
  <2>7. CASE DealProcessed(d)
    BY <2>7, <1>t, <1>w, <1>g, <1>f DEF DealProcessed, producerVars
  <2>8. CASE DealCompletes(d) \/ DealReleases(d)
    BY <2>8, <1>t, <1>w, <1>g DEF DealCompletes, DealReleases, producerVars
  <2>9. CASE WorkerFinishes(d)
    <3>1. /\ processing' = processing \ {d} /\ dirty' = dirty
          /\ queue' = IF d \in dirty THEN Append(queue, d) ELSE queue
          /\ work' = [work EXCEPT ![d] = "none"] /\ work[d] = "finish"
          /\ outcome' = [outcome EXCEPT ![d] = "ok"]
          /\ found' = found
      BY <2>9 DEF WorkerFinishes, Done, Goto, producerVars
    <3>2. delayed' \subseteq Deals /\ requeues' \in [Deals -> 0 .. MaxRequeues]
      <4>1. requeues[d] \in 0 .. MaxRequeues /\ MaxRequeues \in Nat
        BY <1>t, PipelineAssumption
      <4>2. CASE outcome[d] = "error" /\ requeues[d] < MaxRequeues
        <5>1. /\ requeues' = [requeues EXCEPT ![d] = requeues[d] + 1]
              /\ delayed' = delayed \cup {d}
          BY <2>9, <4>2 DEF WorkerFinishes
        <5>2. requeues[d] + 1 \in 0 .. MaxRequeues
          BY <4>1, <4>2
        <5> QED
          BY <5>1, <5>2, <1>t
      <4>3. CASE ~(outcome[d] = "error" /\ requeues[d] < MaxRequeues)
        <5>1. requeues' = [requeues EXCEPT ![d] = 0] /\ delayed' = delayed
          BY <2>9, <4>3 DEF WorkerFinishes
        <5>2. 0 \in 0 .. MaxRequeues
          BY <4>1
        <5> QED
          BY <5>1, <5>2, <1>t
      <4> QED
        BY <4>2, <4>3
    <3>3. d \in processing /\ \A i \in 1 .. Len(queue) : queue[i] # d
      BY <3>1 DEF WorkQueueInv, KeysOnce
    <3>4. QueueTyped'
      <4>1. queue' \in Seq(Deals)
        BY <1>t, <3>1
      <4>2. /\ work' \in [Deals -> WorkStates]
            /\ outcome' \in [Deals -> {"ok", "error", "canceled"}]
        BY <1>t, <1>w, <3>1
      <4> QED
        BY <1>t, <3>1, <3>2, <4>1, <4>2 DEF QueueTyped
    <3>5. CASE d \notin dirty
      BY <1>t, <3>1, <3>4, <3>5 DEF WorkQueueInv, KeysOnce
    <3>6. CASE d \in dirty
      <4>1. /\ queue' = Append(queue, d)
            /\ Len(queue') = Len(queue) + 1
            /\ queue'[Len(queue')] = d
            /\ \A i \in 1 .. Len(queue) : queue'[i] = queue[i]
        BY <3>1, <3>6, <1>t
      <4> QED
        BY <1>t, <3>1, <3>3, <3>4, <3>6, <4>1 DEF WorkQueueInv, KeysOnce
    <3> QED
      BY <3>5, <3>6
  <2>10. CASE DealDeadline(d)
    BY <2>10, <1>t, <1>u DEF DealDeadline, producerVars
  <2> QED
    BY <1>4, <2>1, <2>2, <2>3, <2>4, <2>5, <2>6, <2>7, <2>8, <2>9, <2>10 DEF Handle
<1>5. ASSUME NEW d \in Deals, BackoffEnds(d) PROVE WorkQueueInv'
  <2>1. /\ Add(d) /\ delayed' = delayed \ {d}
        /\ UNCHANGED <<processing, requeues, work, outcome, found>>
    BY <1>5 DEF BackoffEnds, workVars, producerVars
  <2> QED
    BY <1>t, <2>1, AddKeeps DEF WorkQueueInv, QueueTyped
<1>6. CASE UNCHANGED vars
  BY <1>6, <1>u, <1>t DEF vars, producerVars
<1> QED
  BY <1>1, <1>2, <1>3, <1>4, <1>5, <1>6 DEF Next

-----------------------------------------------------------------------------
(* Who holds which slots *)

\* What HandleDeal and ProduceActiveDeals reserve.
Asked(v) == IF v = Producer THEN Limit ELSE 2

\* v holds all it asked for and has made no call yet.
Fresh(v) ==
    /\ L!Holds(v)
    /\ activeReservations[v].slotsReserved = Asked(v)
    /\ activeReservations[v].slotsConsumed = 0

\* Who waits in the limiter's queue waits for what its code asks for.
QueueAsks ==
    \A i \in 1 .. Len(waitQueue) :
        waitQueue[i].requestedSlots = Asked(waitQueue[i].workflowID)

\* Where HandleDeal of deal d is, with what the limiter records about it.
DealOK(d) ==
    /\ work[d] \in {"none", "reserve", "finish"} => caller[d] = "none"
    /\ work[d] = "blocked" => caller[d] \in {"waiting", "cancelled"}
    /\ work[d] \in {"get", "getting", "adjust", "process", "complete", "release"}
          => caller[d] = "holding"
    /\ caller[d] \in {"waiting", "cancelled"} /\ L!Holds(d) => Fresh(d)
    /\ work[d] = "get" => Fresh(d)
    /\ ~DeadlinesExpire =>
          caller[d] # "cancelled" /\ (caller[d] = "none" => ~L!Holds(d))

\* The bots the producer has not asked about yet.
Unasked == {b \in Bots : bot[b] \in {"todo", "started"}}

\* Where the producer and its goroutines are, with what the limiter records.
ProducerOK ==
    /\ producer \in ProducerStates /\ bot \in [Bots -> BotStates]
    /\ producer \in {"idle", "reserve"} => caller[Producer] = "none"
    /\ producer = "blocked" => caller[Producer] = "waiting"
    /\ producer \notin {"idle", "reserve", "blocked"} => caller[Producer] = "holding"
    /\ caller[Producer] = "none" => ~L!Holds(Producer)
    /\ caller[Producer] = "waiting" /\ L!Holds(Producer) => Fresh(Producer)
    /\ producer = "listBots" => Fresh(Producer)
    /\ producer \in {"listing", "adjust"} =>
          /\ activeReservations[Producer].slotsReserved = Limit
          /\ activeReservations[Producer].slotsConsumed = 1
    /\ producer \in {"reserve", "blocked", "listBots", "listing", "adjust"}
          => \A b \in Bots : bot[b] = "todo"
    /\ \A b \in Bots : bot[b] \in {"started", "calling", "adding"} => producer = "fetch"
    /\ producer = "fetch" /\ Len(BotList) < Limit =>
          Cardinality(Unasked) + activeReservations[Producer].slotsConsumed
             <= activeReservations[Producer].slotsReserved

\* Every run has the slots its place in the code counts on.
SlotsInv == QueueAsks /\ ProducerOK /\ \A d \in Deals : DealOK(d)

\* Somebody else's step: v keeps its slots, or waited and gets what it asked for.
LEMMA OthersSlots ==
    ASSUME L!AccountingInv, QueueAsks, NEW S, L!Undisturbed(S), NEW v \in Users \ S
    PROVE  /\ caller'[v] = caller[v]
           /\ L!Holds(v) => L!Holds(v)' /\ activeReservations'[v] = activeReservations[v]
           /\ ~L!Holds(v) /\ L!Holds(v)' =>
                 caller[v] \in {"waiting", "cancelled"} /\ Fresh(v)'
<1>1. /\ caller'[v] = caller[v]
      /\ L!Holds(v) => L!Holds(v)' /\ activeReservations'[v] = activeReservations[v]
  BY DEF L!Undisturbed, Users
<1>2. ASSUME ~L!Holds(v), L!Holds(v)'
      PROVE  caller[v] \in {"waiting", "cancelled"} /\ Fresh(v)'
  <2>1. PICK i \in 1 .. Len(waitQueue) :
           /\ waitQueue[i].workflowID = v
           /\ activeReservations'[v] = L!NewReservation(waitQueue[i].requestedSlots)
    BY <1>2 DEF L!Undisturbed, Users
  <2>2. waitQueue[i].requestedSlots = Asked(v)
    BY <2>1 DEF QueueAsks
  <2>3. caller[v] \in {"waiting", "cancelled"}
    BY <2>1, Constants, L!QueuedHasNothing DEF L!AccountingInv
  <2> QED
    BY <1>2, <2>1, <2>2, <2>3 DEF Fresh, L!NewReservation, Asked
<1> QED
  BY <1>1, <1>2

\* A step of somebody else leaves a HandleDeal the slots it counts on.
LEMMA DealFrame ==
    ASSUME L!AccountingInv, QueueAsks, NEW S, L!Undisturbed(S), NEW d \in Deals \ S,
           DealOK(d), work'[d] = work[d]
    PROVE  DealOK(d)'
<1>1. d \in Users \ S
  BY DEF Users
<1>2. /\ caller'[d] = caller[d]
      /\ L!Holds(d) => L!Holds(d)' /\ activeReservations'[d] = activeReservations[d]
      /\ ~L!Holds(d) /\ L!Holds(d)' =>
            caller[d] \in {"waiting", "cancelled"} /\ Fresh(d)'
  BY <1>1, OthersSlots
<1>3. Fresh(d) => Fresh(d)'
  BY <1>2 DEF Fresh, Asked
<1> QED
  BY <1>2, <1>3 DEF DealOK, Fresh

\* A step of somebody else leaves the producer the slots it counts on.
LEMMA ProducerFrame ==
    ASSUME L!AccountingInv, QueueAsks, NEW S, L!Undisturbed(S), Producer \notin S,
           ProducerOK, UNCHANGED <<producer, bot>>
    PROVE  ProducerOK'
<1>1. Producer \in Users \ S
  BY DEF Users
<1>2. /\ caller'[Producer] = caller[Producer]
      /\ L!Holds(Producer) =>
            L!Holds(Producer)' /\ activeReservations'[Producer] = activeReservations[Producer]
      /\ ~L!Holds(Producer) /\ L!Holds(Producer)' =>
            caller[Producer] \in {"waiting", "cancelled"} /\ Fresh(Producer)'
  BY <1>1, OthersSlots
<1>3. Fresh(Producer) => Fresh(Producer)'
  BY <1>2 DEF Fresh, Asked
<1>4. caller[Producer] = "holding" => L!Holds(Producer)
  BY DEF L!AccountingInv, L!WaitersAccounted
<1>5. Unasked' = Unasked
  BY DEF Unasked
<1> QED
  BY <1>2, <1>3, <1>4, <1>5 DEF ProducerOK, Fresh

\* Entries that were in the queue ask for what they asked before.
LEMMA QueueFrame ==
    ASSUME QueueAsks,
           \A i \in 1 .. Len(waitQueue') :
              \/ waitQueue'[i].requestedSlots = Asked(waitQueue'[i].workflowID)
              \/ \E j \in 1 .. Len(waitQueue) : waitQueue'[i] = waitQueue[j]
    PROVE  QueueAsks'
  BY DEF QueueAsks, Asked

\* A step that leaves the limiter alone disturbs nobody.
LEMMA LimiterAlone ==
    ASSUME UNCHANGED limiterVars, NEW S
    PROVE  L!Undisturbed(S) /\ (QueueAsks => QueueAsks')
  BY DEF limiterVars, L!Undisturbed, L!Holds, QueueAsks, Asked

\* A step of HandleDeal keeps its own place and slots, and nobody else sees it.
LEMMA DealStep ==
    ASSUME L!AccountingInv, WorkQueueInv, SlotsInv, NEW d \in Deals,
           Handle(d) \/ DealDeadline(d)
    PROVE  /\ DealOK(d)'
           /\ L!Undisturbed({d})
           /\ QueueAsks'
           /\ \A e \in Deals \ {d} : work'[e] = work[e]
           /\ UNCHANGED <<producer, bot>>
<1>t. /\ DealOK(d) /\ QueueAsks
      /\ d \in Users /\ d # Producer /\ Asked(d) = 2 /\ 2 \in {2, Limit}
      /\ work \in [Deals -> WorkStates]
  BY PipelineAssumption DEF SlotsInv, Users, Asked, WorkQueueInv, QueueTyped
<1>c. L!Holds(d) <=> Limiter!Holds(d)
  BY SameHelpers
<1>q. ASSUME L!NobodyQueues \/ waitQueue' = waitQueue PROVE QueueAsks'
  BY <1>t, <1>q, QueueFrame DEF L!NobodyQueues
<1>u. ASSUME UNCHANGED limiterVars
      PROVE  /\ L!Undisturbed({d}) /\ QueueAsks'
             /\ caller' = caller /\ (L!Holds(d)' <=> L!Holds(d)) /\ (Fresh(d)' <=> Fresh(d))
  BY <1>t, <1>u, LimiterAlone DEF limiterVars, L!Holds, Fresh, Asked
<1>w. ASSUME NEW l, Goto(d, l)
      PROVE  work'[d] = l /\ \A e \in Deals \ {d} : work'[e] = work[e]
  BY <1>t, <1>w DEF Goto
<1>1. CASE DealReserves(d)
  <2>0. work[d] = "reserve" /\ caller[d] = "none" /\ UNCHANGED <<producer, bot>>
    BY <1>1, <1>t DEF DealReserves, DealOK, producerVars
  <2>1. CASE L!ReserveGranted(d, 2) /\ Goto(d, "get")
    <3>1. /\ L!Undisturbed({d}) /\ caller'[d] = "holding" /\ L!Holds(d)'
          /\ activeReservations'[d] = L!NewReservation(2) /\ waitQueue' = waitQueue
      BY <1>t, <2>1, Constants, L!ReserveGrantedContract DEF Users
    <3>2. Fresh(d)'
      BY <1>t, <3>1 DEF Fresh, L!NewReservation, Asked
    <3> QED
      BY <1>q, <1>w, <2>0, <2>1, <3>1, <3>2 DEF DealOK
  <2>2. CASE L!ReserveQueued(d, 2) /\ Goto(d, "blocked")
    <3>1. /\ L!Undisturbed({d}) /\ caller'[d] = "waiting" /\ ~L!Holds(d)'
          /\ \A i \in 1 .. Len(waitQueue') :
                \/ waitQueue'[i].workflowID = d /\ waitQueue'[i].requestedSlots = 2
                \/ \E j \in 1 .. Len(waitQueue) : waitQueue'[i] = waitQueue[j]
      BY <1>t, <2>2, Constants, L!ReserveQueuedContract DEF Users
    <3>2. QueueAsks'
      BY <1>t, <3>1, QueueFrame
    <3> QED
      BY <1>w, <2>0, <2>2, <3>1, <3>2 DEF DealOK
  <2>3. CASE UNCHANGED limiterVars /\ Goto(d, "finish")
    BY <1>t, <1>u, <1>w, <2>0, <2>3 DEF DealOK
  <2> QED
    BY <1>1, <2>1, <2>2, <2>3, SameReserve DEF DealReserves
<1>2. CASE DealGranted(d)
  <2>1. L!ReserveReady(d) /\ Goto(d, "get") /\ UNCHANGED <<producer, bot>>
    BY <1>2, SameReserve DEF DealGranted, producerVars
  <2>2. /\ L!Undisturbed({d}) /\ activeReservations' = activeReservations
        /\ L!Holds(d) /\ caller[d] = "waiting" /\ caller'[d] = "holding"
        /\ L!NobodyQueues
    BY <1>t, <2>1, Constants, L!ReserveEndsContract DEF Users
  <2>3. Fresh(d) /\ Fresh(d)'
    BY <1>t, <2>2 DEF DealOK, Fresh, L!Holds, Asked
  <2> QED
    BY <1>q, <1>w, <2>1, <2>2, <2>3 DEF DealOK
<1>3. CASE DealDeadline(d)
  <2>1. /\ L!ReserveCtxDone(d) /\ DeadlinesExpire /\ work[d] = "blocked"
        /\ UNCHANGED <<producer, bot, work>>
    BY <1>3, SameReserve DEF DealDeadline, producerVars, workVars
  <2>2. /\ L!Undisturbed({d}) /\ activeReservations' = activeReservations
        /\ caller[d] = "waiting" /\ caller'[d] = "cancelled" /\ L!NobodyQueues
    BY <1>t, <2>1, Constants, L!ReserveEndsContract DEF Users
  <2>3. (L!Holds(d)' <=> L!Holds(d)) /\ (Fresh(d)' <=> Fresh(d))
    BY <2>2 DEF Fresh, L!Holds, Asked
  <2> QED
    BY <1>t, <1>q, <2>1, <2>2, <2>3 DEF DealOK
<1>4. CASE DealAbandons(d)
  <2>1. L!ReserveAbandoned(d) /\ Goto(d, "finish") /\ UNCHANGED <<producer, bot>>
    BY <1>4, SameReserve DEF DealAbandons, producerVars
  <2>2. /\ L!Undisturbed({d}) /\ activeReservations' = activeReservations
        /\ caller[d] = "cancelled" /\ caller'[d] = "none" /\ L!NobodyQueues
    BY <1>t, <2>1, Constants, L!ReserveEndsContract DEF Users
  <2>3. DeadlinesExpire
    BY <1>t, <2>2 DEF DealOK
  <2> QED
    BY <1>q, <1>w, <2>1, <2>2, <2>3 DEF DealOK
<1>5. CASE DealConsumes(d)
  <2>0. work[d] = "get" /\ caller[d] = "holding" /\ UNCHANGED <<producer, bot>>
    BY <1>5, <1>t DEF DealConsumes, DealOK, producerVars
  <2>1. CASE L!ConsumeWithOperation(d) /\ Goto(d, "getting")
    <3>1. L!Undisturbed({d}) /\ caller' = caller /\ waitQueue' = waitQueue
      BY <1>t, <2>1, Constants, L!ConsumeContract DEF Users
    <3> QED
      BY <1>q, <1>w, <2>0, <2>1, <3>1 DEF DealOK
  <2>2. CASE UNCHANGED limiterVars /\ Goto(d, "complete")
    BY <1>u, <1>w, <2>0, <2>2 DEF DealOK
  <2> QED
    BY <1>5, <2>1, <2>2, SameUse DEF DealConsumes
<1>6. CASE DealAnswered(d) \/ DealProcessed(d)
  <2>1. /\ caller[d] = "holding" /\ UNCHANGED <<producer, bot>> /\ UNCHANGED limiterVars
        /\ Goto(d, "adjust") \/ Goto(d, "complete")
    BY <1>6, <1>t DEF DealAnswered, DealProcessed, DealOK, producerVars
  <2> QED
    BY <1>u, <1>w, <2>1 DEF DealOK
<1>7. CASE DealAdjusts(d)
  <2>1. /\ caller[d] = "holding" /\ UNCHANGED <<producer, bot>>
        /\ AdjustDown(d, 1) /\ Goto(d, "process")
    BY <1>7, <1>t DEF DealAdjusts, DealOK, producerVars
  <2>2. CASE 1 \in 0 .. Limit /\ L!AdjustDown(d, 1)
    <3>1. L!Undisturbed({d}) /\ L!NobodyQueues /\ caller' = caller
      BY <1>t, <2>2, Constants, L!AdjustContract DEF Users
    <3> QED
      BY <1>q, <1>w, <2>1, <3>1 DEF DealOK
  <2>3. CASE UNCHANGED limiterVars
    BY <1>u, <1>w, <2>1, <2>3 DEF DealOK
  <2> QED
    BY <1>t, <2>1, <2>2, <2>3, AdjustIsLimiterStep
<1>8. CASE DealCompletes(d)
  <2>1. /\ caller[d] = "holding" /\ UNCHANGED <<producer, bot>>
        /\ L!SignalComplete(d) /\ Goto(d, "release")
    BY <1>8, <1>t, SameUse DEF DealCompletes, DealOK, producerVars
  <2>2. L!Undisturbed({d}) /\ L!NobodyQueues /\ caller' = caller
    BY <1>t, <2>1, Constants, L!CompleteContract DEF Users
  <2> QED
    BY <1>q, <1>w, <2>1, <2>2 DEF DealOK
<1>9. CASE DealReleases(d)
  <2>1. UNCHANGED <<producer, bot>> /\ L!Release(d) /\ Goto(d, "finish")
    BY <1>9, <1>t, SameUse DEF DealReleases, producerVars
  <2>2. L!Undisturbed({d}) /\ L!NobodyQueues /\ caller'[d] = "none" /\ ~L!Holds(d)'
    BY <1>t, <2>1, Constants, L!ReleaseContract DEF Users
  <2> QED
    BY <1>q, <1>w, <2>1, <2>2 DEF DealOK
<1>10. CASE WorkerFinishes(d)
  <2>1. /\ caller[d] = "none" /\ UNCHANGED <<producer, bot>> /\ UNCHANGED limiterVars
        /\ Goto(d, "none")
    BY <1>10, <1>t DEF WorkerFinishes, DealOK, producerVars
  <2> QED
    BY <1>t, <1>u, <1>w, <2>1 DEF DealOK
<1> QED
  BY <1>1, <1>2, <1>3, <1>4, <1>5, <1>6, <1>7, <1>8, <1>9, <1>10 DEF Handle

\* A list has no more bots than entries.
LEMMA BotsFew ==
    /\ IsFiniteSet(Bots) /\ Cardinality(Bots) \in Nat
    /\ Len(BotList) \in Nat /\ Cardinality(Bots) <= Len(BotList)
<1>1. Len(BotList) \in Nat /\ BotList \in [1 .. Len(BotList) -> Bots]
  BY PipelineAssumption
<1>2. BotList \in Surjection(1 .. Len(BotList), Bots)
  BY <1>1 DEF Surjection, Bots
<1>3. IsFiniteSet(1 .. Len(BotList)) /\ Cardinality(1 .. Len(BotList)) = Len(BotList)
  BY <1>1, FS_Interval
<1> QED
  BY <1>1, <1>2, <1>3, FS_Surjection, FS_CardinalityType

\* The bots still to be asked about are no more than the list's entries.
LEMMA UnaskedFinite ==
    /\ IsFiniteSet(Unasked) /\ Cardinality(Unasked) \in Nat
    /\ Cardinality(Unasked) <= Len(BotList)
<1>1. Unasked \in SUBSET Bots
  BY DEF Unasked
<1> QED
  BY <1>1, BotsFew, FS_Subset, FS_CardinalityType

\* A step of the producer or one of its goroutines.
LEMMA ProducerStep ==
    ASSUME L!AccountingInv, SlotsInv,
           Produce \/ \E i \in 1 .. Len(BotList) : Poll(i)
    PROVE  /\ ProducerOK'
           /\ L!Undisturbed({Producer})
           /\ QueueAsks'
           /\ UNCHANGED work
<1>t. /\ ProducerOK /\ QueueAsks
      /\ Producer \in Users /\ Asked(Producer) = Limit /\ Limit \in {2, Limit}
  BY DEF SlotsInv, Users, Asked
<1>q. ASSUME L!NobodyQueues \/ waitQueue' = waitQueue PROVE QueueAsks'
  BY <1>t, <1>q, QueueFrame DEF L!NobodyQueues
<1>u. ASSUME UNCHANGED limiterVars
      PROVE  /\ L!Undisturbed({Producer}) /\ QueueAsks'
             /\ caller' = caller /\ (L!Holds(Producer)' <=> L!Holds(Producer))
             /\ (Fresh(Producer)' <=> Fresh(Producer))
             /\ activeReservations' = activeReservations
  BY <1>t, <1>u, LimiterAlone DEF limiterVars, L!Holds, Fresh, Asked
<1> USE DEF ProducerStates, BotStates
<1>1. CASE ProduceStarts
  <2>1. /\ producer = "idle" /\ producer' = "reserve" /\ bot' = [b \in Bots |-> "todo"]
        /\ L!Stats /\ UNCHANGED work
    BY <1>1, SameClock DEF ProduceStarts, workVars
  <2>2. UNCHANGED <<activeReservations, waitQueue, caller>>
    BY <2>1 DEF L!Stats
  <2>3. L!Undisturbed({Producer}) /\ (L!Holds(Producer)' <=> L!Holds(Producer))
    BY <2>2 DEF L!Undisturbed, L!Holds
  <2> QED
    BY <1>t, <1>q, <2>1, <2>2, <2>3 DEF ProducerOK
<1>2. CASE ProduceReserves
  <2>0. producer = "reserve" /\ caller[Producer] = "none" /\ UNCHANGED <<bot, work>>
    BY <1>2, <1>t DEF ProduceReserves, ProducerOK, workVars
  <2>1. CASE L!ReserveGranted(Producer, Limit) /\ producer' = "listBots"
    <3>1. /\ L!Undisturbed({Producer}) /\ caller'[Producer] = "holding"
          /\ L!Holds(Producer)' /\ waitQueue' = waitQueue
          /\ activeReservations'[Producer] = L!NewReservation(Limit)
      BY <1>t, <2>1, Constants, L!ReserveGrantedContract DEF Users
    <3>2. Fresh(Producer)'
      BY <3>1 DEF Fresh, L!NewReservation, Asked
    <3> QED
      BY <1>t, <1>q, <2>0, <2>1, <3>1, <3>2 DEF ProducerOK
  <2>2. CASE L!ReserveQueued(Producer, Limit) /\ producer' = "blocked"
    <3>1. /\ L!Undisturbed({Producer}) /\ caller'[Producer] = "waiting"
          /\ ~L!Holds(Producer)'
          /\ \A i \in 1 .. Len(waitQueue') :
                \/ waitQueue'[i].workflowID = Producer /\ waitQueue'[i].requestedSlots = Limit
                \/ \E j \in 1 .. Len(waitQueue) : waitQueue'[i] = waitQueue[j]
      BY <1>t, <2>2, Constants, L!ReserveQueuedContract DEF Users
    <3>2. QueueAsks'
      BY <1>t, <3>1, QueueFrame
    <3> QED
      BY <1>t, <2>0, <2>2, <3>1, <3>2 DEF ProducerOK
  <2> QED
    BY <1>2, <2>1, <2>2, SameReserve DEF ProduceReserves
<1>3. CASE ProduceGranted
  <2>1. /\ producer = "blocked" /\ producer' = "listBots" /\ L!ReserveReady(Producer)
        /\ UNCHANGED <<bot, work>>
    BY <1>3, SameReserve DEF ProduceGranted, workVars
  <2>2. /\ L!Undisturbed({Producer}) /\ activeReservations' = activeReservations
        /\ L!Holds(Producer) /\ caller[Producer] = "waiting"
        /\ caller'[Producer] = "holding" /\ L!NobodyQueues
    BY <1>t, <2>1, Constants, L!ReserveEndsContract DEF Users
  <2>3. Fresh(Producer) /\ Fresh(Producer)'
    BY <1>t, <2>2 DEF ProducerOK, Fresh, L!Holds, Asked
  <2> QED
    BY <1>t, <1>q, <2>1, <2>2, <2>3 DEF ProducerOK
<1>4. CASE ProduceListsBots
  <2>0. /\ producer = "listBots" /\ caller[Producer] = "holding" /\ Fresh(Producer)
        /\ UNCHANGED <<bot, work>>
    BY <1>4, <1>t DEF ProduceListsBots, ProducerOK, workVars
  <2>1. CASE L!ConsumeWithOperation(Producer) /\ producer' = "listing"
    <3>0. /\ L!Undisturbed({Producer}) /\ UNCHANGED <<caller, waitQueue>>
          /\ activeReservations'[Producer].slotsReserved
                = activeReservations[Producer].slotsReserved
          /\ activeReservations'[Producer].slotsConsumed
                = activeReservations[Producer].slotsConsumed + 1
      BY <2>1, Constants, L!ConsumeContract DEF Users
    <3>1. /\ L!Undisturbed({Producer}) /\ UNCHANGED <<caller, waitQueue>>
          /\ activeReservations'[Producer].slotsReserved = Limit
          /\ activeReservations'[Producer].slotsConsumed = 1
      BY <2>0, <3>0 DEF Fresh, Asked
    <3> QED
      BY <1>t, <1>q, <2>0, <2>1, <3>1 DEF ProducerOK
  <2>2. CASE UNCHANGED limiterVars /\ producer' = "complete"
    BY <1>t, <1>u, <2>0, <2>2 DEF ProducerOK
  <2> QED
    BY <1>4, <2>1, <2>2, SameUse DEF ProduceListsBots
<1>5. CASE ProduceHasBots
  <2>1. /\ producer = "listing" /\ producer' \in {"adjust", "complete"}
        /\ UNCHANGED limiterVars /\ UNCHANGED <<bot, work>>
    BY <1>5 DEF ProduceHasBots, workVars
  <2> QED
    BY <1>t, <1>u, <2>1 DEF ProducerOK
<1>6. CASE ProduceAdjusts
  <2> DEFINE n == 1 + Len(BotList)
  <2>1. /\ producer = "adjust" /\ producer' = "fetch" /\ AdjustDown(Producer, n)
        /\ caller[Producer] = "holding" /\ UNCHANGED <<bot, work>>
        /\ activeReservations[Producer].slotsReserved = Limit
        /\ activeReservations[Producer].slotsConsumed = 1
    BY <1>6, <1>t DEF ProduceAdjusts, ProducerOK, workVars
  <2>2. Unasked' = Unasked
    BY <2>1 DEF Unasked
  <2>3. Cardinality(Unasked) \in Nat /\ Cardinality(Unasked) + 1 <= n /\ n \in Nat
    BY UnaskedFinite, BotsFew
  <2>4. CASE n \in 0 .. Limit /\ L!AdjustDown(Producer, n)
    <3>1. /\ L!Undisturbed({Producer}) /\ L!NobodyQueues /\ caller' = caller
          /\ activeReservations'[Producer].slotsReserved = n
          /\ activeReservations'[Producer].slotsConsumed = 1
      BY <1>t, <2>1, <2>4, Constants, L!AdjustContract DEF Users
    <3> QED
      BY <1>t, <1>q, <2>1, <2>2, <2>3, <3>1 DEF ProducerOK
  <2>5. CASE (n < 1 \/ n >= Limit) /\ UNCHANGED limiterVars
    <3>1. Len(BotList) < Limit => Cardinality(Unasked) + 1 <= Limit
      BY <2>3, PipelineAssumption, BotsFew
    <3> QED
      BY <1>t, <1>u, <2>1, <2>2, <2>5, <3>1 DEF ProducerOK
  <2> QED
    BY <1>t, <2>1, <2>3, <2>4, <2>5, AdjustIsLimiterStep
<1>7. CASE ProduceWaits
  <2>1. /\ producer = "fetch" /\ producer' = "complete"
        /\ \A b \in Bots : bot[b] \in {"polled", "skipped"}
        /\ UNCHANGED limiterVars /\ UNCHANGED <<bot, work>>
    BY <1>7 DEF ProduceWaits, workVars
  <2> QED
    BY <1>t, <1>u, <2>1 DEF ProducerOK
<1>8. CASE ProduceCompletes
  <2>1. /\ producer = "complete" /\ producer' = "release" /\ L!SignalComplete(Producer)
        /\ UNCHANGED <<bot, work>>
    BY <1>8, SameUse DEF ProduceCompletes, workVars
  <2>2. L!Undisturbed({Producer}) /\ L!NobodyQueues /\ caller' = caller
    BY <1>t, <2>1, Constants, L!CompleteContract DEF Users
  <2> QED
    BY <1>t, <1>q, <2>1, <2>2 DEF ProducerOK
<1>9. CASE ProduceReleases
  <2>1. /\ producer = "release" /\ producer' = "idle" /\ L!Release(Producer)
        /\ UNCHANGED <<bot, work>>
    BY <1>9, SameUse DEF ProduceReleases, workVars
  <2>2. /\ L!Undisturbed({Producer}) /\ L!NobodyQueues /\ caller'[Producer] = "none"
        /\ ~L!Holds(Producer)'
    BY <1>t, <2>1, Constants, L!ReleaseContract DEF Users
  <2> QED
    BY <1>t, <1>q, <2>1, <2>2 DEF ProducerOK
\* The goroutines: each changes the state of one bot while the producer waits for them.
<1>b. ASSUME NEW b \in Bots, NEW l \in BotStates, bot' = [bot EXCEPT ![b] = l],
             bot[b] \in {"todo", "started", "calling", "adding"},
             producer = "fetch", producer' = producer, caller' = caller,
             Len(BotList) < Limit =>
                Cardinality(Unasked') + activeReservations'[Producer].slotsConsumed
                   <= activeReservations'[Producer].slotsReserved
      PROVE  ProducerOK'
  <2>1. caller[Producer] = "holding"
    BY <1>t, <1>b DEF ProducerOK
  <2> QED
    BY <1>t, <1>b, <2>1 DEF ProducerOK
<1>10. ASSUME NEW i \in 1 .. Len(BotList), Poll(i)
       PROVE  ProducerOK' /\ L!Undisturbed({Producer}) /\ QueueAsks' /\ UNCHANGED work
  <2> DEFINE b == BotList[i]
  <2>0. b \in Bots /\ bot \in [Bots -> BotStates]
    BY <1>t DEF Bots, ProducerOK
  <2> HIDE DEF b
  <2>1. CASE BotStarts(i)
    <3>1. /\ producer = "fetch" /\ producer' = producer /\ bot[b] = "todo"
          /\ bot' = [bot EXCEPT ![b] = "started"] /\ UNCHANGED limiterVars /\ UNCHANGED work
      BY <2>1 DEF BotStarts, workVars, b
    <3>2. Unasked' = Unasked
      BY <2>0, <3>1 DEF Unasked
    <3> QED
      BY <1>t, <1>b, <1>u, <2>0, <3>1, <3>2 DEF ProducerOK
  <2>2. CASE BotConsumes(b)
    <3>1. /\ producer = "fetch" /\ producer' = producer /\ bot[b] = "started" /\ UNCHANGED work
      BY <2>0, <2>2, <1>t DEF BotConsumes, ProducerOK, workVars
    <3>2. ASSUME NEW l \in {"calling", "skipped"}, bot' = [bot EXCEPT ![b] = l]
          PROVE  Cardinality(Unasked') = Cardinality(Unasked) - 1
      <4>1. Unasked' = Unasked \ {b} /\ b \in Unasked
        BY <2>0, <3>1, <3>2 DEF Unasked
      <4> QED
        BY <4>1, UnaskedFinite, FS_RemoveElement
    <3>3. L!Holds(Producer) /\ activeReservations[Producer] \in L!Reservation
      BY <1>t, <3>1
      DEF ProducerOK, L!AccountingInv, L!WaitersAccounted, L!TypeOK, L!Holds
    <3>4. CASE L!ConsumeWithOperation(Producer) /\ bot' = [bot EXCEPT ![b] = "calling"]
      <4>1. /\ L!Undisturbed({Producer}) /\ UNCHANGED <<caller, waitQueue>>
            /\ activeReservations'[Producer].slotsReserved
                  = activeReservations[Producer].slotsReserved
            /\ activeReservations'[Producer].slotsConsumed
                  = activeReservations[Producer].slotsConsumed + 1
        BY <1>t, <3>4, Constants, L!ConsumeContract DEF Users
      <4>2. Cardinality(Unasked') = Cardinality(Unasked) - 1
        BY <3>2, <3>4
      <4>3. Len(BotList) < Limit =>
               Cardinality(Unasked') + activeReservations'[Producer].slotsConsumed
                  <= activeReservations'[Producer].slotsReserved
        BY <1>t, <3>1, <3>3, <4>1, <4>2, UnaskedFinite DEF ProducerOK, L!Reservation
      <4> QED
        BY <1>q, <1>b, <2>0, <3>1, <3>4, <4>1, <4>3
    <3>5. CASE UNCHANGED limiterVars /\ bot' = [bot EXCEPT ![b] = "skipped"]
      <4>1. Cardinality(Unasked') = Cardinality(Unasked) - 1
        BY <3>2, <3>5
      <4>2. Len(BotList) < Limit =>
               Cardinality(Unasked') + activeReservations'[Producer].slotsConsumed
                  <= activeReservations'[Producer].slotsReserved
        BY <1>t, <1>u, <3>1, <3>3, <3>5, <4>1, UnaskedFinite DEF ProducerOK, L!Reservation
      <4> QED
        BY <1>u, <1>b, <2>0, <3>1, <3>5, <4>2
    <3> QED
      BY <2>2, <3>4, <3>5, SameUse DEF BotConsumes
  <2>3. CASE BotAnswered(b) \/ BotFinishes(b)
    <3>1. /\ bot[b] \in {"calling", "adding"} /\ producer' = producer /\ UNCHANGED limiterVars
          /\ UNCHANGED work
          /\ \E l \in {"adding", "skipped", "polled"} : bot' = [bot EXCEPT ![b] = l]
      BY <2>3 DEF BotAnswered, BotFinishes, workVars
    <3>2. producer = "fetch"
      BY <1>t, <2>0, <3>1 DEF ProducerOK
    <3>3. Unasked' = Unasked
      BY <2>0, <3>1 DEF Unasked
    <3> QED
      BY <1>t, <1>b, <1>u, <2>0, <3>1, <3>2, <3>3 DEF ProducerOK
  <2>4. ASSUME NEW d \in Deals, BotAddsDeal(b, d)
        PROVE  ProducerOK' /\ L!Undisturbed({Producer}) /\ QueueAsks' /\ UNCHANGED work
    <3>1. UNCHANGED limiterVars /\ UNCHANGED <<producer, bot, work>>
      BY <2>4 DEF BotAddsDeal, workVars
    <3>2. Unasked' = Unasked
      BY <3>1 DEF Unasked
    <3> QED
      BY <1>t, <1>u, <3>1, <3>2 DEF ProducerOK
  <2> QED
    BY <1>10, <2>1, <2>2, <2>3, <2>4 DEF Poll, b
<1> QED
  BY <1>1, <1>2, <1>3, <1>4, <1>5, <1>6, <1>7, <1>8, <1>9, <1>10 DEF Produce

\* No step of the engine takes a slot from a run that counts on it.
LEMMA SlotsStep ==
    ASSUME L!AccountingInv, WorkQueueInv, SlotsInv, [Next]_vars
    PROVE  SlotsInv'
<1>t. QueueAsks /\ ProducerOK /\ \A d \in Deals : DealOK(d)
  BY DEF SlotsInv
<1>p. Producer \notin Deals
  BY PipelineAssumption
<1>1. ASSUME NEW d \in Deals, Handle(d) \/ DealDeadline(d) PROVE SlotsInv'
  <2>1. /\ DealOK(d)' /\ L!Undisturbed({d}) /\ QueueAsks'
        /\ \A e \in Deals \ {d} : work'[e] = work[e]
        /\ UNCHANGED <<producer, bot>>
    BY <1>1, DealStep
  <2>2. ProducerOK'
    BY <1>t, <1>p, <2>1, ProducerFrame
  <2>3. ASSUME NEW e \in Deals \ {d} PROVE DealOK(e)'
    BY <1>t, <2>1, DealFrame
  <2> QED
    BY <2>1, <2>2, <2>3 DEF SlotsInv
<1>2. CASE Produce \/ \E i \in 1 .. Len(BotList) : Poll(i)
  <2>1. ProducerOK' /\ L!Undisturbed({Producer}) /\ QueueAsks' /\ UNCHANGED work
    BY <1>2, ProducerStep
  <2>2. ASSUME NEW d \in Deals PROVE DealOK(d)'
    <3>1. d \in Deals \ {Producer}
      BY <1>p
    <3> QED
      BY <1>t, <2>1, <3>1, DealFrame
  <2> QED
    BY <2>1, <2>2 DEF SlotsInv
<1>3. ASSUME L!Undisturbed({}), UNCHANGED <<producer, bot, work>> PROVE SlotsInv'
  <2>1. QueueAsks'
    BY <1>t, <1>3, QueueFrame DEF L!Undisturbed
  <2>2. ProducerOK'
    BY <1>t, <1>3, ProducerFrame
  <2>3. ASSUME NEW d \in Deals PROVE DealOK(d)'
    BY <1>t, <1>3, DealFrame
  <2> QED
    BY <2>1, <2>2, <2>3 DEF SlotsInv
<1>4. CASE Clock \/ Watcher
  <2>1. L!Undisturbed({})
    BY <1>4, Constants, SameClock, L!ClockContract DEF Clock, Watcher
  <2> QED
    BY <1>3, <1>4, <2>1 DEF Clock, Watcher, producerVars, workVars
<1>5. CASE WorkerGets
  <2>0. queue \in Seq(Deals) /\ queue # <<>>
    BY <1>5 DEF WorkerGets, WorkQueueInv, QueueTyped
  <2>d. PICK d \in Deals : d = Head(queue)
    BY <2>0
  <2>1. /\ UNCHANGED limiterVars /\ UNCHANGED <<producer, bot>>
        /\ work' = [work EXCEPT ![d] = "reserve"]
    BY <1>5, <2>d DEF WorkerGets, producerVars
  <2>2. work[d] = "none" /\ work \in [Deals -> WorkStates]
    <3>1. d = queue[1] /\ 1 \in 1 .. Len(queue)
      BY <2>0, <2>d
    <3> QED
      BY <3>1 DEF WorkQueueInv, KeysOnce, QueueTyped
  <2>3. L!Undisturbed({}) /\ L!Undisturbed({d}) /\ QueueAsks'
    BY <1>t, <2>1, LimiterAlone
  <2>4. ProducerOK'
    BY <1>t, <2>1, <2>3, ProducerFrame
  <2>5. DealOK(d)'
    <3>1. caller' = caller /\ (L!Holds(d)' <=> L!Holds(d)) /\ work'[d] = "reserve"
      BY <2>1, <2>2 DEF limiterVars, L!Holds
    <3> QED
      BY <1>t, <2>2, <3>1 DEF DealOK
  <2>6. ASSUME NEW e \in Deals \ {d} PROVE DealOK(e)'
    <3>1. work'[e] = work[e]
      BY <2>1, <2>2
    <3> QED
      BY <1>t, <2>3, <3>1, DealFrame
  <2> QED
    BY <2>3, <2>4, <2>5, <2>6 DEF SlotsInv
<1>6. ASSUME NEW d \in Deals, BackoffEnds(d) PROVE SlotsInv'
  BY <1>3, <1>6, LimiterAlone DEF BackoffEnds, producerVars, workVars
<1>7. CASE UNCHANGED vars
  BY <1>3, <1>7, LimiterAlone DEF vars, producerVars, workVars
<1> QED
  BY <1>1, <1>2, <1>4, <1>5, <1>6, <1>7 DEF Next

\* The engine's part of the inductive invariant; the limiter's is L!AccountingInv.
EngineInv == WorkQueueInv /\ SlotsInv

\* Both parts hold of every state of the engine.
LEMMA EngineInvariant == Spec => [](L!AccountingInv /\ EngineInv)
<1>1. Init => EngineInv
  <2> SUFFICES ASSUME Init PROVE EngineInv
    OBVIOUS
  <2>1. WorkQueueInv
    BY PipelineAssumption DEF Init, WorkQueueInv, QueueTyped, KeysOnce, WorkStates
  <2>2. L!Init
    BY SameHelpers DEF Init
  <2>3. /\ waitQueue = <<>> /\ caller = [v \in Deals \cup {Producer} |-> "none"]
        /\ \A v : ~L!Holds(v)
    BY <2>2 DEF L!Init, L!Holds
  <2>4. SlotsInv
    BY <2>3 DEF Init, SlotsInv, QueueAsks, ProducerOK, DealOK, ProducerStates, BotStates
  <2> QED
    BY <2>1, <2>4 DEF EngineInv
<1>2. L!AccountingInv /\ EngineInv /\ [Next]_vars => EngineInv'
  BY WorkQueueStep, SlotsStep DEF EngineInv
<1> QED
  BY <1>1, <1>2, LimiterInvariant, PTL DEF Spec

\* Every variable of the engine keeps its type.
THEOREM EngineTypeCorrect == Spec => []TypeOK
<1>1. L!AccountingInv /\ EngineInv => TypeOK
  BY SameHelpers
  DEF L!AccountingInv, EngineInv, WorkQueueInv, QueueTyped, SlotsInv, ProducerOK,
      TypeOK
<1> QED
  BY <1>1, EngineInvariant, PTL

\* Whatever resets, adjustments and other grants come between a HandleDeal's Reserve and
\* its call, the call finds its slot (engine.go: the reservation of two slots).
THEOREM DealsHaveTheirSlot == Spec => []DealCallGuaranteed
<1>1. EngineInv => DealCallGuaranteed
  <2> SUFFICES ASSUME EngineInv, NEW d \in Deals, work[d] = "get" PROVE CanConsume(d)
    BY DEF DealCallGuaranteed
  <2>1. Fresh(d) /\ Asked(d) = 2
    BY PipelineAssumption DEF EngineInv, SlotsInv, DealOK, Asked
  <2> QED
    BY <2>1, SameHelpers DEF CanConsume, Fresh
<1> QED
  BY <1>1, EngineInvariant, PTL

\* The producer has a slot for every bot it still has to ask about, when the plan's limit
\* allows one call per bot beside the one that lists them.
THEOREM BotsHaveTheirSlots ==
    ASSUME Len(BotList) < Limit
    PROVE  Spec => []BotCallsGuaranteed
<1>1. L!AccountingInv /\ EngineInv => BotCallsGuaranteed
  <2> SUFFICES ASSUME L!AccountingInv, EngineInv, producer = "fetch"
               PROVE  /\ Limiter!Holds(Producer)
                      /\ Cardinality(Unasked)
                            <= activeReservations[Producer].slotsReserved
                                  - activeReservations[Producer].slotsConsumed
    BY DEF BotCallsGuaranteed, Unasked
  <2>1. /\ caller[Producer] = "holding"
        /\ Cardinality(Unasked) + activeReservations[Producer].slotsConsumed
              <= activeReservations[Producer].slotsReserved
    BY DEF EngineInv, SlotsInv, ProducerOK
  <2>2. L!Holds(Producer) /\ activeReservations[Producer] \in L!Reservation
    BY <2>1 DEF L!AccountingInv, L!WaitersAccounted, L!TypeOK, L!Holds
  <2>3. /\ activeReservations[Producer].slotsConsumed \in Nat
        /\ activeReservations[Producer].slotsReserved \in Nat
    BY <2>2 DEF L!Reservation
  <2> QED
    BY <2>1, <2>2, <2>3, SameHelpers, UnaskedFinite
<1> QED
  BY <1>1, EngineInvariant, PTL

\* While no deadline expires in Reserve, nobody keeps slots between two runs: the deferred
\* Release runs on every way out.
THEOREM NothingKeptWhenIdle ==
    ASSUME ~DeadlinesExpire
    PROVE  Spec => []IdleHoldsNothing
<1>1. EngineInv => IdleHoldsNothing
  BY SameHelpers DEF EngineInv, SlotsInv, DealOK, ProducerOK, IdleHoldsNothing
<1> QED
  BY <1>1, EngineInvariant, PTL
=============================================================================
