---------------------------- MODULE DealPipeline ----------------------------
(***************************************************************************)
(* How the engine finds and handles 3Commas deals under the limiter:       *)
(*                                                                         *)
(*   resync ticker -> Engine.ProduceActiveDeals -> deal work queue ->      *)
(*   deal workers (runWorker) -> Engine.HandleDeal                         *)
(*                                                                         *)
(* The producer and every HandleDeal go through RateLimiter, whose actions *)
(* are taken from there unchanged.  The work queue is the one of           *)
(* k8s.io/client-go/util/workqueue (external).  What HandleDeal does with  *)
(* the events of a deal (processDeal) is a step that succeeds or fails.    *)
(***************************************************************************)
EXTENDS Naturals, Sequences, FiniteSets

CONSTANTS
    Deals,              \* work keys, and the workflow IDs of HandleDeal
    BotList,            \* the enabled bots, in the order ListBots returns them
    BotOf,              \* the bot of each deal
    Producer,           \* the workflow ID "produce:all-bots"
    Limit,              \* RequestsPerMinute of the plan tier
    DealWorkers,        \* DealWorkers of the plan tier
    ProduceConcurrency, \* ProduceConcurrency of the plan tier
    MaxRequeues,        \* the 5 of processWorkItem
    CallsMayFail,       \* whether the producer's 3Commas calls may fail
    DealsMayFail,       \* whether GetDealForID and processDeal may fail
    DeadlinesExpire     \* whether the 2h context of a deal worker may expire

Bots == {BotList[i] : i \in 1 .. Len(BotList)}

ASSUME PipelineAssumption ==
    /\ Producer \notin Deals /\ IsFiniteSet(Deals)
    /\ BotList \in Seq(Bots)
    /\ BotOf \in [Deals -> Bots]
    /\ Limit \in Nat /\ Limit >= 2
    /\ DealWorkers \in Nat \ {0} /\ ProduceConcurrency \in Nat \ {0}
    /\ MaxRequeues \in Nat
    /\ CallsMayFail \in BOOLEAN /\ DealsMayFail \in BOOLEAN
    /\ DeadlinesExpire \in BOOLEAN

VARIABLES
    consumed, elapsed, activeReservations, waitQueue, ready, caller, extension,
    producer,   \* where ProduceActiveDeals is
    bot,        \* where its goroutine for each bot is
    found,      \* deals that goroutine still has to add to the queue
    work,       \* where HandleDeal for each deal is
    outcome,    \* what HandleDeal is about to return
    queue,      \* work queue: keys to be handed out, in order
    dirty,      \* work queue: keys that need processing
    processing, \* work queue: keys handed out and not Done
    delayed,    \* work queue: keys waiting for their backoff to end
    requeues    \* work queue: NumRequeues of each key

limiterVars == <<consumed, elapsed, activeReservations, waitQueue, ready,
                 caller, extension>>
producerVars == <<producer, bot, found>>
queueVars == <<queue, dirty, processing, delayed, requeues>>
workVars == <<work, outcome>>
vars == <<limiterVars, producerVars, queueVars, workVars>>

Limiter == INSTANCE RateLimiter
             WITH Workflows <- Deals \cup {Producer},
                  Counts <- {2, Limit},
                  MaxSlots <- Limit

ProducerStates == {"idle", "reserve", "blocked", "listBots", "listing",
                   "adjust", "fetch", "complete", "release"}
BotStates == {"todo", "started", "calling", "adding", "polled", "skipped"}
WorkStates == {"none", "reserve", "blocked", "get", "getting", "adjust",
               "process", "complete", "release", "finish"}

Init ==
    /\ Limiter!Init
    /\ producer = "idle"
    /\ bot = [b \in Bots |-> "todo"]
    /\ found = [b \in Bots |-> {}]
    /\ work = [d \in Deals |-> "none"]
    /\ outcome = [d \in Deals |-> "ok"]
    /\ queue = <<>>
    /\ dirty = {}
    /\ processing = {}
    /\ delayed = {}
    /\ requeues = [d \in Deals |-> 0]

-----------------------------------------------------------------------------
(* Calls of the limiter that can also return an error and change nothing *)

CanConsume(w) ==
    /\ Limiter!Holds(w)
    /\ activeReservations[w].slotsConsumed < activeReservations[w].slotsReserved

\* Faulty variant: slots are given back and nobody is woken.
AdjustDownSilently(w, newTotal) ==
    IF newTotal \in activeReservations[w].slotsConsumed
                       .. activeReservations[w].slotsReserved
    THEN /\ activeReservations' =
               [activeReservations EXCEPT ![w].slotsReserved = newTotal]
         /\ UNCHANGED <<consumed, elapsed, waitQueue, ready, caller, extension>>
    ELSE UNCHANGED limiterVars

\* AdjustDown returns nil without a change when the new total is not smaller.
AdjustDown(w, newTotal) ==
    \/ Limiter!AdjustDown(w, newTotal)
    \/ /\ \/ newTotal < activeReservations[w].slotsConsumed
          \/ newTotal >= activeReservations[w].slotsReserved
       /\ UNCHANGED limiterVars

-----------------------------------------------------------------------------
(* The work queue *)

Add(d) ==
    IF d \in dirty
    THEN UNCHANGED <<queue, dirty>>
    ELSE /\ dirty' = dirty \cup {d}
         /\ queue' = IF d \in processing THEN queue ELSE Append(queue, d)

\* Done, in the same step as Forget or AddRateLimited.
Done(d) ==
    /\ processing' = processing \ {d}
    /\ queue' = IF d \in dirty THEN Append(queue, d) ELSE queue
    /\ UNCHANGED dirty

\* The backoff of a key that was added with AddRateLimited ends.
BackoffEnds(d) ==
    /\ d \in delayed
    /\ delayed' = delayed \ {d}
    /\ Add(d)
    /\ UNCHANGED <<limiterVars, producerVars, workVars, processing, requeues>>

-----------------------------------------------------------------------------
(* Engine.ProduceActiveDeals *)

\* The ticker fires; the producer reads Stats, which may reset the window.
ProduceStarts ==
    /\ producer = "idle"
    /\ producer' = "reserve"
    /\ bot' = [b \in Bots |-> "todo"]
    /\ Limiter!Stats
    /\ UNCHANGED <<found, queueVars, workVars>>

\* Faulty variant: more slots than a window has.
ProduceReservesMore ==
    /\ producer = "reserve"
    /\ \/ Limiter!ReserveGranted(Producer, Limit + 1) /\ producer' = "listBots"
       \/ Limiter!ReserveQueued(Producer, Limit + 1) /\ producer' = "blocked"
    /\ UNCHANGED <<bot, found, queueVars, workVars>>

\* It reserves the whole quota, or blocks until it gets it.
ProduceReserves ==
    /\ producer = "reserve"
    /\ \/ Limiter!ReserveGranted(Producer, Limit) /\ producer' = "listBots"
       \/ Limiter!ReserveQueued(Producer, Limit) /\ producer' = "blocked"
    /\ UNCHANGED <<bot, found, queueVars, workVars>>

ProduceGranted ==
    /\ producer = "blocked"
    /\ Limiter!ReserveReady(Producer)
    /\ producer' = "listBots"
    /\ UNCHANGED <<bot, found, queueVars, workVars>>

ProduceListsBots ==
    /\ producer = "listBots"
    /\ IF CanConsume(Producer)
       THEN Limiter!ConsumeWithOperation(Producer) /\ producer' = "listing"
       ELSE UNCHANGED limiterVars /\ producer' = "complete"
    /\ UNCHANGED <<bot, found, queueVars, workVars>>

ProduceHasBots ==
    /\ producer = "listing"
    /\ \/ producer' = "adjust"
       \/ CallsMayFail /\ producer' = "complete"
    /\ UNCHANGED <<limiterVars, bot, found, queueVars, workVars>>

\* Faulty variant: the call that listed the bots is not counted.
ProduceAdjustsToBots ==
    /\ producer = "adjust"
    /\ AdjustDown(Producer, Len(BotList))
    /\ producer' = "fetch"
    /\ UNCHANGED <<bot, found, queueVars, workVars>>

ProduceAdjusts ==
    /\ producer = "adjust"
    /\ AdjustDown(Producer, 1 + Len(BotList))
    /\ producer' = "fetch"
    /\ UNCHANGED <<bot, found, queueVars, workVars>>

Running == {b \in Bots : bot[b] \in {"started", "calling", "adding"}}

\* g.Go starts the goroutines in list order and blocks at the cap of SetLimit.
BotStarts(i) ==
    /\ producer = "fetch"
    /\ bot[BotList[i]] = "todo"
    /\ \A j \in 1 .. i - 1 : bot[BotList[j]] # "todo"
    /\ Cardinality(Running) < ProduceConcurrency
    /\ bot' = [bot EXCEPT ![BotList[i]] = "started"]
    /\ UNCHANGED <<limiterVars, producer, found, queueVars, workVars>>

\* GetListOfDeals consumes a slot; an error is logged and the bot passed over.
BotConsumes(b) ==
    /\ bot[b] = "started"
    /\ IF CanConsume(Producer)
       THEN /\ Limiter!ConsumeWithOperation(Producer)
            /\ bot' = [bot EXCEPT ![b] = "calling"]
       ELSE /\ UNCHANGED limiterVars
            /\ bot' = [bot EXCEPT ![b] = "skipped"]
    /\ UNCHANGED <<producer, found, queueVars, workVars>>

\* The answer: any set of deals of the bot, or an error that is only logged.
BotAnswered(b) ==
    /\ bot[b] = "calling"
    /\ \/ /\ bot' = [bot EXCEPT ![b] = "adding"]
          /\ \E ds \in SUBSET {d \in Deals : BotOf[d] = b} :
                found' = [found EXCEPT ![b] = ds]
       \/ /\ CallsMayFail
          /\ bot' = [bot EXCEPT ![b] = "skipped"]
          /\ UNCHANGED found
    /\ UNCHANGED <<limiterVars, producer, queueVars, workVars>>

BotAddsDeal(b, d) ==
    /\ bot[b] = "adding"
    /\ d \in found[b]
    /\ Add(d)
    /\ found' = [found EXCEPT ![b] = @ \ {d}]
    /\ UNCHANGED <<limiterVars, producer, bot, processing, delayed, requeues,
                   workVars>>

BotFinishes(b) ==
    /\ bot[b] = "adding"
    /\ found[b] = {}
    /\ bot' = [bot EXCEPT ![b] = "polled"]
    /\ UNCHANGED <<limiterVars, producer, found, queueVars, workVars>>

\* g.Wait returns; then the deferred SignalComplete and Release run.
ProduceWaits ==
    /\ producer = "fetch"
    /\ \A b \in Bots : bot[b] \in {"polled", "skipped"}
    /\ producer' = "complete"
    /\ UNCHANGED <<limiterVars, bot, found, queueVars, workVars>>

ProduceCompletes ==
    /\ producer = "complete"
    /\ Limiter!SignalComplete(Producer)
    /\ producer' = "release"
    /\ UNCHANGED <<bot, found, queueVars, workVars>>

ProduceReleases ==
    /\ producer = "release"
    /\ Limiter!Release(Producer)
    /\ producer' = "idle"
    /\ UNCHANGED <<bot, found, queueVars, workVars>>

-----------------------------------------------------------------------------
(* runWorker, processWorkItem and Engine.HandleDeal *)

\* A free worker takes the first key.
WorkerGets ==
    /\ queue # <<>>
    /\ Cardinality(processing) < DealWorkers
    /\ LET d == Head(queue)
       IN  /\ queue' = Tail(queue)
           /\ dirty' = dirty \ {d}
           /\ processing' = processing \cup {d}
           /\ work' = [work EXCEPT ![d] = "reserve"]
    /\ UNCHANGED <<limiterVars, producerVars, delayed, requeues, outcome>>

Goto(d, label) == work' = [work EXCEPT ![d] = label]

Fails(d, err) == outcome' = [outcome EXCEPT ![d] = err]

\* Faulty variant: without room the deal is dropped.
DealReservesOrDrops(d) ==
    /\ work[d] = "reserve"
    /\ \/ Limiter!ReserveGranted(d, 2) /\ Goto(d, "get")
       \/ /\ ~Limiter!Fits(2)
          /\ Goto(d, "finish")
          /\ UNCHANGED limiterVars
    /\ UNCHANGED <<producerVars, queueVars, outcome>>

DealReserves(d) ==
    /\ work[d] = "reserve"
    /\ \/ Limiter!ReserveGranted(d, 2) /\ Goto(d, "get") /\ UNCHANGED outcome
       \/ Limiter!ReserveQueued(d, 2) /\ Goto(d, "blocked") /\ UNCHANGED outcome
       \/ /\ Limiter!Holds(d)   \* ErrAlreadyReserved
          /\ Goto(d, "finish")
          /\ Fails(d, "error")
          /\ UNCHANGED limiterVars
    /\ UNCHANGED <<producerVars, queueVars>>

\* Faulty variant: it does not wait for the grant.
DealDoesNotWait(d) ==
    /\ work[d] = "blocked"
    /\ Goto(d, "get")
    /\ UNCHANGED <<limiterVars, producerVars, queueVars, outcome>>

DealGranted(d) ==
    /\ work[d] = "blocked"
    /\ Limiter!ReserveReady(d)
    /\ Goto(d, "get")
    /\ UNCHANGED <<producerVars, queueVars, outcome>>

\* The deadline of the worker's context passes while Reserve waits.
DealDeadline(d) ==
    /\ DeadlinesExpire
    /\ work[d] = "blocked"
    /\ Limiter!ReserveCtxDone(d)
    /\ UNCHANGED <<producerVars, queueVars, workVars>>

DealAbandons(d) ==
    /\ work[d] = "blocked"
    /\ Limiter!ReserveAbandoned(d)
    /\ Goto(d, "finish")
    /\ Fails(d, "error")
    /\ UNCHANGED <<producerVars, queueVars>>

\* GetDealForID consumes a slot before it calls.
DealConsumes(d) ==
    /\ work[d] = "get"
    /\ IF CanConsume(d)
       THEN /\ Limiter!ConsumeWithOperation(d)
            /\ Goto(d, "getting")
            /\ UNCHANGED outcome
       ELSE /\ UNCHANGED limiterVars
            /\ Goto(d, "complete")
            /\ Fails(d, "error")
    /\ UNCHANGED <<producerVars, queueVars>>

DealAnswered(d) ==
    /\ work[d] = "getting"
    /\ \/ Goto(d, "adjust") /\ UNCHANGED outcome
       \/ /\ DealsMayFail
          /\ Goto(d, "complete")
          /\ \E err \in {"error", "canceled"} : Fails(d, err)
    /\ UNCHANGED <<limiterVars, producerVars, queueVars>>

DealAdjusts(d) ==
    /\ work[d] = "adjust"
    /\ AdjustDown(d, 1)
    /\ Goto(d, "process")
    /\ UNCHANGED <<producerVars, queueVars, outcome>>

\* processDeal, which makes no 3Commas call, returns.
DealProcessed(d) ==
    /\ work[d] = "process"
    /\ Goto(d, "complete")
    /\ \/ UNCHANGED outcome
       \/ DealsMayFail /\ \E err \in {"error", "canceled"} : Fails(d, err)
    /\ UNCHANGED <<limiterVars, producerVars, queueVars>>

\* Faulty variant: the deferred Release is missing.
DealCompletesOnly(d) ==
    /\ work[d] = "complete"
    /\ Limiter!SignalComplete(d)
    /\ Goto(d, "finish")
    /\ UNCHANGED <<producerVars, queueVars, outcome>>

DealCompletes(d) ==
    /\ work[d] = "complete"
    /\ Limiter!SignalComplete(d)
    /\ Goto(d, "release")
    /\ UNCHANGED <<producerVars, queueVars, outcome>>

DealReleases(d) ==
    /\ work[d] = "release"
    /\ Limiter!Release(d)
    /\ Goto(d, "finish")
    /\ UNCHANGED <<producerVars, queueVars, outcome>>

\* Faulty variant: retries are not counted against MaxRequeues.
WorkerRetriesForever(d) ==
    /\ work[d] = "finish"
    /\ IF outcome[d] = "error"
       THEN /\ requeues' = [requeues EXCEPT ![d] = @ + 1]
            /\ delayed' = delayed \cup {d}
       ELSE /\ requeues' = [requeues EXCEPT ![d] = 0]
            /\ UNCHANGED delayed
    /\ Done(d)
    /\ Goto(d, "none")
    /\ outcome' = [outcome EXCEPT ![d] = "ok"]
    /\ UNCHANGED <<limiterVars, producerVars>>

\* processWorkItem: Forget on success, on cancellation and after MaxRequeues
\* retries; AddRateLimited otherwise; Done always.
WorkerFinishes(d) ==
    /\ work[d] = "finish"
    /\ IF outcome[d] = "error" /\ requeues[d] < MaxRequeues
       THEN /\ requeues' = [requeues EXCEPT ![d] = @ + 1]
            /\ delayed' = delayed \cup {d}
       ELSE /\ requeues' = [requeues EXCEPT ![d] = 0]
            /\ UNCHANGED delayed
    /\ Done(d)
    /\ Goto(d, "none")
    /\ outcome' = [outcome EXCEPT ![d] = "ok"]
    /\ UNCHANGED <<limiterVars, producerVars>>

-----------------------------------------------------------------------------
Clock ==
    /\ Limiter!WindowElapses
    /\ UNCHANGED <<producerVars, queueVars, workVars>>

Watcher ==
    /\ Limiter!windowResetWatcher
    /\ UNCHANGED <<producerVars, queueVars, workVars>>

Produce ==
    \/ ProduceStarts \/ ProduceReserves \/ ProduceGranted \/ ProduceListsBots
    \/ ProduceHasBots \/ ProduceAdjusts \/ ProduceWaits \/ ProduceCompletes
    \/ ProduceReleases

Poll(i) ==
    LET b == BotList[i]
    IN  \/ BotStarts(i) \/ BotConsumes(b) \/ BotAnswered(b) \/ BotFinishes(b)
        \/ \E d \in Deals : BotAddsDeal(b, d)

\* The steps of HandleDeal and its worker; the deadline is not one of them.
Handle(d) ==
    \/ DealReserves(d) \/ DealGranted(d) \/ DealAbandons(d) \/ DealConsumes(d)
    \/ DealAnswered(d) \/ DealAdjusts(d) \/ DealProcessed(d)
    \/ DealCompletes(d) \/ DealReleases(d) \/ WorkerFinishes(d)

Next ==
    \/ Clock
    \/ Watcher
    \/ Produce
    \/ \E i \in 1 .. Len(BotList) : Poll(i)
    \/ WorkerGets
    \/ \E d \in Deals : Handle(d) \/ DealDeadline(d) \/ BackoffEnds(d)

Spec == Init /\ [][Next]_vars

\* Time passes, tickers fire, backoffs end and runnable goroutines run; that a
\* context expires is never required.  A tick of the watcher that another
\* caller forestalled is not made up for (weak fairness).
Fairness ==
    /\ WF_vars(Clock)
    /\ WF_vars(Watcher)
    /\ WF_vars(Produce)
    /\ \A i \in 1 .. Len(BotList) : WF_vars(Poll(i))
    /\ WF_vars(WorkerGets)
    /\ \A d \in Deals : WF_vars(Handle(d)) /\ WF_vars(BackoffEnds(d))

FairSpec == Spec /\ Fairness

-----------------------------------------------------------------------------
(* Properties *)

\* Every variable keeps its type.
TypeOK ==
    /\ Limiter!TypeOK
    /\ producer \in ProducerStates
    /\ bot \in [Bots -> BotStates]
    /\ found \in [Bots -> SUBSET Deals]
    /\ work \in [Deals -> WorkStates]
    /\ outcome \in [Deals -> {"ok", "error", "canceled"}]
    /\ queue \in Seq(Deals)
    /\ dirty \subseteq Deals /\ processing \subseteq Deals
    /\ delayed \subseteq Deals
    /\ requeues \in [Deals -> 0 .. MaxRequeues]

\* The engine uses the limiter only as RateLimiter allows, so what is proved
\* there (the window budget above all) holds of the running engine.
LimiterRefined == Limiter!Spec

\* The promise of the limiter, kept by the engine's own sequence of calls: what
\* was called in this window and what Reserve, AdjustDown and the deferred
\* Release leave to be called stays within the requests per minute.
WindowBudget == Limiter!WindowBudget

\* A HandleDeal whose Reserve succeeded has a slot for its call when it makes
\* it, whatever resets, adjustments and other grants came between.
DealCallGuaranteed ==
    \A d \in Deals : work[d] = "get" => CanConsume(d)

\* The producer has a slot for every bot it still has to ask about.
BotCallsGuaranteed ==
    producer = "fetch" =>
        /\ Limiter!Holds(Producer)
        /\ Cardinality({b \in Bots : bot[b] \in {"todo", "started"}})
              <= activeReservations[Producer].slotsReserved
                    - activeReservations[Producer].slotsConsumed

\* The deferred Release runs on every way out: between two runs, neither a
\* deal nor the producer keeps slots (while no deadline expires in Reserve).
IdleHoldsNothing ==
    /\ \A d \in Deals :
          work[d] \in {"none", "reserve", "finish"} => ~Limiter!Holds(d)
    /\ producer \in {"idle", "reserve"} => ~Limiter!Holds(Producer)

\* Every deal that was enqueued is eventually handled.
DealsServed == \A d \in Deals : d \in dirty ~> work[d] = "get"

\* Every bot is polled again and again.
BotsPolled == \A b \in Bots : []<>(bot[b] = "polled")
=============================================================================
