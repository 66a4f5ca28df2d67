----------------------------- MODULE TakeProfit -----------------------------
(***************************************************************************)
(* How the take profit of one deal is kept in line with its position:      *)
(*                                                                         *)
(*   exchange -> websocket callback -> fill tracker -> order queue ->      *)
(*   order workers -> HyperLiquidEmitter -> exchange                       *)
(*                                                                         *)
(* with the periodic reconciliation, the engine's own placement of the     *)
(* take profit, and a restart (status refresh, rebuild) beside it.         *)
(* Everything happens in one deal, whose orders all have a 3Commas event.  *)
(* The exchange and the work queue are external.  A reconciliation reads   *)
(* the store and enqueues in one step: the store lags the exchange anyway. *)
(***************************************************************************)
EXTENDS Integers, Sequences, FiniteSets, SequencesExt, TrackedOrder

CONSTANTS
    Venues,             \* venue and wallet pairs
    Buys,               \* order identifiers of the base and safety orders
    TakeProfits,        \* order identifiers of the take profit, one per venue
    VenueOf,            \* the venue of each order
    Size,               \* size of each order's 3Commas event, after scaling
    Workers,            \* Config.OrderWorkers goroutines of runOrderWorker
    Periodic,           \* the goroutine of startPeriodicTasks
    Engine,             \* the goroutine that runs processDeal for this deal
    MaxClock,           \* bound: distinct timestamps
    MaxQueue,           \* bound: a ticker fires only with fewer work items
    MaxFeed,            \* bound: an exchange call waits for the feed to drain
    MaxCrashes,         \* bound: how often the process dies
    MaxOrderRequeues,   \* the 5 of processOrderItem
    MaxFailures,        \* bound: exchange calls and status queries that fail
    QueriesMayFail,     \* status queries of the refresher may fail
    DealFinished,       \* the stored 3Commas deal is finished
    CreatesMayBeRejected, \* the exchange may reject a reduce-only order
    BuysMayBeCancelled, \* a buy may be cancelled before it is filled
    OpenBeforeCancel,   \* a replaced order is reported after its replacement
    SellsInParts,       \* take profits sell a part, or before all is bought
    TickerIsSlow,       \* everything pending is done before the next tick
    DealsGoStale        \* an hour may pass without an update

Orders == Buys \cup TakeProfits
Goroutines == Venues \cup Orders \cup {Periodic, Engine}

ASSUME TakeProfitAssumption ==
    /\ IsFiniteSet(Buys) /\ Buys \cap TakeProfits = {}
    /\ VenueOf \in [Orders -> Venues]
    /\ \A v \in Venues : Cardinality({o \in TakeProfits : VenueOf[o] = v}) = 1
    /\ Size \in [Orders -> Nat \ {0}]
    /\ Workers # {} /\ MaxClock \in Nat \ {0}
    /\ MaxCrashes \in Nat /\ MaxOrderRequeues \in Nat /\ MaxFailures \in Nat
    /\ MaxQueue \in Nat \ {0} /\ MaxFeed \in Nat \ {0}

VARIABLES
    clock,       \* the time, shared by exchange and process
    exchange,    \* the order each identifier stands for on the exchange
    position,    \* net position of the deal at each venue
    feed,        \* websocket messages of each venue, oldest first
    callback,    \* where the OrderUpdates callback of each venue is
    orders,      \* Service.orders: tracked state of the orders known
    hydrated,    \* Service.statusHydrated
    statuses,    \* store: latest row of the status history of each order
    submissions, \* store: latest submission of each order
    audits,      \* store: orders with a scaled order audit
    hand,        \* snapshot each goroutine reconciles, and venues left to do
    workQueue,   \* order queue
    backoff,     \* order work that waits for its backoff
    worker,      \* what each order worker does
    engine,      \* how far processDeal is with the take profit event
    app,         \* phase of the process
    refresh,     \* refresher and rebuild: progress of each order
    crashes,
    failures

storeVars == <<statuses, submissions, audits>>
exchangeVars == <<exchange, position>>
orderWorkVars == <<workQueue, backoff, worker>>
appVars == <<engine, app, refresh, crashes, failures>>
takeProfitVars ==
    <<clock, exchangeVars, feed, callback, orders, hydrated, storeVars, hand,
      orderWorkVars, appVars>>

Message == [order : Orders, status : Statuses, origSz : Nat, sz : Nat, at : Nat]
NoMessage == [status |-> "none", origSz |-> 0, sz |-> 0, at |-> 0]
Work == [type : {"create", "modify", "cancel"}, order : Orders, size : Nat,
         tries : Nat]
NoWork == [type |-> "none"]
NoSubmission == [kind |-> "none", size |-> 0]
NothingTracked == [o \in {} |-> NewOrder(FALSE)]
EmptyHand == [os |-> NothingTracked, todo |-> {}]

TakeProfitAt(v) == CHOOSE o \in TakeProfits : VenueOf[o] = v

-----------------------------------------------------------------------------
(* Deal snapshots: a snapshot is the map of tracked orders it was made from *)

\* An order that has only been scaled so far has no side: it is no buy.
AllBuysFilled(os) ==
    \A o \in DOMAIN os \cap Buys :
        os[o].event => ~isActive(os[o]) /\ isFilled(os[o])

Filled(os, S) == SumFunction([o \in S \cap DOMAIN os |-> os[o].filledQty])

\* calculateVenuePositions
Net(os, v) ==
    LET here == {o \in DOMAIN os : VenueOf[o] = v}
    IN  Filled(os, here \cap Buys) - Filled(os, here \cap TakeProfits)

\* dealPosition.NetQty
NetQty(os) == Filled(os, Buys) - Filled(os, TakeProfits)

ActiveTakeProfit(os, v) ==
    LET tp == TakeProfitAt(v)
    IN  tp \in DOMAIN os /\ os[tp].reduceOnly /\ isActive(os[tp])

\* What reconcileSnapshot has to do for a snapshot of the current state.
Snapshot(os) ==
    [os |-> os,
     todo |-> IF os # NothingTracked /\ AllBuysFilled(os)
              THEN {VenueOf[o] : o \in DOMAIN os} ELSE {}]

-----------------------------------------------------------------------------
(* The tracker *)

ensureOrder(os, o) ==
    IF o \in DOMAIN os THEN os
    ELSE [x \in DOMAIN os \cup {o} |->
             IF x = o THEN NewOrder(hydrated) ELSE os[x]]

\* markOrderHydratedLocked: the map, and whether the gate opens.
MarkHydrated(os, o) ==
    IF hydrated \/ ~os[o].reduceOnly THEN os
    ELSE [os EXCEPT ![o].hydrated = TRUE]

GateOpens(os) == \A o \in DOMAIN os : os[o].reduceOnly => os[o].hydrated

\* The locked part of UpdateStatus, done by goroutine g: it leaves with a
\* snapshot in hand, whether or not the gate is open.
UpdateStatus(g, m) ==
    LET known == ensureOrder(orders, m.order)
        event == [known EXCEPT ![m.order] =
                     applyEvent(@, Size[m.order], m.order \in TakeProfits)]
        os == MarkHydrated([event EXCEPT ![m.order] = applyStatus(@, m)],
                           m.order)
    IN  /\ orders' = os
        /\ hydrated' = (hydrated \/ GateOpens(os))
        /\ hand' = [hand EXCEPT ![g] = Snapshot(os)]

\* Add of the work queue. Requests hold pointers, so that two of them are
\* never equal keys; cancels are.
SameCancel(a, b) == a.type = "cancel" /\ b.type = "cancel" /\ a.order = b.order

Enqueue(w) ==
    workQueue' = IF \E i \in 1 .. Len(workQueue) : SameCancel(workQueue[i], w)
                 THEN workQueue ELSE Append(workQueue, w)

NewWork(type, o, size) ==
    [type |-> type, order |-> o, size |-> size, tries |-> 0]

LiveInStore(o) == statuses[o].status = "open"

shouldSkipSubmission(o, size) ==
    /\ submissions[o].kind \in {"create", "modify"}
    /\ submissions[o].size = size
    /\ LiveInStore(o)

Finished(g, v) == hand' = [hand EXCEPT ![g] =
                              IF @.todo = {v} THEN EmptyHand
                              ELSE [os |-> @.os, todo |-> @.todo \ {v}]]

\* cancelTakeProfitBySnapshot, markOrderCancelled
ReconcileCancels(g, v) ==
    LET os == hand[g].os
        tp == TakeProfitAt(v)
    IN  /\ Net(os, v) <= 0
        /\ ActiveTakeProfit(os, v)
        /\ Enqueue(NewWork("cancel", tp, 0))
        /\ orders' = [orders EXCEPT ![tp] = markCancelled(@, clock)]

\* Faulty variant: it resizes without a look at the present size.
ReconcileAlwaysResizes(g, v) ==
    LET os == hand[g].os
        tp == TakeProfitAt(v)
    IN  /\ Net(os, v) > 0
        /\ ActiveTakeProfit(os, v)
        /\ Enqueue(NewWork("modify", tp, Net(os, v)))
        /\ UNCHANGED orders

\* reconcileActiveTakeProfitBySnapshot
ReconcileResizes(g, v) ==
    LET os == hand[g].os
        tp == TakeProfitAt(v)
        desiredQty == Net(os, v)
    IN  /\ desiredQty > 0
        /\ ActiveTakeProfit(os, v)
        /\ IF \/ os[tp].remainingQty = desiredQty
              \/ shouldSkipSubmission(tp, desiredQty)
           THEN UNCHANGED workQueue
           ELSE Enqueue(NewWork("modify", tp, desiredQty))
        /\ UNCHANGED orders

EventRecorded == engine = "seen"

\* Faulty variant: only a take profit the tracker knows is placed again.
ReconcileRecreates(g, v) ==
    LET os == hand[g].os
        tp == TakeProfitAt(v)
    IN  /\ Net(os, v) > 0
        /\ ~ActiveTakeProfit(os, v)
        /\ IF tp \notin DOMAIN os \/ LiveInStore(tp)
           THEN UNCHANGED workQueue
           ELSE Enqueue(NewWork("create", tp, Net(os, v)))
        /\ UNCHANGED orders

\* ensureTakeProfit; without an event of the take profit there is no metadata.
\* Its call of shouldSkipSubmission finds no live status and never skips.
ReconcileCreates(g, v) ==
    LET os == hand[g].os
        tp == TakeProfitAt(v)
        desiredQty == Net(os, v)
    IN  /\ desiredQty > 0
        /\ ~ActiveTakeProfit(os, v)
        /\ IF ~EventRecorded \/ LiveInStore(tp)
           THEN UNCHANGED workQueue
           ELSE Enqueue(NewWork("create", tp, desiredQty))
        /\ UNCHANGED orders

ReconcileLeaves(g, v) ==
    /\ Net(hand[g].os, v) <= 0
    /\ ~ActiveTakeProfit(hand[g].os, v)
    /\ UNCHANGED <<orders, workQueue>>

\* One venue of reconcileSnapshot, run by goroutine g without the lock.
Reconcile(g, v) ==
    /\ g # Engine
    /\ v \in hand[g].todo
    /\ \/ ReconcileCancels(g, v)
       \/ ReconcileResizes(g, v)
       \/ ReconcileCreates(g, v)
       \/ ReconcileLeaves(g, v)
    /\ Finished(g, v)
    /\ UNCHANGED <<clock, exchangeVars, feed, callback, hydrated, storeVars,
                   backoff, worker, appVars>>

AtRest ==
    /\ workQueue = <<>>
    /\ backoff = <<>>
    /\ \A w \in Workers : worker[w].pc = "idle"
    /\ \A v \in Venues : feed[v] = <<>>

\* ReconcileTakeProfits takes its snapshot, if the gate is open.
ReconcileTakeProfits ==
    /\ app = "run"
    /\ hydrated
    /\ hand[Periodic].todo = {}
    /\ IF TickerIsSlow THEN AtRest ELSE Len(workQueue) + Len(backoff) < MaxQueue
    /\ Snapshot(orders).todo # {}
    /\ hand' = [hand EXCEPT ![Periodic] = Snapshot(orders)]
    /\ UNCHANGED <<clock, exchangeVars, feed, callback, orders, hydrated,
                   storeVars, orderWorkVars, appVars>>

\* The ticks of an hour have found no take profit to create.
NothingToCreate ==
    \A v \in Venues :
        ~EventRecorded \/ LiveInStore(TakeProfitAt(v)) \/ Net(orders, v) <= 0

\* CleanupStaleDeals forgets a deal that has no active orders and has not been
\* updated for an hour, in which everything pending was done.
CleanupStaleDeals ==
    /\ DealsGoStale
    /\ app = "run"
    /\ hand[Periodic].todo = {}
    /\ AtRest /\ NothingToCreate
    /\ orders # NothingTracked
    /\ \A o \in DOMAIN orders : ~isActive(orders[o])
    /\ orders' = NothingTracked
    /\ UNCHANGED <<clock, exchangeVars, feed, callback, hydrated, storeVars,
                   hand, orderWorkVars, appVars>>

-----------------------------------------------------------------------------
(* The OrderUpdates callback: tracker first, then store *)

CallbackUpdates(v) ==
    /\ callback[v] = "idle"
    /\ feed[v] # <<>>
    /\ UpdateStatus(v, Head(feed[v]))
    /\ callback' = [callback EXCEPT ![v] = "record"]
    /\ UNCHANGED <<clock, exchangeVars, feed, storeVars, orderWorkVars, appVars>>

CallbackRecords(v) ==
    /\ callback[v] = "record"
    /\ hand[v].todo = {}
    /\ statuses' = [statuses EXCEPT ![Head(feed[v]).order] = Head(feed[v])]
    /\ feed' = [feed EXCEPT ![v] = Tail(@)]
    /\ callback' = [callback EXCEPT ![v] = "idle"]
    /\ UNCHANGED <<clock, exchangeVars, orders, hydrated, submissions, audits,
                   hand, orderWorkVars, appVars>>

-----------------------------------------------------------------------------
(* The exchange *)

\* What is sent about the order e, whose last change was at e.at.
Report(o, e) == [order |-> o, status |-> e.status, origSz |-> e.origSz,
                 sz |-> e.sz, at |-> e.at]

Largest == SumFunctionOnSet(Size, Buys)

Order(status, size) == [status |-> status, origSz |-> size, sz |-> size,
                        at |-> clock]

Publish(v, messages) ==
    feed' = IF app = "down" THEN feed
            ELSE [feed EXCEPT ![v] = @ \o messages]

\* o becomes e; an order that e replaces is cancelled and reported as well.
Rest(o, e) ==
    LET new == <<Report(o, e)>>
        old == IF exchange[o].status # "open" THEN <<>>
               ELSE <<Report(o, [exchange[o] EXCEPT !.status = "canceled",
                                                   !.at = clock])>>
    IN  /\ exchange' = [exchange EXCEPT ![o] = e]
        /\ Publish(VenueOf[o], IF OpenBeforeCancel THEN new \o old
                                                   ELSE old \o new)

Changes(o, e) ==
    /\ exchange' = [exchange EXCEPT ![o] = e]
    /\ Publish(VenueOf[o], <<Report(o, e)>>)

BuysOpen(v) == \E o \in Buys : VenueOf[o] = v /\ exchange[o].status = "open"

\* A unit of an open buy is filled, later than whatever happened to it before.
Buy(o) ==
    LET e == exchange[o]
        v == VenueOf[o]
    IN  /\ e.status = "open"
        /\ clock < MaxClock
        /\ clock' = clock + 1
        /\ position' = [position EXCEPT ![v] = @ + 1]
        /\ Changes(o, [e EXCEPT !.sz = @ - 1,
                                !.at = clock',
                                !.status = IF e.sz = 1 THEN "filled" ELSE @])
        /\ UNCHANGED <<callback, orders, hydrated, storeVars, hand, orderWorkVars,
                       appVars>>

\* n units of a take profit are sold. It is reduce-only: what rests of it
\* without a position is cancelled.
Sell(o, n) ==
    LET e == exchange[o]
        v == VenueOf[o]
    IN  /\ e.status = "open"
        /\ n <= e.sz /\ n <= position[v]
        /\ SellsInParts \/ (n = position[v] /\ ~BuysOpen(v))
        /\ clock < MaxClock
        /\ clock' = clock + 1
        /\ position' = [position EXCEPT ![v] = @ - n]
        /\ Changes(o, [e EXCEPT !.sz = @ - n,
                                !.at = clock',
                                !.status = IF e.sz = n THEN "filled"
                                           ELSE IF position[v] = n
                                                THEN "canceled" ELSE @])
        /\ UNCHANGED <<callback, orders, hydrated, storeVars, hand, orderWorkVars,
                       appVars>>

BuyCancelled(o) ==
    /\ BuysMayBeCancelled
    /\ exchange[o].status = "open"
    /\ clock < MaxClock
    /\ clock' = clock + 1
    /\ Changes(o, [exchange[o] EXCEPT !.status = "canceled", !.at = clock'])
    /\ UNCHANGED <<position, callback, orders, hydrated, storeVars, hand,
                   orderWorkVars, appVars>>

Tick ==
    /\ clock < MaxClock
    /\ clock' = clock + 1
    /\ UNCHANGED <<exchangeVars, feed, callback, orders, hydrated, storeVars,
                   hand, orderWorkVars, appVars>>

-----------------------------------------------------------------------------
(* Order workers and HyperLiquidEmitter.Emit *)

OrderWorkerGets(w) ==
    /\ app = "run"
    /\ worker[w].pc = "idle"
    /\ workQueue # <<>>
    /\ ~\E x \in Workers : SameCancel(worker[x].work, Head(workQueue))
    /\ worker' = [worker EXCEPT ![w] = [pc |-> "submit", work |-> Head(workQueue)]]
    /\ workQueue' = Tail(workQueue)
    /\ UNCHANGED <<clock, exchangeVars, feed, callback, orders, hydrated,
                   storeVars, hand, backoff, appVars>>

Free(w) == worker' = [worker EXCEPT ![w] = [pc |-> "idle", work |-> NoWork]]

\* The worker goes on to record a submission of this kind.
ToRecord(w, kind) ==
    worker' = [worker EXCEPT ![w] = [pc |-> "record",
                                     work |-> [@.work EXCEPT !.type = kind]]]

\* The stored status is live: the create becomes a modify, or is dropped.
AlreadySatisfied(work) ==
    /\ statuses[work.order].sz = work.size
    /\ submissions[work.order].kind \in {"create", "modify"}

SubmitCreate(w) ==
    LET work == worker[w].work
        v == VenueOf[work.order]
    IN  /\ work.type = "create"
        /\ ~LiveInStore(work.order)
        /\ \/ /\ position[v] > 0
              /\ Rest(work.order, Order("open", work.size))
           \/ /\ position[v] <= 0 \/ CreatesMayBeRejected
              /\ exchange[work.order].status # "open"
              /\ Changes(work.order, Order("rejected", work.size))
        /\ ToRecord(w, "create")

\* "cannot modify canceled or filled order" is taken for success.
Modify(w, work) ==
    IF exchange[work.order].status = "open"
    THEN /\ Rest(work.order, Order("open", work.size))
         /\ ToRecord(w, "modify")
    ELSE /\ UNCHANGED <<exchange, feed>>
         /\ Free(w)

SubmitModify(w) ==
    LET work == worker[w].work
    IN  \/ work.type = "modify" /\ Modify(w, work)
        \/ /\ work.type = "create"
           /\ LiveInStore(work.order)
           /\ ~AlreadySatisfied(work)
           /\ Modify(w, work)

SubmitSatisfied(w) ==
    /\ worker[w].work.type = "create"
    /\ LiveInStore(worker[w].work.order)
    /\ AlreadySatisfied(worker[w].work)
    /\ Free(w)
    /\ UNCHANGED <<exchange, feed>>

\* A cancel of an order that is closed already is recorded like any other.
SubmitCancel(w) ==
    LET o == worker[w].work.order
    IN  /\ worker[w].work.type = "cancel"
        /\ IF exchange[o].status = "open"
           THEN Changes(o, [exchange[o] EXCEPT !.status = "canceled",
                                               !.at = clock])
           ELSE UNCHANGED <<exchange, feed>>
        /\ ToRecord(w, "cancel")

Submit(w) ==
    /\ worker[w].pc = "submit"
    /\ Len(feed[VenueOf[worker[w].work.order]]) < MaxFeed
    /\ SubmitCreate(w) \/ SubmitModify(w) \/ SubmitSatisfied(w)
          \/ SubmitCancel(w)
    /\ UNCHANGED <<clock, position, callback, orders, hydrated, storeVars, hand,
                   workQueue, backoff, appVars>>

\* The call fails; the work comes back after a backoff, or is forgotten.
SubmitFails(w) ==
    LET work == worker[w].work
    IN  /\ failures < MaxFailures
        /\ failures' = failures + 1
        /\ worker[w].pc = "submit"
        /\ backoff' = IF work.tries < MaxOrderRequeues
                      THEN Append(backoff, [work EXCEPT !.tries = @ + 1])
                      ELSE backoff
        /\ Free(w)
        /\ UNCHANGED <<clock, exchangeVars, feed, callback, orders, hydrated,
                       storeVars, hand, workQueue, engine, app, refresh, crashes>>

OrderBackoffEnds(i) ==
    /\ Enqueue(backoff[i])
    /\ backoff' = [j \in 1 .. Len(backoff) - 1 |->
                      IF j < i THEN backoff[j] ELSE backoff[j + 1]]
    /\ UNCHANGED <<clock, exchangeVars, feed, callback, orders, hydrated,
                   storeVars, hand, worker, appVars>>

\* RecordHyperliquidOrderRequest, AppendHyperliquidModify or
\* RecordHyperliquidCancel, in whatever order the workers get there.
WorkerRecords(w) ==
    LET work == worker[w].work
    IN  /\ worker[w].pc = "record"
        /\ submissions' = [submissions EXCEPT ![work.order] =
                              [kind |-> work.type, size |-> work.size]]
        /\ Free(w)
        /\ UNCHANGED <<clock, exchangeVars, feed, callback, orders, hydrated,
                       statuses, audits, hand, workQueue, backoff, appVars>>

-----------------------------------------------------------------------------
(* Engine.processDeal for the event that announces the take profit *)

KnownInStore(o) == submissions[o].kind # "none" \/ statuses[o].status # "none"

\* It reads the tracker: without a position no take profit will be placed.
EngineReads ==
    /\ app = "run"
    /\ engine = "pending"
    /\ engine' = IF NetQty(orders) > 0 THEN "placing" ELSE "skipping"
    /\ UNCHANGED <<clock, exchangeVars, feed, callback, orders, hydrated,
                   storeVars, hand, orderWorkVars, app, refresh, crashes, failures>>

\* It records the event as seen and looks for the venues to place it at.
EngineRecords ==
    /\ engine \in {"placing", "skipping"}
    /\ engine' = "seen"
    /\ hand' = [hand EXCEPT ![Engine] =
                   [os |-> NothingTracked,
                    todo |-> IF engine = "skipping" THEN {}
                             ELSE {v \in Venues :
                                      ~KnownInStore(TakeProfitAt(v))}]]
    /\ UNCHANGED <<clock, exchangeVars, feed, callback, orders, hydrated,
                   storeVars, orderWorkVars, app, refresh, crashes, failures>>

\* applyScaling sizes the request from the event, whatever the tracker said.
EngineEmits(v) ==
    LET tp == TakeProfitAt(v)
    IN  /\ v \in hand[Engine].todo
        /\ orders' = [ensureOrder(orders, tp) EXCEPT
                         ![tp] = applyScaledSize(@, Size[tp])]
        /\ audits' = audits \cup {tp}
        /\ Enqueue(NewWork("create", tp, Size[tp]))
        /\ Finished(Engine, v)
        /\ UNCHANGED <<clock, exchangeVars, feed, callback, hydrated, statuses,
                       submissions, backoff, worker, appVars>>

-----------------------------------------------------------------------------
(* Death and restart of the process *)

Refreshed == [pc |-> "done", m |-> NoMessage]
Todo == [pc |-> "todo", m |-> NoMessage]
Failed == [pc |-> "failed", m |-> NoMessage]
Answer(m) == [pc |-> "answer", m |-> m]

ProcessCrashes ==
    /\ app # "down"
    /\ crashes < MaxCrashes
    /\ crashes' = crashes + 1
    /\ app' = "down"
    /\ feed' = [v \in Venues |-> <<>>]
    /\ callback' = [v \in Venues |-> "idle"]
    /\ orders' = NothingTracked
    /\ hydrated' = FALSE
    /\ hand' = [g \in Goroutines |-> EmptyHand]
    /\ workQueue' = <<>>
    /\ backoff' = <<>>
    /\ worker' = [w \in Workers |-> [pc |-> "idle", work |-> NoWork]]
    /\ engine' = IF EventRecorded THEN engine ELSE "pending"
    /\ refresh' = [o \in Orders |-> Refreshed]
    /\ UNCHANGED <<clock, exchangeVars, storeVars, failures>>

\* App.Start: an empty tracker with a closed gate, and the websocket is up
\* before the status refresher starts.
Restart ==
    /\ app = "down"
    /\ app' = "refresh"
    /\ refresh' = [o \in Orders |->
                      IF submissions[o].kind # "none" THEN Todo ELSE Refreshed]
    /\ UNCHANGED <<clock, exchangeVars, feed, callback, orders, hydrated,
                   storeVars, hand, orderWorkVars, engine, crashes, failures>>

\* refreshOne: the answer of the exchange is on its way, or an error.
RefreshQueries(o) ==
    /\ app = "refresh"
    /\ refresh[o] = Todo
    /\ \/ /\ refresh' = [refresh EXCEPT ![o] =
                            IF exchange[o].status = "none" THEN Refreshed
                            ELSE Answer(Report(o, exchange[o]))]
          /\ UNCHANGED failures
       \/ /\ QueriesMayFail
          /\ failures < MaxFailures
          /\ failures' = failures + 1
          /\ refresh' = [refresh EXCEPT ![o] = Failed]
    /\ UNCHANGED <<clock, exchangeVars, feed, callback, orders, hydrated,
                   storeVars, hand, orderWorkVars, engine, app, crashes>>

\* It is stored and handed to the tracker, which reconciles.
RefreshApplies(o) ==
    /\ app = "refresh"
    /\ refresh[o].pc = "answer"
    /\ statuses' = [statuses EXCEPT ![o] = refresh[o].m]
    /\ UpdateStatus(o, refresh[o].m)
    /\ refresh' = [refresh EXCEPT ![o] = Refreshed]
    /\ UNCHANGED <<clock, exchangeVars, feed, callback, submissions, audits,
                   orderWorkVars, engine, app, crashes, failures>>

\* Refresh returns; without an error all statuses count as replayed.
RefreshEnds ==
    /\ app = "refresh"
    /\ \A o \in Orders : refresh[o] \in {Refreshed, Failed} /\ hand[o].todo = {}
    /\ hydrated' = (hydrated \/ \A o \in Orders : refresh[o] = Refreshed)
    /\ app' = "rebuild"
    /\ refresh' = [o \in Orders |-> IF KnownInStore(o) THEN Todo ELSE Refreshed]
    /\ UNCHANGED <<clock, exchangeVars, feed, callback, orders, storeVars, hand,
                   orderWorkVars, engine, crashes, failures>>

\* reloadDeal loads the stored status of one order ...
RebuildLoads(o) ==
    /\ app = "rebuild"
    /\ refresh[o] = Todo
    /\ refresh' = [refresh EXCEPT ![o] = Answer(statuses[o])]
    /\ UNCHANGED <<clock, exchangeVars, feed, callback, orders, hydrated,
                   storeVars, hand, orderWorkVars, engine, app, crashes, failures>>

EventTime == 1

Rebuilt(s, o, m) ==
    LET event == applyEvent(s, Size[o], o \in TakeProfits)
        status == IF m.status # "none" THEN applyStatus(event, m)
                                       ELSE inferFromEvent(event, EventTime)
    IN  IF o \in audits THEN applyScaledSize(status, Size[o]) ELSE status

\* ... and applies it; an audited size replaces the one of the status.
RebuildApplies(o) ==
    LET known == ensureOrder(orders, o)
    IN  /\ app = "rebuild"
        /\ refresh[o].pc = "answer"
        /\ orders' = [known EXCEPT ![o] = Rebuilt(@, o, refresh[o].m)]
        /\ refresh' = [refresh EXCEPT ![o] = Refreshed]
        /\ UNCHANGED <<clock, exchangeVars, feed, callback, hydrated, storeVars,
                       hand, orderWorkVars, engine, app, crashes, failures>>

closeOpenOrdersForDeal ==
    [o \in DOMAIN orders |-> IF o \in Buys /\ isActive(orders[o])
                             THEN markCancelled(orders[o], clock)
                             ELSE orders[o]]

\* Once reloadDeal is through, the open buys of a finished deal count as
\* cancelled.
RebuildEnds ==
    /\ app = "rebuild"
    /\ \A o \in Orders : refresh[o] = Refreshed
    /\ app' = "run"
    /\ orders' = IF DealFinished THEN closeOpenOrdersForDeal ELSE orders
    /\ UNCHANGED <<clock, exchangeVars, feed, callback, hydrated, storeVars,
                   hand, orderWorkVars, engine, refresh, crashes, failures>>

-----------------------------------------------------------------------------
\* The buys have just been placed: the reports are on their way.
Placed(o) == [status |-> "open", origSz |-> Size[o], sz |-> Size[o], at |-> 1]

Unplaced == [status |-> "none", origSz |-> 0, sz |-> 0, at |-> 0]

FirstReports(v) ==
    {m \in {Report(o, Placed(o)) : o \in Buys} : VenueOf[m.order] = v}

InitTakeProfit ==
    /\ clock = 1
    /\ exchange = [o \in Orders |-> IF o \in Buys THEN Placed(o) ELSE Unplaced]
    /\ position = [v \in Venues |-> 0]
    /\ feed = [v \in Venues |-> SetToSeq(FirstReports(v))]
    /\ callback = [v \in Venues |-> "idle"]
    /\ orders = [o \in Buys |-> applyScaledSize(NewOrder(TRUE), Size[o])]
    /\ hydrated = TRUE
    /\ statuses = [o \in Orders |-> NoMessage]
    /\ submissions = [o \in Orders |-> IF o \in Buys
                                       THEN [kind |-> "create", size |-> Size[o]]
                                       ELSE NoSubmission]
    /\ audits = Buys
    /\ hand = [g \in Goroutines |-> EmptyHand]
    /\ workQueue = <<>>
    /\ backoff = <<>>
    /\ worker = [w \in Workers |-> [pc |-> "idle", work |-> NoWork]]
    /\ engine = "pending"
    /\ app = "run"
    /\ refresh = [o \in Orders |-> Refreshed]
    /\ crashes = 0
    /\ failures = 0

Callback(v) == CallbackUpdates(v) \/ CallbackRecords(v)

WorkerSteps(w) == OrderWorkerGets(w) \/ Submit(w) \/ WorkerRecords(w)

Boot ==
    \/ Restart \/ RefreshEnds \/ RebuildEnds
    \/ \E o \in Orders : RefreshQueries(o) \/ RefreshApplies(o)
                            \/ RebuildLoads(o) \/ RebuildApplies(o)

EngineSteps == EngineReads \/ EngineRecords \/ \E v \in Venues : EngineEmits(v)

NextTakeProfit ==
    \/ Tick
    \/ \E o \in Buys : Buy(o) \/ BuyCancelled(o)
    \/ \E o \in TakeProfits : \E n \in 1 .. Largest : Sell(o, n)
    \/ \E v \in Venues : Callback(v)
    \/ \E g \in Goroutines, v \in Venues : Reconcile(g, v)
    \/ ReconcileTakeProfits
    \/ CleanupStaleDeals
    \/ EngineSteps
    \/ \E w \in Workers : WorkerSteps(w) \/ SubmitFails(w)
    \/ \E i \in 1 .. Len(backoff) : OrderBackoffEnds(i)
    \/ ProcessCrashes
    \/ Boot

SpecTakeProfit == InitTakeProfit /\ [][NextTakeProfit]_takeProfitVars

\* Goroutines run, tickers fire, backoffs end; fills, cancels, failures and
\* crashes are up to the environment.
FairnessTakeProfit ==
    /\ \A v \in Venues : WF_takeProfitVars(Callback(v))
    /\ \A g \in Goroutines : WF_takeProfitVars(\E v \in Venues : Reconcile(g, v))
    /\ WF_takeProfitVars(ReconcileTakeProfits)
    /\ WF_takeProfitVars(EngineSteps)
    /\ \A w \in Workers : WF_takeProfitVars(WorkerSteps(w))
    /\ WF_takeProfitVars(\E i \in 1 .. Len(backoff) : OrderBackoffEnds(i))
    /\ WF_takeProfitVars(Boot)

FairSpecTakeProfit == SpecTakeProfit /\ FairnessTakeProfit

-----------------------------------------------------------------------------
(* Properties *)

Tracked(os) ==
    DOMAIN os \subseteq Orders /\ \A o \in DOMAIN os : os[o] \in OrderState

\* What is held for an order is a message, or that there was none.
Held == Message \cup {NoMessage}

ExchangeTyped ==
    /\ clock \in 1 .. MaxClock
    /\ exchange \in [Orders -> [status : Statuses, origSz : Nat, sz : Nat,
                                at : Nat]]
    /\ position \in [Venues -> Nat]

FeedTyped ==
    /\ feed \in [Venues -> Seq(Message)]
    /\ callback \in [Venues -> {"idle", "record"}]

TrackerTyped == Tracked(orders) /\ hydrated \in BOOLEAN

StoreTyped ==
    /\ statuses \in [Orders -> Held]
    /\ submissions \in [Orders -> [kind : {"none", "create", "modify", "cancel"},
                                   size : Nat]]
    /\ audits \subseteq Orders

HandTyped ==
    /\ DOMAIN hand = Goroutines
    /\ \A g \in Goroutines :
          /\ DOMAIN hand[g] = {"os", "todo"}
          /\ Tracked(hand[g].os) /\ hand[g].todo \subseteq Venues

WorkTyped ==
    /\ workQueue \in Seq(Work) /\ backoff \in Seq(Work)
    /\ worker \in [Workers -> [pc : {"idle", "submit", "record"},
                               work : Work \cup {NoWork}]]
    /\ \A w \in Workers : worker[w].pc # "idle" => worker[w].work \in Work

AppTyped ==
    /\ engine \in {"pending", "placing", "skipping", "seen"}
    /\ app \in {"run", "down", "refresh", "rebuild"}
    /\ refresh \in [Orders -> [pc : {"done", "todo", "failed", "answer"},
                               m : Held]]
    /\ crashes \in 0 .. MaxCrashes /\ failures \in 0 .. MaxFailures

\* Every variable keeps its type.
TakeProfitTypeOK ==
    /\ ExchangeTyped /\ FeedTyped /\ TrackerTyped /\ StoreTyped
    /\ HandTyped /\ WorkTyped /\ AppTyped

Bought(o) == exchange[o].origSz - exchange[o].sz

\* The tracker never believes in more fills of a buy than there were, in any
\* order of reports, refreshes and rebuilds: what it protects is a real position.
FillsNotAhead ==
    \A o \in DOMAIN orders \cap Buys : orders[o].filledQty <= Bought(o)

\* Nothing more will reach the tracker about an order of venue v.
Caught(v) == app = "run" /\ feed[v] = <<>> /\ callback[v] = "idle"

\* Once the reports are in, tracker and exchange agree on every buy, even
\* when a restart lost some of the reports.
BuysAgree ==
    \A o \in DOMAIN orders \cap Buys :
        Caught(VenueOf[o]) =>
            /\ orders[o].status = exchange[o].status
            /\ orders[o].filledQty = Bought(o)

Settled(v) ==
    LET tp == exchange[TakeProfitAt(v)]
    IN  ~BuysOpen(v) =>
            IF position[v] > 0 THEN tp.status = "open" /\ tp.sz = position[v]
                               ELSE tp.status # "open"

\* ReconcileTakeProfits "ensures a reduce-only order exists that matches the
\* current net position": in the end, and for good, on the exchange.
TakeProfitMatches == <>[](\A v \in Venues : Settled(v))

\* Work stops once there is nothing more to do.
ComesToRest == <>[]AtRest
=============================================================================
