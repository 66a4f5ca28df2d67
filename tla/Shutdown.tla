------------------------------ MODULE Shutdown ------------------------------
(***************************************************************************)
(* App.Shutdown (cmd/recomma/app.go) against the goroutines it stops: HTTP *)
(* handlers, the periodic task, deal and order workers (workers.go).  A    *)
(* deal, when it is handled, emits the order of the same name.  The two    *)
(* work queues are external: Add is ignored once a queue is shut down, Get *)
(* hands out what is left, and ShutDownWithDrain returns when everything   *)
(* that was queued has been Done, as its documentation promises.           *)
(***************************************************************************)
EXTENDS Naturals, FiniteSets

CONSTANTS
    Deals,          \* deals, and the orders they emit
    Manual,         \* orders an HTTP request or the periodic task emits
    DealWorkers, OrderWorkers,
    Nothing         \* a worker that holds no work

Orders == Deals \cup Manual

VARIABLES
    step,           \* where Shutdown is
    signalled,      \* SIGTERM has come: the context of the periodic task is done
    serving,        \* HTTP requests may still be served
    periodic,       \* the periodic task runs
    dealQueue, orderQueue,      \* queued, and whether the queue is shut down
    held,           \* held[w]: what worker w works on
    ended,          \* workers that have returned
    emitted,        \* orders a deal worker has emitted
    attempted,      \* orders an order worker has tried to submit
    storeClosed
vars == <<step, signalled, serving, periodic, dealQueue, orderQueue, held, ended, emitted,
          attempted, storeClosed>>

Workers == DealWorkers \cup OrderWorkers

Init ==
    /\ step = "running" /\ signalled = FALSE
    /\ serving = TRUE /\ periodic = TRUE
    /\ dealQueue = [items |-> {}, down |-> FALSE]
    /\ orderQueue = [items |-> {}, down |-> FALSE]
    /\ held = [w \in Workers |-> Nothing]
    /\ ended = {} /\ emitted = {} /\ attempted = {}
    /\ storeClosed = FALSE

Add(q, x) == IF q.down THEN q ELSE [q EXCEPT !.items = @ \cup {x}]
Take(q, x) == [q EXCEPT !.items = @ \ {x}]
Drained(q, ws) == q.items = {} /\ \A w \in ws : held[w] = Nothing

---------------------------------------------------------------------------
(***************************************************************************)
(* Workers                                                                 *)
(***************************************************************************)
runWorkerGets(w) ==
    /\ w \notin ended /\ held[w] = Nothing
    /\ \/ \E d \in dealQueue.items :
            /\ held' = [held EXCEPT ![w] = d]
            /\ dealQueue' = Take(dealQueue, d)
            /\ UNCHANGED ended
       \/ /\ dealQueue.items = {} /\ dealQueue.down
          /\ ended' = ended \cup {w}
          /\ UNCHANGED <<held, dealQueue>>
    /\ UNCHANGED <<step, signalled, serving, periodic, orderQueue, emitted, attempted,
                   storeClosed>>

\* HandleDeal emits the order, or fails and the deal is put back unless the queue is down.
processWorkItem(w) ==
    /\ held[w] # Nothing
    /\ \/ /\ orderQueue' = Add(orderQueue, held[w])
          /\ emitted' = emitted \cup {held[w]}
          /\ UNCHANGED dealQueue
       \/ /\ dealQueue' = Add(dealQueue, held[w])
          /\ UNCHANGED <<orderQueue, emitted>>
    /\ held' = [held EXCEPT ![w] = Nothing]
    /\ UNCHANGED <<step, signalled, serving, periodic, ended, attempted, storeClosed>>

runOrderWorkerGets(w) ==
    /\ w \notin ended /\ held[w] = Nothing
    /\ \/ \E o \in orderQueue.items :
            /\ held' = [held EXCEPT ![w] = o]
            /\ orderQueue' = Take(orderQueue, o)
            /\ UNCHANGED ended
       \/ /\ orderQueue.items = {} /\ orderQueue.down
          /\ ended' = ended \cup {w}
          /\ UNCHANGED <<held, orderQueue>>
    /\ UNCHANGED <<step, signalled, serving, periodic, dealQueue, emitted, attempted,
                   storeClosed>>

processOrderItem(w) ==
    /\ held[w] # Nothing
    /\ attempted' = attempted \cup {held[w]}
    /\ orderQueue' \in {orderQueue, Add(orderQueue, held[w])}
    /\ held' = [held EXCEPT ![w] = Nothing]
    /\ UNCHANGED <<step, signalled, serving, periodic, dealQueue, ended, emitted,
                   storeClosed>>

---------------------------------------------------------------------------
(***************************************************************************)
(* Everybody else.  Requests are served until the HTTP server has drained, *)
(* and beyond its ten seconds when they take longer.                       *)
(***************************************************************************)
HTTPRequest ==
    /\ serving
    /\ \E o \in Manual : orderQueue' = Add(orderQueue, o)
    /\ UNCHANGED <<step, signalled, serving, periodic, dealQueue, held, ended, emitted,
                   attempted, storeClosed>>

\* Resync: ProduceActiveDeals and ReconcileTakeProfits.  A round that is under way when the
\* context is done may go on for a while.
PeriodicTask ==
    /\ periodic
    /\ \/ \E d \in Deals : dealQueue' = Add(dealQueue, d) /\ UNCHANGED orderQueue
       \/ \E o \in Manual : orderQueue' = Add(orderQueue, o) /\ UNCHANGED dealQueue
    /\ UNCHANGED <<step, signalled, serving, periodic, held, ended, emitted, attempted,
                   storeClosed>>

PeriodicTaskEnds ==
    /\ periodic /\ signalled
    /\ periodic' = FALSE
    /\ UNCHANGED <<step, signalled, serving, dealQueue, orderQueue, held, ended, emitted,
                   attempted, storeClosed>>

Signal ==
    /\ ~signalled
    /\ signalled' = TRUE
    /\ UNCHANGED <<step, serving, periodic, dealQueue, orderQueue, held, ended, emitted,
                   attempted, storeClosed>>

RequestsEnd ==
    /\ serving /\ step \notin {"running", "drainHTTP"}
    /\ serving' = FALSE
    /\ UNCHANGED <<step, signalled, periodic, dealQueue, orderQueue, held, ended, emitted,
                   attempted, storeClosed>>

---------------------------------------------------------------------------
(***************************************************************************)
(* Shutdown                                                                *)
(***************************************************************************)
rest == <<signalled, periodic, held, ended, emitted, attempted>>

StopsTickers ==
    /\ step = "running" /\ signalled
    /\ step' = "drainHTTP"
    /\ UNCHANGED <<serving, dealQueue, orderQueue, storeClosed, rest>>

\* In time, or after ten seconds with requests that go on.
drainHTTPServer ==
    /\ step = "drainHTTP"
    /\ serving' \in {FALSE, serving}
    /\ dealQueue' = [dealQueue EXCEPT !.down = TRUE]
    /\ step' = "drainDeals"
    /\ UNCHANGED <<orderQueue, storeClosed, rest>>

\* Faulty variant: both queues are shut down before the first is drained.
DealQueueShutsBoth ==
    /\ step = "drainDeals"
    /\ orderQueue' = [orderQueue EXCEPT !.down = TRUE]
    /\ step' = "drainOrders"
    /\ UNCHANGED <<serving, dealQueue, storeClosed, rest>>

\* Faulty variant: the order queue is only waited for.
DealQueueDrainedOnly ==
    /\ step = "drainDeals" /\ Drained(dealQueue, DealWorkers)
    /\ step' = "drainOrders"
    /\ UNCHANGED <<serving, dealQueue, orderQueue, storeClosed, rest>>

DealQueueDrained ==
    /\ step = "drainDeals" /\ Drained(dealQueue, DealWorkers)
    /\ orderQueue' = [orderQueue EXCEPT !.down = TRUE]
    /\ step' = "drainOrders"
    /\ UNCHANGED <<serving, dealQueue, storeClosed, rest>>

OrderQueueDrained ==
    /\ step = "drainOrders" /\ Drained(orderQueue, OrderWorkers)
    /\ step' = "waitWorkers"
    /\ UNCHANGED <<serving, dealQueue, orderQueue, storeClosed, rest>>

\* Also after the timeout, which only cancels the workers' context.
WorkersDone ==
    /\ step = "waitWorkers" /\ Workers \subseteq ended
    /\ step' = "closeRest"
    /\ UNCHANGED <<serving, dealQueue, orderQueue, storeClosed, rest>>

\* Websockets, the log handler (LogQueue) and then the store.
ClosesStore ==
    /\ step = "closeRest"
    /\ storeClosed' = TRUE
    /\ step' = "done"
    /\ UNCHANGED <<serving, dealQueue, orderQueue, rest>>

DealWorkerStep == \E w \in DealWorkers : runWorkerGets(w) \/ processWorkItem(w)
OrderWorkerStep == \E w \in OrderWorkers : runOrderWorkerGets(w) \/ processOrderItem(w)
ShutdownStep == \/ StopsTickers \/ drainHTTPServer \/ DealQueueDrained \/ OrderQueueDrained
                \/ WorkersDone \/ ClosesStore

Next == \/ DealWorkerStep \/ OrderWorkerStep \/ ShutdownStep
        \/ HTTPRequest \/ PeriodicTask \/ PeriodicTaskEnds \/ Signal \/ RequestsEnd

---------------------------------------------------------------------------
\* An order that a deal emits is submitted at least once before the workers end, and its
\* worker still has the store: deals drain before orders and the workers are awaited
\* before anything is closed (app.go:818-846).  The event that caused the order is
\* already recorded and would not be seen as new by the next start.
EmittedOrdersAttempted ==
    /\ step \in {"waitWorkers", "closeRest", "done"} => emitted \subseteq attempted
    /\ storeClosed => Workers \subseteq ended
=============================================================================
