----------------------------- MODULE OrderFlow -----------------------------
(***************************************************************************)
(* How the 3Commas events of one base or safety order become orders on the *)
(* venues of its bot: processDeal with reduceOrderEvents and BuildAction,  *)
(* the order queue, the order workers and HyperLiquidEmitter.Emit.         *)
(*                                                                         *)
(* processDeal runs once at a time per deal, order workers beside it.  An  *)
(* event is its status and its price, which stands for everything that a   *)
(* modification changes.  Sizes, scaling results, market prices and the    *)
(* retries of immediate-or-cancel orders are left out; the take profit has *)
(* a module of its own.  Queue, exchange and 3Commas are external: a queue *)
(* hands its items out in any order, since five workers and the backoff    *)
(* of retries leave none.                                                  *)
(***************************************************************************)
EXTENDS Naturals, Sequences, FiniteSets, SequencesExt

CONSTANTS
    Venues,         \* venue and wallet pairs
    Workers,        \* order workers
    Prices,
    Nothing,        \* no event, no work
    PollIsSlow,     \* the work of one poll is done before the next, 15 seconds later
    MaxRequeues,    \* the 5 of processOrderItem
    MaxEvents,      \* bound on the events of the order
    MaxFaults,      \* bound on crashes, on calls that fail and on scaling errors
    MaxChanges,     \* bound on the calls when an operator changes the assignment
    MaxCancels      \* bound on the calls when an operator cancels the order

VARIABLES
    events,         \* what 3Commas reports of the order, oldest first
    recorded,       \* how many of them are in threecommas_botevents
    assigned,       \* venues of the bot: ListVenuesForBot
    deal, plan,     \* where processDeal is, and what it still has to emit
    queue, requeues,\* the order queue and the requeues of its items
    worker,         \* what each order worker does
    submissions,    \* hyperliquid_submissions, one row per venue
    statuses,       \* the latest row of hyperliquid_status_history, per venue
    exchange,       \* the order on the exchange, per venue
    updates,        \* order updates on their way, per venue
    faults, changes,
    excused         \* history: venues whose last decision was not carried out

storeVars == <<recorded, submissions, statuses>>
boundVars == <<faults, changes>>
vars == <<events, assigned, deal, plan, queue, requeues, worker, storeVars, exchange, updates,
          boundVars, excused>>

Events == [status : {"active", "cancelled", "filled"}, price : Prices]
Works == [venue : Venues, type : {"create", "modify", "cancel"}, price : Prices,
          event : 0..MaxEvents]
Idle == [work |-> Nothing, step |-> "idle", type |-> "none"]
NoOrder == [status |-> "none", price |-> Nothing]
NoSubmission == [kind |-> "none", price |-> Nothing]

ASSUME OrderFlowAssumption ==
    /\ Nothing \notin Events
    /\ {MaxRequeues, MaxEvents, MaxFaults, MaxChanges, MaxCancels} \subseteq Nat

Init ==
    /\ events = <<>> /\ recorded = 0
    /\ assigned \in SUBSET Venues \ {{}}
    /\ deal = "idle" /\ plan = {}
    /\ queue = {} /\ requeues = <<>>
    /\ worker = [k \in Workers |-> Idle]
    /\ submissions = [v \in Venues |-> NoSubmission]
    /\ statuses = [v \in Venues |-> NoOrder]
    /\ exchange = [v \in Venues |-> NoOrder]
    /\ updates = [v \in Venues |-> <<>>]
    /\ faults = 0 /\ changes = 0
    /\ excused = {}

---------------------------------------------------------------------------
\* From events to an action: engine.go and adapter.go.

History == SubSeq(events, 1, recorded)

sameSnapshot(a, b) == a = b

previousDistinct(es) ==
    LET other == {i \in 1..(Len(es) - 1) : ~sameSnapshot(es[i], Last(es))}
    IN  IF other = {} THEN Nothing ELSE es[CHOOSE i \in other : \A j \in other : j <= i]

needsModify(prev, next) == prev.price # next.price

BuildAction(prev, next) ==
    CASE prev = Nothing /\ next.status = "active" -> "create"
      [] prev # Nothing /\ prev.status = "active" /\ next.status = "cancelled" -> "cancel"
      [] prev # Nothing /\ prev.status = "active" /\ next.status = "active"
            /\ needsModify(prev, next) -> "modify"
      [] OTHER -> "none"

\* Without a local order there is nothing to modify or to cancel.
reduceOrderEvents(hasLocalOrder) ==
    BuildAction(IF hasLocalOrder THEN previousDistinct(History) ELSE Nothing, Last(History))

\* ListSubmissionIdentifiersForOrder: a submission or a status counts.
HasRow(v) == submissions[v] # NoSubmission \/ statuses[v] # NoOrder

\* normalizeSubmissionIdentifiers drops the venues that the bot has no more.
storedIdents == {v \in assigned : HasRow(v)}

missingAssignmentTargets == assigned \ storedIdents

resolveOrderTargets(type) ==
    CASE type = "create" -> missingAssignmentTargets
      [] type \in {"modify", "cancel"} -> storedIdents
      [] OTHER -> {}

Work(v, type) ==
    [venue |-> v, type |-> type, price |-> Last(History).price, event |-> recorded]

replayAvailable ==
    /\ storedIdents # {} /\ missingAssignmentTargets # {}
    /\ Last(History).status = "active"

Replay == IF replayAvailable THEN {Work(v, "create") : v \in missingAssignmentTargets} ELSE {}

Emissions ==
    LET type == reduceOrderEvents(storedIdents # {})
    IN  {Work(v, type) : v \in resolveOrderTargets(type)} \cup Replay

---------------------------------------------------------------------------
\* processDeal.

PendingAt(v) ==
    \/ \E w \in queue \cup plan : w.venue = v
    \/ \E k \in Workers : worker[k] # Idle /\ worker[k].work.venue = v

\* What the store takes for the order's existence is not so on the exchange.
StoreWrong(v) == HasRow(v) # (exchange[v] # NoOrder)

\* A new action for a venue makes up for what was lost, unless older work is on its way
\* or an operator has cancelled the order.
StillExcused ==
    (excused \ {w.venue : w \in Emissions}) \cup
    {v \in Venues : PendingAt(v) \/ StoreWrong(v) \/ exchange[v].status = "canceled"}

\* The events are recorded first; only an order with a new one is looked at.
DealRecords ==
    /\ deal = "idle" /\ recorded < Len(events)
    /\ PollIsSlow => queue = {} /\ \A k \in Workers : worker[k] = Idle
    /\ recorded' = Len(events)
    /\ deal' = "decide"
    /\ UNCHANGED <<events, assigned, plan, queue, requeues, worker, submissions, statuses,
                   exchange, updates, boundVars, excused>>

\* Faulty variant: new venues of the bot are not given the order.
DealDecidesNoReplay ==
    /\ deal = "decide"
    /\ plan' = Emissions \ Replay
    /\ deal' = "emit"
    /\ excused' = StillExcused
    /\ UNCHANGED <<events, assigned, queue, requeues, worker, storeVars, exchange, updates,
                   boundVars>>

DealDecides ==
    /\ deal = "decide"
    /\ plan' = Emissions
    /\ deal' = "emit"
    /\ excused' = StillExcused
    /\ UNCHANGED <<events, assigned, queue, requeues, worker, storeVars, exchange, updates,
                   boundVars>>

DealEmits(w) ==
    /\ deal = "emit" /\ w \in plan
    /\ plan' = plan \ {w}
    /\ queue' = queue \cup {w}
    /\ UNCHANGED <<events, assigned, deal, requeues, worker, storeVars, exchange, updates,
                   boundVars, excused>>

\* applyScaling: a size below the minimum skips the venue, another error ends processDeal
\* for all that are left.
DealCannotScale(w) ==
    /\ deal = "emit" /\ w \in plan /\ w.type # "cancel"
    /\ faults < MaxFaults
    /\ faults' = faults + 1
    /\ plan' \in {plan \ {w}, {}}
    /\ excused' = excused \cup {u.venue : u \in plan \ plan'} \cup {w.venue}
    /\ UNCHANGED <<events, assigned, deal, queue, requeues, worker, storeVars, exchange,
                   updates, changes>>

DealDone ==
    /\ deal = "emit" /\ plan = {}
    /\ deal' = "idle"
    /\ UNCHANGED <<events, assigned, plan, queue, requeues, worker, storeVars, exchange,
                   updates, boundVars, excused>>

---------------------------------------------------------------------------
\* Order workers: processOrderItem and HyperLiquidEmitter.Emit.

TakeWork(k, w) ==
    /\ worker[k] = Idle
    /\ w \in queue /\ \A l \in Workers : worker[l].work # w
    /\ queue' = queue \ {w}
    /\ worker' = [worker EXCEPT ![k] =
            [work |-> w, step |-> IF w.type = "create" THEN "check" ELSE "call", type |-> w.type]]
    /\ UNCHANGED <<events, assigned, deal, plan, requeues, storeVars, exchange, updates,
                   boundVars, excused>>

Requeued(w) == IF w \in DOMAIN requeues THEN requeues[w] ELSE 0

Forget(w) == requeues' = [u \in DOMAIN requeues \ {w} |-> requeues[u]]

AddRateLimited(w) ==
    /\ queue' = queue \cup {w}
    /\ requeues' = [u \in DOMAIN requeues \cup {w} |->
                        IF u = w THEN Requeued(w) + 1 ELSE requeues[u]]

Finish(k) ==
    /\ Forget(worker[k].work)
    /\ worker' = [worker EXCEPT ![k] = Idle]
    /\ queue' = queue

\* Faulty variant: the work is put back without counting the requeue.
RetriesUncounted(k) ==
    /\ worker' = [worker EXCEPT ![k] = Idle]
    /\ queue' = queue \cup {worker[k].work}
    /\ UNCHANGED <<requeues, excused>>

\* Faulty variant: an error is retried whatever the count.
RetriesForever(k) ==
    /\ worker' = [worker EXCEPT ![k] = Idle]
    /\ AddRateLimited(worker[k].work)
    /\ excused' = excused

\* An error requeues the work until it has been requeued too often.
Retries(k) ==
    LET w == worker[k].work
    IN  /\ worker' = [worker EXCEPT ![k] = Idle]
        /\ \/ Requeued(w) < MaxRequeues /\ AddRateLimited(w) /\ excused' = excused
           \/ /\ Requeued(w) >= MaxRequeues
              /\ queue' = queue /\ Forget(w)
              /\ excused' = excused \cup {w.venue}

\* The latest status, and the latest action with its payload.
LoadHyperliquidStatus(v) == statuses[v]
LoadHyperliquidSubmission(v) == submissions[v]

Live(v) == LoadHyperliquidStatus(v).status = "open"

ordersMatch(v, price) ==
    /\ LoadHyperliquidSubmission(v).kind \in {"create", "modify"}
    /\ LoadHyperliquidStatus(v).price = price

\* A create of an order that is known to be live is dropped or becomes a modify.
EmitChecks(k) ==
    LET w == worker[k].work
    IN  /\ worker[k].step = "check"
        /\ IF Live(w.venue) /\ ordersMatch(w.venue, w.price)
           THEN Finish(k)
           ELSE /\ worker' = [worker EXCEPT ![k].step = "call",
                                            ![k].type = IF Live(w.venue) THEN "modify" ELSE @]
                /\ UNCHANGED <<queue, requeues>>
        /\ UNCHANGED <<events, assigned, deal, plan, storeVars, exchange, updates, boundVars,
                       excused>>

\* The exchange: an identifier that is open cannot be created again, and one that was
\* never placed cannot be modified.
Accepts(k) ==
    LET v == worker[k].work.venue
    IN  CASE worker[k].type = "create" -> exchange[v].status # "open"
          [] worker[k].type = "modify" -> exchange[v].status = "open"
          [] OTHER -> exchange[v].status = "open"

Executes(k) ==
    LET v == worker[k].work.venue
        order == IF worker[k].type = "cancel" THEN [exchange[v] EXCEPT !.status = "canceled"]
                 ELSE [status |-> "open", price |-> worker[k].work.price]
    IN  /\ exchange' = [exchange EXCEPT ![v] = order]
        /\ updates' = [updates EXCEPT ![v] = Append(@, order)]

EmitCalls(k) ==
    /\ worker[k].step = "call" /\ Accepts(k)
    /\ Executes(k)
    /\ worker' = [worker EXCEPT ![k].step = "record"]
    /\ UNCHANGED <<events, assigned, deal, plan, queue, requeues, storeVars, boundVars, excused>>

\* A cancel of a closed order is recorded; a modify of one is not, and is no error.
EmitFindsClosed(k) ==
    LET v == worker[k].work.venue
    IN  /\ worker[k].step = "call" /\ ~Accepts(k)
        /\ \/ worker[k].type = "cancel" /\ UNCHANGED <<queue, requeues>>
              /\ worker' = [worker EXCEPT ![k].step = "record"]
           \/ worker[k].type = "modify" /\ exchange[v] # NoOrder /\ Finish(k)
        /\ UNCHANGED <<events, assigned, deal, plan, storeVars, exchange, updates, boundVars,
                       excused>>

EmitRejected(k) ==
    LET v == worker[k].work.venue
    IN  /\ worker[k].step = "call" /\ ~Accepts(k)
        /\ worker[k].type = "create" \/ (worker[k].type = "modify" /\ exchange[v] = NoOrder)
        /\ Retries(k)
        /\ UNCHANGED <<events, assigned, deal, plan, storeVars, exchange, updates, boundVars>>

\* The call fails before or after the exchange has carried it out.  An expired context
\* requeues without a limit.
EmitCallFails(k) ==
    /\ worker[k].step = "call" /\ faults < MaxFaults
    /\ faults' = faults + 1
    /\ \/ UNCHANGED <<exchange, updates>>
       \/ Accepts(k) /\ Executes(k)
    /\ \/ Retries(k)
       \/ /\ worker' = [worker EXCEPT ![k] = Idle]
          /\ AddRateLimited(worker[k].work)
          /\ excused' = excused
    /\ UNCHANGED <<events, assigned, deal, plan, storeVars, changes>>

\* The SQL of the three kinds of submission.
upsertHyperliquidCreate(row, price) == [kind |-> "create", price |-> price]

\* Faulty variant: the payload of the create stays the latest.
appendModifyKeepsPayload(row, price) ==
    [kind |-> "modify", price |-> IF row.price = Nothing THEN price ELSE row.price]

appendHyperliquidModify(row, price) == [kind |-> "modify", price |-> price]

upsertHyperliquidCancel(row) == [row EXCEPT !.kind = "cancel"]

Recorded(type, row, price) ==
    CASE type = "create" -> upsertHyperliquidCreate(row, price)
      [] type = "modify" -> appendHyperliquidModify(row, price)
      [] OTHER -> upsertHyperliquidCancel(row)

EmitRecords(k) ==
    LET w == worker[k].work
    IN  /\ worker[k].step = "record"
        /\ submissions' = [submissions EXCEPT ![w.venue] =
                                Recorded(worker[k].type, @, w.price)]
        /\ Finish(k)
        /\ UNCHANGED <<events, assigned, deal, plan, recorded, statuses, exchange, updates,
                       boundVars, excused>>

\* Below the minimum value, or reduce-only without a position: recorded as if placed.
EmitSwallows(k) ==
    LET w == worker[k].work
    IN  /\ worker[k].step = "call" /\ worker[k].type = "create"
        /\ faults < MaxFaults
        /\ faults' = faults + 1
        /\ submissions' = [submissions EXCEPT ![w.venue] = upsertHyperliquidCreate(@, w.price)]
        /\ excused' = excused \cup {w.venue}
        /\ Finish(k)
        /\ UNCHANGED <<events, assigned, deal, plan, recorded, statuses, exchange, updates,
                       changes>>

---------------------------------------------------------------------------
\* The surroundings.

\* An order is active until it is cancelled or filled.
ThreeCommasReports(e) ==
    /\ Len(events) < MaxEvents
    /\ events # <<>> => Last(events).status = "active"
    /\ (events # <<>> /\ e.status # "active") => e.price = Last(events).price
    /\ events' = Append(events, e)
    /\ UNCHANGED <<assigned, deal, plan, queue, requeues, worker, storeVars, exchange, updates,
                   boundVars, excused>>

\* An operator assigns the bot to other venues; a new one waits for the next event.
AssignmentChanges(vs) ==
    /\ changes < MaxChanges /\ vs # assigned
    /\ changes' = changes + 1
    /\ assigned' = vs
    /\ excused' = excused \cup (vs \ assigned)
    /\ UNCHANGED <<events, deal, plan, queue, requeues, worker, storeVars, exchange, updates,
                   faults>>

isCancelableStatus(v) == LoadHyperliquidStatus(v).status \in {"none", "open"}

\* An operator cancels the order, at one venue or at all that have it.
CancelOrderByOrderId(vs) ==
    LET pending == {v \in vs : /\ LoadHyperliquidSubmission(v).kind \in {"create", "modify"}
                               /\ isCancelableStatus(v)}
    IN  /\ changes < MaxCancels /\ pending # {}
        /\ changes' = changes + 1
        /\ queue' = queue \cup {[venue |-> v, type |-> "cancel", price |-> submissions[v].price,
                                 event |-> 0] : v \in pending}
        /\ excused' = excused \cup pending
        /\ UNCHANGED <<events, assigned, deal, plan, requeues, worker, storeVars, exchange,
                       updates, faults>>

Fills(v) ==
    /\ exchange[v].status = "open"
    /\ exchange' = [exchange EXCEPT ![v].status = "filled"]
    /\ updates' = [updates EXCEPT ![v] = Append(@, exchange'[v])]
    /\ UNCHANGED <<events, assigned, deal, plan, queue, requeues, worker, storeVars, boundVars,
                   excused>>

StatusArrives(v) ==
    /\ updates[v] # <<>>
    /\ statuses' = [statuses EXCEPT ![v] = Head(updates[v])]
    /\ updates' = [updates EXCEPT ![v] = Tail(@)]
    /\ UNCHANGED <<events, recorded, assigned, deal, plan, queue, requeues, worker, submissions,
                   exchange, boundVars, excused>>

\* Queue and updates are lost; the refresher asks for the orders in the store, and some of
\* its queries may fail.
CrashAndRestart(asked) ==
    /\ faults < MaxFaults
    /\ faults' = faults + 1
    /\ asked \subseteq {v \in Venues : HasRow(v)}
    /\ excused' = excused \cup {v \in Venues : PendingAt(v) \/ deal = "decide"}
    /\ deal' = "idle" /\ plan' = {} /\ queue' = {} /\ requeues' = <<>>
    /\ worker' = [k \in Workers |-> Idle]
    /\ statuses' = [v \in Venues |-> IF v \in asked /\ exchange[v] # NoOrder
                                     THEN exchange[v] ELSE statuses[v]]
    /\ updates' = [v \in Venues |-> <<>>]
    /\ UNCHANGED <<events, recorded, assigned, submissions, exchange, changes>>

DealStep ==
    \/ DealRecords \/ DealDecides \/ DealDone
    \/ \E w \in plan : DealEmits(w) \/ DealCannotScale(w)

WorkerStep(k) ==
    \/ \E w \in queue : TakeWork(k, w)
    \/ EmitChecks(k) \/ EmitCalls(k) \/ EmitFindsClosed(k) \/ EmitRejected(k)
    \/ EmitCallFails(k) \/ EmitSwallows(k) \/ EmitRecords(k)

Next ==
    \/ DealStep
    \/ \E k \in Workers : WorkerStep(k)
    \/ \E e \in Events : ThreeCommasReports(e)
    \/ \E vs \in SUBSET Venues \ {{}} : AssignmentChanges(vs)
    \/ CancelOrderByOrderId(Venues) \/ \E v \in Venues : CancelOrderByOrderId({v})
    \/ \E v \in Venues : Fills(v) \/ StatusArrives(v)
    \/ \E asked \in SUBSET Venues : CrashAndRestart(asked)

\* Polling, the workers and the websocket go on; nothing else has to happen.
Fairness ==
    /\ WF_vars(DealStep)
    /\ \A k \in Workers : WF_vars(WorkerStep(k))
    /\ \A v \in Venues : WF_vars(StatusArrives(v))

Spec == Init /\ [][Next]_vars /\ Fairness

---------------------------------------------------------------------------
TypeOK ==
    /\ events \in Seq(Events) /\ recorded \in 0..Len(events)
    /\ assigned \in SUBSET Venues \ {{}}
    /\ plan \subseteq Works /\ queue \subseteq Works
    /\ \A w \in DOMAIN requeues : w \in Works /\ requeues[w] \in 1..(MaxRequeues + MaxFaults)
    /\ \A k \in Workers : worker[k] # Idle => worker[k].work \in Works
    /\ \A v \in Venues : exchange[v].status \in {"none", "open", "filled", "canceled"}

AtRest ==
    /\ recorded = Len(events) /\ deal = "idle" /\ queue = {}
    /\ \A k \in Workers : worker[k] = Idle

\* When the work is done, every venue of the bot has what the last 3Commas event says: an
\* open order at its price, or one that filled, while it is active, and no open order once
\* it is cancelled.  Crashes, lost calls, dropped work and new venues may come in between:
\* the next event makes up for them.  Excused are the venues whose last decision was lost
\* or taken while older work for them was pending (engine.go:278, adapter.go:97).
SettledMatches ==
    AtRest /\ recorded > 0 =>
        \A v \in assigned \ excused :
            CASE Last(events).status = "active" ->
                    \/ exchange[v].status = "filled"
                    \/ exchange[v] = [status |-> "open", price |-> Last(events).price]
              [] Last(events).status = "cancelled" -> exchange[v].status # "open"
              [] OTHER -> TRUE

\* When the work is done, the submission that is stored last is the order that is open on
\* the exchange: creates are compared with it (emitter.go:369, storage.go:1433).
StoreMirrors ==
    AtRest =>
        \A v \in Venues \ excused :
            exchange[v].status = "open" /\ submissions[v].kind \in {"create", "modify"} =>
                submissions[v].price = exchange[v].price

\* Once no more calls fail the work comes to an end: what failed is retried or given up
\* (workers.go:120), and what a deadline interrupts, requeued without limit
\* (workers.go:110), is interrupted MaxFaults times at most.
Settles == <>[]AtRest
=============================================================================
