# Recomma in TLA+

Recomma mirrors the orders of 3Commas bots to Hyperliquid. It polls 3Commas for
bots and deals under a strict request quota, turns the events of each deal into
orders, sends them to one or more Hyperliquid venues, follows their fills, and
keeps a reduce-only take profit that matches the position. This directory holds
TLA+ modules that model its core, the TLC runs that check them and the proofs
that TLAPS checks. `PROJECT.json` maps every definition to the lines it models.

## Inventory

| Component | State | Operations | Hard part |
|---|---|---|---|
| Rate limiter (`ratelimit/limiter.go`) | calls of the window, reservations, FIFO wait queue | Reserve, Consume, AdjustDown, Extend, SignalComplete, Release, Stats, watcher | two methods wait without the lock; reservations outlive windows |
| Engine, 3Commas side (`engine/engine.go`, `ratelimit/client.go`) | none of its own | ProduceActiveDeals with a goroutine per bot, HandleDeal | everybody waits for the same quota; errors between Reserve and Release |
| Engine, order side (`engine/engine.go`, `adapter`) | recorded bot events | processDeal: reduce events, choose venues, scale, emit | events are recorded as seen before their orders are emitted |
| Workers and queues (`cmd/recomma/workers.go`) | deal queue and order queue | get, retry with backoff, forget | several workers reorder work for one order |
| Emitter (`emitter/emitter.go`) | latest submission (in the store) | create, modify, cancel, and a create that becomes a modify | exchange call and record are two steps; several errors count as success |
| Rate gate (`emitter/rate_gate.go`) | time of the next call | Wait, Cooldown | shared by the workers of a wallet |
| Fill tracker (`filltracker/service.go`) | state of every order, hydration gate | UpdateStatus, ApplyScaledOrder, ReconcileTakeProfits, Rebuild, CleanupStaleDeals | snapshot under the lock, reconciliation without it; statuses from three sources |
| Status refresher (`hl/status_refresher.go`) | none | Refresh | runs beside the websocket; may fail in part |
| Websocket client (`hl/ws/ws.go`) | best bid and offer per coin, subscribers | order update callback, SubscribeBBO, EnsureBBO | tracker first, store second; the stored quote against live ones |
| Storage (`storage/storage.go`, `storage/api.go`) | events, submissions, status history, audits | Record..., Load..., List... | shared by everybody, lags the exchange; paging |
| Venues (`storage/storage.go`, `cmd/recomma/app.go`, `handler_venues.go`) | venues, assignments of bots, the default venue and its wallet | upsert, delete, assign, sync at start, migration of the default wallet | setup at every start beside an operator; rows move between wallets |
| Order scaler (`engine/orderscaler`, `storage/order_scalers.go`) | multipliers, audits | Scale, BuildRequest, edit the configuration | rounding, ladders of take profits, reads in several critical sections |
| Vault (`internal/vault`, `internal/api/vault.go`, `webauth.go`) | state, secrets, ready channel, session, passkeys | setup, seal, unseal, update, register, log in, wait | requests interleave between three locks; a waiter may return after a second Seal |
| Streams (`internal/api/stream_controller.go`, `system_stream.go`) | subscribers, bounded buffers, history | Subscribe, Publish, cancel, Flush | order of sequence numbers, history against live events |
| Application (`cmd/recomma/app.go`) | goroutines and their contexts | Start, periodic tasks, Shutdown | order of refresh, rebuild and start of workers |
| Log persistence (`pkg/sqllogger`) | queue of entries | Handle, worker, Close | a Handle beside Close |

How they interact. A ticker runs ProduceActiveDeals, which fills the deal queue;
deal workers run HandleDeal; both go through the limiter. processDeal puts order
work into the order queue; order workers run the emitter. The exchange answers
on the websocket, whose callback updates the tracker and then the store; the
tracker reconciles and puts more work into the order queue. The same ticker also
runs ReconcileTakeProfits. At start the refresher asks for the status of every
submitted order, the tracker is rebuilt from the store, and only then do the
workers start.

What makes each correct: the limiter never lets more calls through than the
quota and loses no waiter; the pipeline handles every deal, always has a slot
for a call it makes, and keeps no slot when it is done; the tracker never counts
a fill that did not happen and agrees with the exchange once all reports are in;
the take profit on the exchange comes to match the position and the work then
stops, with retries, several workers and a crash at any point. An order comes to
have, at every venue of its bot, the state of its last event; its size is what the
configuration said; a bot keeps the venue an operator chose. The vault says what
the store says, and a waiter is woken. Calls of a wallet are spaced; a subscriber
sees its events in order and once; shutdown ends and loses nothing that was queued.

## Modules

    RateLimiter  <- DealPipeline (INSTANCE)     TrackedOrder <- TakeProfit <- TakeProfitProofs
         ^               ^                      OrderFlow, Catalog, OrderScaler <- MCOrders
    RateLimiterProofs <- DealPipelineProofs     OrderFlow <- OrderFlowProofs
                                                OrderScaler <- OrderScalerProofs
                                                Catalog <- CatalogProofs
                                                Vault <- VaultProofs
    DealPipeline, Vault, TakeProfit <- MCProcess
    OrderScaler <- MCOrderScaler
    OrderStream, SystemStream, PriceTopic, LogQueue, RateGate, Shutdown <- Services
    Services <- MCServices, ServicesProofs

**RateLimiter** is `ratelimit/limiter.go`. Method bodies run under one mutex and
are one action each. `Reserve` and `Extend` unlock while they wait and are split
there: `ReserveQueued`, then `ReserveReady` or `ReserveCtxDone` and, once the
lock is taken again, `ReserveAbandoned`. With both channels ready Go's `select`
takes either, and so does the model. Time is one bit: `elapsed` says that the
window is over and nobody has noticed. The loop of `tryGrantWaiting` is the
longest prefix of the queue that fits. `Extend` is in `SpecWithExtend` only: the
engine never calls it.

**DealPipeline** is `ProduceActiveDeals`, `HandleDeal`, the limited client and the
deal workers, over the actions of `RateLimiter`, unchanged. What the limiter does
not see (an answer of 3Commas, the queue, retries) is added around them. The work
queue of client-go is external: keys that are dirty, being processed, or delayed.
`processDeal` is one step here. `LimiterRefined` states that this composition
is an implementation of `RateLimiter`, so that what is proved there holds here.

**TrackedOrder** is the state the tracker keeps of one order and what a status, an
event, a scaled size and a cancellation do to it. Quantities are whole units and
statuses are the classes that the code tells apart.

**TakeProfit** is everything around the take profit of one deal: the tracker with
its gate, the goroutines that reconcile a snapshot without the lock (`hand`), the
order queue and its workers, the emitter with exchange call and record as two
steps, the callback with tracker and store as two steps, the engine's own
placement of the take profit in three steps, and crash, refresh and rebuild. The
exchange is external: orders rest under the identifier the program chose, a
modify (or a create with an identifier in use) replaces the order and reports
the end of the old one too, in either order (`bugs/bug_2025-11-29_tp_modify_status_side_mismatch.md`,
`bugs/bug_2025-11-30_startup_tp_race.md`); a reduce-only order cannot sell more
than the position. Reads of the store and the enqueueing of one venue's work are
one step.

**OrderFlow** is the life of one order from the event 3Commas reports to the orders
at the venues of its bot: processDeal in the steps between which others run
(record, decide, emit), the reduction of the event history by the adapter, replay
to venues that lack the order, the order queue with its requeue counts, and the
emitter with check, call and record as separate steps. The exchange may carry a
call out and lose its answer; statuses arrive later, in order; an operator changes
the assignment or cancels the order; the process may crash. `excused` collects
the venues where the code does not promise the last event: those that were
assigned later, that lost work in a crash or after the last retry, whose order an
operator cancelled, and those that got new work while older work was pending. A
new action for a venue takes it out again. The reads of a decision are one step and
do not fail. A create and the replay of the same create, which the code queues as two
works, are one; the second finds the order placed. Submissions stored for another
wallet of the venue (`engine.go:887`) are left out.

**Catalog** is the tables of venues and assignments and the rows that hang on a
wallet, every statement an operator: the start of the process (New with the
migration of the default venue, the venues of the vault, the sync of primary
venues page by page), the API of venues and assignments, and the resolution of a
bot's venues with its fallbacks. Rows are keys: where both wallets have a row, the
migration keeps the key and drops the payload of the old one.

**OrderScaler** is the configuration of multipliers and its API, the ladder of take
profits taken from events and deal, the search for the cheapest rounding of a
ladder, and Scale with one step per read. Like processDeal it scales orders of any
type; one type stands for all that are not take profits. An event is order
`position` of `group` (OrderPosition and OrderSize in the code) and may lack a size,
so that the size of the order is taken; the group is also the size of the stack that
Scale asks for, and that query may fail. Sizes are whole numbers of a fraction of a
lot, so that the costs of the search are exact integers.

**Vault** is the controller, the session manager, the handlers of the vault and of
the passkeys, and the main goroutine that waits for the vault. Each lock is a
step. Payloads are version numbers; what is encrypted is left out.

**OrderStream**, **SystemStream**, **PriceTopic**, **LogQueue**, **RateGate** and
**Shutdown** are small modules, one per service, each with all of its goroutines. A
send on a closed Go channel, and a second close, is a state `panic` of the channel.
`Shutdown` takes the documented contract of `ShutDownWithDrain` for the queues:
everything queued is handed out and done. What the library's loop does for items that
are queued and not yet handed out is not in this repository.
**Services** puts them side by side: they share nothing, so Init picks one and every
step is a step of that one. In `SystemStream` the events grow old in the order of their
numbers, as their timestamps do.

Definitions commented "Faulty variant" are not part of any specification. Each is
a plausible mistake in the definition that follows it; with it in place of that
definition TLC finds the property named in `PROJECT.json` violated.

## Runs

The bounds are named in the modules and set in the `.cfg` files.

| Run | Shows | Bounds |
|---|---|---|
| `limiter` | no waiter is lost, the queue is served in order, reservations survive resets and stay consistent, with Extend | 3 workflows, limit 3, requests of 1 to 3, reservations of up to 4: two may fit together, three may not, and one may need everything |
| `process` | the vault: controller and store agree, secrets only while unsealed, no unseal is missed; the pipeline: the quota is kept, every call has its slot, the limiter's contract is respected; the fills: no phantom fills | one user, 2 requests at a time, 2 tokens, 2 ceremonies, 2 starts; 2 deals of 2 bots, limit 3, 2 workers, calls fail, deadlines expire, no retries (a retry repeats the same steps); one buy of 2 units, 1 worker, 1 crash, 1 failure, 3 timestamps, every fault on |
| `pipeline_live` | deals are handled, bots are polled, nothing is kept | 2 deals that may fail, 1 bot, limit 4, 1 worker, 1 retry, no deadline expires in Reserve (`InTime`) |
| `take_profit_restart` | tracker and exchange agree, the take profit matches, work stops | one buy of 2 units, 2 workers of which the second takes work while the first has some (they are alike), 1 crash, 1 failing call with its retry, 4 timestamps |
| `services` | order and completeness of both streams, no use of a closed channel, the newest quote, flushed logs, spacing, shutdown | 2 publishers and 2 subscribers with buffers of 2 and 3 events; 3 loggers, 2 closers; 2 waiters and 8 ticks; 2 deals, 2 deal workers, 1 order worker |
| `orders` | every venue gets the last event, the store mirrors it, the work ends; orders have targets, choices, rows and keys are kept; audits explain the sizes of their orders | 2 venues, 2 workers, 2 events, 1 fault, 1 change of the assignment; 1 venue, 2 workers, 3 events or 2 and a cancel, polls that overtake the work; 2 bots, 2 venues, 2 wallets, 2 starts, 2 calls, pages of 1; 5 reports (a ladder of 2 steps below and above a lot, a changed step, one without a size, safety orders of a group as large as the ladder and of a smaller one), a ladder in the payload or none, 4 multipliers of which one is 0 and one too large, 2 polls, 1 edit |

Three workflows are the fewest for which a queue has a head, a follower and a
holder. Two units are the fewest for a partial fill, and two workers the fewest
that overtake each other. A crash needs no second one: a restarted process has
nothing but the store and the exchange, both of which vary freely before it.
Buffers of two with three events are the fewest that overflow while something is
read. In `Services`, `MCProcess` and `MCOrders` the parts share no state: Init picks one,
and a step is a step of that one. The flow of an order is two parts of `MCOrders`, since its
faults and its races together are out of reach: `faults`, where an event comes when the
work of the one before is done, and `race`, where nothing fails. Venues are alike and so
are prices, so that it starts with one of them; the change of the assignment brings the
other, or both. So TLC has older work pending at the same venue only; pending work at another
venue is left to the theorems. The vault has one user: with two, see below.

Deadlock is checked in the limiter and pipeline runs and, for its pipeline, in `process`.
Elsewhere the system may really stop: the exchange has nothing more to do, nobody calls, the process has
shut down, or the clock is at its bound.

### Where code and documents disagree

Six runs check a statement of the documents that TLC finds violated;
`PROJECT.json` quotes it.

- `pipeline_leak`: a deadline that expires as the grant arrives. Go's `select` may
  take `ctx.Done` although the reservation has been made; Reserve returns an error,
  nobody releases the slots, and the producer, which always asks for the whole
  quota, waits for ever.
- `take_profit_forgotten`: a rebuild gives a cancelled, partly filled buy a
  remaining size again (`service.go:815`). It is then neither active nor filled,
  and the deal keeps a position without a take profit.
- `vault_setup`: a passkey registered before setup can log in and get a session.
  When the session ends, Seal makes a vault `sealed` that was never set up, and
  setup is refused until the next restart.
- `catalog`: ListBots makes its page token from the first row it does not return,
  and the next page starts after that row. The sync at start, which reads pages of
  100, leaves a bot without a primary venue at every boundary. ListDeals and
  ListOrders page in the same way. With a single page nothing is missed:
  `OnePageCoversAll`.
- `scaler_stack`: BuildRequest takes the stack size from the event of an order of any
  type, and Scale looks up the take profit stack. Averaging order 1 of 2 (8 parts, 4 lots)
  of a deal with two take profits is sent with the size of the first of them (1 lot); its
  audit row has the averaging order's own size and calls the rest rounding. What does hold
  of every order is `AuditExplainsSize`.
- `scaler_ladder`: take profits of 2.2, 2.4, 2.6 and 2.8 lots become 2, 3, 2 and 3 lots,
  where `specs/order_scaler.adoc:31` wants "scaled legs [to] preserve ratio orderings". The
  search for the cheapest rounding charges for every step that is not above the one before
  it, and this rounding has one of them where the sorted ones have two
  (`orderscaler/service.go:317`). Three steps are enough where a lot is a small part of a
  coin (1.05, 1.1 and 1.2 lots become 2, 1 and 2). Two falling steps below a lot, which the
  property leaves out, may come out rising, as their ratio is not compared when the first
  rounds to nothing.

More of them can be seen by changing a constant of a run that passes:

- `MCDealPipelineLive` with two bots violates `DealsServed`: a new Reserve does not
  look at the queue, and with the Starter tier's poll every 60 s, the length of the
  window, the producer may always be first. The watcher does not help, since it
  wakes the queue only in a tick that resets the window itself.
- `MCProcess` with limit 2 violates `BotCallsGuaranteed`: the producer needs
  one slot more than there are bots, and AdjustDown never adds any.
- `MCRateLimiter` with `WindowBudget` violates it: Extend ignores the slots of other
  workflows. No caller uses Extend.
- `MCTakeProfitRestart` violates `TakeProfitMatches` with `QueriesMayFail` (a status
  query that fails for a finished order is never made up for), with
  `CreatesMayBeRejected` (a rejected take profit counts as active) and with
  `SellsInParts` (a replaced take profit forgets what it sold), and `ComesToRest`
  with `OpenBeforeCancel` (the late report of a replaced order hides the
  replacement).
- `MCTakeProfitRestart` with two buys of one unit violates `ComesToRest`: the engine's create is sized
  from the event, not from the position, and when it is rejected as a duplicate the
  tracker modifies an order that is closed, again at every tick.

The runs that pass leave these causes out through a constant each: they show that
nothing else prevents convergence.

- `MCProcess` with two users violates `InitializedAgrees`: a restart looks at the first
  user only, and a vault that belongs to the second asks for setup again.
- `MCOrders` without the excuses of `OrderFlow` violates `SettledMatches`; each excuse
  names a case. Two workers may carry out two actions for one order in the wrong
  order. A crash loses the queue, and the events are not new afterwards. A crash
  between call and record leaves an order that the store does not know; a create
  whose answer was lost is retried, which after a fill would buy again. A create
  below the minimum value is recorded as placed, and its modifies then fail. A
  venue taken from the bot gets no cancel for its orders.

Also found while modelling, and not stated as a run:

- UpdateStatus reconciles whether or not the hydration gate is open
  (`service.go:145` against `:53`), and SignalComplete frees no slots
  (`limiter.go:389` says it does).
- Unseal succeeds while the vault is unsealed (`openapi.yaml:214` says it must be
  sealed). A seal, or the clearing of an expired session, that was decided earlier
  can hit a vault that has just been unsealed; the woken main goroutine may then
  find no secrets and end the process.
- A primary venue under the id `hyperliquid:default` (as debug mode has it): every
  start moves its rows to the sentinel wallet, UpsertVenue then sets the wallet
  directly, EnsureDefaultVenueWallet sees no difference and the rows stay behind.
- The sync's question whether a bot has a primary venue and its answer are two
  critical sections; a choice made in between is overridden. DeleteVenue leaves
  assignments to the deleted venue, which ListVenuesForBot skips.
- The branch of CancelOrderByOrderId for a cancel already recorded cannot be reached.
- MinNotional is never set, so that no order is skipped for its size by the scaler;
  when the first load of the coin constraints fails, every coin is unknown until
  the restart (`constraints.go:104`). Each venue is scaled on its own, and an edit
  in between gives them different multipliers.
- EnsureBBO stores a failed subscription and never tries again; two first callers
  may both subscribe. A subscriber may see an older quote after a newer one, and
  history after live events.
- While the queues drain, Shutdown does not look at its deadline (the comment at
  `app.go:830` promises a timeout). The periodic goroutine and slow requests are in
  no wait group and may use the store after it is closed.

## Fairness

Weak fairness of every goroutine that can run, of tickers, of backoffs and of the
clock; each action of a process is enabled until it is taken, so the Go scheduler
gives this much. In `OrderFlow` polling, the workers and the delivery of statuses are
fair; `Settles` needs no more, since an error is retried a counted number of times. What a
deadline or a cancellation interrupts is requeued without limit (`workers.go:110`): that
the work ends is shown for calls that are interrupted `MaxFaults` times at most. In `Vault` the handlers and
the main goroutine are, not the browser. For shutdown a call of a worker returns,
since every one has a deadline. Nothing else is assumed of the environment: fills, cancellations,
failures, crashes and expiring deadlines may or may not happen. The watcher of the
limiter gets weak fairness only, since a tick that finds the window reset by
somebody else is not made up for. `PollIsSlow` and `TickerIsSlow` say that work in flight is done
before the next poll or tick of the reconciliation (15 s or more against
milliseconds). `MCOrders` does without the first in its part `race`. In `TakeProfit`,
without it, a tick may fall between the two reports of every modify, again and
again, and each time cause another one.

## Proofs

Eight modules hold theorems. Each is about the specification of a component, for every
value of its constants that satisfies the ASSUMEs of the component's module, which
TLC evaluates in the runs; some have hypotheses of their own, named below. The bounds
of the runs (clock, crashes, events, ...) are constants like any other: a theorem holds
however large they are.

| Module | Theorem | States |
|---|---|---|
| `RateLimiterProofs` | `BudgetHolds` (without Extend) | `WindowBudget` |
| | `TypeCorrect`, `ChargesWithinReservation`, `WaitersHold` | `TypeOK`, `WithinReservation`, `WaitersAccounted` |
| | `QueueServedInOrder`, `ReservationsOutliveWindows` | `QueueIsFIFO`, `ReservationsSurvive` |
| `DealPipelineProofs` | `EngineRefinesLimiter` | `LimiterRefined` |
| | `EngineWithinBudget`, `EngineTypeCorrect` | `WindowBudget`, `TypeOK` |
| | `DealsHaveTheirSlot`, `BotsHaveTheirSlots` | `DealCallGuaranteed`, `BotCallsGuaranteed` |
| | `NothingKeptWhenIdle` | `IdleHoldsNothing` |
| `TakeProfitProofs` | `FillsHold`, `TrackerAgrees`, `TypeCorrect` | `FillsNotAhead`, `BuysAgree`, `TakeProfitTypeOK` |
| `OrderFlowProofs` | `OrdersFollowEvents`, `StoreMirrorsExchange`, `TypeCorrect` | `SettledMatches`, `StoreMirrors`, `TypeOK` |
| `OrderScalerProofs` | `AuditsExplainSizes` | `AuditExplainsSize` |
| `VaultProofs` | `SecretsMatchState`, `NoLostWakeup` | `SecretsIffUnsealed`, `WakeupNotLost` |
| | `StoreAgrees`, `VaultTypeCorrect` | `InitializedAgrees`, `VaultTypeOK` |
| `CatalogProofs` | `OrdersHaveTargets`, `ChoiceSurvivesSync`, `MigrationLosesNothing` | `TargetsExist`, `ChoiceKept`, `RowsKept` |
| | `CatalogTypeCorrect`, `OnePageCoversAll` (one page) | `CatalogTypeOK`, `SyncCoversAll` |
| `ServicesProofs` | `StreamInOrder`, `SystemEventsOnce`, `ChannelsSafe` | `DeliveredInOrder`, `EveryEventOnce`, `NoUseAfterClose` |
| | `NoQuoteMissed`, `LogsFlushed`, `GatePaces`, `ShutdownKeepsOrders` | `LatestQuoteOffered`, `FlushedWhenClosed`, `Paced`, `EmittedOrdersAttempted` |

**RateLimiterProofs.** `WindowBudget` is not inductive: a window reset sets `consumed` to
zero and a grant compares the limit with all reserved slots, not with the unspent ones.
The invariant that is, `BudgetInv`, states that the calls charged to the window together
with the unspent slots fit the limit, that unspent slots are among the reserved ones, and
that no reservation has consumed more than it has. The rest is counting: slots are pairs
of a workflow and a number, and what an operation does to a sum is what it does to the
cardinality of such a set; the lemmas at the start of the module are about these sets.
Types and waiters need less (`AccountingInv`) and no sums. The other five theorems are of
`SpecWithExtend`, the whole interface. There the budget does not hold, so that they rest
on `ExtendInv` instead: `AccountingInv` and, for each reservation, `Sound`. Extend computes
its new total before it unlocks to wait; a reservation is sound if it is not overdrawn and
a total that waits is not below what is reserved, so that waking up never takes slots away
from charges made meanwhile.

**DealPipelineProofs.** The refinement is by step: each action of the engine is an action
of the limiter or leaves its variables alone, and the limiter's caller states make the
guards agree. The budget then comes over from `RateLimiterProofs`, whose invariants are
used here through an INSTANCE. The slot guarantees need `SlotsInv`, which ties each place
in the code to the limiter's record: whoever waits has asked for what its code asks
(`QueueAsks`), whoever is about to call has an untouched reservation of that size
(`DealOK`), and the producer's reservation has a slot for every bot not asked about yet
(`ProducerOK`). Per-operation contracts say what each limiter operation gives its caller
and that it disturbs nobody else. `BotsHaveTheirSlots` assumes more quota than bots: with
fewer the code runs out of slots, as described above. `NothingKeptWhenIdle` assumes that no
deadline expires during a grant, which is the leak that `pipeline_leak` shows.

**TakeProfitProofs.** `FillsHold` rests on `FillsInv`: the remaining size of a buy on the
exchange only falls, so that a report in the feed, in the store or in the answer of a query
can claim fewer fills than there are, never more; and workers, reconciliation and engine
touch take profits only, so that nothing else writes to a buy. No order of arrival is
needed for this and every fault is allowed. `TrackerAgrees` needs the order: a report is not
newer than the last change of its order and one of the same time is that change (`Timely`);
behind every report of a buy in a feed comes its last one (`Ends`); what a callback has
still to store, the tracker has heard (`HeadInv`); and at every phase of a start the tracker
has the last report of each buy, or the feed does, or the pending answer does (`PhaseOK`).
That the websocket is up before the first query is what makes the last part inductive: a
fill between query and rebuild is in the feed. It is proved where status queries succeed and
the deal is not finished. A failed query leaves a stale status for good, and a finished deal
closes open buys with the local clock (`service.go:966`), which hides a fill reported with an
earlier exchange time. `TypeCorrect` is about more than shapes: sizes and positions are natural
numbers although they are differences. `TypesInv` adds to the types that the maps of the tracker
and of every snapshot are finite, without which a sum over them means nothing, and that the
refresher holds answers of the exchange; with `FillsInv` a position is never below what is sold.

**OrderFlowProofs.** The invariant has a part per venue. `Alone`: outside the excused venues at
most one work is planned, queued or in a worker's hands. `Mirror`: with no work pending the
stored submission is the open order; a worker that has called and not recorded holds the price
that is on the exchange, and a create is pending only where nothing is stored. `Decided(v, d)`:
event d is the last the venue was given work for; what came after it is no different, and
either the work pending will make the order what it says (`Underway`) or the order is that
already. `previousDistinct`, by which the adapter finds the event to compare with, is what
keeps this true when an event is recorded twice. The excuses are exactly what this induction
needs: a step that breaks a part for a venue excuses it, and a decision for it ends the excuse
with one work. The theorems hold for any number of venues, workers, events, faults, changes and
cancels, and for polls that overtake the work (`PollIsSlow` either way).

**OrderScalerProofs.** `AuditsExplainSizes` needs to know where a scaled size comes from:
`FromLadder`, the chosen rounding of the stack that was read, at the index of the request, or
the rounding of the order alone. Each candidate of a step is one of the two multiples of the
lot around its target, so the difference is below a lot. That a take profit step at its own
place is rounded from its own size is `EventTable`: an order has one latest event, the one
being scaled, and the stack has the size of that event before anything of the payload.
`JobInv` carries this, and the multipliers that were in force meanwhile, through the three
reads of Scale, whatever is edited or stored between them. That the search has a result at all
takes a cheapest element of a finite set under costs that are sums (`Leads`). Nothing is
assumed of types, positions and groups: where the order is not the step it is looked up as,
the theorem says what was rounded, and `scaler_stack` what goes wrong.

**VaultProofs.** `WakeupNotLost` speaks of the channel the main goroutine read before it let
go of the lock, which may not be the current one any more, so it is not inductive. The
invariant, `Signalled`, adds that the flag, the state `unsealed` and the closing of the
current channel always agree, and that a main goroutine waits on the current channel or on a
closed one: sealing replaces only a closed channel (`SealKeeps`), so whoever still holds the
old one wakes up. `Typed` gives the types, among them that no channel above the current one
was ever closed, and `EntryOK` what a handler carries from one step to the next: a handler
about to unseal has a payload. `StoreAgrees` needs `Agreed`: each step of a setup has what
the earlier ones saw to, a session or a login exists only in a vault that is set up, and a
payload has a user's row for the next start to find. It assumes one user and no login begun
before setup; without these the code breaks the agreement (`vault_setup`, and two users
above). `VaultTypeOK` bounds the tokens issued, which takes counting the requests that can still
issue one.

**CatalogProofs.** `StoredInv`: from the first start on the default venue is stored, since a
wallet that is taken is taken by a stored venue and DeleteVenue refuses the default.
`ChoiceInv`: one primary per bot, and where an operator chose one, that one; between the
sync's check of a bot and its assignment no choice is recorded for it, which is the gap named
above. `RowsKept` is an action property: a migration copies the rows of each table before it
drops the old ones, and what is already there under the new wallet is kept. `CatalogInv` has
the keys of the tables: upserts replace the row of their key and a wallet that is taken is
refused, or passed over where the default venue meets it. `CoverInv`: while a sync runs, a
stored bot is still in its page or has a primary. It is proved for bots that fit one page and
without operators, who may delete what the sync has assigned; the page itself, the newest bots
first, exists because a finite set can be put in order.

**ServicesProofs.** One invariant per service. `StreamInv`: one publisher at a time has a
number that is not sent yet, and it is above all that any client was sent. `SystemInv`: on its
way to a subscriber an event is in one place only, and one that is owed is in some place
(read, buffered, in the replay of the history, skipped for a full buffer, or in a publisher's
hand). `PricesInv`: a quote is stored before it is broadcast and a client joins before it reads
the stored one. `LogsInv`: once Close has cancelled, nobody is about to enqueue. `GateInv` and
`ShutdownInv` are about the reserved times and about what the drained queues still hold.

Only model-checked is liveness (`DealsServed`, `BotsPolled`, `TakeProfitMatches`,
`ComesToRest`, `UnsealEndsWait`, `Settles`, `ShutdownEnds`), since fairness and ENABLED are
beyond the prover. Every invariant and every action property of a passing run is stated by a
theorem. Induction over data is beyond the prover too, as the
library's induction theorems take an operator; where an argument needs one (sums over finite
sets, a largest element, a list in order), it is made from a smallest counterexample, which
`WFMin` gives without one.

## Not modelled

Prices, the web UI, the generated HTTP bindings (they decode and encode), HTTP
parsing and the read-only lists of the API, configuration, log formatting, the
status tracker (last values under a mutex), order identifiers (a fixed-width code).
Of the emitter: IOC retries, price constraints, the status query that confirms a
modify. Of the tracker: more than one deal, which share nothing but the lock and
the gate. The bounds that have no counterpart in the code are the clock, the length
of queue and feed at which tickers and workers pause, and the number of crashes
and failures.

## Plan

1. `TakeProfit` composed with `OrderFlow`, so that buys and take profit share one queue.
2. An abstract specification of one venue's order (it follows the events of 3Commas) that
   `OrderFlow` implements outside the excused venues.
3. Prices and the significant figures of a coin, with the IOC retries of the emitter.
