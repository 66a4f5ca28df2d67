---------------------------- MODULE OrderScaler ----------------------------
(***************************************************************************)
(* The order scaler: multipliers that an operator sets for all bots or for *)
(* one (internal/api/handler_order_scaler.go, storage/order_scalers.go),   *)
(* and Scale (engine/orderscaler/service.go), which multiplies the size of *)
(* an order and rounds it to whole lots, a take profit ladder as a whole.  *)
(*                                                                         *)
(* One deal of one bot: processDeal scales its new orders, of any type,    *)
(* one after the other, and every storage call is a step beside the        *)
(* operator's edits.  Of the two types one stands for all that are not     *)
(* take profits.  An event is "position of size": an order of a group.     *)
(* Sizes count parts of a lot, Lot of them make one; a multiplier counts   *)
(* parts of Unit, and so a scaled size counts parts of Lot * Unit.  They   *)
(* stand for floats without rounding errors.                               *)
(* Prices are left out, and with them the minimum notional, which Resolve  *)
(* sets to 0: no order is ever below it.                                   *)
(***************************************************************************)
EXTENDS Integers, Sequences, FiniteSets, FiniteSetsExt, Functions

CONSTANTS
    Lot,            \* the size step, in parts
    LotsPerCoin,    \* a lot is 1 / LotsPerCoin of a coin
    Unit,           \* the multiplier 1
    Multipliers,    \* multipliers that an operator asks for
    MaxMultiplier,  \* order-scaler-max-multiplier
    Deals,          \* ladders that 3Commas reports: sequences of [id, amount, percent]
    Reports,        \* events of a poll: sets of at most one per type and position
    OrderSizes,     \* sizes of orders whose event has none
    BaseVolume,     \* volume of the base order
    None,           \* no override, no job
    MaxEdits,       \* bound on the operator's edits
    MaxPolls        \* bound on polls of the deal

TakeProfitOrder == "Take Profit"

\* The order "position of group" of its type.
Event == [type : {TakeProfitOrder, "Averaging"}, position : Int, group : Int, size : Nat]

SameOrder(e, f) == e.type = f.type /\ e.position = f.position

ASSUME OrderScalerAssumption ==
    /\ {Lot, LotsPerCoin, Unit, MaxMultiplier} \subseteq Nat \ {0}
    /\ Multipliers \subseteq Int /\ BaseVolume \in Nat
    /\ Deals \subseteq Seq([id : Int, amount : Int, percent : Int])
    /\ \A report \in Reports : /\ \A e \in report : e \in Event
                               /\ \A e, f \in report : SameOrder(e, f) => e = f
    /\ OrderSizes \subseteq Nat

VARIABLES
    default,        \* order_scalers
    override,       \* bot_order_scalers: the bot's row, if any
    decimals,       \* the constraints cache: "empty", "loaded" or "failed"
    payload,        \* threecommas_deals: the ladder in the deal's payload
    known,          \* threecommas_botevents: the latest event of each order
    todo,           \* new events whose orders are still to be scaled
    job,            \* the Scale that is under way
    audits,         \* scaled_orders
    edits, polls

scalerVars == <<default, override, decimals, payload, known, todo, job, audits, edits, polls>>

Abs(n) == IF n < 0 THEN -n ELSE n

\* The default may have been set while the maximum was larger.
InitScaler ==
    /\ default \in {Unit} \cup {m \in Multipliers : m > 0} /\ override = None
    /\ decimals = "empty"
    /\ payload = <<>> /\ known = {}
    /\ todo = {} /\ job = None
    /\ audits = {}
    /\ edits = 0 /\ polls = 0

---------------------------------------------------------------------------
\* Multipliers.

ResolveEffectiveOrderScaler(d, o) == IF o = None THEN d ELSE o

validateOrderScalerMultiplier(m) == m > 0 /\ m <= MaxMultiplier

Clamp(m) == IF m > MaxMultiplier THEN MaxMultiplier ELSE m

upsertOrderScaler(m) == default' = m /\ UNCHANGED override
upsertBotOrderScaler(m) == override' = m /\ UNCHANGED default
deleteBotOrderScaler == override' = None /\ UNCHANGED default

\* History: the multipliers in force since the job began.
Edit ==
    /\ edits < MaxEdits
    /\ edits' = edits + 1
    /\ job' = IF job = None THEN None
              ELSE [job EXCEPT !.seen = @ \cup
                        {Clamp(ResolveEffectiveOrderScaler(default', override'))}]
    /\ UNCHANGED <<decimals, payload, known, todo, audits, polls>>

UpdateOrderScalerConfig(m) ==
    /\ validateOrderScalerMultiplier(m)
    /\ upsertOrderScaler(m)
    /\ Edit

UpsertBotOrderScalerConfig(m) ==
    /\ validateOrderScalerMultiplier(m)
    /\ upsertBotOrderScaler(m)
    /\ Edit

DeleteBotOrderScalerConfig ==
    /\ deleteBotOrderScaler
    /\ Edit

---------------------------------------------------------------------------
\* The sizes of a whole ladder.

\* A step without an amount gets its share of the base order, one without an id its place.
takeProfitStackFromDeal(deal, n) ==
    LET size(s) == IF s.amount > 0 THEN s.amount ELSE (BaseVolume * s.percent) \div 100
        at(i) == CASE deal[i].id > 0 -> deal[i].id
                   [] deal[i].id = 0 -> 1
                   [] OTHER -> i
    IN  [l \in 1..n |-> LET here == {i \in DOMAIN deal : at(i) = l /\ size(deal[i]) > 0}
                        IN  IF here = {} THEN 0 ELSE size(deal[Max(here)])]

\* The latest size of every step, 0 if it has no event, whatever group the event names.
listLatestTakeProfitStackSizes(n) ==
    [l \in 1..n |-> LET here == {e \in known : e.type = TakeProfitOrder /\ e.position = l}
                    IN  IF here = {} THEN 0 ELSE (CHOOSE e \in here : TRUE).size]

fetchDeal == payload

mergeStackFromDealLocked(sizes, n) ==
    [l \in 1..n |-> IF sizes[l] > 0 THEN sizes[l] ELSE takeProfitStackFromDeal(fetchDeal, n)[l]]

\* The sizes up to the first step without one.
ListTakeProfitStackSizes(n) ==
    LET all == mergeStackFromDealLocked(listLatestTakeProfitStackSizes(n), n)
        gaps == {l \in 1..n : all[l] = 0}
    IN  SubSeq(all, 1, IF gaps = {} THEN n ELSE Min(gaps) - 1)

\* The size step, in the parts of scaled sizes.
SizeStep == Lot * Unit

RoundSize(size) == ((2 * size + SizeStep) \div (2 * SizeStep)) * SizeStep

\* A step that should be larger than the one before and is not: what equalityPenalty is for.
levelled(original, rounded, l) ==
    original[l] > original[l - 1] /\ rounded[l] <= rounded[l - 1]

\* The cost as a fraction: the weights are 0.1, 0.05, 1 and 1 per coin.
evaluateStackCost(original, target, rounded) ==
    LET n == Len(original)
        coin == 20 * SizeStep * LotsPerCoin
        whole == IF rounded[1] > 0 THEN rounded[1] * original[1] ELSE 1
        total == Abs(SumFunction([l \in 1..n |-> rounded[l] - target[l]]))
        each == SumFunction([l \in 1..n |-> Abs(rounded[l] - target[l])])
        flat == Cardinality({l \in 2..n : levelled(original, rounded, l)})
        ratios == IF rounded[1] = 0 THEN 0
                  ELSE SumFunction([l \in 2..n |-> Abs(rounded[l] * original[1]
                                                      - original[l] * rounded[1])])
    IN  [num |-> (2 * total + each + coin * flat) * whole + coin * ratios, den |-> whole]

Cheaper(c, d) == c.num * d.den < d.num * c.den

Before(r, s) == \E l \in DOMAIN r : r[l] < s[l] /\ \A k \in 1..(l - 1) : r[k] = s[k]

\* Every step down or up to a whole lot; of the cheapest ladders the first that backtrack meets.
computeStackRoundedSizes(original, m) ==
    LET target == [l \in DOMAIN original |-> original[l] * m]
        down(l) == (target[l] \div SizeStep) * SizeStep
        options(l) == IF down(l) = target[l] THEN {down(l)} ELSE {down(l), down(l) + SizeStep}
        ladders == {r \in [DOMAIN original -> UNION {options(l) : l \in DOMAIN original}] :
                        \A l \in DOMAIN original : r[l] \in options(l)}
        cost(r) == evaluateStackCost(original, target, r)
    IN  CHOOSE r \in ladders :
            \A s \in ladders \ {r} : \/ Cheaper(cost(r), cost(s))
                                     \/ ~Cheaper(cost(s), cost(r)) /\ Before(r, s)

---------------------------------------------------------------------------
\* A deal is polled, and processDeal scales its new orders.

\* The producer stores a deal, beside the handler that it has queued it for.
RecordThreeCommasDeal(deal) ==
    /\ payload' = deal
    /\ UNCHANGED <<default, override, decimals, known, todo, job, audits, edits, polls>>

\* The events are logged; what they say anew is to be placed.
HandleDeal(report) ==
    /\ polls < MaxPolls
    /\ todo = {} /\ job = None
    /\ polls' = polls + 1
    /\ known' = {e \in known : \A f \in report : ~SameOrder(e, f)} \cup report
    /\ todo' = report \ known
    /\ UNCHANGED <<default, override, decimals, payload, job, audits, edits>>

\* The event's place in its group, from 1, and the group's size, whatever the order's type.
BuildRequest(e, ordered) ==
    LET n == IF e.group > 0 THEN e.group ELSE 1
        at == IF e.position > 1 THEN e.position ELSE 1
    IN  [event |-> e, index |-> IF at > n THEN n ELSE at, stackSize |-> n,
         original |-> IF e.size > 0 THEN e.size ELSE ordered]

ScaleResolves ==
    /\ job = None
    /\ \E e \in todo, ordered \in OrderSizes :
        LET m == Clamp(ResolveEffectiveOrderScaler(default, override))
        IN  job' = [at |-> "constraints", request |-> BuildRequest(e, ordered),
                    multiplier |-> m, seen |-> {m}, stack |-> <<>>, scaled |-> 0]
    /\ UNCHANGED <<default, override, decimals, payload, known, todo, audits, edits, polls>>

\* The first caller loads the cache, once and for all.
ensureLoaded == decimals' \in IF decimals = "empty" THEN {"loaded", "failed"} ELSE {decimals}

\* An unknown coin ends processDeal.
Resolve ==
    /\ job # None /\ job.at = "constraints"
    /\ ensureLoaded
    /\ IF decimals' = "failed"
       THEN job' = None /\ todo' = {}
       ELSE job' = [job EXCEPT !.at = "stack"] /\ UNCHANGED todo
    /\ UNCHANGED <<default, override, payload, known, audits, edits, polls>>

\* A group of several orders is rounded as the take profit ladder of as many steps, if
\* there is one and the query for it does not fail.
ScaleRounds ==
    /\ job # None /\ job.at = "stack"
    /\ \E stack \in {ListTakeProfitStackSizes(job.request.stackSize), <<>>} :
        LET n == job.request.stackSize
            whole == n > 1 /\ Len(stack) = n
        IN  job' = [job EXCEPT
                !.at = "record", !.stack = IF whole THEN stack ELSE <<>>,
                !.scaled = IF whole
                           THEN computeStackRoundedSizes(stack, job.multiplier)[job.request.index]
                           ELSE RoundSize(job.request.original * job.multiplier)]
    /\ UNCHANGED <<default, override, decimals, payload, known, todo, audits, edits, polls>>

\* Faulty variant: the row takes the multiplier in force when it is written.
RecordEffective(applied, effective) == effective

\* The row says which multiplier was applied, whatever is in force by now.
RecordScaledOrder(applied, effective) == applied

Audited(scaled) ==
    LET m == RecordScaledOrder(job.multiplier, ResolveEffectiveOrderScaler(default, override))
    IN  [event |-> job.request.event, index |-> job.request.index,
         original |-> job.request.original, scaled |-> scaled, multiplier |-> m,
         delta |-> scaled - job.request.original * m, seen |-> job.seen, stack |-> job.stack]

ScaleRecords ==
    /\ job # None /\ job.at = "record"
    /\ job' = [job EXCEPT !.at = "insert", !.scaled = Audited(@)]
    /\ UNCHANGED <<default, override, decimals, payload, known, todo, audits, edits, polls>>

InsertScaledOrderAudit ==
    /\ job # None /\ job.at = "insert"
    /\ audits' = audits \cup {job.scaled}
    /\ todo' = todo \ {job.request.event}
    /\ job' = None
    /\ UNCHANGED <<default, override, decimals, payload, known, edits, polls>>

NextScaler ==
    \/ \E m \in Multipliers : UpdateOrderScalerConfig(m) \/ UpsertBotOrderScalerConfig(m)
    \/ DeleteBotOrderScalerConfig
    \/ \E deal \in Deals : RecordThreeCommasDeal(deal)
    \/ \E report \in Reports : HandleDeal(report)
    \/ ScaleResolves
    \/ Resolve
    \/ ScaleRounds
    \/ ScaleRecords
    \/ InsertScaledOrderAudit

SpecScaler == InitScaler /\ [][NextScaler]_scalerVars

---------------------------------------------------------------------------
\* The row's order is the step of the take profit ladder that Scale looks up for it.
OwnStep(r) == r.event.type = TakeProfitOrder /\ r.event.position = r.index /\ r.event.size > 0

\* What Scale rounded: the order's size or, of a ladder, the entry at its index.
Rounded(r) == IF r.stack = <<>> THEN r.original ELSE r.stack[r.index]

\* Every audit row says how its order got its size: the multiplier was in force while the
\* order was scaled and within the maximum, the size is less than a lot off what was
\* rounded, which is the order's own size whenever it was rounded alone or as a take profit
\* step at its place, and the row has the difference (service.go:98, order_scalers.go:580).
AuditExplainsSize ==
    \A r \in audits :
        /\ r.multiplier \in r.seen /\ r.multiplier <= MaxMultiplier
        /\ r.delta = r.scaled - r.original * r.multiplier
        /\ Abs(r.scaled - Rounded(r) * r.multiplier) < SizeStep
        /\ OwnStep(r) => Rounded(r) = r.original

\* The multiplier applies to every mirrored order: what its audit row calls the rounding
\* delta is less than a lot (service.go:123 and 341, specs/order_scaler.adoc:15).
EveryOrderScaled == \A r \in audits : Abs(r.delta) < SizeStep

\* Steps of a ladder that were rounded together, with one multiplier, keep their order: a
\* step larger than an earlier one does not become smaller, which is what the penalty in
\* evaluateStackCost is for (service.go:220 and 317, specs/order_scaler.adoc:31).
LadderKeepsOrder ==
    \A r, s \in audits :
        /\ OwnStep(r) /\ OwnStep(s) /\ r.index < s.index
        /\ r.stack # <<>> /\ r.stack = s.stack /\ r.multiplier = s.multiplier
        /\ r.original < s.original
        => r.scaled <= s.scaled
=============================================================================
