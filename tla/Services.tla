------------------------------ MODULE Services ------------------------------
(***************************************************************************)
(* The services around the core, side by side: they share nothing, so Init *)
(* picks one of them and only that one moves.                              *)
(***************************************************************************)
EXTENDS Naturals, Sequences, FiniteSets

CONSTANTS
    Publishers, NoPublisher, Subscribers, Wanted,   \* OrderStream
    BufferSize, MaxEvents,                          \* both streams; topics the first
    Watchers, maxHistorySize,                       \* SystemStream
    Clients, MaxQuotes,                             \* PriceTopic
    Loggers, Closers, QueueSize,                    \* LogQueue
    Waiters, minSpacing, Cooldowns, MaxTime,        \* RateGate
    Deals, Manual, DealWorkers, OrderWorkers, Nothing   \* Shutdown

\* Goroutines of two kinds are different ones, a placeholder is nobody's name, and
\* durations are not negative (Cooldown returns at once for d <= 0).
ASSUME ServicesAssumption ==
    /\ NoPublisher \notin Publishers
    /\ maxHistorySize \in Nat /\ minSpacing \in Nat /\ Cooldowns \subseteq Nat
    /\ Nothing \notin Deals \cup Manual
    /\ DealWorkers \cap OrderWorkers = {}

VARIABLES
    part,
    mutex, sequence, stamped, subscribers, channels, connected, written,
    published, aged, eventHistory, members, sub, sending, replay, received,
    src, upstream, subscribed, quote, toCall, coinBbos, broadcasting, subs, pc, current,
    ch, shown,
    closed, logger, queue, inserting, inserted, run, cancelled, closer,
    now, next, waiter, passed, quietUntil,
    step, signalled, serving, periodic, dealQueue, orderQueue, held, ended, emitted,
    attempted, storeClosed

Orders == INSTANCE OrderStream
System == INSTANCE SystemStream WITH Subscribers <- Watchers, subscribers <- members
Prices == INSTANCE PriceTopic
Logs == INSTANCE LogQueue
Gate == INSTANCE RateGate
Stop == INSTANCE Shutdown

orderVars == <<mutex, sequence, stamped, subscribers, channels, connected, written>>
systemVars == <<published, aged, eventHistory, members, sub, sending, replay, received>>
priceVars == <<src, upstream, subscribed, quote, toCall, coinBbos, broadcasting, subs, pc,
               current, ch, shown>>
logVars == <<closed, logger, queue, inserting, inserted, run, cancelled, closer>>
gateVars == <<now, next, waiter, passed, quietUntil>>
stopVars == <<step, signalled, serving, periodic, dealQueue, orderQueue, held, ended,
              emitted, attempted, storeClosed>>
vars == <<part, orderVars, systemVars, priceVars, logVars, gateVars, stopVars>>

Init ==
    /\ part \in {"orders", "system", "prices", "logs", "gate", "stop"}
    /\ Orders!Init /\ System!Init /\ Prices!Init /\ Logs!Init /\ Gate!Init /\ Stop!Init

\* A step A of one part; others are the variables of the rest.
OrdersOnly == part = "orders"
    /\ UNCHANGED <<part, systemVars, priceVars, logVars, gateVars, stopVars>>
SystemOnly == part = "system"
    /\ UNCHANGED <<part, orderVars, priceVars, logVars, gateVars, stopVars>>
PricesOnly == part = "prices"
    /\ UNCHANGED <<part, orderVars, systemVars, logVars, gateVars, stopVars>>
LogsOnly == part = "logs"
    /\ UNCHANGED <<part, orderVars, systemVars, priceVars, gateVars, stopVars>>
GateOnly == part = "gate"
    /\ UNCHANGED <<part, orderVars, systemVars, priceVars, logVars, stopVars>>
StopOnly == part = "stop"
    /\ UNCHANGED <<part, orderVars, systemVars, priceVars, logVars, gateVars>>

Next ==
    \/ OrdersOnly /\ Orders!Next
    \/ SystemOnly /\ System!Next
    \/ PricesOnly /\ Prices!Next
    \/ LogsOnly /\ Logs!Next
    \/ GateOnly /\ Gate!Next
    \/ StopOnly /\ Stop!Next

\* Log handlers, workers and Shutdown run on, and calls of others return: a context
\* with a deadline bounds every one of them.
Fairness ==
    /\ WF_vars(LogsOnly /\ Logs!Progress)
    /\ WF_vars(StopOnly /\ Stop!DealWorkerStep)
    /\ WF_vars(StopOnly /\ Stop!OrderWorkerStep)
    /\ WF_vars(StopOnly /\ Stop!ShutdownStep)

Spec == Init /\ [][Next]_vars /\ Fairness

---------------------------------------------------------------------------
\* Order stream: increasing sequence numbers (stream_controller.go:122).
DeliveredInOrder == Orders!DeliveredInOrder

\* Order stream and prices: no channel is used after its close or closed twice
\* (stream_controller.go:107, ws.go:234).
NoUseAfterClose == Orders!OpenWhileRegistered /\ Prices!NoSendAfterClose

\* System stream: history and live events, each exactly once (system_stream.go:110).
EveryEventOnce == System!EveryEventOnce

\* Prices: a new subscriber misses no quote (ws.go:225).
LatestQuoteOffered == Prices!LatestQuoteOffered

\* Log persistence: accepted entries are inserted before Close returns (handler.go:255).
FlushedWhenClosed == Logs!FlushedWhenClosed

\* Rate gate: spacing and cooldowns are kept whoever wakes (rate_gate.go:37).
Paced == [][Gate!Paced]_vars

\* Shutdown loses no emitted order and closes the store last (app.go:818).
EmittedOrdersAttempted == Stop!EmittedOrdersAttempted

\* A shutdown that was requested comes to its end, whatever is queued and in flight, and
\* a Close of the log handler returns (app.go:796, handler.go:255).
ShutdownEnds ==
    /\ signalled ~> step = "done"
    /\ \A c \in Closers : closer[c] = "waitHandlers" ~> closer[c] \in {"closed", "timeout"}
=============================================================================
