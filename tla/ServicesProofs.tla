--------------------------- MODULE ServicesProofs ---------------------------
(***************************************************************************)
(* Proofs about the services around the core: for any number of clients,   *)
(* goroutines, events and quotes, and any size of buffer and queue.        *)
(***************************************************************************)
EXTENDS Services, TLAPS

-----------------------------------------------------------------------------
(* Rate gate *)

\* The gate opens no earlier than the spacing and the cooldowns ask for.
GateInv ==
    /\ now \in Nat /\ next \in Nat /\ passed \in Nat /\ quietUntil \in Nat
    /\ next >= passed + minSpacing
    /\ next >= quietUntil

\* The later of two moments.
LEMMA LaterOfTwo ==
    ASSUME NEW a \in Nat, NEW b \in Nat
    PROVE  Gate!Max({a, b}) = IF a >= b THEN a ELSE b
  BY DEF Gate!Max

\* What every step of the gate does to its invariant, and to whoever passes.
LEMMA GateStep ==
    ASSUME GateInv, [Next]_vars
    PROVE  GateInv' /\ Gate!Paced
<1> USE ServicesAssumption DEF GateInv, Gate!Paced
<1>1. CASE UNCHANGED gateVars
  BY <1>1 DEF gateVars
<1>2. CASE \E w \in Waiters : Gate!Calls(w) \/ Gate!TimerFires(w) \/ Gate!CtxDone(w)
  BY <1>2 DEF Gate!Calls, Gate!TimerFires, Gate!CtxDone
<1>3. CASE \E w \in Waiters : Gate!Wait(w)
  BY <1>3 DEF Gate!Wait
<1>4. ASSUME NEW d \in Cooldowns, Gate!Cooldown(d) PROVE GateInv' /\ Gate!Paced
  <2>1. d \in Nat /\ now + d \in Nat
    OBVIOUS
  <2>2. /\ next' = IF next >= now + d THEN next ELSE now + d
        /\ quietUntil' = IF quietUntil >= now + d THEN quietUntil ELSE now + d
        /\ now' = now /\ passed' = passed
    BY <1>4, <2>1, LaterOfTwo DEF Gate!Cooldown
  <2> QED
    BY <2>1, <2>2
<1>5. CASE Gate!Tick
  BY <1>5 DEF Gate!Tick
<1> QED
  BY <1>1, <1>2, <1>3, <1>4, <1>5
  DEF Next, vars, OrdersOnly, SystemOnly, PricesOnly, LogsOnly, GateOnly, StopOnly, Gate!Next

\* Whoever passes the gate does so after the spacing and after every cooldown, also when
\* several slept towards the same moment (rate_gate.go: Wait, Cooldown).
THEOREM GatePaces == Spec => Paced
<1>1. Init => GateInv
  BY ServicesAssumption DEF Init, Gate!Init, GateInv
<1>2. GateInv /\ [Next]_vars => GateInv'
  BY GateStep
<1>3. GateInv /\ [Next]_vars => [Gate!Paced]_vars
  BY GateStep
<1> QED
  BY <1>1, <1>2, <1>3, PTL DEF Spec, Paced

-----------------------------------------------------------------------------
(* Log persistence *)

\* An accepted entry is in the queue, in the worker's hand or inserted.
Kept ==
    \A l \in Loggers : logger[l] = "accepted"
        => l \in inserted \cup inserting \/ \E i \in 1 .. Len(queue) : queue[i] = l

\* Once close has cancelled, the handler is closed and nobody is about to enqueue:
\* who was counted before has left, who comes later sees the flag.  The worker only
\* ends with an empty queue.
LogsInv ==
    /\ queue \in Seq(Loggers) /\ inserting \subseteq Loggers
    /\ logger \in [Loggers -> {"check", "add", "counted", "enqueue", "accepted", "refused"}]
    /\ closer \in [Closers ->
                    {"idle", "waitHandlers", "waitRun", "closed", "timeout", "second"}]
    /\ run \in {"running", "draining", "done"}
    /\ closed \in BOOLEAN /\ cancelled \in BOOLEAN
    /\ Kept
    /\ \A c \in Closers :
          closer[c] \in {"waitHandlers", "waitRun", "closed", "timeout"} => closed
    /\ cancelled => closed /\ \A l \in Loggers : logger[l] # "enqueue"
    /\ run # "running" => cancelled
    /\ run = "done" => inserting = {} /\ queue = <<>>
    /\ \A c \in Closers : closer[c] = "closed" => run = "done"

\* Every step of callers, worker and Close keeps it.
LEMMA LogsStep == LogsInv /\ [Next]_vars => LogsInv'
<1> SUFFICES ASSUME LogsInv, [Next]_vars PROVE LogsInv'
  OBVIOUS
<1> USE DEF LogsInv, Kept
<1>1. CASE UNCHANGED logVars
  BY <1>1 DEF logVars
<1>2. CASE \E l \in Loggers :
              Logs!HandleChecks(l) \/ Logs!HandleAdds(l) \/ Logs!HandleChecksAgain(l)
  BY <1>2 DEF Logs!HandleChecks, Logs!HandleAdds, Logs!HandleChecksAgain, Logs!Goes
<1>3. ASSUME NEW l \in Loggers, Logs!enqueue(l) PROVE LogsInv'
  <2>1. CASE UNCHANGED queue
    BY <1>3, <2>1 DEF Logs!enqueue, Logs!Goes
  <2>2. CASE queue' = Append(queue, l)
    <3>1. /\ queue' \in Seq(Loggers) /\ Len(queue') = Len(queue) + 1
          /\ \A i \in 1 .. Len(queue) : queue'[i] = queue[i]
          /\ queue'[Len(queue) + 1] = l
      BY <2>2
    <3>2. Kept'
      BY <1>3, <2>2, <3>1 DEF Logs!enqueue, Logs!Goes
    <3> QED
      BY <1>3, <2>2, <3>1, <3>2 DEF Logs!enqueue, Logs!Goes
  <2> QED
    BY <1>3, <2>1, <2>2 DEF Logs!enqueue
<1>4. CASE Logs!Takes
  <2>1. /\ queue # <<>> /\ queue' = Tail(queue) /\ queue' \in Seq(Loggers)
        /\ Len(queue') = Len(queue) - 1 /\ Head(queue) = queue[1]
        /\ \A i \in 1 .. Len(queue') : queue'[i] = queue[i + 1]
    BY <1>4 DEF Logs!Takes
  <2>2. \A i \in 1 .. Len(queue) : queue[i] = Head(queue)
              \/ \E j \in 1 .. Len(queue') : queue'[j] = queue[i]
    <3> SUFFICES ASSUME NEW i \in 1 .. Len(queue), i # 1
                 PROVE  \E j \in 1 .. Len(queue') : queue'[j] = queue[i]
      BY <2>1
    <3>1. i - 1 \in 1 .. Len(queue') /\ queue'[i - 1] = queue[i]
      BY <2>1
    <3> QED
      BY <3>1
  <2> QED
    BY <1>4, <2>1, <2>2 DEF Logs!Takes
<1>5. CASE Logs!process \/ Logs!SeesCancel \/ Logs!drainQueueEnds
  BY <1>5 DEF Logs!process, Logs!SeesCancel, Logs!drainQueueEnds
<1>6. CASE \E c \in Closers : Logs!CloseSwaps(c)
  BY <1>6 DEF Logs!CloseSwaps, Logs!Returns
<1>7. CASE \E c \in Closers : Logs!CloseCancels(c)
  BY <1>7 DEF Logs!CloseCancels, Logs!Returns, Logs!InHandle
<1>8. CASE \E c \in Closers : Logs!CloseReturns(c) \/ Logs!CloseTimesOut(c)
  BY <1>8 DEF Logs!CloseReturns, Logs!CloseTimesOut, Logs!Returns
<1> QED
  BY <1>1, <1>2, <1>3, <1>4, <1>5, <1>6, <1>7, <1>8
  DEF Next, vars, OrdersOnly, SystemOnly, PricesOnly, LogsOnly, GateOnly, StopOnly,
      Logs!Next, Logs!Progress

\* When Close returns nil, every entry that Handle accepted is in the database
\* (handler.go: Handle against close).
THEOREM LogsFlushed == Spec => []FlushedWhenClosed
<1>1. Init => LogsInv
  <2> SUFFICES ASSUME Logs!Init PROVE LogsInv
    BY DEF Init
  <2>1. queue \in Seq(Loggers) /\ inserting \subseteq Loggers /\ run \in {"running"}
    BY DEF Logs!Init
  <2>2. Kept
    BY DEF Logs!Init, Kept
  <2> QED
    BY <2>1, <2>2 DEF Logs!Init, LogsInv
<1>2. LogsInv => FlushedWhenClosed
  BY DEF LogsInv, Kept, FlushedWhenClosed, Logs!FlushedWhenClosed
<1> QED
  BY <1>1, <1>2, LogsStep, PTL DEF Spec

-----------------------------------------------------------------------------
(* Shutdown *)

\* Where Shutdown can be.
Steps == {"running", "drainHTTP", "drainDeals", "drainOrders", "waitWorkers", "closeRest",
          "done"}

\* The steps of Shutdown after the deals have drained, and after the orders have.
DealsOver == step \in {"drainOrders", "waitWorkers", "closeRest", "done"}
OrdersOver == step \in {"waitWorkers", "closeRest", "done"}

\* Types: only deals reach a deal worker.
ShutdownTyped ==
    /\ step \in Steps
    /\ dealQueue \in [items : SUBSET Deals, down : BOOLEAN]
    /\ orderQueue \in [items : SUBSET (Deals \cup Manual), down : BOOLEAN]
    /\ held \in [DealWorkers \cup OrderWorkers -> Deals \cup Manual \cup {Nothing}]
    /\ \A w \in DealWorkers : held[w] \in Deals \cup {Nothing}
    /\ storeClosed \in BOOLEAN

\* An emitted order that was not tried yet is queued or with an order worker, since the
\* order queue takes orders while a deal may emit one.
NothingLost ==
    \A o \in emitted : \/ o \in attempted
                       \/ o \in orderQueue.items
                       \/ \E w \in OrderWorkers : held[w] = o

\* Once the deals have drained no deal worker has one again, and so on to the end.
ShutdownInv ==
    /\ ShutdownTyped /\ NothingLost
    /\ Nothing \notin emitted
    /\ orderQueue.down => DealsOver
    /\ step \notin {"running", "drainHTTP"} => dealQueue.down
    /\ DealsOver => /\ dealQueue.items = {}
                    /\ \A w \in DealWorkers : held[w] = Nothing
    /\ OrdersOver => emitted \subseteq attempted
    /\ step \in {"closeRest", "done"} => Stop!Workers \subseteq ended
    /\ storeClosed => step = "done"

\* Every step of workers, requests, periodic task and Shutdown keeps it.
LEMMA ShutdownStep == ShutdownInv /\ [Next]_vars => ShutdownInv'
<1> SUFFICES ASSUME ShutdownInv, [Next]_vars PROVE ShutdownInv'
  OBVIOUS
<1> USE ServicesAssumption
    DEF ShutdownInv, ShutdownTyped, NothingLost, DealsOver, OrdersOver, Steps
<1>1. CASE UNCHANGED stopVars
  BY <1>1 DEF stopVars, Stop!Workers
<1>2. ASSUME NEW w \in DealWorkers, Stop!runWorkerGets(w) PROVE ShutdownInv'
  BY <1>2 DEF Stop!runWorkerGets, Stop!Take, Stop!Workers
<1>3. ASSUME NEW w \in DealWorkers, Stop!processWorkItem(w) PROVE ShutdownInv'
  BY <1>3 DEF Stop!processWorkItem, Stop!Add, Stop!Workers
<1>4. ASSUME NEW w \in OrderWorkers, Stop!runOrderWorkerGets(w) PROVE ShutdownInv'
  BY <1>4 DEF Stop!runOrderWorkerGets, Stop!Take, Stop!Workers
<1>5. ASSUME NEW w \in OrderWorkers, Stop!processOrderItem(w) PROVE ShutdownInv'
  BY <1>5 DEF Stop!processOrderItem, Stop!Add, Stop!Workers
<1>6. CASE Stop!HTTPRequest
  BY <1>6 DEF Stop!HTTPRequest, Stop!Add
<1>7. CASE Stop!PeriodicTask
  BY <1>7 DEF Stop!PeriodicTask, Stop!Add
<1>8. CASE Stop!PeriodicTaskEnds \/ Stop!Signal \/ Stop!RequestsEnd
  BY <1>8 DEF Stop!PeriodicTaskEnds, Stop!Signal, Stop!RequestsEnd
<1>9. CASE Stop!StopsTickers
  BY <1>9 DEF Stop!StopsTickers, Stop!rest
<1>10. CASE Stop!drainHTTPServer
  <2>1. /\ dealQueue'.items = dealQueue.items
        /\ dealQueue' \in [items : SUBSET Deals, down : BOOLEAN]
    BY <1>10 DEF Stop!drainHTTPServer
  <2> QED
    BY <1>10, <2>1 DEF Stop!drainHTTPServer, Stop!rest
<1>11. CASE Stop!DealQueueDrained
  <2>1. /\ orderQueue'.items = orderQueue.items
        /\ orderQueue' \in [items : SUBSET (Deals \cup Manual), down : BOOLEAN]
    BY <1>11 DEF Stop!DealQueueDrained
  <2>2. dealQueue.down
    BY <1>11 DEF Stop!DealQueueDrained
  <2> QED
    BY <1>11, <2>1, <2>2 DEF Stop!DealQueueDrained, Stop!Drained, Stop!rest
<1>12. CASE Stop!OrderQueueDrained
  BY <1>12 DEF Stop!OrderQueueDrained, Stop!Drained, Stop!rest
<1>13. CASE Stop!WorkersDone
  BY <1>13 DEF Stop!WorkersDone, Stop!rest, Stop!Workers
<1>14. CASE Stop!ClosesStore
  BY <1>14 DEF Stop!ClosesStore, Stop!rest, Stop!Workers
<1> QED
  BY <1>1, <1>2, <1>3, <1>4, <1>5, <1>6, <1>7, <1>8, <1>9, <1>10, <1>11, <1>12,
     <1>13, <1>14
  DEF Next, vars, OrdersOnly, SystemOnly, PricesOnly, LogsOnly, GateOnly, StopOnly,
      Stop!Next, Stop!DealWorkerStep, Stop!OrderWorkerStep, Stop!ShutdownStep

\* An order that a deal emits is tried before the workers end, and the store is closed
\* after them, whatever is queued when the signal comes (app.go: Shutdown).
THEOREM ShutdownKeepsOrders == Spec => []EmittedOrdersAttempted
<1>1. Init => ShutdownInv
  <2> SUFFICES ASSUME Stop!Init PROVE ShutdownInv
    BY DEF Init
  <2>1. ShutdownTyped
    BY DEF Stop!Init, ShutdownTyped, Steps, Stop!Workers
  <2>2. NothingLost /\ Nothing \notin emitted /\ orderQueue.down = FALSE
    BY DEF Stop!Init, NothingLost
  <2> QED
    BY <2>1, <2>2 DEF Stop!Init, ShutdownInv, DealsOver, OrdersOver
<1>2. ShutdownInv => EmittedOrdersAttempted
  BY DEF ShutdownInv, OrdersOver, EmittedOrdersAttempted, Stop!EmittedOrdersAttempted
<1> QED
  BY <1>1, <1>2, ShutdownStep, PTL DEF Spec

-----------------------------------------------------------------------------
(* Prices *)

\* A client's channel.
PriceChannel == [buffer : Seq(Nat), state : {"open", "closed", "panic"}, full : BOOLEAN]
\* Where a request can be.
Places == {"idle", "subscribe", "add", "current", "send", "streaming", "closing", "gone"}

\* Types of the price feed and the requests.
PricesTyped ==
    /\ upstream \in Nat /\ quote \in Nat /\ toCall \in Nat /\ coinBbos \in Nat
    /\ broadcasting \in Nat
    /\ subs \subseteq Clients
    /\ pc \in [Clients -> Places]
    /\ current \in [Clients -> Nat]
    /\ ch \in [Clients -> PriceChannel]
    /\ shown \in [Clients -> Seq(Nat)]

\* A channel is in the topic from add to remove, and closed after that.
TopicInv ==
    \A c \in Clients :
        /\ c \in subs <=> pc[c] \in {"current", "send", "streaming"}
        /\ ch[c].state = IF pc[c] = "gone" THEN "closed" ELSE "open"

\* No quote is under way.
Quiet == toCall = 0 /\ broadcasting = 0 /\ quote > 0

\* The latest quote was shown to c, or is in its channel.
Got(c) == (\E i \in 1 .. Len(shown[c]) : shown[c][i] = quote)
             \/ \E i \in 1 .. Len(ch[c].buffer) : ch[c].buffer[i] = quote

\* A quote is stored before it is broadcast, and a client joins the topic before it reads
\* the stored one: when no quote is under way the client has the latest, or has read it,
\* or will.
QuotesInv ==
    /\ toCall = 0 => coinBbos = quote
    /\ broadcasting \in {0, quote}
    /\ \A c \in Clients : Quiet /\ ~ch[c].full =>
          /\ pc[c] = "send" => current[c] = quote \/ Got(c)
          /\ pc[c] = "streaming" => Got(c)

\* The inductive invariant of the prices.
PricesInv == PricesTyped /\ TopicInv /\ QuotesInv

\* What a send does to a channel that is open.
LEMMA OfferGives ==
    ASSUME NEW x \in PriceChannel, NEW q \in Nat, x.state = "open"
    PROVE  /\ Prices!Offer(x, q) \in PriceChannel
           /\ Prices!Offer(x, q).state = "open"
           /\ ~Prices!Offer(x, q).full =>
                /\ ~x.full
                /\ Len(Prices!Offer(x, q).buffer) = Len(x.buffer) + 1
                /\ Prices!Offer(x, q).buffer[Len(x.buffer) + 1] = q
                /\ \A i \in 1 .. Len(x.buffer) : Prices!Offer(x, q).buffer[i] = x.buffer[i]
<1>1. CASE Len(x.buffer) < BufferSize
  <2>1. Prices!Offer(x, q) = [x EXCEPT !.buffer = Append(@, q)]
    BY <1>1 DEF Prices!Offer
  <2>2. x.buffer \in Seq(Nat) /\ Append(x.buffer, q) \in Seq(Nat)
    BY DEF PriceChannel
  <2> QED
    <3>1. /\ Prices!Offer(x, q).buffer = Append(x.buffer, q)
          /\ Prices!Offer(x, q).state = "open" /\ Prices!Offer(x, q).full = x.full
          /\ Prices!Offer(x, q) \in PriceChannel
      BY <2>1, <2>2 DEF PriceChannel
    <3> QED
      BY <2>2, <3>1
<1>2. CASE ~(Len(x.buffer) < BufferSize)
  <2>1. Prices!Offer(x, q) = [x EXCEPT !.full = TRUE]
    BY <1>2 DEF Prices!Offer
  <2> QED
    BY <2>1 DEF PriceChannel
<1> QED
  BY <1>1, <1>2

\* A send loses nothing the channel had, and the quote is in it unless it was full.
LEMMA GotAfterOffer ==
    ASSUME PricesTyped, NEW c \in Clients, NEW q \in Nat, ch[c].state = "open",
           ch'[c] = Prices!Offer(ch[c], q), UNCHANGED <<shown, quote>>, ~ch'[c].full
    PROVE  ~ch[c].full /\ (Got(c) => Got(c)') /\ (q = quote => Got(c)')
<1>1. ch[c] \in PriceChannel
  BY DEF PricesTyped
<1>2. /\ ~ch[c].full
      /\ Len(ch'[c].buffer) = Len(ch[c].buffer) + 1 /\ Len(ch[c].buffer) \in Nat
      /\ ch'[c].buffer[Len(ch[c].buffer) + 1] = q
      /\ \A i \in 1 .. Len(ch[c].buffer) : ch'[c].buffer[i] = ch[c].buffer[i]
  BY <1>1, OfferGives DEF PriceChannel
<1> QED
  BY <1>2, SMTT(30) DEF Got

\* A request that moves on leaves what the clients have got alone.
LEMMA GotFrame ==
    ASSUME NEW c \in Clients, UNCHANGED <<shown, quote>>,
           ch'[c].buffer = ch[c].buffer
    PROVE  Got(c)' <=> Got(c)
  BY DEF Got

\* Every step of the price source, the exchange's callbacks and the requests keeps it.
LEMMA PricesStep == PricesInv /\ [Next]_vars => PricesInv'
<1> SUFFICES ASSUME PricesInv, [Next]_vars PROVE PricesInv'
  OBVIOUS
<1>t. PricesTyped /\ TopicInv /\ QuotesInv
  BY DEF PricesInv
<1>0. CASE UNCHANGED priceVars
  BY <1>0 DEF priceVars, PricesInv, PricesTyped, TopicInv, QuotesInv, Quiet, Got
<1>1. CASE Prices!Set
  BY <1>1 DEF Prices!Set, Prices!feed, Prices!requests, PricesInv, PricesTyped, TopicInv,
              QuotesInv, Quiet, Got
<1>2. ASSUME NEW c \in Clients, Prices!EnsureBBO(c) \/ Prices!SubscribesUpstream(c)
      PROVE  PricesInv'
  <2>1. /\ pc[c] \in {"idle", "subscribe"}
        /\ \E l \in {"subscribe", "add"} : pc' = [pc EXCEPT ![c] = l]
        /\ upstream' \in {upstream, upstream + 1}
        /\ UNCHANGED <<quote, toCall, coinBbos, broadcasting, subs, current, ch, shown>>
    BY <1>2 DEF Prices!EnsureBBO, Prices!SubscribesUpstream, Prices!Goto, Prices!feed
  <2>2. PricesTyped' /\ TopicInv'
    BY <1>t, <2>1 DEF PricesTyped, TopicInv, Places
  <2>3. QuotesInv'
    BY <1>t, <2>1, GotFrame DEF PricesTyped, QuotesInv, Quiet
  <2> QED
    BY <2>2, <2>3 DEF PricesInv
<1>3. CASE Prices!ExchangeQuotes
  BY <1>3 DEF Prices!ExchangeQuotes, Prices!requests, PricesInv, PricesTyped, TopicInv,
              QuotesInv, Quiet
<1>4. CASE Prices!storeCoinBBO
  BY <1>4 DEF Prices!storeCoinBBO, Prices!requests, PricesInv, PricesTyped, TopicInv,
              QuotesInv, Quiet
<1>5. CASE Prices!broadcast
  <2>1. broadcasting \in Nat /\ broadcasting = quote
    BY <1>5, <1>t DEF Prices!broadcast, PricesTyped, QuotesInv
  <2>2. ASSUME NEW c \in Clients
        PROVE  /\ ch'[c] \in PriceChannel /\ ch'[c].state = ch[c].state
               /\ c \notin subs => ch'[c] = ch[c]
               /\ c \in subs => ch[c].state = "open" /\ ch'[c] = Prices!Offer(ch[c], quote)
    <3>1. ch'[c] = IF c \in subs THEN Prices!Offer(ch[c], quote) ELSE ch[c]
      BY <1>5, <2>1 DEF Prices!broadcast
    <3>2. ch[c] \in PriceChannel /\ quote \in Nat /\ (c \in subs => ch[c].state = "open")
      BY <1>t DEF PricesTyped, TopicInv
    <3> QED
      BY <3>1, <3>2, OfferGives
  <2>3. PricesTyped' /\ TopicInv'
    BY <1>5, <1>t, <2>2 DEF Prices!broadcast, PricesTyped, TopicInv
  <2>4. ASSUME NEW c \in Clients, pc[c] \in {"send", "streaming"}, ~ch'[c].full PROVE Got(c)'
    <3>1. c \in subs
      BY <1>t, <2>4 DEF TopicInv
    <3> QED
      BY <1>5, <1>t, <2>1, <2>2, <2>4, <3>1, GotAfterOffer DEF Prices!broadcast
  <2>5. QuotesInv'
    BY <1>5, <1>t, <2>4 DEF Prices!broadcast, QuotesInv
  <2> QED
    BY <2>3, <2>5 DEF PricesInv
<1>6. ASSUME NEW c \in Clients, Prices!add(c) \/ Prices!currentBBO(c) PROVE PricesInv'
  <2>1. /\ \/ /\ pc[c] = "add" /\ pc' = [pc EXCEPT ![c] = "current"]
              /\ subs' = subs \cup {c} /\ current' = current
           \/ /\ pc[c] = "current" /\ pc' = [pc EXCEPT ![c] = "send"]
              /\ current' = [current EXCEPT ![c] = coinBbos] /\ subs' = subs
        /\ UNCHANGED <<upstream, quote, toCall, coinBbos, broadcasting, ch, shown>>
    BY <1>6 DEF Prices!add, Prices!currentBBO, Prices!Goto, Prices!feed
  <2>2. PricesTyped' /\ TopicInv'
    <3>1. PricesTyped'
      BY <1>t, <2>1 DEF PricesTyped, Places
    <3>2. pc'[c] \in {"current", "send"} /\ \A d \in Clients \ {c} : pc'[d] = pc[d]
      BY <1>t, <2>1 DEF PricesTyped
    <3>3. c \in subs' /\ (\A d \in Clients \ {c} : d \in subs' <=> d \in subs) /\ pc[c] # "gone"
      BY <1>t, <2>1 DEF TopicInv
    <3> QED
      BY <1>t, <2>1, <3>1, <3>2, <3>3 DEF TopicInv
  <2>3. QuotesInv'
    BY <1>t, <2>1, GotFrame DEF PricesTyped, QuotesInv, Quiet
  <2> QED
    BY <2>2, <2>3 DEF PricesInv
<1>7. ASSUME NEW c \in Clients, Prices!SubscribeBBO(c) PROVE PricesInv'
  <2>1. /\ pc[c] = "send" /\ pc' = [pc EXCEPT ![c] = "streaming"]
        /\ ch' = IF current[c] = 0 THEN ch
                 ELSE [ch EXCEPT ![c] = Prices!Offer(ch[c], current[c])]
        /\ UNCHANGED <<upstream, quote, toCall, coinBbos, broadcasting, subs, current, shown>>
    BY <1>7 DEF Prices!SubscribeBBO, Prices!Goto, Prices!feed
  <2>2. ch[c] \in PriceChannel /\ ch[c].state = "open" /\ current[c] \in Nat
    BY <1>t, <2>1 DEF PricesTyped, TopicInv
  <2>3. /\ ch' \in [Clients -> PriceChannel]
        /\ \A d \in Clients : ch'[d].state = ch[d].state
        /\ \A d \in Clients \ {c} : ch'[d] = ch[d]
    BY <1>t, <2>1, <2>2, OfferGives DEF PricesTyped
  <2>4. PricesTyped' /\ TopicInv'
    BY <1>t, <2>1, <2>3 DEF PricesTyped, TopicInv, Places
  <2>5. ASSUME Quiet, ~ch'[c].full PROVE Got(c)'
    <3>1. CASE current[c] = 0
      <4>1. ch' = ch /\ quote # 0 /\ ~ch[c].full
        BY <2>1, <2>5, <3>1 DEF Quiet
      <4>2. Got(c)
        BY <1>t, <2>1, <2>5, <3>1, <4>1 DEF QuotesInv
      <4> QED
        BY <2>1, <4>1, <4>2 DEF Got
    <3>2. CASE current[c] # 0
      <4>1. ch'[c] = Prices!Offer(ch[c], current[c])
        BY <1>t, <2>1, <3>2 DEF PricesTyped
      <4>2. ~ch[c].full /\ (Got(c) => Got(c)') /\ (current[c] = quote => Got(c)')
        BY <1>t, <2>1, <2>2, <2>5, <4>1, GotAfterOffer
      <4> QED
        BY <1>t, <2>1, <2>5, <4>2 DEF QuotesInv
    <3> QED
      BY <3>1, <3>2
  <2>6. QuotesInv'
    BY <1>t, <2>1, <2>3, <2>5, GotFrame DEF QuotesInv, Quiet, PricesTyped
  <2> QED
    BY <2>4, <2>6 DEF PricesInv
<1>8. ASSUME NEW c \in Clients, Prices!remove(c) PROVE PricesInv'
  <2>1. /\ \/ /\ pc[c] = "streaming" /\ pc' = [pc EXCEPT ![c] = "closing"]
              /\ subs' = subs \ {c} /\ ch' = ch
           \/ /\ pc[c] = "closing" /\ pc' = [pc EXCEPT ![c] = "gone"]
              /\ subs' = subs /\ ch' = [ch EXCEPT ![c].state = "closed"]
        /\ UNCHANGED <<upstream, quote, toCall, coinBbos, broadcasting, current, shown>>
    BY <1>8 DEF Prices!remove, Prices!Goto, Prices!feed
  <2>2. /\ ch' \in [Clients -> PriceChannel]
        /\ pc[c] = "closing" => ch'[c].state = "closed"
        /\ \A d \in Clients : ch'[d].buffer = ch[d].buffer /\ ch'[d].full = ch[d].full
        /\ \A d \in Clients \ {c} : ch'[d] = ch[d]
    <3>1. CASE ch' = ch /\ pc[c] # "closing"
      BY <1>t, <3>1 DEF PricesTyped
    <3>2. CASE ch' = [ch EXCEPT ![c].state = "closed"]
      BY <1>t, <3>2 DEF PricesTyped, PriceChannel
    <3> QED
      BY <2>1, <3>1, <3>2
  <2>3. PricesTyped' /\ TopicInv'
    <3>1. PricesTyped'
      BY <1>t, <2>1, <2>2 DEF PricesTyped, Places
    <3>2. \A d \in Clients \ {c} : pc'[d] = pc[d] /\ (d \in subs' <=> d \in subs)
      BY <1>t, <2>1 DEF PricesTyped
    <3>3. /\ c \notin subs' /\ pc'[c] \in {"closing", "gone"}
          /\ ch'[c].state = IF pc'[c] = "gone" THEN "closed" ELSE "open"
      <4>1. CASE pc[c] = "streaming"
        <5>1. pc'[c] = "closing" /\ ch' = ch /\ subs' = subs \ {c}
          BY <1>t, <2>1, <4>1 DEF PricesTyped
        <5> QED
          BY <1>t, <4>1, <5>1 DEF TopicInv
      <4>2. CASE pc[c] = "closing"
        <5>1. pc'[c] = "gone" /\ subs' = subs
          BY <1>t, <2>1, <4>2 DEF PricesTyped
        <5> QED
          BY <1>t, <2>2, <4>2, <5>1 DEF TopicInv
      <4> QED
        BY <2>1, <4>1, <4>2
    <3> QED
      BY <1>t, <2>2, <3>1, <3>2, <3>3 DEF TopicInv
  <2>4. QuotesInv'
    BY <1>t, <2>1, <2>2, GotFrame DEF PricesTyped, QuotesInv, Quiet
  <2> QED
    BY <2>3, <2>4 DEF PricesInv
<1>9. ASSUME NEW c \in Clients, Prices!StreamHyperliquidPrices(c) PROVE PricesInv'
  <2> DEFINE b == ch[c].buffer
  <2>1. /\ b # <<>> /\ b \in Seq(Nat) /\ shown[c] \in Seq(Nat)
        /\ shown' = [shown EXCEPT ![c] = Append(shown[c], Head(b))]
        /\ ch' = [ch EXCEPT ![c].buffer = Tail(b)]
        /\ UNCHANGED <<upstream, quote, toCall, coinBbos, broadcasting, subs, current, pc>>
    BY <1>9, <1>t
    DEF Prices!StreamHyperliquidPrices, Prices!feed, PricesTyped, PriceChannel
  <2>2. /\ Head(b) \in Nat /\ Tail(b) \in Seq(Nat) /\ Head(b) = b[1]
        /\ Len(b) \in Nat /\ Len(Tail(b)) = Len(b) - 1
        /\ \A i \in 1 .. Len(Tail(b)) : Tail(b)[i] = b[i + 1]
        /\ Append(shown[c], Head(b)) \in Seq(Nat)
        /\ Len(Append(shown[c], Head(b))) = Len(shown[c]) + 1 /\ Len(shown[c]) \in Nat
        /\ Append(shown[c], Head(b))[Len(shown[c]) + 1] = Head(b)
        /\ \A i \in 1 .. Len(shown[c]) : Append(shown[c], Head(b))[i] = shown[c][i]
    BY <2>1
  <2>3. /\ ch' \in [Clients -> PriceChannel] /\ shown' \in [Clients -> Seq(Nat)]
        /\ ch'[c].buffer = Tail(b) /\ shown'[c] = Append(shown[c], Head(b))
        /\ \A d \in Clients : ch'[d].state = ch[d].state /\ ch'[d].full = ch[d].full
        /\ \A d \in Clients \ {c} : ch'[d] = ch[d] /\ shown'[d] = shown[d]
    <3>1. /\ ch[c] \in PriceChannel /\ \A d \in Clients \ {c} : ch'[d] = ch[d]
          /\ shown' \in [Clients -> Seq(Nat)] /\ shown'[c] = Append(shown[c], Head(b))
          /\ \A d \in Clients \ {c} : shown'[d] = shown[d]
      BY <1>t, <2>1, <2>2 DEF PricesTyped
    <3>2. /\ ch'[c] \in PriceChannel /\ ch'[c].buffer = Tail(b)
          /\ ch'[c].state = ch[c].state /\ ch'[c].full = ch[c].full
      <4>1. PICK rest \in Seq(Nat) : rest = Tail(b)
        BY <2>2
      <4>2. ch'[c] = [ch[c] EXCEPT !.buffer = rest]
        BY <1>t, <2>1, <4>1 DEF PricesTyped
      <4> QED
        BY <3>1, <4>1, <4>2 DEF PriceChannel
    <3>3. ch' \in [Clients -> PriceChannel]
      BY <1>t, <2>1, <3>1, <3>2 DEF PricesTyped
    <3> QED
      BY <3>1, <3>2, <3>3
  <2>4. Got(c) => Got(c)'
    <3>1. ASSUME NEW i \in 1 .. Len(shown[c]), shown[c][i] = quote PROVE Got(c)'
      BY <2>1, <2>2, <2>3, <3>1 DEF Got
    <3>2. ASSUME NEW i \in 1 .. Len(b), b[i] = quote PROVE Got(c)'
      <4>1. CASE i = 1
        BY <2>1, <2>2, <2>3, <3>2, <4>1, SMTT(30) DEF Got
      <4>2. CASE i # 1
        <5>1. i - 1 \in 1 .. Len(Tail(b)) /\ Tail(b)[i - 1] = b[i]
          BY <2>2, <4>2
        <5> QED
          BY <2>1, <2>3, <3>2, <5>1 DEF Got
      <4> QED
        BY <4>1, <4>2
    <3> QED
      BY <3>1, <3>2 DEF Got
  <2>5. \A d \in Clients : Got(d) => Got(d)'
    BY <2>1, <2>3, <2>4 DEF Got
  <2>6. PricesTyped' /\ TopicInv'
    BY <1>t, <2>1, <2>3, SMTT(30) DEF PricesTyped, TopicInv
  <2>7. QuotesInv'
    BY <1>t, <2>1, <2>3, <2>5 DEF QuotesInv, Quiet
  <2> QED
    BY <2>6, <2>7 DEF PricesInv
<1> QED
  BY <1>0, <1>1, <1>2, <1>3, <1>4, <1>5, <1>6, <1>7, <1>8, <1>9
  DEF Next, vars, OrdersOnly, SystemOnly, PricesOnly, LogsOnly, GateOnly, StopOnly,
      Prices!Next

\* The invariant of the prices holds of every state.
LEMMA PricesInvariant == Spec => []PricesInv
<1>1. Init => PricesInv
  <2> SUFFICES ASSUME Prices!Init PROVE PricesInv
    BY DEF Init
  <2>1. [buffer |-> <<>>, state |-> "open", full |-> FALSE] \in PriceChannel
    BY DEF PriceChannel
  <2>2. PricesTyped
    BY <2>1 DEF Prices!Init, PricesTyped, Places
  <2> QED
    BY <2>2 DEF Prices!Init, PricesInv, TopicInv, QuotesInv, Quiet
<1> QED
  BY <1>1, PricesStep, PTL DEF Spec

\* A client that has subscribed was offered the latest quote unless its channel was
\* full, whenever it joined (ws.go: SubscribeBBO against storeCoinBBO).
THEOREM NoQuoteMissed == Spec => []LatestQuoteOffered
<1>1. PricesInv => LatestQuoteOffered
  <2> SUFFICES ASSUME PricesInv, NEW c \in Clients, pc[c] = "streaming", Quiet, ~ch[c].full
               PROVE  quote \in Prices!Offered(c)
    BY DEF LatestQuoteOffered, Prices!LatestQuoteOffered, Quiet
  <2>1. Got(c) /\ shown[c] \in Seq(Nat) /\ ch[c].buffer \in Seq(Nat)
    BY DEF PricesInv, PricesTyped, QuotesInv, PriceChannel
  <2>2. DOMAIN shown[c] = 1 .. Len(shown[c]) /\ DOMAIN ch[c].buffer = 1 .. Len(ch[c].buffer)
    BY <2>1
  <2> QED
    BY <2>1, <2>2 DEF Got, Prices!Offered
<1> QED
  BY <1>1, PricesInvariant, PTL

-----------------------------------------------------------------------------
(* Order stream *)

\* A subscriber's channel.
OrderChannel == [state : {"none", "open", "closed", "panic"}, buffer : Seq(Nat)]

\* Types of the stream.
StreamTyped ==
    /\ sequence \in Nat
    /\ stamped \in [Publishers -> Nat]
    /\ subscribers \subseteq Subscribers
    /\ channels \in [Subscribers -> OrderChannel]
    /\ written \in [Subscribers -> Seq(Nat)]

\* A channel is open while it is registered, and never used after its close.
ChannelsInv ==
    \A s \in Subscribers :
        /\ channels[s].state # "panic"
        /\ s \in subscribers => channels[s].state = "open"

\* Who has a number and has not published it holds the mutex, and the number is the last.
OneStamped == \A p \in Publishers : stamped[p] # 0 => mutex = p /\ stamped[p] = sequence

\* All that client s was sent, read or not.
Seen(s) == written[s] \o channels[s].buffer

\* Numbers come in order; none is above the last, and the number that is being published
\* is above them all.
OrderInv ==
    \A s \in Subscribers :
        /\ \A i, j \in 1 .. Len(Seen(s)) : i < j => Seen(s)[i] < Seen(s)[j]
        /\ \A i \in 1 .. Len(Seen(s)) :
              /\ Seen(s)[i] <= sequence
              /\ \A p \in Publishers : stamped[p] # 0 => Seen(s)[i] < stamped[p]

\* The inductive invariant of the order stream.
StreamInv == StreamTyped /\ ChannelsInv /\ OneStamped /\ OrderInv

\* An event at the end of the buffer is at the end of what the client is sent.
LEMMA SeenGrows ==
    ASSUME NEW w \in Seq(Nat), NEW b \in Seq(Nat), NEW e \in Nat
    PROVE  w \o Append(b, e) = Append(w \o b, e) /\ w \o b \in Seq(Nat)
  OBVIOUS

\* Writing a frame moves its event from the buffer to the client.
LEMMA SeenKept ==
    ASSUME NEW w \in Seq(Nat), NEW b \in Seq(Nat), b # <<>>
    PROVE  Append(w, Head(b)) \o Tail(b) = w \o b
  OBVIOUS

\* Every step of publishers, clients and Flush keeps it.
LEMMA StreamStep == StreamInv /\ [Next]_vars => StreamInv'
<1> SUFFICES ASSUME StreamInv, [Next]_vars PROVE StreamInv'
  OBVIOUS
<1>t. StreamTyped /\ ChannelsInv /\ OneStamped /\ OrderInv
  BY DEF StreamInv
<1>n. ASSUME NEW s \in Subscribers
      PROVE  /\ channels[s] \in OrderChannel /\ channels[s].buffer \in Seq(Nat)
             /\ written[s] \in Seq(Nat) /\ Seen(s) \in Seq(Nat)
  <2>1. channels[s].buffer \in Seq(Nat) /\ written[s] \in Seq(Nat)
    BY <1>t DEF StreamTyped, OrderChannel
  <2> QED
    BY <1>t, <2>1 DEF StreamTyped, Seen
<1>f. ASSUME UNCHANGED <<mutex, sequence, stamped>>, StreamTyped', ChannelsInv',
             \A s \in Subscribers : Seen(s)' = Seen(s)
      PROVE  StreamInv'
  <2>1. OneStamped'
    BY <1>t, <1>f DEF OneStamped
  <2>2. OrderInv'
    BY <1>t, <1>f DEF OrderInv
  <2> QED
    BY <1>f, <2>1, <2>2 DEF StreamInv
<1>0. CASE UNCHANGED orderVars
  <2>1. StreamTyped' /\ ChannelsInv' /\ \A s \in Subscribers : Seen(s)' = Seen(s)
    BY <1>t, <1>0 DEF orderVars, StreamTyped, ChannelsInv, Seen
  <2> QED
    BY <1>0, <1>f, <2>1 DEF orderVars
<1>1. ASSUME NEW p \in Publishers, Orders!Stamps(p) PROVE StreamInv'
  <2>1. /\ mutex = NoPublisher /\ mutex' = p /\ sequence' = sequence + 1
        /\ stamped' = [stamped EXCEPT ![p] = sequence + 1]
        /\ UNCHANGED <<subscribers, channels, written>>
    BY <1>1 DEF Orders!Stamps
  <2>2. StreamTyped' /\ ChannelsInv'
    BY <1>t, <2>1 DEF StreamTyped, ChannelsInv
  <2>3. \A q \in Publishers : stamped[q] = 0
    BY <1>t, <2>1, ServicesAssumption DEF OneStamped
  <2>4. OneStamped'
    BY <1>t, <2>1, <2>3 DEF StreamTyped, OneStamped
  <2>5. \A s \in Subscribers : Seen(s)' = Seen(s)
    BY <2>1 DEF Seen
  <2>6. \A q \in Publishers : stamped'[q] # 0 => stamped'[q] = sequence + 1
    BY <1>t, <2>1, <2>3 DEF StreamTyped
  <2>7. ASSUME NEW s \in Subscribers, NEW i \in 1 .. Len(Seen(s))
        PROVE  Seen(s)[i] \in Nat /\ Seen(s)[i] < sequence + 1 /\ Seen(s)[i] <= sequence + 1
    BY <1>t, <1>n DEF OrderInv, StreamTyped
  <2>8. OrderInv'
    BY <1>t, <2>1, <2>5, <2>6, <2>7 DEF OrderInv
  <2> QED
    BY <2>2, <2>4, <2>8 DEF StreamInv
<1>2. ASSUME NEW p \in Publishers, Orders!Publish(p) PROVE StreamInv'
  <2>0. PICK e \in Nat : e = stamped[p]
    BY <1>t DEF StreamTyped
  <2>1. /\ e # 0 /\ e = sequence /\ mutex = p
        /\ stamped' = [stamped EXCEPT ![p] = 0] /\ mutex' = NoPublisher
        /\ UNCHANGED <<sequence, subscribers, written>>
    BY <1>2, <1>t, <2>0 DEF Orders!Publish, OneStamped
  <2>2. \A q \in Publishers : stamped'[q] = 0
    BY <1>t, <2>1 DEF StreamTyped, OneStamped
  <2>3. ASSUME NEW s \in Subscribers
        PROVE  /\ channels'[s] \in OrderChannel /\ channels'[s].state = channels[s].state
               /\ channels'[s].buffer \in {channels[s].buffer, Append(channels[s].buffer, e)}
    <3>1. \/ channels'[s] = channels[s]
          \/ s \in subscribers /\ channels'[s] = Orders!Send(channels[s], stamped[p])
      BY <1>2 DEF Orders!Publish, Orders!matchesFilter
    <3>2. CASE channels'[s] = channels[s]
      BY <1>n, <3>2
    <3>3. CASE s \in subscribers /\ channels'[s] = Orders!Send(channels[s], stamped[p])
      <4>1. channels[s].state = "open"
        BY <1>t, <3>3 DEF ChannelsInv
      <4>2. \/ channels'[s] = channels[s]
            \/ channels'[s] = [channels[s] EXCEPT !.buffer = Append(channels[s].buffer, e)]
        BY <2>0, <3>3, <4>1 DEF Orders!Send
      <4>3. Append(channels[s].buffer, e) \in Seq(Nat)
        BY <1>n
      <4> QED
        BY <1>n, <4>2, <4>3 DEF OrderChannel
    <3> QED
      BY <3>1, <3>2, <3>3
  <2>4. channels' \in [Subscribers -> OrderChannel]
    <3>1. DOMAIN channels' = Subscribers /\ channels' = [s \in Subscribers |-> channels'[s]]
      BY <1>2 DEF Orders!Publish, Orders!matchesFilter
    <3> QED
      BY <2>3, <3>1
  <2>5. StreamTyped' /\ ChannelsInv'
    BY <1>t, <2>1, <2>3, <2>4 DEF StreamTyped, ChannelsInv
  <2>6. OneStamped'
    BY <2>2 DEF OneStamped
  <2>7. ASSUME NEW s \in Subscribers PROVE Seen(s)' \in {Seen(s), Append(Seen(s), e)}
    <3>1. Seen(s)' = written[s] \o channels'[s].buffer
      BY <2>1 DEF Seen
    <3>2. written[s] \o Append(channels[s].buffer, e) = Append(Seen(s), e)
      BY <1>n, SeenGrows DEF Seen
    <3> QED
      BY <2>3, <3>1, <3>2 DEF Seen
  <2>8. ASSUME NEW s \in Subscribers
        PROVE  /\ \A i, j \in 1 .. Len(Seen(s)') : i < j => Seen(s)'[i] < Seen(s)'[j]
               /\ \A i \in 1 .. Len(Seen(s)') : Seen(s)'[i] <= sequence
    <3>1. \A i \in 1 .. Len(Seen(s)) : Seen(s)[i] \in Nat /\ Seen(s)[i] < e
      <4>1. \A i \in 1 .. Len(Seen(s)) : Seen(s)[i] < stamped[p]
        BY <1>t, <2>0, <2>1 DEF OrderInv
      <4>2. \A i \in 1 .. Len(Seen(s)) : Seen(s)[i] \in Nat
        BY <1>n
      <4> QED
        BY <2>0, <4>1, <4>2
    <3>2. CASE Seen(s)' = Seen(s)
      BY <1>t, <3>2 DEF OrderInv
    <3>3. CASE Seen(s)' = Append(Seen(s), e)
      <4>1. /\ Len(Seen(s)') = Len(Seen(s)) + 1 /\ Len(Seen(s)) \in Nat
            /\ Seen(s)'[Len(Seen(s)) + 1] = e
            /\ \A i \in 1 .. Len(Seen(s)) : Seen(s)'[i] = Seen(s)[i]
        BY <1>n, <3>3
      <4> QED
        BY <1>t, <2>1, <3>1, <4>1, SMTT(30) DEF OrderInv
    <3> QED
      BY <2>7, <3>2, <3>3
  <2>9. OrderInv'
    BY <2>1, <2>2, <2>8 DEF OrderInv
  <2> QED
    BY <2>5, <2>6, <2>9 DEF StreamInv
<1>3. ASSUME NEW s \in Subscribers, Orders!Subscribe(s) PROVE StreamInv'
  <2>1. /\ channels' = [channels EXCEPT ![s].state = "open"]
        /\ subscribers' = subscribers \cup {s}
        /\ UNCHANGED <<mutex, sequence, stamped, written>>
    BY <1>3 DEF Orders!Subscribe
  <2>2. /\ StreamTyped' /\ ChannelsInv'
        /\ \A v \in Subscribers : channels'[v].buffer = channels[v].buffer
    BY <1>t, <2>1 DEF StreamTyped, ChannelsInv, OrderChannel
  <2>3. \A v \in Subscribers : Seen(v)' = Seen(v)
    BY <2>1, <2>2 DEF Seen
  <2> QED
    BY <1>f, <2>1, <2>2, <2>3
<1>4. ASSUME NEW s \in Subscribers, Orders!Disconnects(s) PROVE StreamInv'
  <2>1. StreamTyped' /\ ChannelsInv' /\ \A v \in Subscribers : Seen(v)' = Seen(v)
    BY <1>t, <1>4 DEF Orders!Disconnects, StreamTyped, ChannelsInv, Seen
  <2> QED
    BY <1>f, <1>4, <2>1 DEF Orders!Disconnects
<1>c. ASSUME NEW s \in subscribers
      PROVE  /\ Orders!Close(s) \in OrderChannel /\ Orders!Close(s).state = "closed"
             /\ Orders!Close(s).buffer = channels[s].buffer
  BY <1>t DEF Orders!Close, StreamTyped, ChannelsInv, OrderChannel
<1>5. ASSUME NEW s \in Subscribers, Orders!awaitCancellation(s) PROVE StreamInv'
  <2>1. /\ s \in subscribers /\ channels' = [channels EXCEPT ![s] = Orders!Close(s)]
        /\ subscribers' = subscribers \ {s}
        /\ UNCHANGED <<mutex, sequence, stamped, written>>
    BY <1>5 DEF Orders!awaitCancellation
  <2>2. /\ StreamTyped' /\ ChannelsInv'
        /\ \A v \in Subscribers : channels'[v].buffer = channels[v].buffer
    BY <1>t, <1>c, <2>1 DEF StreamTyped, ChannelsInv
  <2>3. \A v \in Subscribers : Seen(v)' = Seen(v)
    BY <2>1, <2>2 DEF Seen
  <2> QED
    BY <1>f, <2>1, <2>2, <2>3
<1>6. ASSUME NEW s \in Subscribers, Orders!StreamOrders(s) PROVE StreamInv'
  <2>1. /\ channels[s].buffer # <<>>
        /\ written' = [written EXCEPT ![s] = Append(written[s], Head(channels[s].buffer))]
        /\ channels' = [channels EXCEPT ![s].buffer = Tail(channels[s].buffer)]
        /\ UNCHANGED <<mutex, sequence, stamped, subscribers>>
    BY <1>6 DEF Orders!StreamOrders
  <2>2. /\ Tail(channels[s].buffer) \in Seq(Nat)
        /\ Append(written[s], Head(channels[s].buffer)) \in Seq(Nat)
    BY <1>n, <2>1
  <2>3. /\ channels' \in [Subscribers -> OrderChannel]
        /\ channels'[s].buffer = Tail(channels[s].buffer)
        /\ \A v \in Subscribers : channels'[v].state = channels[v].state
        /\ \A v \in Subscribers \ {s} : channels'[v] = channels[v]
    BY <1>t, <2>1, <2>2 DEF StreamTyped, OrderChannel
  <2>4. /\ written' \in [Subscribers -> Seq(Nat)]
        /\ written'[s] = Append(written[s], Head(channels[s].buffer))
        /\ \A v \in Subscribers \ {s} : written'[v] = written[v]
    BY <1>t, <2>1, <2>2 DEF StreamTyped
  <2>5. StreamTyped' /\ ChannelsInv'
    BY <1>t, <2>1, <2>3, <2>4 DEF StreamTyped, ChannelsInv
  <2>6. Seen(s)' = Seen(s)
    <3>1. Seen(s)' = Append(written[s], Head(channels[s].buffer)) \o Tail(channels[s].buffer)
      BY <2>3, <2>4 DEF Seen
    <3>2. Append(written[s], Head(channels[s].buffer)) \o Tail(channels[s].buffer)
             = written[s] \o channels[s].buffer
      BY <1>n, <2>1, SeenKept
    <3> QED
      BY <3>1, <3>2 DEF Seen
  <2>7. \A v \in Subscribers : Seen(v)' = Seen(v)
    BY <2>3, <2>4, <2>6 DEF Seen
  <2> QED
    BY <1>f, <2>1, <2>5, <2>7
<1>7. CASE Orders!Flush
  <2>1. /\ channels' = [s \in Subscribers |->
                           IF s \in subscribers THEN Orders!Close(s) ELSE channels[s]]
        /\ subscribers' = {}
        /\ UNCHANGED <<mutex, sequence, stamped, written>>
    BY <1>7 DEF Orders!Flush
  <2>2. /\ StreamTyped' /\ ChannelsInv'
        /\ \A v \in Subscribers : channels'[v].buffer = channels[v].buffer
    BY <1>t, <1>c, <2>1 DEF StreamTyped, ChannelsInv
  <2>3. \A v \in Subscribers : Seen(v)' = Seen(v)
    BY <2>1, <2>2 DEF Seen
  <2> QED
    BY <1>f, <2>1, <2>2, <2>3
<1> QED
  BY <1>0, <1>1, <1>2, <1>3, <1>4, <1>5, <1>6, <1>7
  DEF Next, vars, OrdersOnly, SystemOnly, PricesOnly, LogsOnly, GateOnly, StopOnly,
      Orders!Next

\* The invariant of the stream holds of every state.
LEMMA StreamInvariant == Spec => []StreamInv
<1>1. Init => StreamInv
  <2> SUFFICES ASSUME Orders!Init PROVE StreamInv
    BY DEF Init
  <2>1. [state |-> "none", buffer |-> <<>>] \in OrderChannel
    BY DEF OrderChannel
  <2>2. StreamTyped /\ ChannelsInv /\ OneStamped
    BY <2>1 DEF Orders!Init, StreamTyped, ChannelsInv, OneStamped
  <2>3. \A s \in Subscribers : Seen(s) = <<>>
    BY DEF Orders!Init, Seen
  <2>4. OrderInv
    BY <2>3 DEF OrderInv
  <2> QED
    BY <2>2, <2>4 DEF StreamInv
<1> QED
  BY <1>1, StreamStep, PTL DEF Spec

\* A client reads the sequence numbers in increasing order, whichever goroutines publish
\* at the same time (stream_controller.go: Publish under the mutex of the store).
THEOREM StreamInOrder == Spec => []DeliveredInOrder
<1>1. StreamInv => DeliveredInOrder
  <2> SUFFICES ASSUME StreamInv, NEW s \in Subscribers
               PROVE  \A i, j \in DOMAIN Seen(s) : i < j => Seen(s)[i] < Seen(s)[j]
    BY DEF DeliveredInOrder, Orders!DeliveredInOrder, Seen
  <2>1. written[s] \in Seq(Nat) /\ channels[s].buffer \in Seq(Nat)
    BY DEF StreamInv, StreamTyped, OrderChannel
  <2>2. DOMAIN Seen(s) = 1 .. Len(Seen(s))
    BY <2>1 DEF Seen
  <2> QED
    BY <2>2 DEF StreamInv, OrderInv
<1> QED
  BY <1>1, StreamInvariant, PTL

\* No channel of the order stream or of a price topic is used after its close or closed
\* twice (stream_controller.go: awaitCancellation, Flush; ws.go: SubscribeBBO).
THEOREM ChannelsSafe == Spec => []NoUseAfterClose
<1>1. StreamInv /\ PricesInv => NoUseAfterClose
  BY DEF StreamInv, ChannelsInv, PricesInv, TopicInv, NoUseAfterClose,
         Orders!OpenWhileRegistered, Prices!NoSendAfterClose
<1> QED
  BY <1>1, StreamInvariant, PricesInvariant, PTL

-----------------------------------------------------------------------------
(* System stream *)

\* What the controller keeps about one subscriber.
Subscription == [buffer : Seq(Nat), joined : BOOLEAN, closed : BOOLEAN, gone : BOOLEAN,
                 skipped : SUBSET Nat, since : Nat]

\* Types of the stream; an event is aged after it was published.
SystemTyped ==
    /\ published \in Nat /\ aged \in Nat /\ aged <= published
    /\ eventHistory \in Seq(Nat)
    /\ members \subseteq Watchers
    /\ sub \in [Watchers -> Subscription]
    /\ sending \in [Publishers -> [event : Nat, to : SUBSET Watchers]]
    /\ replay \in [Watchers -> Seq(Nat)]
    /\ received \in [Watchers -> Seq(Nat)]

\* The history ends with the last event, has no gap, and lacks only what is too old or
\* beyond its size.
HistoryInv ==
    /\ Len(eventHistory) <= published
    /\ \A i \in 1 .. Len(eventHistory) :
          eventHistory[i] = published - Len(eventHistory) + i
    /\ \/ Len(eventHistory) >= maxHistorySize
       \/ Len(eventHistory) >= published - aged

\* Publishers send different events.
SendingInv ==
    \A p \in Publishers :
        /\ sending[p].event <= published
        /\ sending[p].to # {} => sending[p].event # 0
        /\ \A q \in Publishers \ {p} :
              sending[p].event = sending[q].event => sending[p].event = 0

Has(q, e) == \E i \in 1 .. Len(q) : q[i] = e
Distinct(q) == \A i, j \in 1 .. Len(q) : q[i] = q[j] => i = j

\* What s has read or has in its buffer, and what a publisher is about to send it.
Read(s) == received[s] \o sub[s].buffer
Going(s, e) == \E p \in Publishers : s \in sending[p].to /\ sending[p].event = e

\* An event is in one place only on its way to s, and one that is owed is in some place.
SubscriberInv(s) ==
    /\ Distinct(Read(s)) /\ Distinct(replay[s])
    /\ \A e \in Nat :
          /\ Has(Read(s), e) =>
                e <= published /\ ~Has(replay[s], e) /\ e \notin sub[s].skipped /\ ~Going(s, e)
          /\ Has(replay[s], e) => e <= published /\ e \notin sub[s].skipped /\ ~Going(s, e)
          /\ e \in sub[s].skipped => e <= published /\ ~Going(s, e)
    /\ ~sub[s].joined =>
          /\ ~sub[s].closed
          /\ s \notin members /\ Read(s) = <<>> /\ replay[s] = <<>> /\ sub[s].skipped = {}
          /\ \A e \in Nat : ~Going(s, e)
    /\ s \in members => ~sub[s].closed
    /\ s \in members /\ ~sub[s].gone =>
          \A e \in Nat : sub[s].since <= e /\ e <= published =>
              Has(Read(s), e) \/ Has(replay[s], e) \/ e \in sub[s].skipped \/ Going(s, e)

SystemInv ==
    /\ SystemTyped /\ HistoryInv /\ SendingInv
    /\ \A s \in Watchers : SubscriberInv(s)

\* A step that moves no event of s, after which it may have left.
LEMMA SubscriberFrame ==
    ASSUME NEW s \in Watchers, SubscriberInv(s),
           Read(s)' = Read(s), replay'[s] = replay[s], published' = published,
           sub'[s].skipped = sub[s].skipped, sub'[s].since = sub[s].since,
           sub'[s].joined = sub[s].joined, sub[s].gone => sub'[s].gone,
           s \in members' => s \in members /\ ~sub'[s].closed,
           ~sub[s].joined => ~sub'[s].closed,
           \A e \in Nat : Going(s, e)' <=> Going(s, e)
    PROVE  SubscriberInv(s)'
  BY DEF SubscriberInv

\* trySend drops the event on a closed channel, puts it at the end of the buffer, or
\* skips it.
LEMMA TrySendGives ==
    ASSUME SystemTyped, NEW s \in Watchers, NEW e \in Nat
    PROVE  LET x == System!trySend(s, e)
           IN  /\ x \in Subscription
               /\ x.joined = sub[s].joined /\ x.gone = sub[s].gone
               /\ x.closed = sub[s].closed /\ x.since = sub[s].since
               /\ \/ sub[s].closed /\ x = sub[s]
                  \/ x.buffer = Append(sub[s].buffer, e) /\ x.skipped = sub[s].skipped
                  \/ x.buffer = sub[s].buffer /\ x.skipped = sub[s].skipped \cup {e}
<1>1. /\ sub[s] \in Subscription /\ sub[s].closed \in BOOLEAN
      /\ sub[s].buffer \in Seq(Nat) /\ sub[s].skipped \in SUBSET Nat
  BY DEF SystemTyped, Subscription
<1>2. Append(sub[s].buffer, e) \in Seq(Nat) /\ sub[s].skipped \cup {e} \in SUBSET Nat
  BY <1>1
<1>3. CASE sub[s].closed
  <2>1. System!trySend(s, e) = sub[s]
    BY <1>1, <1>3 DEF System!trySend
  <2> QED
    BY <1>1, <1>3, <2>1
<1>4. CASE ~sub[s].closed /\ Len(sub[s].buffer) < BufferSize
  <2>1. System!trySend(s, e) = [sub[s] EXCEPT !.buffer = Append(sub[s].buffer, e)]
    BY <1>4 DEF System!trySend
  <2> QED
    BY <1>1, <1>2, <2>1 DEF Subscription
<1>5. CASE ~sub[s].closed /\ ~(Len(sub[s].buffer) < BufferSize)
  <2>1. System!trySend(s, e) = [sub[s] EXCEPT !.skipped = sub[s].skipped \cup {e}]
    BY <1>5 DEF System!trySend
  <2> QED
    BY <1>1, <1>2, <2>1 DEF Subscription
<1> QED
  BY <1>3, <1>4, <1>5

\* What a sequence holds after an event was put at its end.
LEMMA AfterAppend ==
    ASSUME NEW q \in Seq(Nat), NEW e \in Nat
    PROVE  /\ \A x \in Nat : Has(Append(q, e), x) <=> Has(q, x) \/ x = e
           /\ Distinct(q) /\ ~Has(q, e) => Distinct(Append(q, e))
<1>1. /\ Len(Append(q, e)) = Len(q) + 1 /\ Len(q) \in Nat
      /\ Append(q, e)[Len(q) + 1] = e
      /\ \A i \in 1 .. Len(q) : Append(q, e)[i] = q[i]
  OBVIOUS
<1>2. \A i \in 1 .. Len(q) + 1 : i \in 1 .. Len(q) \/ i = Len(q) + 1
  BY <1>1
<1> QED
  BY <1>1, <1>2 DEF Has, Distinct

\* What a sequence without repetitions holds after its head was taken.
LEMMA AfterTail ==
    ASSUME NEW q \in Seq(Nat), q # <<>>, Distinct(q)
    PROVE  /\ Head(q) \in Nat /\ Tail(q) \in Seq(Nat) /\ Distinct(Tail(q))
           /\ Has(q, Head(q)) /\ ~Has(Tail(q), Head(q))
           /\ \A x \in Nat : Has(q, x) <=> Has(Tail(q), x) \/ x = Head(q)
<1>1. /\ Len(q) \in Nat /\ Len(q) > 0 /\ Head(q) = q[1] /\ Head(q) \in Nat
      /\ Tail(q) \in Seq(Nat) /\ Len(Tail(q)) = Len(q) - 1
      /\ \A i \in 1 .. Len(q) - 1 : Tail(q)[i] = q[i + 1]
  OBVIOUS
<1>2. Distinct(Tail(q))
  <2> SUFFICES ASSUME NEW i \in 1 .. Len(q) - 1, NEW j \in 1 .. Len(q) - 1,
                      Tail(q)[i] = Tail(q)[j]
               PROVE  i = j
    BY <1>1 DEF Distinct
  <2>1. i + 1 \in 1 .. Len(q) /\ j + 1 \in 1 .. Len(q) /\ q[i + 1] = q[j + 1]
    BY <1>1
  <2>2. i + 1 = j + 1
    BY <2>1 DEF Distinct
  <2> QED
    BY <2>2
<1>3. 1 \in 1 .. Len(q)
  BY <1>1
<1>4. ~Has(Tail(q), Head(q))
  <2> SUFFICES ASSUME NEW i \in 1 .. Len(q) - 1, Tail(q)[i] = q[1] PROVE FALSE
    BY <1>1 DEF Has
  <2>1. i + 1 \in 1 .. Len(q) /\ q[i + 1] = q[1]
    BY <1>1
  <2>2. i + 1 = 1
    BY <1>3, <2>1 DEF Distinct
  <2> QED
    BY <2>2
<1>5. ASSUME NEW i \in 1 .. Len(q), i # 1 PROVE Has(Tail(q), q[i])
  <2>1. i - 1 \in 1 .. Len(q) - 1 /\ Tail(q)[i - 1] = q[i]
    BY <1>1, <1>5
  <2> QED
    BY <1>1, <2>1 DEF Has
<1>6. ASSUME NEW i \in 1 .. Len(q) - 1 PROVE Has(q, Tail(q)[i])
  <2>1. i + 1 \in 1 .. Len(q) /\ Tail(q)[i] = q[i + 1]
    BY <1>1
  <2> QED
    BY <2>1 DEF Has
<1>7. \A x \in Nat : Has(q, x) => Has(Tail(q), x) \/ x = Head(q)
  BY <1>1, <1>5 DEF Has
<1>8. \A x \in Nat : Has(Tail(q), x) => Has(q, x)
  BY <1>1, <1>6 DEF Has
<1> QED
  BY <1>1, <1>2, <1>3, <1>4, <1>7, <1>8 DEF Has

\* A run of numbers that ends with n.
Ends(q, n) ==
    /\ q \in Seq(Nat) /\ Len(q) <= n
    /\ \A i \in 1 .. Len(q) : q[i] = n - Len(q) + i

\* It holds the last numbers, each once.
LEMMA EndsHas ==
    ASSUME NEW n \in Nat, NEW q, Ends(q, n)
    PROVE  /\ Distinct(q)
           /\ \A e \in Nat : Has(q, e) <=> n - Len(q) < e /\ e <= n
<1>1. Len(q) \in Nat /\ Len(q) <= n
  BY DEF Ends
<1>2. Distinct(q)
  BY <1>1 DEF Ends, Distinct
<1>3. ASSUME NEW e \in Nat, n - Len(q) < e, e <= n PROVE Has(q, e)
  <2>1. e - (n - Len(q)) \in 1 .. Len(q)
    BY <1>1, <1>3
  <2>2. q[e - (n - Len(q))] = e
    BY <1>1, <2>1 DEF Ends
  <2> QED
    BY <2>1, <2>2 DEF Has
<1>4. ASSUME NEW e \in Nat, Has(q, e) PROVE n - Len(q) < e /\ e <= n
  BY <1>1, <1>4 DEF Ends, Has
<1> QED
  BY <1>2, <1>3, <1>4

\* Its end is such a run again.
LEMMA SuffixEnds ==
    ASSUME NEW n \in Nat, NEW q, Ends(q, n), NEW k \in 1 .. Len(q) + 1
    PROVE  /\ Ends(SubSeq(q, k, Len(q)), n)
           /\ Len(SubSeq(q, k, Len(q))) = Len(q) - k + 1
<1>1. q \in Seq(Nat) /\ Len(q) \in Nat /\ k \in Nat /\ k >= 1 /\ k <= Len(q) + 1
  BY DEF Ends
<1>2. /\ SubSeq(q, k, Len(q)) \in Seq(Nat)
      /\ Len(SubSeq(q, k, Len(q))) = Len(q) - k + 1
      /\ \A i \in 1 .. Len(q) - k + 1 : SubSeq(q, k, Len(q))[i] = q[k + i - 1]
  BY <1>1
<1>3. ASSUME NEW i \in 1 .. Len(q) - k + 1 PROVE q[k + i - 1] = n - (Len(q) - k + 1) + i
  <2>1. k + i - 1 \in 1 .. Len(q)
    BY <1>1
  <2>2. q[k + i - 1] = n - Len(q) + (k + i - 1)
    BY <2>1 DEF Ends
  <2> QED
    BY <1>1, <2>2
<1> QED
  BY <1>1, <1>2, <1>3 DEF Ends

\* The part that is recent, if there is one, ends with the same number and is cut at the
\* first one that is not aged.
LEMMA RecentSuffix ==
    ASSUME SystemTyped, NEW n \in Nat, NEW q, Ends(q, n)
    PROVE  /\ System!RecentIn(q) = {} => Len(q) = 0 \/ n <= aged
           /\ System!RecentIn(q) # {} =>
                 /\ Ends(System!FromFirstRecent(q), n)
                 /\ \/ Len(System!FromFirstRecent(q)) = Len(q)
                    \/ Len(System!FromFirstRecent(q)) = n - aged
<1>1. q \in Seq(Nat) /\ Len(q) \in Nat /\ Len(q) <= n /\ aged \in Nat
  BY DEF Ends, SystemTyped
<1>2. DOMAIN q = 1 .. Len(q)
  BY <1>1
<1>3. System!RecentIn(q) = {i \in 1 .. Len(q) : q[i] > aged}
  BY <1>2 DEF System!RecentIn, System!Recent
<1>4. ASSUME System!RecentIn(q) = {}, Len(q) # 0 PROVE n <= aged
  <2>1. Len(q) \in 1 .. Len(q) /\ q[Len(q)] = n
    BY <1>1, <1>4 DEF Ends
  <2> QED
    BY <1>1, <1>3, <1>4, <2>1
<1>5. ASSUME System!RecentIn(q) # {}
      PROVE  /\ Ends(System!FromFirstRecent(q), n)
             /\ \/ Len(System!FromFirstRecent(q)) = Len(q)
                \/ Len(System!FromFirstRecent(q)) = n - aged
  <2>1. \A i \in 1 .. Len(q) : i \in System!RecentIn(q) <=> n - Len(q) + i > aged
    BY <1>3 DEF Ends
  <2>2. PICK k \in System!RecentIn(q) : \A i \in System!RecentIn(q) : k <= i
    <3>1. CASE n - Len(q) + 1 > aged
      <4>1. 1 \in System!RecentIn(q)
        BY <1>1, <1>3, <1>5, <2>1, <3>1
      <4> QED
        BY <1>3, <4>1
    <3>2. CASE n - Len(q) + 1 <= aged
      <4>1. PICK j \in 1 .. Len(q) : n - Len(q) + j > aged
        BY <1>3, <1>5, <2>1
      <4>2. aged + 1 - (n - Len(q)) \in 1 .. Len(q)
        BY <1>1, <3>2, <4>1
      <4>3. aged + 1 - (n - Len(q)) \in System!RecentIn(q)
        BY <1>1, <2>1, <4>2, SMTT(30)
      <4>4. \A i \in System!RecentIn(q) : aged + 1 - (n - Len(q)) <= i
        BY <1>1, <1>3, <2>1
      <4> QED
        BY <4>3, <4>4
    <3> QED
      BY <1>1, <3>1, <3>2
  <2>3. System!Min(System!RecentIn(q)) = k
    <3>1. \A x \in System!RecentIn(q) : (\A y \in System!RecentIn(q) : x <= y) => x = k
      BY <1>3, <2>2
    <3> QED
      BY <2>2, <3>1 DEF System!Min
  <2>4. k \in 1 .. Len(q) /\ n - Len(q) + k > aged
    BY <1>3, <2>1, <2>2
  <2>5. k = 1 \/ n - Len(q) + k - 1 <= aged
    <3> SUFFICES ASSUME k # 1, n - Len(q) + (k - 1) > aged PROVE FALSE
      BY <1>1, <2>4
    <3>1. k - 1 \in 1 .. Len(q)
      BY <1>1, <2>4
    <3>2. k - 1 \in System!RecentIn(q)
      BY <2>1, <3>1
    <3> QED
      BY <2>2, <2>4, <3>2
  <2>6. System!FromFirstRecent(q) = SubSeq(q, k, Len(q))
    BY <2>3 DEF System!FromFirstRecent
  <2>7. k \in 1 .. Len(q) + 1
    BY <1>1, <2>4
  <2>8. /\ Ends(System!FromFirstRecent(q), n)
        /\ Len(System!FromFirstRecent(q)) = Len(q) - k + 1
    BY <2>6, <2>7, SuffixEnds
  <2> QED
    BY <1>1, <2>4, <2>5, <2>8
<1> QED
  BY <1>4, <1>5

\* An event that was skipped or put at the end of the buffer is in that place alone: it
\* left the one where it was (FromReplay: the history; else a publisher's hand).
LEMMA EventArrives ==
    ASSUME SystemTyped, SendingInv, NEW s \in Watchers, SubscriberInv(s), NEW e \in Nat,
           NEW FromReplay \in BOOLEAN,
           IF FromReplay THEN Has(replay[s], e) ELSE Going(s, e),
           ~sub[s].closed, sub'[s] = System!trySend(s, e),
           UNCHANGED <<received, members, published>>,
           Distinct(replay'[s]),
           \A x \in Nat : Has(replay[s], x)'
                            <=> Has(replay[s], x) /\ (FromReplay => x # e),
           \A x \in Nat : Going(s, x)' <=> Going(s, x) /\ (~FromReplay => x # e)
    PROVE  SubscriberInv(s)'
<1>1. /\ received[s] \in Seq(Nat) /\ sub[s].buffer \in Seq(Nat) /\ Read(s) \in Seq(Nat)
  BY DEF SystemTyped, Subscription, Read
<1>2. e <= published /\ ~Has(Read(s), e) /\ e \notin sub[s].skipped
  <2>1. CASE FromReplay
    BY <2>1 DEF SubscriberInv
  <2>2. CASE ~FromReplay
    <3>1. e <= published
      BY <2>2 DEF Going, SendingInv
    <3> QED
      BY <2>2, <3>1 DEF SubscriberInv
  <2> QED
    BY <2>1, <2>2
<1>3. sub[s].joined
  BY DEF SubscriberInv, Has
<1>4. /\ sub'[s].joined = sub[s].joined /\ sub'[s].gone = sub[s].gone
      /\ sub'[s].closed = sub[s].closed /\ sub'[s].since = sub[s].since
  BY TrySendGives
<1>5. CASE sub'[s].buffer = Append(sub[s].buffer, e) /\ sub'[s].skipped = sub[s].skipped
  <2>1. Read(s)' = Append(Read(s), e)
    <3>1. Read(s)' = received[s] \o Append(sub[s].buffer, e)
      BY <1>5 DEF Read
    <3>2. received[s] \o Append(sub[s].buffer, e) = Append(received[s] \o sub[s].buffer, e)
      BY <1>1, SeenGrows
    <3> QED
      BY <3>1, <3>2 DEF Read
  <2>2. /\ Distinct(Read(s)')
        /\ \A x \in Nat : Has(Read(s), x)' <=> Has(Read(s), x) \/ x = e
    <3>1. Distinct(Read(s))
      BY DEF SubscriberInv
    <3>2. \A x \in Nat : Has(Read(s), x)' <=> Has(Append(Read(s), e), x)
      BY <2>1 DEF Has
    <3> QED
      BY <1>1, <1>2, <2>1, <3>1, <3>2, AfterAppend
  <2> QED
    BY <1>2, <1>3, <1>4, <1>5, <2>2 DEF SubscriberInv
<1>6. CASE sub'[s].buffer = sub[s].buffer /\ sub'[s].skipped = sub[s].skipped \cup {e}
  <2>1. Read(s)' = Read(s)
    BY <1>6 DEF Read
  <2>2. /\ Distinct(Read(s)')
        /\ \A x \in Nat : Has(Read(s), x)' <=> Has(Read(s), x)
    BY <2>1 DEF Has, SubscriberInv
  <2> QED
    BY <1>2, <1>3, <1>4, <1>6, <2>2 DEF SubscriberInv
<1> QED
  BY <1>5, <1>6, TrySendGives

\* Somebody else's subscription, when a step touches one only.
LEMMA OtherSubscriber ==
    ASSUME NEW s \in Watchers, SubscriberInv(s),
           sub'[s] = sub[s], replay'[s] = replay[s], received'[s] = received[s],
           published' = published, s \in members' => s \in members,
           \A e \in Nat : Going(s, e)' <=> Going(s, e)
    PROVE  SubscriberInv(s)'
<1>1. Read(s)' = Read(s)
  BY DEF Read
<1>2. (s \in members => ~sub[s].closed) /\ (~sub[s].joined => ~sub[s].closed)
  BY DEF SubscriberInv
<1> QED
  BY <1>1, <1>2, SubscriberFrame

\* Publish: the event is new, and goes to all that are registered.
LEMMA PublishKeeps ==
    ASSUME SystemInv, NEW p \in Publishers, System!Publish(p)
    PROVE  SystemInv'
<1>t. SystemTyped /\ HistoryInv /\ SendingInv /\ \A s \in Watchers : SubscriberInv(s)
  BY DEF SystemInv
<1>1. /\ sending[p].to = {} /\ published' = published + 1 /\ published \in Nat
      /\ eventHistory' = System!addToHistory(published + 1)
      /\ sending' = [sending EXCEPT ![p] = [event |-> published + 1, to |-> members]]
      /\ UNCHANGED <<aged, members, sub, replay, received>>
  BY <1>t DEF System!Publish, SystemTyped
<1>2. /\ sending' \in [Publishers -> [event : Nat, to : SUBSET Watchers]]
      /\ sending'[p].event = published + 1 /\ sending'[p].to = members
      /\ \A q \in Publishers \ {p} : sending'[q] = sending[q]
  BY <1>t, <1>1 DEF SystemTyped
<1>n. PICK n \in Nat : n = published + 1
  BY <1>1
<1>3. /\ Ends(eventHistory', n)
      /\ Len(eventHistory') >= maxHistorySize \/ Len(eventHistory') >= n - aged
  <2>0. PICK h : h = Append(eventHistory, n)
    OBVIOUS
  <2>1. Ends(h, n) /\ Len(h) = Len(eventHistory) + 1 /\ Len(eventHistory) \in Nat
    <3>1. /\ eventHistory \in Seq(Nat) /\ h \in Seq(Nat)
          /\ Len(h) = Len(eventHistory) + 1 /\ Len(eventHistory) \in Nat
          /\ h[Len(eventHistory) + 1] = n
          /\ \A i \in 1 .. Len(eventHistory) : h[i] = eventHistory[i]
      BY <1>t, <2>0 DEF SystemTyped
    <3>2. /\ published \in Nat /\ Len(eventHistory) <= published
          /\ \A i \in 1 .. Len(eventHistory) :
                eventHistory[i] = published - Len(eventHistory) + i
      BY <1>t DEF HistoryInv, SystemTyped
    <3>3. ASSUME NEW i \in 1 .. Len(h) PROVE h[i] = n - Len(h) + i
      <4>1. CASE i \in 1 .. Len(eventHistory)
        BY <1>n, <3>1, <3>2, <4>1
      <4>2. CASE i = Len(eventHistory) + 1
        BY <1>n, <3>1, <3>2, <4>2
      <4> QED
        BY <3>1, <4>1, <4>2
    <3> QED
      BY <1>n, <3>1, <3>2, <3>3 DEF Ends
  <2>2. PICK k \in 1 .. Len(h) + 1 :
           /\ k = System!Max({1, Len(h) - maxHistorySize + 1})
           /\ k = IF Len(h) - maxHistorySize >= 0 THEN Len(h) - maxHistorySize + 1 ELSE 1
    BY <2>1, ServicesAssumption DEF System!Max
  <2>3. PICK g : g = SubSeq(h, k, Len(h))
    OBVIOUS
  <2>4. Ends(g, n) /\ Len(g) = Len(h) - k + 1
    BY <2>1, <2>3, SuffixEnds
  <2>5. Len(g) >= maxHistorySize \/ Len(g) >= n - aged
    <3>1. \/ Len(eventHistory) >= maxHistorySize
          \/ Len(eventHistory) >= published - aged
      BY <1>t DEF HistoryInv
    <3>2. aged \in Nat /\ maxHistorySize \in Nat
      BY <1>t, ServicesAssumption DEF SystemTyped
    <3>3. CASE Len(h) - maxHistorySize >= 0
      BY <2>1, <2>2, <2>4, <3>2, <3>3
    <3>4. CASE ~(Len(h) - maxHistorySize >= 0)
      <4>1. k = 1 /\ Len(g) = Len(h)
        BY <2>1, <2>2, <2>4, <3>4
      <4> QED
        BY <1>1, <1>n, <2>1, <3>1, <3>2, <3>4, <4>1
    <3> QED
      BY <3>3, <3>4
  <2>6. eventHistory' = System!PruneByAge(g)
    BY <1>1, <1>n, <2>0, <2>2, <2>3 DEF System!addToHistory
  <2>7. CASE System!RecentIn(g) = {}
    <3>1. eventHistory' = g
      BY <2>6, <2>7 DEF System!PruneByAge
    <3> QED
      BY <2>4, <2>5, <3>1
  <2>8. CASE System!RecentIn(g) # {}
    <3>1. eventHistory' = System!FromFirstRecent(g)
      BY <2>6, <2>8 DEF System!PruneByAge
    <3>2. /\ Ends(eventHistory', n)
          /\ Len(eventHistory') = Len(g) \/ Len(eventHistory') = n - aged
      BY <1>t, <2>4, <2>8, <3>1, RecentSuffix
    <3>3. Len(eventHistory') \in Nat /\ aged \in Nat
      BY <1>t, <3>2 DEF Ends, SystemTyped
    <3> QED
      BY <2>5, <3>2, <3>3
  <2> QED
    BY <2>7, <2>8
<1>4. SystemTyped' /\ HistoryInv'
  BY <1>t, <1>1, <1>n, <1>2, <1>3 DEF SystemTyped, HistoryInv, Ends
<1>5. SendingInv'
  BY <1>t, <1>1, <1>2 DEF SendingInv, SystemTyped
<1>6. ASSUME NEW s \in Watchers PROVE SubscriberInv(s)'
  <2>1. \A e \in Nat : Going(s, e)' <=> Going(s, e) \/ (s \in members /\ e = published + 1)
    BY <1>1, <1>2 DEF Going
  <2>2. Read(s)' = Read(s)
    BY <1>1 DEF Read
  <2>3. \A e \in Nat : Going(s, e) => e <= published
    BY <1>t DEF Going, SendingInv
  <2> QED
    BY <1>t, <1>1, <2>1, <2>2, <2>3 DEF SubscriberInv
<1> QED
  BY <1>4, <1>5, <1>6 DEF SystemInv

\* Subscribe: the subscriber starts with the history's recent events, and nobody has
\* sent it anything yet.
LEMMA SubscribeKeeps ==
    ASSUME SystemInv, NEW s \in Watchers, System!Subscribe(s)
    PROVE  SystemInv'
<1>t. SystemTyped /\ HistoryInv /\ SendingInv /\ \A v \in Watchers : SubscriberInv(v)
  BY DEF SystemInv
<1>1. /\ ~sub[s].joined /\ members' = members \cup {s}
      /\ replay' = [replay EXCEPT ![s] = System!getRecentHistory]
      /\ sub' = [sub EXCEPT ![s] = [sub[s] EXCEPT !.joined = TRUE, !.since = System!FirstOwed]]
      /\ UNCHANGED <<published, aged, eventHistory, sending, received>>
  BY <1>t DEF System!Subscribe, SystemTyped
<1>2. /\ published \in Nat /\ aged \in Nat /\ aged <= published /\ maxHistorySize \in Nat
      /\ eventHistory \in Seq(Nat) /\ Len(eventHistory) \in Nat /\ Ends(eventHistory, published)
  BY <1>t, ServicesAssumption DEF SystemTyped, HistoryInv, Ends
<1>3. PICK first \in Nat :
         /\ first = System!FirstOwed /\ first > aged /\ first > published - maxHistorySize
  <2>1. System!Max({published - maxHistorySize, aged})
           = IF published - maxHistorySize >= aged THEN published - maxHistorySize ELSE aged
    BY <1>2 DEF System!Max
  <2> QED
    BY <1>2, <2>1 DEF System!FirstOwed
<1>4. PICK h : h = System!getRecentHistory
  OBVIOUS
<1>5. /\ h \in Seq(Nat) /\ Distinct(h)
      /\ \A e \in Nat : Has(h, e) => e <= published
      /\ \A e \in Nat : first <= e /\ e <= published => Has(h, e)
  <2>1. CASE System!RecentIn(eventHistory) = {}
    <3>1. h = <<>>
      BY <1>4, <2>1 DEF System!getRecentHistory
    <3>2. Len(eventHistory) = 0 \/ published <= aged
      BY <1>t, <1>2, <2>1, RecentSuffix
    <3>3. first > published
      BY <1>t, <1>2, <1>3, <3>2 DEF HistoryInv
    <3> QED
      BY <1>2, <3>1, <3>3 DEF Has, Distinct
  <2>2. CASE System!RecentIn(eventHistory) # {}
    <3>1. h = System!FromFirstRecent(eventHistory)
      BY <1>4, <2>2 DEF System!getRecentHistory
    <3>2. /\ Ends(h, published)
          /\ Len(h) = Len(eventHistory) \/ Len(h) = published - aged
      BY <1>t, <1>2, <2>2, <3>1, RecentSuffix
    <3>3. /\ Distinct(h) /\ h \in Seq(Nat) /\ Len(h) \in Nat
          /\ \A e \in Nat : Has(h, e) <=> published - Len(h) < e /\ e <= published
      BY <1>2, <3>2, EndsHas DEF Ends
    <3>4. published - Len(h) < first
      BY <1>t, <1>2, <1>3, <3>2, <3>3 DEF HistoryInv
    <3> QED
      BY <1>2, <1>3, <3>3, <3>4
  <2> QED
    BY <2>1, <2>2
<1>6. /\ sub' \in [Watchers -> Subscription]
      /\ sub'[s].joined /\ sub'[s].since = first /\ sub'[s].skipped = sub[s].skipped
      /\ sub'[s].closed = sub[s].closed /\ sub'[s].buffer = sub[s].buffer
      /\ \A v \in Watchers \ {s} : sub'[v] = sub[v]
  <2>1. sub[s] \in Subscription
    BY <1>t DEF SystemTyped
  <2> QED
    BY <1>t, <1>1, <1>3, <2>1 DEF SystemTyped, Subscription
<1>7. /\ replay' \in [Watchers -> Seq(Nat)] /\ replay'[s] = h
      /\ \A v \in Watchers \ {s} : replay'[v] = replay[v]
  BY <1>t, <1>1, <1>4, <1>5 DEF SystemTyped
<1>8. SystemTyped' /\ HistoryInv' /\ SendingInv'
  BY <1>t, <1>1, <1>6, <1>7 DEF SystemTyped, HistoryInv, SendingInv
<1>9. \A v \in Watchers : \A e \in Nat : Going(v, e)' <=> Going(v, e)
  BY <1>1 DEF Going
<1>10. ASSUME NEW v \in Watchers \ {s} PROVE SubscriberInv(v)'
  <2>1. v \in members' => v \in members
    BY <1>1
  <2> QED
    BY <1>t, <1>1, <1>6, <1>7, <1>9, <2>1, OtherSubscriber
<1>11. SubscriberInv(s)'
  <2>1. Read(s)' = Read(s) /\ Read(s) = <<>> /\ sub[s].skipped = {}
    BY <1>t, <1>1, <1>6 DEF Read, SubscriberInv
  <2>2. \A e \in Nat : ~Going(s, e)'
    BY <1>t, <1>1, <1>9 DEF SubscriberInv
  <2>3. Distinct(Read(s)') /\ \A e \in Nat : ~Has(Read(s)', e)
    BY <2>1 DEF Has, Distinct
  <2>4. ~sub'[s].closed
    BY <1>t, <1>1, <1>6 DEF SubscriberInv
  <2> QED
    BY <1>1, <1>5, <1>6, <1>7, <2>1, <2>2, <2>3, <2>4 DEF SubscriberInv
<1> QED
  BY <1>8, <1>10, <1>11 DEF SystemInv

\* A publisher's trySend, after the lock was given up.
LEMMA FanOutKeeps ==
    ASSUME SystemInv, NEW p \in Publishers, NEW s \in Watchers, System!FanOut(p, s)
    PROVE  SystemInv'
<1>t. SystemTyped /\ HistoryInv /\ SendingInv /\ \A v \in Watchers : SubscriberInv(v)
  BY DEF SystemInv
<1>1. PICK e \in Nat : e = sending[p].event
  BY <1>t DEF SystemTyped
<1>2. /\ s \in sending[p].to
      /\ sub' = [sub EXCEPT ![s] = System!trySend(s, sending[p].event)]
      /\ sending' = [sending EXCEPT ![p].to = sending[p].to \ {s}]
      /\ UNCHANGED <<published, aged, eventHistory, members, replay, received>>
  BY DEF System!FanOut
<1>3. /\ sub' \in [Watchers -> Subscription] /\ sub'[s] = System!trySend(s, e)
      /\ \A v \in Watchers \ {s} : sub'[v] = sub[v]
  <2>1. System!trySend(s, sending[p].event) \in Subscription
    BY <1>t, <1>1, TrySendGives
  <2> QED
    BY <1>t, <1>1, <1>2, <2>1 DEF SystemTyped
<1>4. /\ sending' \in [Publishers -> [event : Nat, to : SUBSET Watchers]]
      /\ \A q \in Publishers : sending'[q].event = sending[q].event
      /\ \A q \in Publishers \ {p} : sending'[q].to = sending[q].to
      /\ sending'[p].to = sending[p].to \ {s}
  BY <1>t, <1>2 DEF SystemTyped
<1>5. SystemTyped' /\ HistoryInv'
  BY <1>t, <1>2, <1>3, <1>4 DEF SystemTyped, HistoryInv
<1>6. SendingInv'
  BY <1>t, <1>2, <1>4 DEF SendingInv
<1>7. \A v \in Watchers \ {s} : \A x \in Nat : Going(v, x)' <=> Going(v, x)
  BY <1>4 DEF Going
<1>8. \A v \in Watchers \ {s} : SubscriberInv(v)'
  BY <1>t, <1>2, <1>3, <1>7, OtherSubscriber
<1>9. \A x \in Nat : Going(s, x)' <=> Going(s, x) /\ x # e
  <2>1. e # 0 /\ \A q \in Publishers \ {p} : sending[q].event # e
    BY <1>t, <1>1, <1>2 DEF SendingInv
  <2>2. ASSUME NEW x \in Nat, Going(s, x)' PROVE Going(s, x) /\ x # e
    BY <1>2, <1>4, <2>1, <2>2 DEF Going
  <2>3. ASSUME NEW x \in Nat, Going(s, x), x # e PROVE Going(s, x)'
    BY <1>1, <1>4, <2>3 DEF Going
  <2> QED
    BY <2>2, <2>3
<1>10. SubscriberInv(s)'
  <2>1. CASE ~sub[s].closed
    <3>1. Going(s, e)
      BY <1>1, <1>2 DEF Going
    <3>2. \A x \in Nat : Has(replay[s], x)' <=> Has(replay[s], x)
      BY <1>2 DEF Has
    <3>3. Distinct(replay'[s])
      BY <1>t, <1>2 DEF SubscriberInv
    <3>4. FALSE \in BOOLEAN
      OBVIOUS
    <3> QED
      BY <1>t, <1>2, <1>3, <1>9, <2>1, <3>1, <3>2, <3>3, <3>4, EventArrives, ZenonT(60)
  <2>2. CASE sub[s].closed
    <3>1. sub'[s] = sub[s]
      BY <1>3, <2>2 DEF System!trySend
    <3>2. s \notin members /\ sub[s].joined
      BY <1>t, <2>2 DEF SubscriberInv
    <3>3. Read(s)' = Read(s) /\ replay'[s] = replay[s]
      BY <1>2, <3>1 DEF Read
    <3> QED
      BY <1>t, <1>2, <1>9, <3>1, <3>2, <3>3 DEF SubscriberInv
  <2> QED
    BY <2>1, <2>2
<1> QED
  BY <1>5, <1>6, <1>8, <1>10 DEF SystemInv

\* The goroutine that sends the history.
LEMMA SendHistoryKeeps ==
    ASSUME SystemInv, NEW s \in Watchers, System!SendHistory(s)
    PROVE  SystemInv'
<1>t. SystemTyped /\ HistoryInv /\ SendingInv /\ \A v \in Watchers : SubscriberInv(v)
  BY DEF SystemInv
<1>1. /\ replay[s] # <<>> /\ replay[s] \in Seq(Nat) /\ Distinct(replay[s])
      /\ UNCHANGED <<published, aged, eventHistory, members, sending, received>>
  BY <1>t DEF System!SendHistory, SystemTyped, SubscriberInv
<1>2. PICK e \in Nat : e = Head(replay[s])
  BY <1>1
<1>3. \A v \in Watchers : \A x \in Nat : Going(v, x)' <=> Going(v, x)
  BY <1>1 DEF Going
<1>4. ASSUME sub' \in [Watchers -> Subscription], replay' \in [Watchers -> Seq(Nat)],
             \A v \in Watchers \ {s} : sub'[v] = sub[v] /\ replay'[v] = replay[v],
             SubscriberInv(s)'
      PROVE  SystemInv'
  <2>1. SystemTyped' /\ HistoryInv' /\ SendingInv'
    BY <1>t, <1>1, <1>4 DEF SystemTyped, HistoryInv, SendingInv
  <2>2. \A v \in Watchers \ {s} : SubscriberInv(v)'
    BY <1>t, <1>1, <1>3, <1>4, OtherSubscriber
  <2> QED
    BY <1>4, <2>1, <2>2 DEF SystemInv
<1>5. CASE sub[s].gone \/ sub[s].closed
  <2>1. replay' = [replay EXCEPT ![s] = <<>>] /\ sub' = sub
    <3>1. CASE sub[s].gone
      BY <3>1 DEF System!SendHistory
    <3>2. CASE ~sub[s].gone /\ sub[s].closed
      BY <1>t, <3>2 DEF System!SendHistory, System!trySend, SystemTyped
    <3> QED
      BY <1>5, <3>1, <3>2
  <2>2. /\ replay' \in [Watchers -> Seq(Nat)] /\ replay'[s] = <<>>
        /\ \A v \in Watchers \ {s} : replay'[v] = replay[v]
    BY <1>t, <2>1 DEF SystemTyped
  <2>3. Read(s)' = Read(s) /\ Distinct(replay'[s]) /\ \A x \in Nat : ~Has(replay'[s], x)
    BY <1>1, <2>1, <2>2 DEF Read, Has, Distinct
  <2>4. sub[s].closed => s \notin members
    BY <1>t DEF SubscriberInv
  <2>5. SubscriberInv(s)'
    BY <1>t, <1>1, <1>3, <1>5, <2>1, <2>2, <2>3, <2>4 DEF SubscriberInv
  <2> QED
    BY <1>t, <1>4, <2>1, <2>2, <2>5 DEF SystemTyped
<1>6. CASE ~sub[s].gone /\ ~sub[s].closed
  <2>1. /\ sub' = [sub EXCEPT ![s] = System!trySend(s, Head(replay[s]))]
        /\ replay' = [replay EXCEPT ![s] = Tail(replay[s])]
    BY <1>6 DEF System!SendHistory
  <2>2. /\ Tail(replay[s]) \in Seq(Nat) /\ Distinct(Tail(replay[s])) /\ Has(replay[s], e)
        /\ \A x \in Nat : Has(Tail(replay[s]), x) <=> Has(replay[s], x) /\ x # e
    BY <1>1, <1>2, AfterTail
  <2>3. /\ sub' \in [Watchers -> Subscription] /\ sub'[s] = System!trySend(s, e)
        /\ \A v \in Watchers \ {s} : sub'[v] = sub[v]
    <3>1. System!trySend(s, Head(replay[s])) \in Subscription
      BY <1>t, <1>2, TrySendGives
    <3> QED
      BY <1>t, <1>2, <2>1, <3>1 DEF SystemTyped
  <2>4. /\ replay' \in [Watchers -> Seq(Nat)] /\ replay'[s] = Tail(replay[s])
        /\ \A v \in Watchers \ {s} : replay'[v] = replay[v]
    BY <1>t, <2>1, <2>2 DEF SystemTyped
  <2>5. \A x \in Nat : Has(replay[s], x)' <=> Has(replay[s], x) /\ x # e
    BY <2>2, <2>4 DEF Has
  <2>6. Distinct(replay'[s])
    BY <2>2, <2>4
  <2>7. TRUE \in BOOLEAN
    OBVIOUS
  <2>8. SubscriberInv(s)'
    BY <1>t, <1>1, <1>3, <1>6, <2>2, <2>3, <2>5, <2>6, <2>7, EventArrives, ZenonT(60)
  <2> QED
    BY <1>4, <2>3, <2>4, <2>8
<1> QED
  BY <1>5, <1>6

\* Steps that move no event: a client that goes away, is removed and closed, or reads,
\* and time.
LEMMA LeavingKeeps ==
    ASSUME SystemInv,
           UNCHANGED <<published, eventHistory, sending, replay>>,
           aged' \in Nat, aged <= aged', aged' <= published,
           members' \subseteq members,
           sub' \in [Watchers -> Subscription], received' \in [Watchers -> Seq(Nat)],
           \A s \in Watchers :
              /\ Read(s)' = Read(s)
              /\ sub'[s].skipped = sub[s].skipped /\ sub'[s].since = sub[s].since
              /\ sub'[s].joined = sub[s].joined /\ (sub[s].gone => sub'[s].gone)
              /\ sub'[s].closed => sub[s].closed \/ (sub[s].joined /\ s \notin members')
    PROVE  SystemInv'
<1>t. SystemTyped /\ HistoryInv /\ SendingInv /\ \A s \in Watchers : SubscriberInv(s)
  BY DEF SystemInv
<1>1. SystemTyped' /\ SendingInv'
  BY <1>t DEF SystemTyped, SendingInv
<1>2. HistoryInv'
  <2>1. Len(eventHistory) >= published - aged => Len(eventHistory) >= published - aged'
    BY <1>t DEF SystemTyped
  <2> QED
    BY <1>t, <2>1 DEF HistoryInv
<1>3. ASSUME NEW s \in Watchers PROVE SubscriberInv(s)'
  <2>1. \A e \in Nat : Going(s, e)' <=> Going(s, e)
    BY DEF Going
  <2>2. (s \in members => ~sub[s].closed) /\ (~sub[s].joined => ~sub[s].closed)
    BY <1>t DEF SubscriberInv
  <2> QED
    BY <1>t, <2>1, <2>2, SubscriberFrame
<1> QED
  BY <1>1, <1>2, <1>3 DEF SystemInv

\* Every step of the stream keeps the invariant.
LEMMA SystemStep == SystemInv /\ [Next]_vars => SystemInv'
<1> SUFFICES ASSUME SystemInv, [Next]_vars PROVE SystemInv'
  OBVIOUS
<1>t. SystemTyped /\ HistoryInv /\ SendingInv /\ \A s \in Watchers : SubscriberInv(s)
  BY DEF SystemInv
<1>0. CASE UNCHANGED systemVars
  BY <1>t, <1>0, LeavingKeeps DEF systemVars, SystemTyped, Read
<1>1. ASSUME NEW s \in Watchers, System!Disconnects(s) PROVE SystemInv'
  <2>1. /\ sub' = [sub EXCEPT ![s].gone = TRUE]
        /\ UNCHANGED <<published, aged, eventHistory, members, sending, replay, received>>
    BY <1>1 DEF System!Disconnects
  <2>2. /\ sub' \in [Watchers -> Subscription]
        /\ \A v \in Watchers :
              /\ sub'[v].buffer = sub[v].buffer /\ sub'[v].skipped = sub[v].skipped
              /\ sub'[v].since = sub[v].since /\ sub'[v].joined = sub[v].joined
              /\ sub'[v].closed = sub[v].closed /\ (sub[v].gone => sub'[v].gone)
    <3>1. sub[s] \in Subscription /\ \A v \in Watchers \ {s} : sub'[v] = sub[v]
      BY <1>t, <2>1 DEF SystemTyped
    <3>2. /\ sub'[s] \in Subscription /\ sub'[s].gone
          /\ sub'[s].buffer = sub[s].buffer /\ sub'[s].skipped = sub[s].skipped
          /\ sub'[s].since = sub[s].since /\ sub'[s].joined = sub[s].joined
          /\ sub'[s].closed = sub[s].closed
      <4>1. sub'[s] = [sub[s] EXCEPT !.gone = TRUE]
        BY <1>t, <2>1 DEF SystemTyped
      <4> QED
        BY <3>1, <4>1 DEF Subscription
    <3>3. sub' \in [Watchers -> Subscription]
      BY <1>t, <2>1, <3>1, <3>2 DEF SystemTyped
    <3> QED
      BY <3>1, <3>2, <3>3
  <2>3. \A v \in Watchers : Read(v)' = Read(v)
    BY <2>1, <2>2 DEF Read
  <2> QED
    BY <1>t, <2>1, <2>2, <2>3, LeavingKeeps DEF SystemTyped
<1>2. ASSUME NEW s \in Watchers, System!awaitCancellation(s) PROVE SystemInv'
  <2>1. /\ members' \subseteq members
        /\ UNCHANGED <<published, aged, eventHistory, sub, sending, replay, received>>
    BY <1>2 DEF System!awaitCancellation
  <2>2. \A v \in Watchers : Read(v)' = Read(v)
    BY <2>1 DEF Read
  <2> QED
    BY <1>t, <2>1, <2>2, LeavingKeeps DEF SystemTyped
<1>3. ASSUME NEW s \in Watchers, System!Closes(s) PROVE SystemInv'
  <2>1. /\ sub[s].joined /\ s \notin members /\ sub' = [sub EXCEPT ![s].closed = TRUE]
        /\ UNCHANGED <<published, aged, eventHistory, members, sending, replay, received>>
    BY <1>3 DEF System!Closes
  <2>2. /\ sub' \in [Watchers -> Subscription]
        /\ \A v \in Watchers :
              /\ sub'[v].buffer = sub[v].buffer /\ sub'[v].skipped = sub[v].skipped
              /\ sub'[v].since = sub[v].since /\ sub'[v].joined = sub[v].joined
              /\ sub'[v].gone = sub[v].gone /\ (v # s => sub'[v].closed = sub[v].closed)
    BY <1>t, <2>1 DEF SystemTyped, Subscription
  <2>3. \A v \in Watchers : Read(v)' = Read(v)
    BY <2>1, <2>2 DEF Read
  <2> QED
    BY <1>t, <2>1, <2>2, <2>3, LeavingKeeps DEF SystemTyped
<1>4. CASE System!Flush
  <2>1. /\ sub' = [v \in Watchers |->
                      [sub[v] EXCEPT !.closed = sub[v].closed \/ v \in members]]
        /\ members' = {}
        /\ UNCHANGED <<published, aged, eventHistory, sending, replay, received>>
    BY <1>4 DEF System!Flush
  <2>2. ASSUME NEW v \in Watchers
        PROVE  /\ sub'[v] \in Subscription
               /\ sub'[v].buffer = sub[v].buffer /\ sub'[v].skipped = sub[v].skipped
               /\ sub'[v].since = sub[v].since /\ sub'[v].joined = sub[v].joined
               /\ sub'[v].gone = sub[v].gone
               /\ sub'[v].closed => sub[v].closed \/ v \in members
    <3>1. sub[v] \in Subscription /\ (sub[v].closed \/ v \in members) \in BOOLEAN
      BY <1>t DEF SystemTyped
    <3>2. sub'[v] = [sub[v] EXCEPT !.closed = sub[v].closed \/ v \in members]
      BY <2>1
    <3> QED
      BY <3>1, <3>2 DEF Subscription
  <2>3. sub' \in [Watchers -> Subscription]
    BY <2>1, <2>2
  <2>4. \A v \in Watchers : Read(v)' = Read(v)
    BY <2>1, <2>2 DEF Read
  <2>5. \A v \in members : sub[v].joined
    BY <1>t DEF SubscriberInv, SystemTyped
  <2>6. \A v \in Watchers :
           /\ sub'[v].skipped = sub[v].skipped /\ sub'[v].since = sub[v].since
           /\ sub'[v].joined = sub[v].joined /\ (sub[v].gone => sub'[v].gone)
           /\ (sub'[v].closed => sub[v].closed \/ (sub[v].joined /\ v \notin members'))
    BY <2>1, <2>2, <2>5
  <2>7. /\ members' \subseteq members /\ received' \in [Watchers -> Seq(Nat)]
        /\ aged' \in Nat /\ aged <= aged' /\ aged' <= published
    BY <1>t, <2>1 DEF SystemTyped
  <2> QED
    BY <2>1, <2>3, <2>4, <2>6, <2>7, LeavingKeeps
<1>5. ASSUME NEW s \in Watchers, System!VisitStreamSystemEventsResponse(s) PROVE SystemInv'
  <2>1. /\ sub[s].buffer # <<>>
        /\ received' = [received EXCEPT ![s] = Append(received[s], Head(sub[s].buffer))]
        /\ sub' = [sub EXCEPT ![s].buffer = Tail(sub[s].buffer)]
        /\ UNCHANGED <<published, aged, eventHistory, members, sending, replay>>
    BY <1>5 DEF System!VisitStreamSystemEventsResponse
  <2>2. received[s] \in Seq(Nat) /\ sub[s].buffer \in Seq(Nat) /\ sub[s] \in Subscription
    BY <1>t DEF SystemTyped, Subscription
  <2>3. /\ Tail(sub[s].buffer) \in Seq(Nat)
        /\ Append(received[s], Head(sub[s].buffer)) \in Seq(Nat)
    BY <2>1, <2>2
  <2>4. /\ sub' \in [Watchers -> Subscription] /\ sub'[s].buffer = Tail(sub[s].buffer)
        /\ \A v \in Watchers :
              /\ sub'[v].skipped = sub[v].skipped
              /\ sub'[v].since = sub[v].since /\ sub'[v].joined = sub[v].joined
              /\ sub'[v].closed = sub[v].closed /\ sub'[v].gone = sub[v].gone
        /\ \A v \in Watchers \ {s} : sub'[v] = sub[v]
    <3>1. sub[s] \in Subscription /\ \A v \in Watchers \ {s} : sub'[v] = sub[v]
      BY <1>t, <2>1 DEF SystemTyped
    <3>2. /\ sub'[s] \in Subscription /\ sub'[s].buffer = Tail(sub[s].buffer)
          /\ sub'[s].skipped = sub[s].skipped
          /\ sub'[s].since = sub[s].since /\ sub'[s].joined = sub[s].joined
          /\ sub'[s].closed = sub[s].closed /\ sub'[s].gone = sub[s].gone
      <4>1. PICK b \in Seq(Nat) : b = Tail(sub[s].buffer)
        BY <2>3
      <4>2. sub'[s] = [sub[s] EXCEPT !.buffer = b]
        BY <1>t, <2>1, <4>1 DEF SystemTyped
      <4> QED
        BY <3>1, <4>1, <4>2 DEF Subscription
    <3>3. sub' \in [Watchers -> Subscription]
      BY <1>t, <2>1, <3>1, <3>2 DEF SystemTyped
    <3> QED
      BY <3>1, <3>2, <3>3
  <2>5. /\ received' \in [Watchers -> Seq(Nat)]
        /\ received'[s] = Append(received[s], Head(sub[s].buffer))
        /\ \A v \in Watchers \ {s} : received'[v] = received[v]
    BY <1>t, <2>1, <2>3 DEF SystemTyped
  <2>6. Read(s)' = Read(s)
    <3>1. Read(s)' = Append(received[s], Head(sub[s].buffer)) \o Tail(sub[s].buffer)
      BY <2>4, <2>5 DEF Read
    <3>2. Append(received[s], Head(sub[s].buffer)) \o Tail(sub[s].buffer)
             = received[s] \o sub[s].buffer
      BY <2>1, <2>2, SeenKept
    <3> QED
      BY <3>1, <3>2 DEF Read
  <2>7. \A v \in Watchers : Read(v)' = Read(v)
    BY <2>4, <2>5, <2>6 DEF Read
  <2> QED
    BY <1>t, <2>1, <2>4, <2>5, <2>7, LeavingKeeps DEF SystemTyped
<1>6. CASE System!Ages
  <2>1. /\ aged < published /\ aged' = aged + 1
        /\ UNCHANGED <<published, eventHistory, members, sub, sending, replay, received>>
    BY <1>6 DEF System!Ages
  <2>2. \A v \in Watchers : Read(v)' = Read(v)
    BY <2>1 DEF Read
  <2> QED
    BY <1>t, <2>1, <2>2, LeavingKeeps DEF SystemTyped
<1> QED
  BY <1>0, <1>1, <1>2, <1>3, <1>4, <1>5, <1>6, PublishKeeps, FanOutKeeps, SubscribeKeeps,
     SendHistoryKeeps
  DEF Next, vars, OrdersOnly, SystemOnly, PricesOnly, LogsOnly, GateOnly, StopOnly,
      System!Next

\* Two runs without repetitions that share nothing form one.
LEMMA DistinctConcat ==
    ASSUME NEW a \in Seq(Nat), NEW b \in Seq(Nat), Distinct(a), Distinct(b),
           \A e \in Nat : ~(Has(a, e) /\ Has(b, e))
    PROVE  /\ a \o b \in Seq(Nat) /\ Distinct(a \o b)
           /\ \A e \in Nat : Has(a \o b, e) <=> Has(a, e) \/ Has(b, e)
<1>1. /\ a \o b \in Seq(Nat) /\ Len(a \o b) = Len(a) + Len(b)
      /\ Len(a) \in Nat /\ Len(b) \in Nat
      /\ \A i \in 1 .. Len(a) : (a \o b)[i] = a[i] /\ a[i] \in Nat
      /\ \A i \in Len(a) + 1 .. Len(a) + Len(b) : (a \o b)[i] = b[i - Len(a)]
  OBVIOUS
<1>2. \A i \in Len(a) + 1 .. Len(a) + Len(b) : i - Len(a) \in 1 .. Len(b)
  BY <1>1
<1>3. \A j \in 1 .. Len(b) : (a \o b)[j + Len(a)] = b[j] /\ j + Len(a) \in 1 .. Len(a \o b)
  BY <1>1
<1>4. ASSUME NEW i \in 1 .. Len(a \o b), NEW j \in 1 .. Len(a \o b), (a \o b)[i] = (a \o b)[j]
      PROVE  i = j
  <2>1. CASE i \in 1 .. Len(a) /\ j \in 1 .. Len(a)
    BY <1>1, <1>4, <2>1 DEF Distinct
  <2>2. CASE i \notin 1 .. Len(a) /\ j \notin 1 .. Len(a)
    <3>1. /\ i - Len(a) \in 1 .. Len(b) /\ j - Len(a) \in 1 .. Len(b)
          /\ b[i - Len(a)] = b[j - Len(a)]
      BY <1>1, <1>4, <2>2
    <3>2. i - Len(a) = j - Len(a)
      BY <3>1 DEF Distinct
    <3> QED
      BY <1>1, <3>2
  <2>3. CASE i \in 1 .. Len(a) /\ j \notin 1 .. Len(a)
    <3>1. /\ j - Len(a) \in 1 .. Len(b) /\ b[j - Len(a)] = a[i] /\ a[i] \in Nat
      BY <1>1, <1>4, <2>3
    <3> QED
      BY <2>3, <3>1 DEF Has
  <2>4. CASE i \notin 1 .. Len(a) /\ j \in 1 .. Len(a)
    <3>1. /\ i - Len(a) \in 1 .. Len(b) /\ b[i - Len(a)] = a[j] /\ a[j] \in Nat
      BY <1>1, <1>4, <2>4
    <3> QED
      BY <2>4, <3>1 DEF Has
  <2> QED
    BY <2>1, <2>2, <2>3, <2>4
<1>5. ASSUME NEW e \in Nat, Has(a \o b, e) PROVE Has(a, e) \/ Has(b, e)
  <2>1. PICK i \in 1 .. Len(a \o b) : (a \o b)[i] = e
    BY <1>5 DEF Has
  <2>2. CASE i \in 1 .. Len(a)
    BY <1>1, <2>1, <2>2 DEF Has
  <2>3. CASE i \in Len(a) + 1 .. Len(a) + Len(b)
    BY <1>1, <1>2, <2>1, <2>3 DEF Has
  <2> QED
    BY <1>1, <2>1, <2>2, <2>3
<1>6. ASSUME NEW e \in Nat, Has(a, e) \/ Has(b, e) PROVE Has(a \o b, e)
  <2>1. ASSUME NEW i \in 1 .. Len(a), a[i] = e PROVE Has(a \o b, e)
    <3>1. i \in 1 .. Len(a \o b) /\ (a \o b)[i] = e
      BY <1>1, <2>1
    <3> QED
      BY <3>1 DEF Has
  <2>2. ASSUME NEW i \in 1 .. Len(b), b[i] = e PROVE Has(a \o b, e)
    BY <1>3, <2>2 DEF Has
  <2> QED
    BY <1>6, <2>1, <2>2 DEF Has
<1> QED
  BY <1>1, <1>4, <1>5, <1>6 DEF Distinct

\* A subscriber gets the recent history and every later event exactly once, as history or
\* live, unless its buffer was full: whatever publishers, the goroutine that sends the
\* history and the subscriber's leaving come between (system_stream.go: Subscribe, Publish).
THEOREM SystemEventsOnce == Spec => []EveryEventOnce
<1>1. Init => SystemInv
  <2> SUFFICES ASSUME System!Init PROVE SystemInv
    BY DEF Init
  <2>1. [buffer |-> <<>>, joined |-> FALSE, closed |-> FALSE, gone |-> FALSE,
         skipped |-> {}, since |-> 1] \in Subscription
    BY DEF Subscription
  <2>2. SystemTyped
    BY <2>1 DEF System!Init, SystemTyped, System!NoSending
  <2>3. HistoryInv /\ SendingInv
    BY DEF System!Init, HistoryInv, SendingInv, System!NoSending
  <2>4. ASSUME NEW s \in Watchers PROVE SubscriberInv(s)
    <3>1. Read(s) = <<>> /\ replay[s] = <<>>
      BY <2>4 DEF System!Init, Read
    <3>2. \A e \in Nat : ~Has(Read(s), e) /\ ~Has(replay[s], e) /\ ~Going(s, e)
      BY <3>1 DEF Has, Going, System!Init, System!NoSending
    <3> QED
      BY <3>1, <3>2 DEF SubscriberInv, Distinct, System!Init
  <2> QED
    BY <2>2, <2>3, <2>4 DEF SystemInv
<1>2. SystemInv => EveryEventOnce
  <2> SUFFICES ASSUME SystemInv, NEW s \in Watchers
               PROVE  LET line == System!InOrder(s)
                          live == System!Live(s)
                      IN  /\ System!IsInjective(line)
                          /\ System!ToSet(line) \cap live = {}
                          /\ (System!ToSet(line) \cup live) \cap sub[s].skipped = {}
                          /\ s \in members /\ ~sub[s].gone =>
                               sub[s].since .. published
                                  \subseteq System!ToSet(line) \cup live \cup sub[s].skipped
    BY DEF EveryEventOnce, System!EveryEventOnce
  <2>1. SubscriberInv(s) /\ SystemTyped
    BY DEF SystemInv
  <2>2. PICK line : line = System!InOrder(s)
    OBVIOUS
  <2>3. /\ received[s] \in Seq(Nat) /\ sub[s].buffer \in Seq(Nat) /\ replay[s] \in Seq(Nat)
        /\ Read(s) \in Seq(Nat) /\ line = Read(s) \o replay[s]
    BY <2>1, <2>2 DEF SystemTyped, Subscription, Read, System!InOrder
  <2>4. /\ line \in Seq(Nat) /\ Distinct(line)
        /\ \A e \in Nat : Has(line, e) <=> Has(Read(s), e) \/ Has(replay[s], e)
    BY <2>1, <2>3, DistinctConcat DEF SubscriberInv
  <2>5. DOMAIN line = 1 .. Len(line) /\ \A i \in 1 .. Len(line) : line[i] \in Nat
    BY <2>4
  <2>6. System!IsInjective(line)
    BY <2>4, <2>5 DEF Distinct, System!IsInjective
  <2>7. \A e : e \in System!ToSet(line) <=> e \in Nat /\ Has(line, e)
    BY <2>5 DEF System!ToSet, Has
  <2>8. \A e : e \in System!Live(s) <=> e \in Nat /\ Going(s, e)
    BY <2>1 DEF System!Live, Going, SystemTyped
  <2>9. \A e \in sub[s].skipped : e \in Nat
    BY <2>1 DEF SystemTyped, Subscription
  <2>10. /\ System!ToSet(line) \cap System!Live(s) = {}
         /\ (System!ToSet(line) \cup System!Live(s)) \cap sub[s].skipped = {}
    BY <2>1, <2>4, <2>7, <2>8, <2>9 DEF SubscriberInv
  <2>11. ASSUME s \in members, ~sub[s].gone, NEW e \in sub[s].since .. published
         PROVE  e \in System!ToSet(line) \cup System!Live(s) \cup sub[s].skipped
    <3>1. e \in Nat /\ sub[s].since <= e /\ e <= published
      BY <2>1 DEF SystemTyped, Subscription
    <3> QED
      BY <2>1, <2>4, <2>7, <2>8, <2>11, <3>1 DEF SubscriberInv
  <2> QED
    BY <2>2, <2>6, <2>10, <2>11
<1> QED
  BY <1>1, <1>2, SystemStep, PTL DEF Spec
=============================================================================
