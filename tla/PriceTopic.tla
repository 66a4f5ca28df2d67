----------------------------- MODULE PriceTopic -----------------------------
(***************************************************************************)
(* Best bid and offer of one coin: the websocket client's subscription and *)
(* topic (hl/ws/ws.go), the proxy that makes requests wait for a price     *)
(* source (internal/api/handler.go) and the stream of prices that reads    *)
(* them (internal/api/handler_streaming.go).  A quote is its number in the *)
(* order in which the exchange sends them.                                 *)
(***************************************************************************)
EXTENDS Naturals, Sequences, FiniteSets

CONSTANTS
    Clients,        \* requests for the price stream
    BufferSize,     \* the 8 of SubscribeBBO
    MaxQuotes       \* bound: quotes the exchange sends

VARIABLES
    src,            \* the proxy: TRUE once Set was called
    upstream,       \* subscriptions for the coin that reached the exchange
    subscribed,     \* the client's map holds an entry for the coin
    quote,          \* last quote of the exchange, 0 if none
    toCall,         \* callbacks that still have to be called for it
    coinBbos,       \* the stored quote
    broadcasting,   \* the quote a callback has stored and not yet broadcast
    subs,           \* the topic's subscribers
    pc,             \* pc[c]: where request c is
    current,        \* current[c]: the quote c read in SubscribeBBO
    ch,             \* ch[c]: its channel
    shown           \* shown[c]: quotes written to client c
vars == <<src, upstream, subscribed, quote, toCall, coinBbos, broadcasting, subs, pc,
          current, ch, shown>>
feed == <<upstream, quote, toCall, coinBbos, broadcasting>>
requests == <<pc, current, ch, shown>>

Init ==
    /\ src = FALSE /\ subscribed = FALSE
    /\ upstream = 0 /\ quote = 0 /\ toCall = 0 /\ coinBbos = 0 /\ broadcasting = 0
    /\ subs = {}
    /\ pc = [c \in Clients |-> "idle"]
    /\ current = [c \in Clients |-> 0]
    /\ ch = [c \in Clients |-> [buffer |-> <<>>, state |-> "open", full |-> FALSE]]
    /\ shown = [c \in Clients |-> <<>>]

Goto(c, l) == pc' = [pc EXCEPT ![c] = l]

\* A send that never blocks; "full" records that a quote was dropped.
Offer(x, q) ==
    IF x.state = "closed" THEN [x EXCEPT !.state = "panic"]
    ELSE IF Len(x.buffer) < BufferSize THEN [x EXCEPT !.buffer = Append(@, q)]
    ELSE [x EXCEPT !.full = TRUE]

---------------------------------------------------------------------------
\* priceSourceProxy.Set, when the venues are initialized.
Set == src' = TRUE /\ ~src /\ UNCHANGED <<feed, subscribed, subs, requests>>

\* priceSourceProxy.SubscribeBBO waits for the source; EnsureBBO looks the coin up.
EnsureBBO(c) ==
    /\ pc[c] = "idle" /\ src
    /\ Goto(c, IF subscribed THEN "add" ELSE "subscribe")
    /\ UNCHANGED <<src, feed, subscribed, subs, current, ch, shown>>

\* EnsureBBO subscribes and stores the subscription, also the nil of a failed one.
\* Two requests that looked at the same time subscribe twice.
SubscribesUpstream(c) ==
    /\ pc[c] = "subscribe"
    /\ upstream' \in {upstream, upstream + 1}
    /\ subscribed' = TRUE
    /\ Goto(c, "add")
    /\ UNCHANGED <<src, quote, toCall, coinBbos, broadcasting, subs, current, ch, shown>>

\* The exchange sends a quote: the library calls every callback, one after the other.
ExchangeQuotes ==
    /\ upstream > 0 /\ toCall = 0 /\ broadcasting = 0 /\ quote < MaxQuotes
    /\ quote' = quote + 1
    /\ toCall' = upstream
    /\ UNCHANGED <<src, upstream, subscribed, coinBbos, broadcasting, subs, requests>>

\* storeCoinBBO stores the quote, then broadcasts it under the topic's lock.
storeCoinBBO ==
    /\ toCall > 0 /\ broadcasting = 0
    /\ coinBbos' = quote
    /\ broadcasting' = quote
    /\ toCall' = toCall - 1
    /\ UNCHANGED <<src, upstream, subscribed, quote, subs, requests>>

broadcast ==
    /\ broadcasting # 0
    /\ ch' = [c \in Clients |-> IF c \in subs THEN Offer(ch[c], broadcasting) ELSE ch[c]]
    /\ broadcasting' = 0
    /\ UNCHANGED <<src, upstream, subscribed, quote, toCall, coinBbos, subs, pc, current,
                   shown>>

\* Faulty variant: the stored quote is read before the channel joins the topic.
addReadsFirst(c) ==
    /\ pc[c] \in {"add", "read"}
    /\ \/ pc[c] = "add" /\ current' = [current EXCEPT ![c] = coinBbos] /\ Goto(c, "read")
          /\ UNCHANGED subs
       \/ pc[c] = "read" /\ subs' = subs \cup {c} /\ Goto(c, "send") /\ UNCHANGED current
    /\ UNCHANGED <<src, feed, subscribed, ch, shown>>

\* SubscribeBBO joins the topic,
add(c) ==
    /\ pc[c] = "add"
    /\ subs' = subs \cup {c}
    /\ Goto(c, "current")
    /\ UNCHANGED <<src, feed, subscribed, current, ch, shown>>

\* reads the stored quote
currentBBO(c) ==
    /\ pc[c] = "current"
    /\ current' = [current EXCEPT ![c] = coinBbos]
    /\ Goto(c, "send")
    /\ UNCHANGED <<src, feed, subscribed, subs, ch, shown>>

\* and sends it if there is one.
SubscribeBBO(c) ==
    /\ pc[c] = "send"
    /\ ch' = IF current[c] = 0 THEN ch ELSE [ch EXCEPT ![c] = Offer(@, current[c])]
    /\ Goto(c, "streaming")
    /\ UNCHANGED <<src, feed, subscribed, subs, current, shown>>

\* Faulty variant: the channel is closed while it is in the topic.
closeBeforeRemove(c) ==
    /\ \/ pc[c] = "streaming" /\ ch' = [ch EXCEPT ![c].state = "closed"]
          /\ Goto(c, "closing") /\ UNCHANGED subs
       \/ pc[c] = "closing" /\ subs' = subs \ {c} /\ Goto(c, "gone") /\ UNCHANGED ch
    /\ UNCHANGED <<src, feed, subscribed, current, shown>>

\* The request ends: the goroutine of SubscribeBBO leaves the topic and closes.
remove(c) ==
    /\ \/ pc[c] = "streaming" /\ subs' = subs \ {c} /\ Goto(c, "closing") /\ UNCHANGED ch
       \/ pc[c] = "closing" /\ ch' = [ch EXCEPT ![c].state = "closed"]
          /\ Goto(c, "gone") /\ UNCHANGED subs
    /\ UNCHANGED <<src, feed, subscribed, current, shown>>

\* The goroutines of StreamHyperliquidPrices hand the next quote to the client.
StreamHyperliquidPrices(c) ==
    /\ pc[c] \in {"streaming", "closing", "gone"} /\ ch[c].buffer # <<>>
    /\ shown' = [shown EXCEPT ![c] = Append(@, Head(ch[c].buffer))]
    /\ ch' = [ch EXCEPT ![c].buffer = Tail(@)]
    /\ UNCHANGED <<src, feed, subscribed, subs, pc, current>>

Next ==
    \/ Set \/ ExchangeQuotes \/ storeCoinBBO \/ broadcast
    \/ \E c \in Clients :
        \/ EnsureBBO(c) \/ SubscribesUpstream(c) \/ add(c) \/ currentBBO(c)
        \/ SubscribeBBO(c) \/ remove(c) \/ StreamHyperliquidPrices(c)

---------------------------------------------------------------------------
Offered(c) == {shown[c][i] : i \in DOMAIN shown[c]}
                  \cup {ch[c].buffer[i] : i \in DOMAIN ch[c].buffer}

\* When no quote is under way, a client that has subscribed was offered the latest one,
\* unless its channel was full: no quote falls between the read of the stored one and
\* the topic (ws.go:225-232).  An older quote may come after it.
LatestQuoteOffered ==
    \A c \in Clients :
        pc[c] = "streaming" /\ toCall = 0 /\ broadcasting = 0 /\ quote > 0 /\ ~ch[c].full
            => quote \in Offered(c)

\* Nothing is sent on a closed channel (ws.go:234-241).
NoSendAfterClose == \A c \in Clients : ch[c].state # "panic"
=============================================================================
