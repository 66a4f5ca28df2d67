---------------------------- MODULE OrderStream ----------------------------
(***************************************************************************)
(* The stream of order events: StreamController                            *)
(* (internal/api/stream_controller.go), the storage methods that publish   *)
(* on it while they hold the store's mutex (storage/storage.go), and the   *)
(* goroutine of GET /stream/orders that reads one subscriber's channel.    *)
(* An event is its sequence number.  A fan-out runs under the read lock,   *)
(* which excludes every registration and close, and is one step.           *)
(***************************************************************************)
EXTENDS Naturals, Sequences

CONSTANTS
    Publishers,     \* goroutines that record an order event
    Subscribers,    \* clients of the stream, each connects once
    NoPublisher,    \* the store's mutex is free
    Wanted,         \* Wanted[s]: the sequence numbers that match s's filter
    BufferSize,     \* capacity of a subscriber's channel
    MaxEvents       \* bound: events published

VARIABLES
    mutex,          \* holder of Storage.mu
    sequence,       \* StreamController.sequence
    stamped,        \* stamped[p]: number p's event has got, 0 if none
    subscribers,    \* StreamController.subscribers
    channels,       \* channels[s]: state and content of s's channel
    connected,      \* clients whose request context is alive
    written         \* written[s]: frames sent to client s
vars == <<mutex, sequence, stamped, subscribers, channels, connected, written>>

Channel == [state : {"none", "open", "closed", "panic"}, buffer : Seq(1..MaxEvents)]

Init ==
    /\ mutex = NoPublisher /\ sequence = 0
    /\ stamped = [p \in Publishers |-> 0]
    /\ subscribers = {} /\ connected = {}
    /\ channels = [s \in Subscribers |-> [state |-> "none", buffer |-> <<>>]]
    /\ written = [s \in Subscribers |-> <<>>]

---------------------------------------------------------------------------
\* Faulty variant: the row is written under the mutex, the event published after it.
StampsWithoutMutex(p) ==
    /\ stamped[p] = 0 /\ sequence < MaxEvents
    /\ sequence' = sequence + 1
    /\ stamped' = [stamped EXCEPT ![p] = sequence']
    /\ UNCHANGED <<mutex, subscribers, channels, connected, written>>

\* A storage method locks the store, and Publish takes a number.
Stamps(p) ==
    /\ mutex = NoPublisher /\ sequence < MaxEvents
    /\ mutex' = p
    /\ sequence' = sequence + 1
    /\ stamped' = [stamped EXCEPT ![p] = sequence']
    /\ UNCHANGED <<subscribers, channels, connected, written>>

matchesFilter(s, e) == e \in Wanted[s]

\* A send on a closed channel panics, a full channel drops the event.
Send(ch, e) ==
    IF ch.state = "closed" THEN [ch EXCEPT !.state = "panic"]
    ELSE IF Len(ch.buffer) >= BufferSize THEN ch
    ELSE [ch EXCEPT !.buffer = Append(@, e)]

Publish(p) ==
    /\ stamped[p] # 0
    /\ channels' = [s \in Subscribers |->
                        IF s \in subscribers /\ matchesFilter(s, stamped[p])
                        THEN Send(channels[s], stamped[p]) ELSE channels[s]]
    /\ stamped' = [stamped EXCEPT ![p] = 0]
    /\ mutex' = NoPublisher
    /\ UNCHANGED <<sequence, subscribers, connected, written>>

Subscribe(s) ==
    /\ channels[s].state = "none"
    /\ channels' = [channels EXCEPT ![s].state = "open"]
    /\ subscribers' = subscribers \cup {s}
    /\ connected' = connected \cup {s}
    /\ UNCHANGED <<mutex, sequence, stamped, written>>

Disconnects(s) ==
    /\ s \in connected
    /\ connected' = connected \ {s}
    /\ UNCHANGED <<mutex, sequence, stamped, subscribers, channels, written>>

Close(s) == [channels[s] EXCEPT !.state = IF @ = "open" THEN "closed" ELSE "panic"]

awaitCancellation(s) ==
    /\ s \in subscribers /\ s \notin connected
    /\ subscribers' = subscribers \ {s}
    /\ channels' = [channels EXCEPT ![s] = Close(s)]
    /\ UNCHANGED <<mutex, sequence, stamped, connected, written>>

\* The goroutine of StreamOrders writes the next frame.  With the context done it may
\* still pick an event before it returns.
StreamOrders(s) ==
    /\ channels[s].buffer # <<>>
    /\ written' = [written EXCEPT ![s] = Append(@, Head(channels[s].buffer))]
    /\ channels' = [channels EXCEPT ![s].buffer = Tail(@)]
    /\ UNCHANGED <<mutex, sequence, stamped, subscribers, connected>>

Flush ==
    /\ subscribers # {}
    /\ channels' = [s \in Subscribers |-> IF s \in subscribers THEN Close(s) ELSE channels[s]]
    /\ subscribers' = {}
    /\ UNCHANGED <<mutex, sequence, stamped, connected, written>>

Next ==
    \/ \E p \in Publishers : Stamps(p) \/ Publish(p)
    \/ \E s \in Subscribers :
        Subscribe(s) \/ Disconnects(s) \/ awaitCancellation(s) \/ StreamOrders(s)
    \/ Flush

---------------------------------------------------------------------------
\* A client reads the sequence numbers in increasing order, whichever goroutines
\* publish at the same time: the number is taken before the stream's own lock
\* (stream_controller.go:122), so this rests on the mutex of the store.
DeliveredInOrder ==
    \A s \in Subscribers :
        LET seen == written[s] \o channels[s].buffer
        IN  \A i, j \in DOMAIN seen : i < j => seen[i] < seen[j]

\* Nothing is sent on a closed channel and none is closed twice, although the client
\* goes away, events are published and Flush is called in any order
\* (stream_controller.go:107, 121, 171).
OpenWhileRegistered ==
    \A s \in Subscribers :
        /\ channels[s].state # "panic"
        /\ s \in subscribers => channels[s].state = "open"
=============================================================================
