---------------------------- MODULE SystemStream ----------------------------
(***************************************************************************)
(* The stream of system events with its history for late joiners           *)
(* (internal/api/system_stream.go).  An event is its number in the order   *)
(* in which the publishers got the controller's lock.  The lock is not     *)
(* held while events are sent: a publisher works through its snapshot of   *)
(* subscribers, and a goroutine per subscriber through the history, one    *)
(* trySend after the other and in no order between them.                   *)
(***************************************************************************)
EXTENDS Naturals, Sequences, FiniteSets, SequencesExt, FiniteSetsExt

CONSTANTS
    Publishers,
    Subscribers,        \* each subscribes once
    BufferSize,         \* bufferSize
    maxHistorySize,
    MaxEvents           \* bound: events published

VARIABLES
    published,          \* number of events so far
    aged,               \* events up to this one are older than maxHistoryAge
    eventHistory,
    subscribers,        \* the controller's map
    sub,                \* sub[s]: channel, its closed flag, its context
    sending,            \* sending[p]: event and subscribers still to send it to
    replay,             \* replay[s]: history the goroutine of s still has to send
    received            \* received[s]: what client s has read
vars == <<published, aged, eventHistory, subscribers, sub, sending, replay, received>>

NoSending == [event |-> 0, to |-> {}]

Init ==
    /\ published = 0 /\ aged = 0
    /\ eventHistory = <<>>
    /\ subscribers = {}
    /\ sub = [s \in Subscribers |-> [buffer |-> <<>>, joined |-> FALSE, closed |-> FALSE,
                                     gone |-> FALSE, skipped |-> {}, since |-> 1]]
    /\ sending = [p \in Publishers |-> NoSending]
    /\ replay = [s \in Subscribers |-> <<>>]
    /\ received = [s \in Subscribers |-> <<>>]

---------------------------------------------------------------------------
Recent(e) == e > aged

\* Where the history holds an event that is not too old.  Events age in the order of
\* their numbers, so these places are the end of it.
RecentIn(h) == {i \in DOMAIN h : Recent(h[i])}
FromFirstRecent(h) == SubSeq(h, Min(RecentIn(h)), Len(h))

\* Cuts everything before the first event that is not too old, if there is one.
PruneByAge(h) == IF RecentIn(h) = {} THEN h ELSE FromFirstRecent(h)

addToHistory(e) ==
    LET h == Append(eventHistory, e)
    IN  PruneByAge(SubSeq(h, Max({1, Len(h) - maxHistorySize + 1}), Len(h)))

getRecentHistory ==
    IF RecentIn(eventHistory) = {} THEN <<>> ELSE FromFirstRecent(eventHistory)

\* trySend: the subscriber after an attempt to send e.  "skipped" records what a full
\* buffer dropped.
trySend(s, e) ==
    IF sub[s].closed THEN sub[s]
    ELSE IF Len(sub[s].buffer) < BufferSize THEN [sub[s] EXCEPT !.buffer = Append(@, e)]
    ELSE [sub[s] EXCEPT !.skipped = @ \cup {e}]

\* Publish under the lock, for an event that passes shouldPublish: the others change nothing.
Publish(p) ==
    /\ sending[p].to = {} /\ published < MaxEvents
    /\ published' = published + 1
    /\ eventHistory' = addToHistory(published')
    /\ sending' = [sending EXCEPT ![p] = [event |-> published', to |-> subscribers]]
    /\ UNCHANGED <<aged, subscribers, sub, replay, received>>

FanOut(p, s) ==
    /\ s \in sending[p].to
    /\ sub' = [sub EXCEPT ![s] = trySend(s, sending[p].event)]
    /\ sending' = [sending EXCEPT ![p].to = @ \ {s}]
    /\ UNCHANGED <<published, aged, eventHistory, subscribers, replay, received>>

\* The oldest event a new subscriber is to get.
FirstOwed == Max({published - maxHistorySize, aged}) + 1

\* Faulty variant: the history is read in a critical section of its own, and an event
\* may come between it and the registration.
SubscribeReadsHistoryFirst(s) ==
    /\ ~sub[s].joined
    /\ subscribers' = subscribers \cup {s}
    /\ replay' \in {[replay EXCEPT ![s] = h] :
                      h \in {getRecentHistory, Remove(getRecentHistory, published)}}
    /\ sub' = [sub EXCEPT ![s].joined = TRUE, ![s].since = FirstOwed]
    /\ UNCHANGED <<published, aged, eventHistory, sending, received>>

Subscribe(s) ==
    /\ ~sub[s].joined
    /\ subscribers' = subscribers \cup {s}
    /\ replay' = [replay EXCEPT ![s] = getRecentHistory]
    /\ sub' = [sub EXCEPT ![s].joined = TRUE, ![s].since = FirstOwed]
    /\ UNCHANGED <<published, aged, eventHistory, sending, received>>

\* The goroutine gives up when the context is done or the channel closed.
SendHistory(s) ==
    /\ replay[s] # <<>>
    /\ IF sub[s].gone
       THEN replay' = [replay EXCEPT ![s] = <<>>] /\ UNCHANGED sub
       ELSE /\ sub' = [sub EXCEPT ![s] = trySend(s, Head(replay[s]))]
            /\ replay' = [replay EXCEPT ![s] = IF sub[s].closed THEN <<>> ELSE Tail(@)]
    /\ UNCHANGED <<published, aged, eventHistory, subscribers, sending, received>>

Disconnects(s) ==
    /\ sub[s].joined /\ ~sub[s].gone
    /\ sub' = [sub EXCEPT ![s].gone = TRUE]
    /\ UNCHANGED <<published, aged, eventHistory, subscribers, sending, replay, received>>

\* Leaves the map; the channel is closed afterwards, without the controller's lock.
awaitCancellation(s) ==
    /\ s \in subscribers /\ sub[s].gone
    /\ subscribers' = subscribers \ {s}
    /\ UNCHANGED <<published, aged, eventHistory, sub, sending, replay, received>>

Closes(s) ==
    /\ sub[s].joined /\ sub[s].gone /\ s \notin subscribers /\ ~sub[s].closed
    /\ sub' = [sub EXCEPT ![s].closed = TRUE]
    /\ UNCHANGED <<published, aged, eventHistory, subscribers, sending, replay, received>>

Flush ==
    /\ subscribers # {}
    /\ sub' = [s \in Subscribers |-> [sub[s] EXCEPT !.closed = @ \/ s \in subscribers]]
    /\ subscribers' = {}
    /\ UNCHANGED <<published, aged, eventHistory, sending, replay, received>>

\* The response of StreamSystemEvents writes one frame.
VisitStreamSystemEventsResponse(s) ==
    /\ sub[s].buffer # <<>>
    /\ received' = [received EXCEPT ![s] = Append(@, Head(sub[s].buffer))]
    /\ sub' = [sub EXCEPT ![s].buffer = Tail(@)]
    /\ UNCHANGED <<published, aged, eventHistory, subscribers, sending, replay>>

\* Five minutes pass for the oldest event.
Ages ==
    /\ aged < published
    /\ aged' = aged + 1
    /\ UNCHANGED <<published, eventHistory, subscribers, sub, sending, replay, received>>

Next ==
    \/ \E p \in Publishers : Publish(p) \/ \E s \in Subscribers : FanOut(p, s)
    \/ \E s \in Subscribers :
        \/ Subscribe(s) \/ SendHistory(s) \/ Disconnects(s)
        \/ awaitCancellation(s) \/ Closes(s) \/ VisitStreamSystemEventsResponse(s)
    \/ Flush \/ Ages

---------------------------------------------------------------------------
\* What subscriber s has read and what waits for it in order, and the events that
\* publishers are about to send it.
InOrder(s) == received[s] \o sub[s].buffer \o replay[s]
Live(s) == {sending[p].event : p \in {q \in Publishers : s \in sending[q].to}}

\* A subscriber gets the recent history and every later event exactly once, as history
\* or live, unless its buffer was full: registration and history are one
\* critical section (system_stream.go:110), and so are the entry in the history and
\* the list of receivers (system_stream.go:188).
EveryEventOnce ==
    \A s \in Subscribers :
        /\ IsInjective(InOrder(s))
        /\ ToSet(InOrder(s)) \cap Live(s) = {}
        /\ (ToSet(InOrder(s)) \cup Live(s)) \cap sub[s].skipped = {}
        /\ s \in subscribers /\ ~sub[s].gone
            => sub[s].since..published
                  \subseteq ToSet(InOrder(s)) \cup Live(s) \cup sub[s].skipped
=============================================================================
