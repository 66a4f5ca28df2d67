------------------------- MODULE TakeProfitProofs -------------------------
(***************************************************************************)
(* Proofs about the take profit of a deal: for any venues, buys, workers   *)
(* and bounds, and whatever fails, is lost or comes late.                  *)
(***************************************************************************)
EXTENDS TakeProfit, FiniteSetTheorems, WellFoundedInduction, TLAPS

-----------------------------------------------------------------------------
(* The state of one tracked order *)

\* s is a buy of which at most b units are believed to be bought.
Believes(s, b) == s \in OrderState /\ s.filledQty <= b

\* A report of a buy of n units, made when at most b of them were bought.
Reported(m, n, b) ==
    /\ m.status \in Statuses /\ m.at \in Nat
    /\ m.origSz = n /\ m.sz \in n - b .. n

\* A tracker that starts with an order knows of no fill.
LEMMA NewBelieves ==
    ASSUME NEW b \in Nat, NEW h \in BOOLEAN
    PROVE  Believes(NewOrder(h), b)
  BY DEF Believes, NewOrder, OrderState, Statuses

\* An event tells nothing about fills.
LEMMA EventBelieves ==
    ASSUME NEW b \in Nat, NEW s, Believes(s, b),
           NEW size \in Nat, NEW t \in BOOLEAN
    PROVE  Believes(applyEvent(s, size, t), b)
  BY DEF Believes, applyEvent, OrderState, Statuses

\* Nor does a status that was sent before or at this point tell too much.
LEMMA StatusBelieves ==
    ASSUME NEW n \in Nat, NEW b \in 0 .. n, NEW s, Believes(s, b),
           NEW m, Reported(m, n, b)
    PROVE  Believes(applyStatus(s, m), b)
<1>1. /\ m.status \in Statuses /\ m.at \in Nat /\ m.origSz \in Nat /\ m.sz \in Nat
      /\ Minus(m.origSz, m.sz) \in Nat /\ Minus(m.origSz, m.sz) <= b
  BY DEF Reported, Minus
<1> HIDE DEF Minus
<1>2. CASE m.at < s.statusObserved
  BY <1>2 DEF applyStatus
<1>3. CASE ~(m.at < s.statusObserved)
  <2> DEFINE r == IF m.status = "canceled" THEN 0 ELSE m.sz
             f == IF m.origSz > 0 THEN Minus(m.origSz, m.sz) ELSE s.filledQty
  <2>1. r \in Nat /\ f \in Nat /\ f <= b
    BY <1>1 DEF Believes, OrderState
  <2>2. applyStatus(s, m) = [s EXCEPT !.statusObserved = m.at,
              !.status = m.status, !.originalQty = m.origSz,
              !.remainingQty = r, !.filledQty = f]
    BY <1>3 DEF applyStatus, Believes, OrderState
  <2> HIDE DEF r, f
  <2> QED
    BY <1>1, <2>1, <2>2 DEF Believes, OrderState
<1> QED
  BY <1>2, <1>3

\* A rebuild without a status leaves the fills as they were.
LEMMA InferBelieves ==
    ASSUME NEW b \in Nat, NEW s, Believes(s, b),
           NEW t \in Nat
    PROVE  Believes(inferFromEvent(s, t), b)
  BY DEF Believes, inferFromEvent, OrderState, Statuses

\* Scaling lowers them at most.
LEMMA ScaledBelieves ==
    ASSUME NEW b \in Nat, NEW s, Believes(s, b),
           NEW size \in Nat
    PROVE  Believes(applyScaledSize(s, size), b)
<1> DEFINE filled == IF s.filledQty > size THEN size ELSE s.filledQty
<1>1. filled \in Nat /\ size - filled \in Nat /\ filled <= b
  BY DEF Believes, OrderState
<1>2. applyScaledSize(s, size) = [s EXCEPT !.originalQty = size,
            !.filledQty = filled, !.remainingQty = size - filled]
  BY DEF applyScaledSize
<1> HIDE DEF filled
<1> QED
  BY <1>1, <1>2 DEF Believes, OrderState

\* Nor does cancelling add any.
LEMMA CancelledBelieves ==
    ASSUME NEW b \in Nat, NEW s, Believes(s, b),
           NEW t \in Nat
    PROVE  Believes(markCancelled(s, t), b)
  BY DEF Believes, markCancelled, OrderState, Statuses

-----------------------------------------------------------------------------
(* The invariant: of buys only, and of what workers may do to them *)

\* What the exchange has said of the buy o, now or before: its size only falls.
Reports(o) == [order : {o}, status : Statuses, origSz : {Size[o]},
               sz : exchange[o].sz .. Size[o], at : Nat]

\* m is no report of a buy, or a true one.
TrueReport(m) == \A o \in Buys : m.order = o => m \in Reports(o)

TrueReports(q) == \E S : q \in Seq(S) /\ \A m \in S : TrueReport(m)

\* Work is about take profits: no worker touches a buy.
SellsOnly(work) == "order" \in DOMAIN work /\ work.order \in TakeProfits

SellsOnlyAll(q) == \E S : q \in Seq(S) /\ \A work \in S : SellsOnly(work)

\* A buy on the exchange.
BuyOK(o) ==
    /\ exchange[o] \in [status : Statuses, origSz : {Size[o]}, sz : 0 .. Size[o],
                        at : Nat]
    /\ exchange[o].status = "open" => exchange[o].sz >= 1

ExchangeInv ==
    /\ clock \in Nat
    /\ DOMAIN exchange = Orders
    /\ \A o \in Buys : BuyOK(o)

\* Refresher and rebuild hold true reports; the refresher one of the order it asked for.
AnswerOK(o) ==
    refresh[o].pc = "answer" =>
        /\ app = "refresh" => refresh[o].m.order = o /\ TrueReport(refresh[o].m)
        /\ o \in Buys /\ refresh[o].m.status # "none" =>
              refresh[o].m \in Reports(o)


\* A callback that has still to record holds the first report of its feed.
FeedInv ==
    /\ DOMAIN feed = Venues /\ DOMAIN callback = Venues
    /\ \A v \in Venues : TrueReports(feed[v])
    /\ \A v \in Venues : callback[v] = "record" => feed[v] # <<>>

StoreInv ==
    /\ DOMAIN statuses = Orders
    /\ \A o \in Buys : statuses[o].status # "none" => statuses[o] \in Reports(o)

AnswersInv == DOMAIN refresh = Orders /\ \A o \in Orders : AnswerOK(o)

WorkInv ==
    /\ SellsOnlyAll(workQueue)
    /\ SellsOnlyAll(backoff)
    /\ DOMAIN worker = Workers
    /\ \A w \in Workers : worker[w].pc # "idle" => SellsOnly(worker[w].work)

TrackerInv ==
    /\ hydrated \in BOOLEAN
    /\ \A o \in DOMAIN orders \cap Buys : Believes(orders[o], Bought(o))

FillsInv ==
    ExchangeInv /\ FeedInv /\ StoreInv /\ AnswersInv /\ WorkInv /\ TrackerInv

\* No step gives a buy back: what rests of it falls.
Falls == \A o \in Buys : exchange'[o].sz <= exchange[o].sz

-----------------------------------------------------------------------------
(* What the parts of a step leave alone *)

LEMMA Constants ==
    /\ \A o \in Buys : o \in Orders /\ o \notin TakeProfits /\ Size[o] \in Nat
    /\ \A o \in TakeProfits : o \in Orders /\ o \notin Buys /\ Size[o] \in Nat
    /\ \A o \in Orders : VenueOf[o] \in Venues
  BY TakeProfitAssumption DEF Orders

\* Every venue has its take profit.
LEMMA TakeProfitThere ==
    ASSUME NEW v \in Venues
    PROVE  TakeProfitAt(v) \in TakeProfits /\ VenueOf[TakeProfitAt(v)] = v
<1>1. {o \in TakeProfits : VenueOf[o] = v} # {}
  BY TakeProfitAssumption, FS_EmptySet
<1> QED
  BY <1>1 DEF TakeProfitAt

\* Old reports stay true, and what was bought stays bought.
LEMMA ReportsGrow ==
    ASSUME ExchangeInv, ExchangeInv', Falls, NEW o \in Buys
    PROVE  /\ Reports(o) \subseteq Reports(o)'
           /\ Bought(o) \in Nat /\ Bought(o)' \in Nat /\ Bought(o) <= Bought(o)'
<1>1. /\ exchange[o].sz \in 0 .. Size[o] /\ exchange[o].origSz = Size[o]
      /\ exchange'[o].sz \in 0 .. Size[o] /\ exchange'[o].origSz = Size[o]
      /\ Size[o] \in Nat
  BY Constants DEF ExchangeInv, BuyOK
<1>2. exchange'[o].sz <= exchange[o].sz
  BY DEF Falls
<1>3. exchange[o].sz .. Size[o] \subseteq exchange'[o].sz .. Size[o]
  BY <1>1, <1>2
<1> QED
  BY <1>1, <1>2, <1>3 DEF Reports, Bought

LEMMA TrueReportKept ==
    ASSUME ExchangeInv, ExchangeInv', Falls, NEW m, TrueReport(m)
    PROVE  TrueReport(m)'
  BY ReportsGrow DEF TrueReport

LEMMA TrueReportsKept ==
    ASSUME ExchangeInv, ExchangeInv', Falls, NEW q, TrueReports(q)
    PROVE  TrueReports(q)'
  BY TrueReportKept DEF TrueReports

LEMMA QuietExchange ==
    ASSUME ExchangeInv, UNCHANGED <<clock, exchange>>
    PROVE  ExchangeInv' /\ Falls
<1>1. Falls
  BY Constants DEF ExchangeInv, BuyOK, Falls
<1>2. ExchangeInv'
  BY DEF ExchangeInv, BuyOK
<1> QED
  BY <1>1, <1>2

LEMMA QuietFeed ==
    ASSUME ExchangeInv, ExchangeInv', Falls, FeedInv, UNCHANGED <<feed, callback>>
    PROVE  FeedInv'
<1>1. ASSUME NEW v \in Venues PROVE TrueReports(feed[v])'
  <2>1. PICK q : q = feed[v]
    OBVIOUS
  <2>2. TrueReports(q)'
    BY <2>1, TrueReportsKept DEF FeedInv
  <2> QED
    BY <2>1, <2>2
<1> QED
  BY <1>1 DEF FeedInv

LEMMA QuietStore ==
    ASSUME ExchangeInv, ExchangeInv', Falls, StoreInv, UNCHANGED statuses
    PROVE  StoreInv'
  BY ReportsGrow DEF StoreInv

LEMMA QuietAnswers ==
    ASSUME ExchangeInv, ExchangeInv', Falls, AnswersInv, UNCHANGED <<refresh, app>>
    PROVE  AnswersInv'
<1>1. ASSUME NEW o \in Orders PROVE AnswerOK(o)'
  <2>1. PICK m : m = refresh[o].m
    OBVIOUS
  <2>2. TrueReport(m) => TrueReport(m)'
    BY TrueReportKept
  <2> QED
    BY <2>1, <2>2, ReportsGrow DEF AnswersInv, AnswerOK
<1> QED
  BY <1>1 DEF AnswersInv

LEMMA QuietWork ==
    ASSUME WorkInv, UNCHANGED <<workQueue, backoff, worker>>
    PROVE  WorkInv'
  BY DEF WorkInv, SellsOnlyAll, SellsOnly

LEMMA QuietTracker ==
    ASSUME ExchangeInv, ExchangeInv', Falls, TrackerInv,
           UNCHANGED <<orders, hydrated>>
    PROVE  TrackerInv'
<1>1. ASSUME NEW o \in DOMAIN orders \cap Buys PROVE Believes(orders[o], Bought(o))'
  <2>1. Bought(o) \in Nat /\ Bought(o)' \in Nat /\ Bought(o) <= Bought(o)'
    BY ReportsGrow
  <2>2. Believes(orders[o], Bought(o))
    BY DEF TrackerInv
  <2> QED
    BY <2>1, <2>2 DEF Believes, OrderState
<1> QED
  BY <1>1 DEF TrackerInv

-----------------------------------------------------------------------------
(* The exchange *)

\* Messages that are true after a step are so together.
LEMMA ReportsJoinedNext ==
    ASSUME NEW q, NEW r, TrueReports(q)', TrueReports(r)'
    PROVE  TrueReports(q \o r)'
<1>1. PICK S : q \in Seq(S) /\ \A m \in S : TrueReport(m)'
  BY DEF TrueReports
<1>2. PICK T : r \in Seq(T) /\ \A m \in T : TrueReport(m)'
  BY DEF TrueReports
<1>3. q \in Seq(S \cup T) /\ r \in Seq(S \cup T)
  BY <1>1, <1>2
<1>4. q \o r \in Seq(S \cup T)
  BY <1>3
<1>5. \A m \in S \cup T : TrueReport(m)'
  BY <1>1, <1>2
<1> QED
  BY <1>4, <1>5 DEF TrueReports

LEMMA ReportsOf ==
    ASSUME NEW S, NEW q \in Seq(S), \A m \in S : TrueReport(m)'
    PROVE  TrueReports(q)'
  BY DEF TrueReports

LEMMA OneReport ==
    ASSUME NEW m, TrueReport(m)'
    PROVE  TrueReports(<<m>>)'
<1>1. PICK q, S : q = <<m>> /\ S = {m}
  OBVIOUS
<1>2. q \in Seq(S) /\ \A x \in S : TrueReport(x)'
  BY <1>1
<1>3. TrueReports(q)'
  BY <1>2, ReportsOf
<1> QED
  BY <1>1, <1>3

LEMMA NoReport == TrueReports(<<>>)'
<1>1. PICK q, S : q = <<>> /\ S = {}
  OBVIOUS
<1>2. q \in Seq(S) /\ \A x \in S : TrueReport(x)'
  BY <1>1
<1>3. TrueReports(q)'
  BY <1>2, ReportsOf
<1> QED
  BY <1>1, <1>3

\* Messages that are true when they are sent join a feed of true ones.
LEMMA PublishTrue ==
    ASSUME ExchangeInv, ExchangeInv', Falls, FeedInv, NEW v \in Venues,
           NEW ms, TrueReports(ms)', Publish(v, ms), UNCHANGED callback
    PROVE  FeedInv'
<1>1. DOMAIN feed' = Venues
  BY DEF FeedInv, Publish
<1>2. ASSUME NEW u \in Venues PROVE TrueReports(feed[u])'
  <2>1. PICK q : q = feed[u]
    OBVIOUS
  <2>2. TrueReports(q)'
    BY <2>1, TrueReportsKept DEF FeedInv
  <2>3. TrueReports(q \o ms)'
    BY <2>2, ReportsJoinedNext
  <2>4. feed'[u] = q \/ feed'[u] = q \o ms
    BY <2>1 DEF FeedInv, Publish
  <2> QED
    BY <2>2, <2>3, <2>4
<1>3. ASSUME NEW u \in Venues, callback[u] = "record" PROVE feed'[u] # <<>>
  <2>1. PICK S : feed[u] \in Seq(S) /\ feed[u] # <<>>
    BY <1>3 DEF FeedInv, TrueReports
  <2>2. PICK T : ms \in Seq(T)
    BY DEF TrueReports
  <2>3. feed[u] \in Seq(S \cup T) /\ ms \in Seq(S \cup T)
    BY <2>1, <2>2
  <2>4. feed[u] \o ms # <<>>
    BY <2>1, <2>3
  <2> QED
    BY <2>1, <2>4 DEF FeedInv, Publish
<1> QED
  BY <1>1, <1>2, <1>3 DEF FeedInv

\* A change of a buy that takes nothing back.
LEMMA BuyChanges ==
    ASSUME ExchangeInv, FeedInv, clock' \in Nat, NEW o \in Buys, NEW e,
           e \in [status : Statuses, origSz : {Size[o]}, sz : 0 .. Size[o], at : Nat],
           e.status = "open" => e.sz >= 1, e.sz <= exchange[o].sz, Changes(o, e),
           UNCHANGED callback
    PROVE  ExchangeInv' /\ Falls /\ FeedInv'
<1>1. exchange' = [exchange EXCEPT ![o] = e] /\ exchange'[o] = e
  BY Constants DEF Changes, ExchangeInv
<1>2. ASSUME NEW b \in Buys, b # o PROVE exchange'[b] = exchange[b]
  BY <1>1, <1>2, Constants DEF ExchangeInv
<1>3. ExchangeInv'
  BY <1>1, <1>2 DEF ExchangeInv, BuyOK
<1>4. Falls
  BY <1>1, <1>2, Constants DEF Falls, ExchangeInv, BuyOK
<1>5. Report(o, e) \in Reports(o)'
  BY <1>1, Constants DEF Report, Reports
<1>6. TrueReports(<<Report(o, e)>>)'
  <2>1. PICK m : m = Report(o, e)
    OBVIOUS
  <2>2. TrueReport(m)'
    BY <1>5, <2>1 DEF TrueReport, Report
  <2>3. TrueReports(<<m>>)'
    BY <2>2, OneReport
  <2> QED
    BY <2>1, <2>3
<1> QED
  BY <1>3, <1>4, <1>6, PublishTrue, Constants DEF Changes

\* Whatever becomes of a take profit says nothing about a buy.
LEMMA SellChanges ==
    ASSUME ExchangeInv, FeedInv, clock' \in Nat, NEW o \in TakeProfits, NEW e,
           Changes(o, e) \/ Rest(o, e), UNCHANGED callback
    PROVE  ExchangeInv' /\ Falls /\ FeedInv'
<1>1. exchange' = [exchange EXCEPT ![o] = e]
  BY DEF Changes, Rest
<1>2. ASSUME NEW b \in Buys PROVE exchange'[b] = exchange[b]
  BY <1>1, Constants DEF ExchangeInv
<1>3. ExchangeInv'
  BY <1>1, <1>2 DEF ExchangeInv, BuyOK
<1>4. Falls
  BY <1>2, Constants DEF Falls, ExchangeInv, BuyOK
<1>6. ASSUME NEW f PROVE TrueReports(<<Report(o, f)>>)'
  <2>1. PICK m : m = Report(o, f)
    OBVIOUS
  <2>2. TrueReport(m)'
    BY <2>1, Constants DEF TrueReport, Report
  <2>3. TrueReports(<<m>>)'
    BY <2>2, OneReport
  <2> QED
    BY <2>1, <2>3
<1>7. CASE Changes(o, e)
  BY <1>3, <1>4, <1>6, <1>7, PublishTrue, Constants DEF Changes
<1>8. CASE Rest(o, e)
  <2> DEFINE gone == [exchange[o] EXCEPT !.status = "canceled", !.at = clock]
  <2>1. PICK c : c = gone
    OBVIOUS
  <2>2. \A q : q = <<>> => TrueReports(q)'
    BY NoReport
  <2>3. PICK old : (old = <<>> \/ old = <<Report(o, c)>>) /\
                   Publish(VenueOf[o], IF OpenBeforeCancel
                                       THEN <<Report(o, e)>> \o old
                                       ELSE old \o <<Report(o, e)>>)
    BY <1>8, <2>1 DEF Rest
  <2>4. TrueReports(old)' /\ TrueReports(<<Report(o, e)>>)'
    BY <1>6, <2>2, <2>3
  <2>5. TrueReports(<<Report(o, e)>> \o old)' /\ TrueReports(old \o <<Report(o, e)>>)'
    BY <2>4, ReportsJoinedNext
  <2> QED
    BY <1>3, <1>4, <2>3, <2>5, PublishTrue, Constants
<1> QED
  BY <1>7, <1>8

-----------------------------------------------------------------------------
(* The tracker *)

\* No buy of the map is believed to be further than it is.
Tracks(os) == \A o \in DOMAIN os \cap Buys : Believes(os[o], Bought(o))

LEMMA BoughtSome ==
    ASSUME ExchangeInv, NEW o \in Buys
    PROVE  Bought(o) \in Nat /\ Bought(o) <= Size[o] /\ Size[o] \in Nat
  BY Constants DEF ExchangeInv, BuyOK, Bought

LEMMA EnsureTracks ==
    ASSUME ExchangeInv, hydrated \in BOOLEAN, NEW os, Tracks(os), NEW o
    PROVE  Tracks(ensureOrder(os, o)) /\ o \in DOMAIN ensureOrder(os, o)
<1>1. CASE o \in DOMAIN os
  BY <1>1 DEF ensureOrder
<1>2. CASE o \notin DOMAIN os
  <2>1. ensureOrder(os, o) = [x \in DOMAIN os \cup {o} |->
                                 IF x = o THEN NewOrder(hydrated) ELSE os[x]]
    BY <1>2 DEF ensureOrder
  <2>2. ASSUME NEW b \in Buys PROVE Believes(NewOrder(hydrated), Bought(b))
    BY BoughtSome, NewBelieves
  <2> QED
    BY <2>1, <2>2 DEF Tracks
<1> QED
  BY <1>1, <1>2

LEMMA PutTracks ==
    ASSUME NEW os, Tracks(os), NEW o, NEW s, o \in Buys => Believes(s, Bought(o))
    PROVE  Tracks([os EXCEPT ![o] = s])
  BY DEF Tracks

\* A status that reaches the tracker, from wherever.
LEMMA UpdateTracks ==
    ASSUME ExchangeInv, TrackerInv, NEW g, NEW m, TrueReport(m),
           UpdateStatus(g, m), UNCHANGED exchange
    PROVE  TrackerInv'
<1> DEFINE o == m.order
           known == ensureOrder(orders, o)
           event == [known EXCEPT ![o] = applyEvent(@, Size[o], o \in TakeProfits)]
           status == [event EXCEPT ![o] = applyStatus(@, m)]
           os == MarkHydrated(status, o)
<1>1. Tracks(known) /\ o \in DOMAIN known
  BY EnsureTracks DEF TrackerInv, Tracks
<1>2. ASSUME o \in Buys PROVE Believes(applyEvent(known[o], Size[o], o \in TakeProfits), Bought(o))
  <2>1. Believes(known[o], Bought(o))
    BY <1>1, <1>2 DEF Tracks
  <2>2. PICK t \in BOOLEAN : t = FALSE
    OBVIOUS
  <2>5. (o \in TakeProfits) = FALSE
    BY <1>2, Constants
  <2>3. Bought(o) \in Nat /\ Size[o] \in Nat
    BY <1>2, BoughtSome
  <2> HIDE DEF known, o
  <2>4. Believes(applyEvent(known[o], Size[o], t), Bought(o))
    BY <2>1, <2>3, EventBelieves
  <2> QED
    BY <2>2, <2>4, <2>5
<1>3. Tracks(event) /\ o \in DOMAIN event
  <2> HIDE DEF known, o
  <2>1. event = [known EXCEPT ![o] = applyEvent(known[o], Size[o], o \in TakeProfits)]
    OBVIOUS
  <2> QED
    BY <1>1, <1>2, <2>1, PutTracks
<1>4. ASSUME o \in Buys PROVE Believes(applyStatus(event[o], m), Bought(o))
  <2>1. Believes(event[o], Bought(o))
    BY <1>3, <1>4 DEF Tracks
  <2>2. m \in Reports(o)
    BY <1>4 DEF TrueReport
  <2>3. Bought(o) \in 0 .. Size[o] /\ Size[o] \in Nat
    BY <1>4, BoughtSome
  <2>4. Size[o] - Bought(o) = exchange[o].sz
    BY <1>4, Constants DEF ExchangeInv, BuyOK, Bought
  <2>5. Reported(m, Size[o], Bought(o))
    BY <2>2, <2>3, <2>4 DEF Reported, Reports
  <2> HIDE DEF event, o
  <2> QED
    BY <2>1, <2>3, <2>5, StatusBelieves
<1>5. Tracks(status)
  <2> HIDE DEF event, o
  <2>1. status = [event EXCEPT ![o] = applyStatus(event[o], m)]
    OBVIOUS
  <2> QED
    BY <1>3, <1>4, <2>1, PutTracks
<1>6. Tracks(os)
  <2> HIDE DEF status
  <2>1. CASE os = status
    BY <1>5, <2>1
  <2>2. CASE os = [status EXCEPT ![o].hydrated = TRUE]
    <3>1. ASSUME NEW b \in Nat, Believes(status[o], b)
          PROVE  Believes([status[o] EXCEPT !.hydrated = TRUE], b)
      BY <3>1 DEF Believes, OrderState
    <3>2. o \in Buys /\ o \in DOMAIN status =>
             Believes([status[o] EXCEPT !.hydrated = TRUE], Bought(o))
      BY <1>5, <3>1, BoughtSome DEF Tracks
    <3> HIDE DEF o
    <3>3. os = [status EXCEPT ![o] = [status[o] EXCEPT !.hydrated = TRUE]]
      BY <2>2
    <3> HIDE DEF os
    <3> QED
      BY <1>5, <3>2, <3>3 DEF Tracks
  <2> QED
    BY <2>1, <2>2 DEF MarkHydrated
<1>7. orders' = os
  BY DEF UpdateStatus
<1>8. hydrated' \in BOOLEAN
  BY Zenon DEF UpdateStatus
<1>9. \A b \in Buys : Bought(b)' = Bought(b)
  BY DEF Bought
<1> HIDE DEF os
<1> QED
  BY <1>6, <1>7, <1>8, <1>9 DEF TrackerInv, Tracks

\* What happens to the state of a take profit says nothing about a buy.
LEMMA SellTracks ==
    ASSUME ExchangeInv, TrackerInv, UNCHANGED <<exchange, hydrated>>,
           NEW os, Tracks(os), NEW tp \in TakeProfits, NEW s,
           orders' = [os EXCEPT ![tp] = s]
    PROVE  TrackerInv'
<1>1. Tracks([os EXCEPT ![tp] = s])
  BY PutTracks, Constants
<1>2. \A b \in Buys : Bought(b)' = Bought(b)
  BY DEF Bought
<1> QED
  BY <1>1, <1>2 DEF TrackerInv, Tracks

-----------------------------------------------------------------------------
(* Work *)

LEMMA WorkOf ==
    ASSUME NEW S, NEW q \in Seq(S), \A work \in S : SellsOnly(work)
    PROVE  SellsOnlyAll(q)
  BY DEF SellsOnlyAll

LEMMA WorkAppended ==
    ASSUME NEW q, SellsOnlyAll(q), NEW work, SellsOnly(work)
    PROVE  SellsOnlyAll(Append(q, work))
<1>1. PICK S : q \in Seq(S) /\ \A x \in S : SellsOnly(x)
  BY DEF SellsOnlyAll
<1>2. PICK T : T = S \cup {work}
  OBVIOUS
<1>3. Append(q, work) \in Seq(T) /\ \A x \in T : SellsOnly(x)
  BY <1>1, <1>2
<1> QED
  BY <1>3, WorkOf

LEMMA WorkAdded ==
    ASSUME WorkInv, NEW work, SellsOnly(work), Enqueue(work)
    PROVE  SellsOnlyAll(workQueue')
  BY WorkAppended DEF WorkInv, Enqueue

LEMMA NewWorkSells ==
    ASSUME NEW tp \in TakeProfits, NEW type, NEW size
    PROVE  SellsOnly(NewWork(type, tp, size))
  BY DEF SellsOnly, NewWork

\* What one worker does next leaves the others as they are.
LEMMA WorkerLeaves ==
    ASSUME WorkInv, NEW w \in Workers, NEW x, x.pc = "idle" \/ SellsOnly(x.work),
           worker' = [worker EXCEPT ![w] = x]
    PROVE  /\ DOMAIN worker' = Workers
           /\ \A u \in Workers : worker'[u].pc # "idle" => SellsOnly(worker'[u].work)
  BY DEF WorkInv

LEMMA NoWorkSells == SellsOnlyAll(<<>>)
<1>1. PICK q, S : q = <<>> /\ S = {}
  OBVIOUS
<1>2. q \in Seq(S) /\ \A x \in S : SellsOnly(x)
  BY <1>1
<1> QED
  BY <1>1, <1>2, WorkOf

-----------------------------------------------------------------------------
(* Every step *)

\* SetToSeq lists a finite set.
LEMMA SetListed ==
    ASSUME NEW S, IsFiniteSet(S)
    PROVE  /\ SetToSeq(S) \in Seq(S)
           /\ \A x \in S : \E i \in 1 .. Len(SetToSeq(S)) : SetToSeq(S)[i] = x
<1> DEFINE n == Cardinality(S)
<1>1. n \in Nat /\ ExistsBijection(1 .. n, S)
  BY FS_CardinalityType
<1>2. Cardinality(1 .. n) = n
  BY <1>1, FS_Interval
<1>3. PICK f : f \in [1 .. n -> S] /\ IsInjective(f)
  BY <1>1 DEF ExistsBijection, Bijection, Injection
<1>4. PICK q : q = SetToSeq(S)
  OBVIOUS
<1>5. q \in [1 .. n -> S] /\ IsInjective(q)
  BY <1>3, <1>4 DEF SetToSeq
<1>6. q \in Injection(1 .. n, S)
  BY <1>5 DEF Injection
<1> HIDE DEF n
<1>7. q \in Surjection(1 .. n, S)
  BY <1>2, <1>6, FS_Injection DEF n
<1>8. q \in Seq(S) /\ Len(q) = n
  BY <1>1, <1>5
<1> QED
  BY <1>4, <1>7, <1>8 DEF Surjection

LEMMA FirstReportsFinite ==
    ASSUME NEW v
    PROVE  IsFiniteSet(FirstReports(v))
<1> DEFINE R == {Report(o, Placed(o)) : o \in Buys}
           f == [o \in Buys |-> Report(o, Placed(o))]
<1>1. f \in [Buys -> R] /\ \A m \in R : \E o \in Buys : f[o] = m
  OBVIOUS
<1>2. FirstReports(v) \subseteq R
  BY DEF FirstReports
<1> HIDE DEF f, R
<1>3. f \in Surjection(Buys, R)
  BY <1>1 DEF Surjection
<1>4. IsFiniteSet(Buys)
  BY TakeProfitAssumption
<1>5. IsFiniteSet(R)
  BY <1>3, <1>4, FS_Surjection
<1> QED
  BY <1>2, <1>5, FS_Subset

LEMMA FillsInit == InitTakeProfit => FillsInv
<1> SUFFICES ASSUME InitTakeProfit PROVE FillsInv
  OBVIOUS
<1>1. ExchangeInv
  <2>1. ASSUME NEW o \in Buys PROVE exchange[o] = Placed(o)
    BY Constants DEF InitTakeProfit
  <2>2. ASSUME NEW o \in Buys PROVE BuyOK(o)
    <3>1. Size[o] \in Nat \ {0}
      BY TakeProfitAssumption, Constants
    <3>2. Placed(o) \in [status : Statuses, origSz : {Size[o]}, sz : 0 .. Size[o],
                         at : Nat]
      BY <3>1 DEF Placed, Statuses
    <3>3. Placed(o).sz = Size[o]
      BY DEF Placed
    <3>4. Size[o] >= 1
      BY <3>1
    <3> QED
      BY <2>1, <3>2, <3>3, <3>4 DEF BuyOK
  <2> QED
    BY <2>2 DEF InitTakeProfit, ExchangeInv
<1>2. FeedInv
  <2>1. ASSUME NEW v \in Venues PROVE TrueReports(feed[v])
    <3> DEFINE S == FirstReports(v)
    <3>1. feed[v] \in Seq(S)
      <4>1. feed[v] = SetToSeq(S)
        BY DEF InitTakeProfit
      <4> HIDE DEF S
      <4> QED
        BY <4>1, FirstReportsFinite, SetListed DEF S
    <3>2. ASSUME NEW m \in S PROVE TrueReport(m)
      <4>1. PICK o \in Buys : m = Report(o, Placed(o))
        BY DEF FirstReports
      <4>2. m \in Reports(o)
        BY <4>1, Constants DEF InitTakeProfit, Report, Placed, Reports, Statuses
      <4>3. m.order = o
        BY <4>1 DEF Report
      <4> QED
        BY <4>2, <4>3 DEF TrueReport
    <3> HIDE DEF S
    <3> QED
      BY <3>1, <3>2 DEF TrueReports
  <2> QED
    BY <2>1 DEF InitTakeProfit, FeedInv
<1>3. StoreInv
  BY Constants DEF InitTakeProfit, StoreInv, NoMessage
<1>4. AnswersInv
  BY DEF InitTakeProfit, AnswersInv, AnswerOK, Refreshed
<1>5. WorkInv
  BY NoWorkSells DEF InitTakeProfit, WorkInv
<1>6. TrackerInv
  <2>1. ASSUME NEW o \in Buys PROVE Believes(orders[o], Bought(o))
    <3>1. PICK h \in BOOLEAN : h = TRUE
      OBVIOUS
    <3>2. Bought(o) \in Nat /\ Size[o] \in Nat
      BY <1>1, BoughtSome
    <3>3. Believes(applyScaledSize(NewOrder(h), Size[o]), Bought(o))
      BY <3>2, NewBelieves, ScaledBelieves
    <3> QED
      BY <3>1, <3>3 DEF InitTakeProfit
  <2> QED
    BY <2>1 DEF InitTakeProfit, TrackerInv
<1> QED
  BY <1>1, <1>2, <1>3, <1>4, <1>5, <1>6 DEF FillsInv

\* A step that leaves tracker, store, answers and work alone.
LEMMA ExchangeSteps ==
    ASSUME FillsInv, ExchangeInv', Falls, FeedInv',
           UNCHANGED <<orders, hydrated, statuses, refresh, app, workQueue, backoff, worker>>
    PROVE  FillsInv'
  BY QuietStore, QuietAnswers, QuietWork, QuietTracker DEF FillsInv

LEMMA BuyKeeps ==
    ASSUME FillsInv, NEW o \in Buys, Buy(o) \/ BuyCancelled(o)
    PROVE  FillsInv'
<1>1. clock' \in Nat /\ clock \in Nat
  BY DEF Buy, BuyCancelled, FillsInv, ExchangeInv
<1>2. BuyOK(o) /\ exchange[o].status = "open" /\ Size[o] \in Nat
  BY Constants DEF Buy, BuyCancelled, FillsInv, ExchangeInv
<1>3. PICK t \in Nat : t = clock'
  BY <1>1
<1>4. CASE Buy(o)
  <2> DEFINE st == IF exchange[o].sz = 1 THEN "filled" ELSE exchange[o].status
             e == [exchange[o] EXCEPT !.sz = exchange[o].sz - 1, !.at = t,
                                      !.status = st]
  <2>1. Changes(o, e)
    BY <1>3, <1>4 DEF Buy
  <2>2. exchange[o].sz - 1 \in 0 .. Size[o] /\ st \in Statuses
        /\ (st = "open" => exchange[o].sz - 1 >= 1)
    BY <1>2 DEF BuyOK, Statuses
  <2>3. /\ e \in [status : Statuses, origSz : {Size[o]}, sz : 0 .. Size[o], at : Nat]
        /\ e.status = st /\ e.sz = exchange[o].sz - 1
    <3> HIDE DEF st
    <3> QED
      BY <1>2, <2>2 DEF BuyOK
  <2>4. e.sz <= exchange[o].sz /\ (e.status = "open" => e.sz >= 1)
    BY <1>2, <2>2, <2>3 DEF BuyOK
  <2> HIDE DEF e
  <2>5. ExchangeInv' /\ Falls /\ FeedInv'
    BY <1>1, <2>1, <2>3, <2>4, BuyChanges DEF FillsInv, Buy, BuyCancelled
  <2> QED
    BY <1>4, <2>5, ExchangeSteps DEF Buy, storeVars, orderWorkVars, appVars
<1>5. CASE BuyCancelled(o)
  <2> DEFINE e == [exchange[o] EXCEPT !.status = "canceled", !.at = t]
  <2>1. Changes(o, e)
    BY <1>3, <1>5 DEF BuyCancelled
  <2>2. /\ e \in [status : Statuses, origSz : {Size[o]}, sz : 0 .. Size[o], at : Nat]
        /\ e.status = "canceled" /\ e.sz = exchange[o].sz
    BY <1>2 DEF BuyOK, Statuses
  <2>3. e.sz <= exchange[o].sz /\ (e.status = "open" => e.sz >= 1)
    BY <1>2, <2>2 DEF BuyOK
  <2> HIDE DEF e
  <2>4. ExchangeInv' /\ Falls /\ FeedInv'
    BY <1>1, <2>1, <2>2, <2>3, BuyChanges DEF FillsInv, Buy, BuyCancelled
  <2> QED
    BY <1>5, <2>4, ExchangeSteps DEF BuyCancelled, storeVars, orderWorkVars, appVars
<1> QED
  BY <1>4, <1>5

LEMMA SellKeeps ==
    ASSUME FillsInv, NEW o \in TakeProfits, NEW n, Sell(o, n)
    PROVE  FillsInv'
<1>1. clock' \in Nat
  BY DEF Sell, FillsInv, ExchangeInv
<1>3. PICK e : Changes(o, e)
  BY DEF Sell
<1>4. ExchangeInv' /\ Falls /\ FeedInv'
  BY <1>1, <1>3, SellChanges DEF FillsInv, Sell
<1> QED
  BY <1>4, ExchangeSteps DEF Sell, storeVars, orderWorkVars, appVars

\* A step that leaves the exchange and its messages alone.
LEMMA ProcessSteps ==
    ASSUME FillsInv, UNCHANGED <<clock, exchange, feed, callback>>
    PROVE  /\ ExchangeInv' /\ Falls /\ FeedInv'
           /\ UNCHANGED statuses => StoreInv'
           /\ UNCHANGED <<refresh, app>> => AnswersInv'
           /\ UNCHANGED <<workQueue, backoff, worker>> => WorkInv'
           /\ UNCHANGED <<orders, hydrated>> => TrackerInv'
<1>1. ExchangeInv' /\ Falls
  BY QuietExchange DEF FillsInv
<1>2. FeedInv'
  BY <1>1, QuietFeed DEF FillsInv
<1>3. UNCHANGED statuses => StoreInv'
  BY <1>1, QuietStore DEF FillsInv
<1>4. UNCHANGED <<refresh, app>> => AnswersInv'
  BY <1>1, QuietAnswers DEF FillsInv
<1>5. UNCHANGED <<workQueue, backoff, worker>> => WorkInv'
  BY QuietWork DEF FillsInv
<1>6. UNCHANGED <<orders, hydrated>> => TrackerInv'
  BY <1>1, QuietTracker DEF FillsInv
<1> QED
  BY <1>1, <1>2, <1>3, <1>4, <1>5, <1>6

LEMMA CallbackKeeps ==
    ASSUME FillsInv, NEW v \in Venues, Callback(v)
    PROVE  FillsInv'
<1>1. ExchangeInv' /\ Falls
  BY QuietExchange DEF FillsInv, Callback, CallbackUpdates, CallbackRecords, exchangeVars
<1>2. PICK S : feed[v] \in Seq(S) /\ \A m \in S : TrueReport(m)
  BY DEF FillsInv, FeedInv, TrueReports
<1>3. CASE CallbackUpdates(v)
  <2>1. TrueReport(Head(feed[v]))
    BY <1>2, <1>3 DEF CallbackUpdates
  <2>2. UpdateStatus(v, Head(feed[v])) /\ UNCHANGED exchange
    BY <1>3 DEF CallbackUpdates, exchangeVars
  <2>3. TrackerInv'
    BY <2>1, <2>2, UpdateTracks DEF FillsInv
  <2>4. UNCHANGED <<feed, statuses, refresh, app, workQueue, backoff, worker>>
    BY <1>3 DEF CallbackUpdates, storeVars, orderWorkVars, appVars
  <2>5. FeedInv'
    <3>1. ASSUME NEW u \in Venues PROVE TrueReports(feed[u])'
      <4>1. PICK q : q = feed[u]
        OBVIOUS
      <4>2. TrueReports(q)'
        BY <1>1, <4>1, TrueReportsKept DEF FillsInv, FeedInv
      <4> QED
        BY <2>4, <4>1, <4>2
    <3>2. callback' = [callback EXCEPT ![v] = "record"] /\ feed[v] # <<>>
      BY <1>3 DEF CallbackUpdates
    <3> QED
      BY <2>4, <3>1, <3>2 DEF FillsInv, FeedInv
  <2> QED
    BY <1>1, <2>3, <2>4, <2>5, QuietStore, QuietAnswers, QuietWork DEF FillsInv
<1>4. CASE CallbackRecords(v)
  <2>1. feed' = [feed EXCEPT ![v] = Tail(@)]
    BY <1>4 DEF CallbackRecords
  <2>2. feed[v] # <<>>
    BY <1>4 DEF CallbackRecords, FillsInv, FeedInv
  <2>3. PICK m : m = Head(feed[v])
    OBVIOUS
  <2>4. TrueReport(m) /\ Tail(feed[v]) \in Seq(S)
    BY <1>2, <2>2, <2>3
  <2>5. FeedInv'
    <3>1. ASSUME NEW u \in Venues PROVE TrueReports(feed[u])'
      <4>1. PICK q : q = feed'[u]
        OBVIOUS
      <4>2. TrueReports(q)
        BY <1>2, <2>1, <2>4, <4>1 DEF FillsInv, FeedInv, TrueReports
      <4>3. TrueReports(q)'
        BY <1>1, <4>2, TrueReportsKept DEF FillsInv
      <4> QED
        BY <4>1, <4>3
    <3>2. callback' = [callback EXCEPT ![v] = "idle"]
      BY <1>4 DEF CallbackRecords
    <3> QED
      BY <2>1, <3>1, <3>2 DEF FillsInv, FeedInv
  <2>6. StoreInv'
    <3>1. statuses' = [statuses EXCEPT ![m.order] = m] /\ UNCHANGED exchange
      BY <1>4, <2>3 DEF CallbackRecords, exchangeVars
    <3> QED
      BY <2>4, <3>1 DEF FillsInv, StoreInv, TrueReport, Reports
  <2>7. UNCHANGED <<orders, hydrated, refresh, app, workQueue, backoff, worker>>
    BY <1>4 DEF CallbackRecords, orderWorkVars, appVars
  <2> QED
    BY <1>1, <2>5, <2>6, <2>7, QuietAnswers, QuietWork, QuietTracker DEF FillsInv
<1> QED
  BY <1>3, <1>4 DEF Callback

\* Reconciliation writes take profits only.
LEMMA ReconcileKeeps ==
    ASSUME FillsInv, NEW g, NEW v \in Venues, Reconcile(g, v)
    PROVE  FillsInv'
<1> DEFINE tp == TakeProfitAt(v)
<1>1. tp \in TakeProfits
  BY TakeProfitThere
<1>2. UNCHANGED <<clock, exchange, feed, callback, statuses, refresh, app, hydrated,
                  backoff, worker>>
  BY DEF Reconcile, exchangeVars, storeVars, appVars
<1>3. \A type, size : SellsOnly(NewWork(type, tp, size))
  BY <1>1, NewWorkSells
<1>4. SellsOnlyAll(workQueue')
  <2>1. UNCHANGED workQueue \/ \E type, size : Enqueue(NewWork(type, tp, size))
    BY DEF Reconcile, ReconcileCancels, ReconcileResizes, ReconcileCreates,
           ReconcileLeaves
  <2> HIDE DEF tp
  <2> QED
    BY <1>3, <2>1, WorkAdded DEF FillsInv, WorkInv
<1>5. WorkInv'
  BY <1>2, <1>4 DEF FillsInv, WorkInv, SellsOnlyAll, SellsOnly
<1>6. TrackerInv'
  <2>1. CASE UNCHANGED orders
    BY <1>2, <2>1, ProcessSteps
  <2>2. CASE orders' = [orders EXCEPT ![tp] = markCancelled(@, clock)]
    <3> HIDE DEF tp
    <3>1. orders' = [orders EXCEPT ![tp] = markCancelled(orders[tp], clock)]
      BY <2>2
    <3>2. Tracks(orders)
      BY DEF FillsInv, TrackerInv, Tracks
    <3> QED
      BY <1>1, <1>2, <3>1, <3>2, SellTracks DEF FillsInv
  <2> QED
    BY <2>1, <2>2 DEF Reconcile, ReconcileCancels, ReconcileResizes,
       ReconcileCreates, ReconcileLeaves
<1> QED
  BY <1>2, <1>5, <1>6, ProcessSteps DEF FillsInv

\* So does the engine's placement of the take profit.
LEMMA EngineKeeps ==
    ASSUME FillsInv, EngineSteps
    PROVE  FillsInv'
<1>1. CASE EngineReads \/ EngineRecords
  <2>1. UNCHANGED <<clock, exchange, feed, callback, statuses, refresh, app, workQueue,
                    backoff, worker, orders, hydrated>>
    BY <1>1 DEF EngineReads, EngineRecords, exchangeVars, storeVars, orderWorkVars
  <2> QED
    BY <2>1, ProcessSteps DEF FillsInv
<1>2. ASSUME NEW v \in Venues, EngineEmits(v) PROVE FillsInv'
  <2> DEFINE tp == TakeProfitAt(v)
  <2>1. tp \in TakeProfits
    BY TakeProfitThere
  <2>2. UNCHANGED <<clock, exchange, feed, callback, statuses, refresh, app, hydrated,
                    backoff, worker>>
    BY <1>2 DEF EngineEmits, exchangeVars, appVars
  <2>3. Enqueue(NewWork("create", tp, Size[tp]))
    BY <1>2 DEF EngineEmits
  <2>4. orders' = [ensureOrder(orders, tp) EXCEPT
                      ![tp] = applyScaledSize(ensureOrder(orders, tp)[tp], Size[tp])]
    BY <1>2 DEF EngineEmits
  <2> HIDE DEF tp
  <2>5. SellsOnlyAll(workQueue')
    BY <2>1, <2>3, NewWorkSells, WorkAdded DEF FillsInv
  <2>6. WorkInv'
    BY <2>2, <2>5 DEF FillsInv, WorkInv, SellsOnlyAll, SellsOnly
  <2>7. Tracks(ensureOrder(orders, tp))
    BY EnsureTracks DEF FillsInv, TrackerInv, Tracks
  <2>8. TrackerInv'
    BY <2>1, <2>2, <2>4, <2>7, SellTracks DEF FillsInv
  <2> QED
    BY <2>2, <2>6, <2>8, ProcessSteps DEF FillsInv
<1> QED
  BY <1>1, <1>2 DEF EngineSteps

\* A worker gets work, submits it, or fails.
LEMMA WorkerGetsKeeps ==
    ASSUME FillsInv, NEW w \in Workers, OrderWorkerGets(w)
    PROVE  FillsInv'
<1>1. PICK S : workQueue \in Seq(S) /\ \A x \in S : SellsOnly(x)
  BY DEF FillsInv, WorkInv, SellsOnlyAll
<1>2. /\ workQueue # <<>> /\ workQueue' = Tail(workQueue)
      /\ worker' = [worker EXCEPT ![w] = [pc |-> "submit", work |-> Head(workQueue)]]
  BY DEF OrderWorkerGets
<1>3. Head(workQueue) \in S /\ Tail(workQueue) \in Seq(S)
  BY <1>1, <1>2
<1>4. SellsOnlyAll(workQueue')
  BY <1>1, <1>2, <1>3, WorkOf
<1>5. \A u \in Workers : worker'[u].pc # "idle" => SellsOnly(worker'[u].work)
  BY <1>1, <1>2, <1>3 DEF FillsInv, WorkInv
<1>6. UNCHANGED <<clock, exchange, feed, callback, statuses, refresh, app, backoff,
                  orders, hydrated>>
  BY DEF OrderWorkerGets, exchangeVars, storeVars, appVars
<1>7. WorkInv'
  BY <1>2, <1>4, <1>5, <1>6 DEF FillsInv, WorkInv, SellsOnlyAll, SellsOnly
<1> QED
  BY <1>6, <1>7, ProcessSteps DEF FillsInv

LEMMA SubmitKeeps ==
    ASSUME FillsInv, NEW w \in Workers, Submit(w)
    PROVE  FillsInv'
<1> DEFINE o == worker[w].work.order
<1>1. o \in TakeProfits
  BY DEF Submit, FillsInv, WorkInv, SellsOnly
<1>2. UNCHANGED <<clock, callback, statuses, refresh, app, workQueue, backoff, orders,
                  hydrated>>
  BY DEF Submit, storeVars, appVars
<1>3. PICK e : Changes(o, e) \/ Rest(o, e) \/ UNCHANGED <<exchange, feed>>
  <2>1. CASE SubmitCreate(w)
    BY <2>1 DEF SubmitCreate
  <2>2. CASE SubmitModify(w)
    BY <2>2 DEF SubmitModify, Modify
  <2>3. CASE SubmitSatisfied(w)
    BY <2>3 DEF SubmitSatisfied
  <2>4. CASE SubmitCancel(w)
    BY <2>4 DEF SubmitCancel
  <2> QED
    BY <2>1, <2>2, <2>3, <2>4 DEF Submit
<1>4. ExchangeInv' /\ Falls /\ FeedInv'
  <2> HIDE DEF o
  <2>1. CASE Changes(o, e) \/ Rest(o, e)
    <3>1. clock' \in Nat
      BY <1>2 DEF FillsInv, ExchangeInv
    <3> QED
      BY <1>1, <1>2, <2>1, <3>1, SellChanges DEF FillsInv
  <2>2. CASE UNCHANGED <<exchange, feed>>
    BY <1>2, <2>2, ProcessSteps
  <2> QED
    BY <1>3, <2>1, <2>2
<1>5. WorkInv'
  <2>1. SellsOnly(worker[w].work)
    BY DEF Submit, FillsInv, WorkInv
  <2>2. ASSUME NEW kind PROVE SellsOnly([worker[w].work EXCEPT !.type = kind])
    BY <2>1 DEF SellsOnly
  <2>3. Free(w) \/ \E kind : ToRecord(w, kind)
    BY DEF Submit, SubmitCreate, SubmitModify, SubmitSatisfied, SubmitCancel, Modify
  <2>4. PICK x : (x.pc = "idle" \/ SellsOnly(x.work)) /\ worker' = [worker EXCEPT ![w] = x]
    BY <2>2, <2>3 DEF Free, ToRecord
  <2>5. /\ DOMAIN worker' = Workers
        /\ \A u \in Workers : worker'[u].pc # "idle" => SellsOnly(worker'[u].work)
    BY <2>4, WorkerLeaves DEF FillsInv
  <2> QED
    BY <1>2, <2>5 DEF FillsInv, WorkInv, SellsOnlyAll, SellsOnly
<1> QED
  BY <1>2, <1>4, <1>5, QuietStore, QuietAnswers, QuietTracker DEF FillsInv

LEMMA FreeKeeps ==
    ASSUME FillsInv, NEW w \in Workers, SubmitFails(w) \/ WorkerRecords(w)
    PROVE  FillsInv'
<1>1. UNCHANGED <<clock, exchange, feed, callback, statuses, refresh, app, workQueue,
                  orders, hydrated>>
  BY DEF SubmitFails, WorkerRecords, exchangeVars, storeVars, appVars
<1>2. /\ DOMAIN worker' = Workers
      /\ \A u \in Workers : worker'[u].pc # "idle" => SellsOnly(worker'[u].work)
  <2>1. PICK x : x.pc = "idle" /\ worker' = [worker EXCEPT ![w] = x]
    BY DEF SubmitFails, WorkerRecords, Free
  <2> QED
    BY <2>1, WorkerLeaves DEF FillsInv
<1>3. SellsOnlyAll(backoff')
  <2>1. CASE SubmitFails(w)
    <3> DEFINE work == worker[w].work
               again == [work EXCEPT !.tries = @ + 1]
    <3>1. SellsOnly(work)
      BY <2>1 DEF SubmitFails, FillsInv, WorkInv
    <3>2. SellsOnly(again)
      BY <3>1 DEF SellsOnly
    <3>3. backoff' = backoff \/ backoff' = Append(backoff, again)
      BY <2>1 DEF SubmitFails
    <3> HIDE DEF again
    <3> QED
      BY <3>2, <3>3, WorkAppended DEF FillsInv, WorkInv
  <2>2. CASE WorkerRecords(w)
    BY <2>2 DEF WorkerRecords, FillsInv, WorkInv
  <2> QED
    BY <2>1, <2>2
<1>4. WorkInv'
  BY <1>1, <1>2, <1>3 DEF FillsInv, WorkInv, SellsOnlyAll, SellsOnly
<1> QED
  BY <1>1, <1>4, ProcessSteps DEF FillsInv

LEMMA BackoffKeeps ==
    ASSUME FillsInv, NEW i \in 1 .. Len(backoff), OrderBackoffEnds(i)
    PROVE  FillsInv'
<1>1. UNCHANGED <<clock, exchange, feed, callback, statuses, refresh, app, worker,
                  orders, hydrated>>
  BY DEF OrderBackoffEnds, exchangeVars, storeVars, appVars
<1>2. PICK S : backoff \in Seq(S) /\ \A x \in S : SellsOnly(x)
  BY DEF FillsInv, WorkInv, SellsOnlyAll
<1>3. SellsOnly(backoff[i])
  BY <1>2
<1>4. SellsOnlyAll(workQueue')
  BY <1>3, WorkAdded DEF OrderBackoffEnds, FillsInv
<1>5. backoff' \in Seq(S)
  <2>1. Len(backoff) \in Nat /\ Len(backoff) - 1 \in Nat
    BY <1>2
  <2>2. backoff' \in [1 .. Len(backoff) - 1 -> S]
    BY <1>2, <2>1 DEF OrderBackoffEnds
  <2> QED
    BY <2>1, <2>2
<1>6. SellsOnlyAll(backoff')
  BY <1>2, <1>5, WorkOf
<1>7. WorkInv'
  BY <1>1, <1>4, <1>6 DEF FillsInv, WorkInv, SellsOnlyAll, SellsOnly
<1> QED
  BY <1>1, <1>7, ProcessSteps DEF FillsInv

\* A crash leaves the exchange and the store.
LEMMA CrashKeeps ==
    ASSUME FillsInv, ProcessCrashes
    PROVE  FillsInv'
<1>1. UNCHANGED <<clock, exchange, statuses>>
  BY DEF ProcessCrashes, exchangeVars, storeVars
<1>2. ExchangeInv' /\ Falls
  BY <1>1, QuietExchange DEF FillsInv
<1>3. FeedInv'
  BY NoReport DEF ProcessCrashes, FeedInv
<1>4. AnswersInv'
  BY DEF ProcessCrashes, AnswersInv, AnswerOK, Refreshed
<1>5. WorkInv'
  BY NoWorkSells DEF ProcessCrashes, WorkInv, SellsOnlyAll, SellsOnly
<1>6. TrackerInv'
  BY DEF ProcessCrashes, TrackerInv, NothingTracked
<1> QED
  BY <1>1, <1>2, <1>3, <1>4, <1>5, <1>6, QuietStore DEF FillsInv

\* No answer is outstanding when a phase of the start begins.
LEMMA PhaseKeeps ==
    ASSUME FillsInv, Restart \/ RefreshEnds
    PROVE  FillsInv'
<1>1. UNCHANGED <<clock, exchange, feed, callback, statuses, workQueue, backoff, worker,
                  orders>>
  BY DEF Restart, RefreshEnds, exchangeVars, storeVars, orderWorkVars
<1>2. AnswersInv'
  BY DEF Restart, RefreshEnds, AnswersInv, AnswerOK, Refreshed, Todo
<1>3. hydrated' \in BOOLEAN
  <2>1. CASE Restart
    BY <2>1 DEF Restart, FillsInv, TrackerInv
  <2>2. CASE RefreshEnds
    BY <2>2, Zenon DEF RefreshEnds
  <2> QED
    BY <2>1, <2>2
<1>4. TrackerInv'
  BY <1>1, <1>3 DEF FillsInv, TrackerInv, Bought
<1> QED
  BY <1>1, <1>2, <1>4, ProcessSteps DEF FillsInv

\* What the exchange answers is true at that moment.
LEMMA QueryKeeps ==
    ASSUME FillsInv, NEW o \in Orders, RefreshQueries(o)
    PROVE  FillsInv'
<1>1. UNCHANGED <<clock, exchange, feed, callback, statuses, workQueue, backoff, worker,
                  orders, hydrated, app>>
  BY DEF RefreshQueries, exchangeVars, storeVars, orderWorkVars
<1>2. PICK x : refresh' = [refresh EXCEPT ![o] = x]
               /\ (x.pc # "answer" \/ x = Answer(Report(o, exchange[o])))
  BY DEF RefreshQueries, Refreshed, Failed
<1>3. PICK m : m = Report(o, exchange[o])
  OBVIOUS
<1>4. m.order = o /\ (o \in Buys => m \in Reports(o))
  BY <1>3, Constants DEF Report, Reports, FillsInv, ExchangeInv, BuyOK
<1>5. ASSUME NEW b \in Buys PROVE Reports(b)' = Reports(b)
  BY <1>1 DEF Reports
<1>6. ASSUME NEW p \in Orders PROVE AnswerOK(p)'
  <2>1. CASE p = o
    <3>1. refresh'[o] = x
      BY <1>2 DEF FillsInv, AnswersInv
    <3>2. CASE x.pc # "answer"
      BY <2>1, <3>1, <3>2 DEF AnswerOK
    <3>3. CASE x = Answer(m)
      <4>1. refresh'[o].m = m
        BY <3>1, <3>3 DEF Answer
      <4> QED
        BY <1>4, <1>5, <2>1, <4>1 DEF AnswerOK, TrueReport
    <3> QED
      BY <1>2, <1>3, <3>2, <3>3
  <2>2. CASE p # o
    <3>1. refresh'[p] = refresh[p]
      BY <1>2, <2>2 DEF FillsInv, AnswersInv
    <3> QED
      BY <1>1, <1>5, <3>1 DEF FillsInv, AnswersInv, AnswerOK, TrueReport
  <2> QED
    BY <2>1, <2>2
<1>7. AnswersInv'
  BY <1>2, <1>6 DEF FillsInv, AnswersInv
<1> QED
  BY <1>1, <1>7, ProcessSteps DEF FillsInv

\* What the store holds was true once.
LEMMA LoadKeeps ==
    ASSUME FillsInv, NEW o \in Orders, RebuildLoads(o)
    PROVE  FillsInv'
<1>1. UNCHANGED <<clock, exchange, feed, callback, statuses, workQueue, backoff, worker,
                  orders, hydrated, app>>
  BY DEF RebuildLoads, exchangeVars, storeVars, orderWorkVars
<1>2. refresh' = [refresh EXCEPT ![o] = Answer(statuses[o])] /\ app' = "rebuild"
  BY <1>1 DEF RebuildLoads
<1>3. ASSUME NEW b \in Buys PROVE Reports(b)' = Reports(b)
  BY <1>1 DEF Reports
<1>4. ASSUME NEW p \in Orders PROVE AnswerOK(p)'
  <2>1. CASE p = o
    <3>1. refresh'[o].m = statuses[o]
      BY <1>2 DEF FillsInv, AnswersInv, Answer
    <3> QED
      BY <1>2, <1>3, <2>1, <3>1 DEF AnswerOK, FillsInv, StoreInv
  <2>2. CASE p # o
    <3>1. refresh'[p] = refresh[p]
      BY <1>2, <2>2 DEF FillsInv, AnswersInv
    <3> QED
      BY <1>2, <1>3, <3>1 DEF FillsInv, AnswersInv, AnswerOK, TrueReport
  <2> QED
    BY <2>1, <2>2
<1>5. AnswersInv'
  BY <1>2, <1>4 DEF FillsInv, AnswersInv
<1> QED
  BY <1>1, <1>5, ProcessSteps DEF FillsInv

\* An answer that was dealt with leaves the others.
LEMMA AnswerDone ==
    ASSUME FillsInv, NEW o \in Orders, refresh' = [refresh EXCEPT ![o] = Refreshed],
           UNCHANGED <<exchange, app>>
    PROVE  AnswersInv'
<1>1. ASSUME NEW b \in Buys PROVE Reports(b)' = Reports(b)
  BY DEF Reports
<1>2. ASSUME NEW p \in Orders PROVE AnswerOK(p)'
  <2>1. CASE p = o
    BY <2>1 DEF FillsInv, AnswersInv, AnswerOK, Refreshed
  <2>2. CASE p # o
    <3>1. refresh'[p] = refresh[p]
      BY <2>2 DEF FillsInv, AnswersInv
    <3> QED
      BY <1>1, <3>1 DEF FillsInv, AnswersInv, AnswerOK, TrueReport
  <2> QED
    BY <2>1, <2>2
<1> QED
  BY <1>2 DEF FillsInv, AnswersInv

LEMMA RefreshKeeps ==
    ASSUME FillsInv, NEW o \in Orders, RefreshApplies(o)
    PROVE  FillsInv'
<1>1. UNCHANGED <<clock, exchange, feed, callback, workQueue, backoff, worker, app>>
  BY DEF RefreshApplies, exchangeVars, orderWorkVars
<1>2. PICK m : m = refresh[o].m
  OBVIOUS
<1>3. m.order = o /\ TrueReport(m)
  BY <1>2 DEF RefreshApplies, FillsInv, AnswersInv, AnswerOK
<1>4. UpdateStatus(o, m) /\ statuses' = [statuses EXCEPT ![o] = m]
  BY <1>2 DEF RefreshApplies
<1>5. TrackerInv'
  BY <1>1, <1>3, <1>4, UpdateTracks DEF FillsInv
<1>6. StoreInv'
  BY <1>1, <1>3, <1>4 DEF FillsInv, StoreInv, TrueReport, Reports
<1>7. AnswersInv'
  BY <1>1, AnswerDone DEF RefreshApplies
<1> QED
  BY <1>1, <1>5, <1>6, <1>7, ProcessSteps DEF FillsInv

\* The rebuild believes the status it loaded, and caps it by the audited size.
LEMMA RebuiltBelieves ==
    ASSUME FillsInv, NEW o \in Buys, NEW s, Believes(s, Bought(o)),
           NEW m, m.status # "none" => m \in Reports(o)
    PROVE  Believes(Rebuilt(s, o, m), Bought(o))
<1> DEFINE event == applyEvent(s, Size[o], o \in TakeProfits)
           status == IF m.status # "none" THEN applyStatus(event, m)
                                          ELSE inferFromEvent(event, EventTime)
<1>1. Bought(o) \in 0 .. Size[o] /\ Bought(o) \in Nat /\ Size[o] \in Nat
  BY BoughtSome DEF FillsInv
<1>2. Believes(event, Bought(o))
  <2>1. PICK t \in BOOLEAN : t = FALSE
    OBVIOUS
  <2>2. (o \in TakeProfits) = FALSE
    BY Constants
  <2>3. Believes(applyEvent(s, Size[o], t), Bought(o))
    BY <1>1, EventBelieves
  <2> QED
    BY <2>1, <2>2, <2>3
<1> HIDE DEF event
<1>3. Believes(status, Bought(o))
  <2>1. CASE m.status # "none"
    <3>1. Size[o] - Bought(o) = exchange[o].sz
      BY Constants DEF FillsInv, ExchangeInv, BuyOK, Bought
    <3>2. Reported(m, Size[o], Bought(o))
      BY <1>1, <2>1, <3>1 DEF Reported, Reports
    <3>3. Believes(applyStatus(event, m), Bought(o))
      BY <1>1, <1>2, <3>2, StatusBelieves
    <3> QED
      BY <2>1, <3>3
  <2>2. CASE m.status = "none"
    <3>1. Believes(inferFromEvent(event, EventTime), Bought(o))
      BY <1>1, <1>2, InferBelieves DEF EventTime
    <3> QED
      BY <2>2, <3>1
  <2> QED
    BY <2>1, <2>2
<1> HIDE DEF status
<1>4. Believes(applyScaledSize(status, Size[o]), Bought(o))
  BY <1>1, <1>3, ScaledBelieves
<1> QED
  BY <1>3, <1>4 DEF Rebuilt, event, status

LEMMA RebuildKeeps ==
    ASSUME FillsInv, NEW o \in Orders, RebuildApplies(o)
    PROVE  FillsInv'
<1> DEFINE known == ensureOrder(orders, o)
<1>1. UNCHANGED <<clock, exchange, feed, callback, statuses, workQueue, backoff, worker,
                  app, hydrated>>
  BY DEF RebuildApplies, exchangeVars, storeVars, orderWorkVars
<1>2. PICK m : m = refresh[o].m
  OBVIOUS
<1>3. o \in Buys => (m.status # "none" => m \in Reports(o))
  BY <1>2 DEF RebuildApplies, FillsInv, AnswersInv, AnswerOK
<1>4. orders' = [known EXCEPT ![o] = Rebuilt(known[o], o, m)]
  BY <1>2 DEF RebuildApplies
<1>5. Tracks(known) /\ o \in DOMAIN known
  BY EnsureTracks DEF FillsInv, TrackerInv, Tracks
<1> HIDE DEF known
<1>6. o \in Buys => Believes(Rebuilt(known[o], o, m), Bought(o))
  BY <1>3, <1>5, RebuiltBelieves DEF Tracks
<1>7. PICK os : os = orders'
  OBVIOUS
<1>8. Tracks(os)
  BY <1>4, <1>5, <1>6, <1>7, PutTracks
<1>9. TrackerInv'
  BY <1>1, <1>7, <1>8 DEF FillsInv, TrackerInv, Tracks, Bought
<1>10. AnswersInv'
  BY <1>1, AnswerDone DEF RebuildApplies
<1> QED
  BY <1>1, <1>9, <1>10, ProcessSteps DEF FillsInv

\* Closing the open buys of a finished deal changes no fill.
LEMMA RebuildEndKeeps ==
    ASSUME FillsInv, RebuildEnds
    PROVE  FillsInv'
<1>1. UNCHANGED <<clock, exchange, feed, callback, statuses, refresh, workQueue, backoff,
                  worker, hydrated>>
  BY DEF RebuildEnds, exchangeVars, storeVars, orderWorkVars
<1>2. AnswersInv'
  BY DEF RebuildEnds, FillsInv, AnswersInv, AnswerOK, Refreshed
<1>3. TrackerInv'
  <2>1. CASE orders' = orders
    BY <1>1, <2>1, ProcessSteps
  <2>2. CASE orders' = closeOpenOrdersForDeal
    <3>1. DOMAIN orders' = DOMAIN orders
      BY <2>2 DEF closeOpenOrdersForDeal
    <3>2. ASSUME NEW o \in DOMAIN orders \cap Buys
          PROVE  Believes(orders'[o], Bought(o))
      <4>1. Believes(orders[o], Bought(o)) /\ clock \in Nat /\ Bought(o) \in Nat
        BY BoughtSome DEF FillsInv, TrackerInv, ExchangeInv
      <4>2. Believes(markCancelled(orders[o], clock), Bought(o))
        BY <4>1, CancelledBelieves
      <4>3. orders'[o] = orders[o] \/ orders'[o] = markCancelled(orders[o], clock)
        BY <2>2 DEF closeOpenOrdersForDeal
      <4> QED
        BY <4>1, <4>2, <4>3
    <3> QED
      BY <1>1, <3>1, <3>2 DEF FillsInv, TrackerInv, Bought
  <2> QED
    BY <2>1, <2>2 DEF RebuildEnds
<1> QED
  BY <1>1, <1>2, <1>3, ProcessSteps DEF FillsInv

LEMMA FillsStep == FillsInv /\ [NextTakeProfit]_takeProfitVars => FillsInv'
<1> SUFFICES ASSUME FillsInv, [NextTakeProfit]_takeProfitVars PROVE FillsInv'
  OBVIOUS
<1>1. CASE Tick
  <2>1. clock' \in Nat /\ UNCHANGED <<exchange, feed, callback, statuses, refresh,
                                      app, workQueue, backoff, worker, orders, hydrated>>
    BY <1>1 DEF Tick, exchangeVars, storeVars, orderWorkVars, appVars, FillsInv, ExchangeInv
  <2>2. ExchangeInv' /\ Falls
    BY <2>1, Constants DEF FillsInv, ExchangeInv, BuyOK, Falls
  <2> QED
    BY <2>1, <2>2, QuietFeed, ExchangeSteps DEF FillsInv
<1>2. CASE ReconcileTakeProfits
  <2>1. UNCHANGED <<clock, exchange, feed, callback, statuses, refresh, app, workQueue,
                    backoff, worker, orders, hydrated>>
    BY <1>2 DEF ReconcileTakeProfits, exchangeVars, storeVars, orderWorkVars, appVars
  <2> QED
    BY <2>1, ProcessSteps DEF FillsInv
<1>3. CASE CleanupStaleDeals
  <2>1. UNCHANGED <<clock, exchange, feed, callback, statuses, refresh, app, workQueue,
                    backoff, worker, hydrated>>
    BY <1>3 DEF CleanupStaleDeals, exchangeVars, storeVars, orderWorkVars, appVars
  <2>2. TrackerInv'
    BY <1>3, <2>1 DEF CleanupStaleDeals, FillsInv, TrackerInv, NothingTracked
  <2> QED
    BY <2>1, <2>2, ProcessSteps DEF FillsInv
<1>4. CASE \E o \in Buys : Buy(o) \/ BuyCancelled(o)
  BY <1>4, BuyKeeps
<1>5. CASE \E o \in TakeProfits : \E n \in 1 .. Largest : Sell(o, n)
  BY <1>5, SellKeeps
<1>6. CASE \E v \in Venues : Callback(v)
  BY <1>6, CallbackKeeps
<1>7. CASE \E g \in Goroutines, v \in Venues : Reconcile(g, v)
  BY <1>7, ReconcileKeeps
<1>8. CASE EngineSteps
  BY <1>8, EngineKeeps
<1>9. CASE \E w \in Workers : WorkerSteps(w) \/ SubmitFails(w)
  BY <1>9, WorkerGetsKeeps, SubmitKeeps, FreeKeeps DEF WorkerSteps
<1>10. CASE \E i \in 1 .. Len(backoff) : OrderBackoffEnds(i)
  BY <1>10, BackoffKeeps
<1>11. CASE ProcessCrashes
  BY <1>11, CrashKeeps
<1>12. CASE Boot
  BY <1>12, PhaseKeeps, RebuildEndKeeps, QueryKeeps, RefreshKeeps, LoadKeeps,
     RebuildKeeps DEF Boot
<1>13. CASE UNCHANGED takeProfitVars
  <2>1. UNCHANGED <<clock, exchange, feed, callback, statuses, refresh, app, workQueue,
                    backoff, worker, orders, hydrated>>
    BY <1>13 DEF takeProfitVars, exchangeVars, storeVars, orderWorkVars, appVars
  <2> QED
    BY <2>1, ProcessSteps DEF FillsInv
<1> QED
  BY <1>1, <1>2, <1>3, <1>4, <1>5, <1>6, <1>7, <1>8, <1>9, <1>10, <1>11, <1>12, <1>13
  DEF NextTakeProfit

\* The fill tracker never believes in more fills of a buy than there were: whatever is
\* lost, late or reported twice, whichever goroutine applies it, and over any number of
\* crashes, failed queries and rebuilds (filltracker/service.go, applyStatus).
THEOREM FillsHold == SpecTakeProfit => []FillsNotAhead
<1>1. FillsInv => FillsNotAhead
  BY DEF FillsInv, TrackerInv, FillsNotAhead, Believes
<1> QED
  BY <1>1, FillsInit, FillsStep, PTL DEF SpecTakeProfit

-----------------------------------------------------------------------------
(* Tracker and exchange agree once everything is delivered *)

Latest(o) == Report(o, exchange[o])

\* m is no report of a buy, or not newer than the last one, nor another of its time.
Timely(m) ==
    \A o \in Buys : m.order = o =>
        /\ m.status # "none" /\ m.at \in Nat /\ m.at <= exchange[o].at
        /\ m.at = exchange[o].at => m = Latest(o)

\* s says what e says.
Heard(s, e) ==
    /\ s.status = e.status /\ s.filledQty = e.origSz - e.sz
    /\ s.statusObserved = e.at

\* The tracker has heard the last of o, or will.
Current(o) == o \in DOMAIN orders /\ Heard(orders[o], exchange[o])

Awaited(o) ==
    \E i \in 1 .. Len(feed[VenueOf[o]]) : feed[VenueOf[o]][i] = Latest(o)

Knows(o) == Current(o) \/ Awaited(o)

TimesInv ==
    \A o \in Buys :
        /\ exchange[o].status # "none"
        /\ exchange[o].at >= 1 /\ exchange[o].at <= clock
        /\ o \in DOMAIN orders => orders[o].statusObserved <= exchange[o].at

TimelyInv ==
    /\ \A v \in Venues : \A i \in 1 .. Len(feed[v]) : Timely(feed[v][i])
    /\ \A o \in Buys : statuses[o].status # "none" => Timely(statuses[o])
    /\ \A o \in Buys : refresh[o].pc = "answer" =>
          refresh[o].m.status # "none" /\ Timely(refresh[o].m)

\* After every report of a buy in a feed comes the last one.
Ends(q, v) ==
    \A i \in 1 .. Len(q) : \A o \in Buys : q[i].order = o =>
        VenueOf[o] = v /\ \E j \in i .. Len(q) : q[j] = Latest(o)

EndsInv ==
    /\ app = "down" => \A v \in Venues : feed[v] = <<>>
    /\ \A v \in Venues : Ends(feed[v], v)

\* What a callback is still to record, the tracker has heard.
HeadInv ==
    \A v \in Venues : callback[v] = "record" =>
        \A o \in Buys : Head(feed[v]) = Latest(o) => Current(o)

\* A start asks for every buy, and stores an answer before the rebuild reads it.
PhaseOK(o) ==
    /\ app = "run" => (o \in DOMAIN orders => Knows(o))
    /\ app = "rebuild" => statuses[o].status # "none" /\ Knows(o)
    /\ app = "refresh" /\ refresh[o].pc # "todo" =>
          \/ /\ refresh[o].pc = "done"
             /\ statuses[o].status # "none" /\ Knows(o)
          \/ /\ refresh[o].pc = "answer"
             /\ Knows(o) \/ refresh[o].m = Latest(o)

PhaseInv ==
    /\ DOMAIN submissions = Orders
    /\ \A o \in Buys : submissions[o].kind # "none" /\ PhaseOK(o)

AgreeInv == TimesInv /\ TimelyInv /\ EndsInv /\ HeadInv /\ PhaseInv

-----------------------------------------------------------------------------
(* What one status does to a tracked buy *)

LEMMA NewHears ==
    ASSUME NEW h
    PROVE  NewOrder(h).statusObserved = 0
  BY DEF NewOrder

LEMMA EventHears ==
    ASSUME NEW s \in OrderState, NEW size, NEW t
    PROVE  /\ applyEvent(s, size, t).statusObserved = s.statusObserved
           /\ applyEvent(s, size, t).status = s.status
           /\ applyEvent(s, size, t).filledQty = s.filledQty
  BY DEF applyEvent, OrderState

\* An older status changes nothing that was heard, the last one is heard.
LEMMA StatusHears ==
    ASSUME NEW n \in Nat \ {0}, NEW e, e.origSz = n, e.sz \in 0 .. n, e.at \in Nat,
           NEW s \in OrderState, s.statusObserved <= e.at,
           NEW m, m.at \in Nat, m.at <= e.at,
           m.at = e.at => m.status = e.status /\ m.origSz = n /\ m.sz = e.sz
    PROVE  /\ applyStatus(s, m).statusObserved <= e.at
           /\ Heard(s, e) => Heard(applyStatus(s, m), e)
           /\ m.at = e.at => Heard(applyStatus(s, m), e)
<1>1. CASE m.at < s.statusObserved
  BY <1>1 DEF applyStatus, OrderState
<1>2. CASE ~(m.at < s.statusObserved)
  <2> DEFINE r == applyStatus(s, m)
  <2>1. /\ r.statusObserved = m.at /\ r.status = m.status
        /\ m.origSz > 0 => r.filledQty = Minus(m.origSz, m.sz)
    BY <1>2 DEF applyStatus, OrderState
  <2> HIDE DEF r
  <2>2. m.at = e.at => Heard(r, e)
    <3>1. ASSUME m.at = e.at PROVE Heard(r, e)
      <4>1. m.origSz = n /\ m.sz = e.sz /\ m.status = e.status
        BY <3>1
      <4>2. Minus(n, e.sz) = n - e.sz
        BY DEF Minus
      <4>3. m.origSz > 0
        BY <4>1
      <4> QED
        BY <2>1, <3>1, <4>1, <4>2, <4>3 DEF Heard
    <3> QED
      BY <3>1
  <2>3. Heard(s, e) => m.at = e.at
    BY <1>2 DEF Heard, OrderState
  <2> QED
    BY <2>1, <2>2, <2>3 DEF r
<1> QED
  BY <1>1, <1>2

LEMMA ScaledHears ==
    ASSUME NEW s \in OrderState, NEW size \in Nat, s.filledQty <= size
    PROVE  /\ applyScaledSize(s, size).statusObserved = s.statusObserved
           /\ applyScaledSize(s, size).status = s.status
           /\ applyScaledSize(s, size).filledQty = s.filledQty
  BY DEF applyScaledSize, OrderState

LEMMA BuyFacts ==
    ASSUME FillsInv, NEW o \in Buys
    PROVE  /\ exchange[o].origSz = Size[o] /\ exchange[o].sz \in 0 .. Size[o]
           /\ exchange[o].at \in Nat /\ Size[o] \in Nat \ {0}
           /\ Bought(o) = exchange[o].origSz - exchange[o].sz
           /\ VenueOf[o] \in Venues
<1>1. Size[o] \in Nat \ {0} /\ VenueOf[o] \in Venues
  BY TakeProfitAssumption DEF Orders
<1>2. BuyOK(o)
  BY DEF FillsInv, ExchangeInv
<1> QED
  BY <1>1, <1>2 DEF BuyOK, Bought

\* One status, applied to what is known of its buy.
LEMMA OneHears ==
    ASSUME FillsInv, NEW o \in Buys, NEW s, Believes(s, Bought(o)),
           s.statusObserved <= exchange[o].at,
           NEW m, m \in Reports(o), Timely(m)
    PROVE  LET r == applyStatus(applyEvent(s, Size[o], o \in TakeProfits), m)
           IN  /\ r \in OrderState /\ r.filledQty <= Size[o]
               /\ r.statusObserved <= exchange[o].at
               /\ Heard(s, exchange[o]) => Heard(r, exchange[o])
               /\ m = Latest(o) => Heard(r, exchange[o])
<1> DEFINE event == applyEvent(s, Size[o], o \in TakeProfits)
           r == applyStatus(event, m)
<1>1. /\ Bought(o) \in 0 .. Size[o] /\ Bought(o) \in Nat
      /\ Size[o] - Bought(o) = exchange[o].sz
  BY BuyFacts
<1>2. Believes(event, Bought(o))
  <2>1. PICK t \in BOOLEAN : t = FALSE
    OBVIOUS
  <2>2. (o \in TakeProfits) = FALSE
    BY Constants
  <2>3. Believes(applyEvent(s, Size[o], t), Bought(o))
    BY <1>1, BuyFacts, EventBelieves
  <2> QED
    BY <2>1, <2>2, <2>3
<1>3. /\ event.statusObserved = s.statusObserved /\ event.status = s.status
      /\ event.filledQty = s.filledQty
  <2>1. s \in OrderState
    BY DEF Believes
  <2> QED
    BY <2>1, EventHears
<1> HIDE DEF event
<1>4. Reported(m, Size[o], Bought(o))
  BY <1>1 DEF Reported, Reports
<1>5. Believes(r, Bought(o))
  BY <1>1, <1>2, <1>4, BuyFacts, StatusBelieves
<1>6. m.at \in Nat /\ m.at <= exchange[o].at /\ (m.at = exchange[o].at => m = Latest(o))
  BY DEF Timely, Reports
<1>7. m = Latest(o) => /\ m.at = exchange[o].at /\ m.status = exchange[o].status
                       /\ m.origSz = exchange[o].origSz /\ m.sz = exchange[o].sz
  BY DEF Latest, Report
<1>8. /\ r.statusObserved <= exchange[o].at
      /\ Heard(event, exchange[o]) => Heard(r, exchange[o])
      /\ m.at = exchange[o].at => Heard(r, exchange[o])
  <2>1. event \in OrderState
    BY <1>2 DEF Believes
  <2>2. PICK n, e : n = Size[o] /\ e = exchange[o]
    OBVIOUS
  <2>3. /\ n \in Nat \ {0} /\ e.origSz = n /\ e.sz \in 0 .. n /\ e.at \in Nat
        /\ event.statusObserved <= e.at /\ m.at \in Nat /\ m.at <= e.at
        /\ m.at = e.at => m.status = e.status /\ m.origSz = n /\ m.sz = e.sz
    BY <1>3, <1>6, <1>7, <2>2, BuyFacts
  <2>4. /\ r.statusObserved <= e.at
        /\ Heard(event, e) => Heard(r, e)
        /\ m.at = e.at => Heard(r, e)
    BY <2>1, <2>3, StatusHears
  <2> QED
    BY <2>2, <2>4
<1>9. Heard(s, exchange[o]) => Heard(event, exchange[o])
  BY <1>3 DEF Heard
<1>10. r \in OrderState /\ r.filledQty <= Size[o]
  BY <1>1, <1>5, BuyFacts DEF Believes, OrderState
<1> QED
  BY <1>7, <1>8, <1>9, <1>10 DEF event

\* UpdateStatus, seen from one order.
LEMMA UpdateValue ==
    ASSUME NEW g, NEW m, UpdateStatus(g, m)
    PROVE  /\ DOMAIN orders' = DOMAIN orders \cup {m.order}
           /\ \A p \in DOMAIN orders : p # m.order => orders'[p] = orders[p]
           /\ LET s == IF m.order \in DOMAIN orders THEN orders[m.order]
                                                   ELSE NewOrder(hydrated)
                  r == applyStatus(applyEvent(s, Size[m.order],
                                              m.order \in TakeProfits), m)
              IN  orders'[m.order] = r \/ orders'[m.order] = [r EXCEPT !.hydrated = TRUE]
<1> DEFINE o == m.order
           known == ensureOrder(orders, o)
           s == IF o \in DOMAIN orders THEN orders[o] ELSE NewOrder(hydrated)
           r == applyStatus(applyEvent(s, Size[o], o \in TakeProfits), m)
           event == [known EXCEPT ![o] = applyEvent(@, Size[o], o \in TakeProfits)]
           status == [event EXCEPT ![o] = applyStatus(@, m)]
<1>1. /\ DOMAIN known = DOMAIN orders \cup {o}
      /\ known[o] = s /\ \A p \in DOMAIN orders : p # o => known[p] = orders[p]
  <2>1. CASE o \in DOMAIN orders
    BY <2>1 DEF ensureOrder
  <2>2. CASE o \notin DOMAIN orders
    <3>1. known = [x \in DOMAIN orders \cup {o} |->
                      IF x = o THEN NewOrder(hydrated) ELSE orders[x]]
      BY <2>2 DEF ensureOrder
    <3> HIDE DEF known
    <3> QED
      BY <2>2, <3>1
  <2> QED
    BY <2>1, <2>2
<1>2. orders' = MarkHydrated(status, o)
  BY DEF UpdateStatus
<1> HIDE DEF known, s, o
<1>3. /\ DOMAIN status = DOMAIN known /\ status[o] = r
      /\ \A p \in DOMAIN known : p # o => status[p] = known[p]
  BY <1>1
<1> HIDE DEF status, r
<1>4. orders' = status \/ orders' = [status EXCEPT ![o].hydrated = TRUE]
  BY <1>2 DEF MarkHydrated
<1>5. orders' = status \/ orders' = [status EXCEPT ![o] = [status[o] EXCEPT !.hydrated = TRUE]]
  BY <1>4
<1>6. /\ DOMAIN orders' = DOMAIN orders \cup {o}
      /\ \A p \in DOMAIN orders : p # o => orders'[p] = orders[p]
      /\ orders'[o] = r \/ orders'[o] = [r EXCEPT !.hydrated = TRUE]
  BY <1>1, <1>3, <1>5
<1> QED
  BY <1>6 DEF o, r, s

\* What a status from the feed or from the refresher does to every buy.
LEMMA UpdateHears ==
    ASSUME FillsInv, TimesInv, NEW g, NEW m, TrueReport(m), Timely(m),
           UpdateStatus(g, m), UNCHANGED exchange
    PROVE  \A o \in Buys :
              /\ o \in DOMAIN orders' => orders'[o].statusObserved <= exchange[o].at
              /\ Current(o) => Current(o)'
              /\ m = Latest(o) => Current(o)'
              /\ o \in DOMAIN orders' => o \in DOMAIN orders \/ m.order = o
<1> SUFFICES ASSUME NEW o \in Buys
             PROVE  /\ o \in DOMAIN orders' => orders'[o].statusObserved <= exchange[o].at
                    /\ Current(o) => Current(o)'
                    /\ m = Latest(o) => Current(o)'
                    /\ o \in DOMAIN orders' => o \in DOMAIN orders \/ m.order = o
  OBVIOUS
<1>1. /\ DOMAIN orders' = DOMAIN orders \cup {m.order}
      /\ \A p \in DOMAIN orders : p # m.order => orders'[p] = orders[p]
  BY UpdateValue
<1>2. CASE m.order # o
  <2>1. m # Latest(o)
    BY <1>2 DEF Latest, Report
  <2> QED
    BY <1>1, <1>2, <2>1 DEF TimesInv, Current
<1>3. CASE m.order = o
  <2> DEFINE s == IF o \in DOMAIN orders THEN orders[o] ELSE NewOrder(hydrated)
             r == applyStatus(applyEvent(s, Size[o], o \in TakeProfits), m)
  <2>1. orders'[o] = r \/ orders'[o] = [r EXCEPT !.hydrated = TRUE]
    BY <1>3, UpdateValue
  <2>2. Believes(s, Bought(o)) /\ s.statusObserved <= exchange[o].at
    <3>1. CASE o \in DOMAIN orders
      BY <3>1 DEF FillsInv, TrackerInv, TimesInv
    <3>2. CASE o \notin DOMAIN orders
      <4>1. Bought(o) \in Nat /\ hydrated \in BOOLEAN
        BY BoughtSome DEF FillsInv, TrackerInv
      <4>2. Believes(NewOrder(hydrated), Bought(o))
        BY <4>1, NewBelieves
      <4>3. 0 <= exchange[o].at
        BY BuyFacts
      <4> QED
        BY <3>2, <4>2, <4>3, NewHears
    <3> QED
      BY <3>1, <3>2
  <2>3. m \in Reports(o)
    BY <1>3 DEF TrueReport
  <2>4. Current(o) => Heard(s, exchange[o])
    BY DEF Current
  <2> HIDE DEF s
  <2>5. /\ r \in OrderState /\ r.statusObserved <= exchange[o].at
        /\ Heard(s, exchange[o]) => Heard(r, exchange[o])
        /\ m = Latest(o) => Heard(r, exchange[o])
    BY <2>2, <2>3, OneHears
  <2> HIDE DEF r
  <2>6. /\ orders'[o].statusObserved = r.statusObserved
        /\ orders'[o].status = r.status /\ orders'[o].filledQty = r.filledQty
    BY <2>1, <2>5 DEF OrderState
  <2>7. Heard(r, exchange[o]) => Heard(orders'[o], exchange'[o])
    BY <2>6 DEF Heard
  <2> QED
    BY <1>1, <1>3, <2>4, <2>5, <2>6, <2>7 DEF Current
<1> QED
  BY <1>2, <1>3

-----------------------------------------------------------------------------
(* The exchange and its feeds *)

\* While no buy changes, the last reports stay the last ones.
LEMMA SameExchange ==
    ASSUME \A o \in Buys : exchange'[o] = exchange[o]
    PROVE  /\ \A o \in Buys : Latest(o)' = Latest(o)
           /\ \A m : Timely(m) => Timely(m)'
           /\ \A q, v : Ends(q, v) => Ends(q, v)'
<1>1. \A o \in Buys : Latest(o)' = Latest(o)
  BY DEF Latest, Report
<1>2. \A m : Timely(m) => Timely(m)'
  BY <1>1 DEF Timely
<1>3. \A q, v : Ends(q, v) => Ends(q, v)'
  BY <1>1 DEF Ends
<1> QED
  BY <1>1, <1>2, <1>3

\* The tracker's view of the buys does not change.
SameBuys ==
    \A o \in Buys : /\ o \in DOMAIN orders' <=> o \in DOMAIN orders
                    /\ o \in DOMAIN orders => orders'[o] = orders[o]

\* A step that leaves the buys, their reports and the phase alone.
LEMMA QuietAgree ==
    ASSUME FillsInv, AgreeInv, SameBuys, clock' \in Nat, clock' >= clock,
           UNCHANGED <<exchange, feed, callback, statuses, submissions, refresh, app>>
    PROVE  AgreeInv'
<1>1. /\ \A o \in Buys : Latest(o)' = Latest(o)
      /\ \A m : Timely(m) => Timely(m)'
      /\ \A q, v : Ends(q, v) => Ends(q, v)'
  BY SameExchange
<1>2. \A o \in Buys : Current(o)' <=> Current(o)
  BY DEF SameBuys, Current
<1>3. \A o \in Buys : Knows(o)' <=> Knows(o)
  BY <1>1, <1>2 DEF Knows, Awaited
<1>4. TimesInv'
  <2>1. clock \in Nat
    BY DEF FillsInv, ExchangeInv
  <2> QED
    BY <2>1, BuyFacts DEF AgreeInv, TimesInv, SameBuys
<1>5. TimelyInv'
  BY <1>1 DEF AgreeInv, TimelyInv
<1>6. EndsInv'
  BY <1>1 DEF AgreeInv, EndsInv
<1>7. HeadInv'
  BY <1>1, <1>2 DEF AgreeInv, HeadInv
<1>8. PhaseInv'
  <2>1. ASSUME NEW o \in Buys PROVE PhaseOK(o)'
    BY <1>1, <1>3 DEF AgreeInv, PhaseInv, PhaseOK, SameBuys
  <2> QED
    BY <2>1 DEF AgreeInv, PhaseInv
<1> QED
  BY <1>4, <1>5, <1>6, <1>7, <1>8 DEF AgreeInv

LEMMA EndsJoined ==
    ASSUME NEW S, NEW q \in Seq(S), NEW ms \in Seq(S), NEW v, Ends(q, v),
           \A k \in 1 .. Len(ms) : ms[k].order \notin Buys
    PROVE  Ends(q \o ms, v)
<1> SUFFICES ASSUME NEW i \in 1 .. Len(q \o ms), NEW o \in Buys,
                    (q \o ms)[i].order = o
             PROVE  VenueOf[o] = v /\ \E j \in i .. Len(q \o ms) : (q \o ms)[j] = Latest(o)
  BY DEF Ends
<1>1. /\ Len(q) \in Nat /\ Len(ms) \in Nat /\ Len(q \o ms) = Len(q) + Len(ms)
      /\ \A k \in 1 .. Len(q) : (q \o ms)[k] = q[k]
      /\ \A k \in Len(q) + 1 .. Len(q) + Len(ms) : (q \o ms)[k] = ms[k - Len(q)]
  OBVIOUS
<1>2. i \in 1 .. Len(q)
  <2>1. i \in 1 .. Len(q) \/ i - Len(q) \in 1 .. Len(ms)
    BY <1>1
  <2>2. i - Len(q) \in 1 .. Len(ms) => i \in Len(q) + 1 .. Len(q) + Len(ms)
    BY <1>1
  <2> QED
    BY <1>1, <2>1, <2>2
<1>3. q[i].order = o
  BY <1>1, <1>2
<1>4. VenueOf[o] = v
  BY <1>2, <1>3 DEF Ends
<1>5. PICK j \in i .. Len(q) : q[j] = Latest(o)
  BY <1>2, <1>3 DEF Ends
<1>6. j \in i .. Len(q \o ms) /\ (q \o ms)[j] = Latest(o)
  BY <1>1, <1>2, <1>5
<1> QED
  BY <1>4, <1>6

\* Messages about take profits join the feeds.
LEMMA SellAgrees ==
    ASSUME FillsInv, AgreeInv, clock' \in Nat, clock' >= clock,
           \A o \in Buys : exchange'[o] = exchange[o],
           NEW v0 \in Venues, NEW T, NEW ms \in Seq(T), Publish(v0, ms),
           \A k \in 1 .. Len(ms) : ms[k].order \notin Buys,
           UNCHANGED <<callback, orders, statuses, submissions, refresh, app>>
    PROVE  AgreeInv'
<1>1. /\ \A o \in Buys : Latest(o)' = Latest(o)
      /\ \A m : Timely(m) => Timely(m)'
      /\ \A q, v : Ends(q, v) => Ends(q, v)'
  BY SameExchange
<1>2. \A o \in Buys : Current(o)' <=> Current(o)
  BY DEF Current
<1>3. ASSUME NEW u \in Venues
      PROVE  /\ \E S : feed[u] \in Seq(S) /\ ms \in Seq(S)
             /\ feed'[u] = feed[u] \/ feed'[u] = feed[u] \o ms
             /\ app = "down" => feed'[u] = feed[u]
  <2>1. PICK S : feed[u] \in Seq(S)
    BY DEF FillsInv, FeedInv, TrueReports
  <2>2. feed[u] \in Seq(S \cup T) /\ ms \in Seq(S \cup T)
    BY <2>1
  <2> QED
    BY <2>2 DEF Publish, FillsInv, FeedInv
<1>4. ASSUME NEW u \in Venues
      PROVE  /\ Len(feed[u]) \in Nat /\ Len(feed'[u]) \in Nat
             /\ Len(feed[u]) <= Len(feed'[u])
             /\ \A i \in 1 .. Len(feed[u]) : feed'[u][i] = feed[u][i]
             /\ \A i \in 1 .. Len(feed'[u]) :
                   i \in 1 .. Len(feed[u]) \/ feed'[u][i].order \notin Buys
  <2>1. PICK S : feed[u] \in Seq(S) /\ ms \in Seq(S)
    BY <1>3
  <2>2. PICK q, n : q = feed[u] /\ n = feed'[u]
    OBVIOUS
  <2>3. CASE n = q
    BY <2>1, <2>2, <2>3
  <2>4. CASE n = q \o ms
    <3>1. /\ Len(q) \in Nat /\ Len(ms) \in Nat /\ Len(n) = Len(q) + Len(ms)
          /\ \A k \in 1 .. Len(q) : n[k] = q[k]
          /\ \A k \in Len(q) + 1 .. Len(n) : n[k] = ms[k - Len(q)]
      BY <2>1, <2>2, <2>4
    <3>2. ASSUME NEW i \in 1 .. Len(n), i \notin 1 .. Len(q) PROVE n[i].order \notin Buys
      <4>1. i - Len(q) \in 1 .. Len(ms) /\ i \in Len(q) + 1 .. Len(n)
        BY <3>1, <3>2
      <4> QED
        BY <3>1, <4>1
    <3> QED
      BY <2>2, <3>1, <3>2
  <2> QED
    BY <1>3, <2>2, <2>3, <2>4
<1>5. TimesInv'
  <2>1. clock \in Nat
    BY DEF FillsInv, ExchangeInv
  <2> QED
    BY <2>1, BuyFacts DEF AgreeInv, TimesInv
<1>6. TimelyInv'
  <2>1. ASSUME NEW u \in Venues, NEW i \in 1 .. Len(feed'[u]) PROVE Timely(feed[u][i])'
    <3>1. PICK m : m = feed'[u][i]
      OBVIOUS
    <3>2. Timely(m)'
      <4>1. CASE m.order \notin Buys
        BY <4>1 DEF Timely
      <4>2. CASE i \in 1 .. Len(feed[u])
        BY <1>1, <1>4, <3>1, <4>2 DEF AgreeInv, TimelyInv
      <4> QED
        BY <1>4, <3>1, <4>1, <4>2
    <3> QED
      BY <3>1, <3>2
  <2>2. \A o \in Buys : statuses[o].status # "none" => Timely(statuses[o])'
    BY <1>1 DEF AgreeInv, TimelyInv
  <2>3. \A o \in Buys : refresh[o].pc = "answer" =>
           refresh[o].m.status # "none" /\ Timely(refresh[o].m)'
    BY <1>1 DEF AgreeInv, TimelyInv
  <2> QED
    BY <2>1, <2>2, <2>3 DEF TimelyInv
<1>7. EndsInv'
  <2>1. ASSUME NEW u \in Venues PROVE Ends(feed[u], u)'
    <3>1. PICK S : feed[u] \in Seq(S) /\ ms \in Seq(S)
      BY <1>3
    <3>2. PICK q, n : q = feed[u] /\ n = feed'[u]
      OBVIOUS
    <3>3. q \in Seq(S) /\ ms \in Seq(S) /\ Ends(q, u)
      BY <3>1, <3>2 DEF AgreeInv, EndsInv
    <3>4. Ends(q \o ms, u)
      BY <3>3, EndsJoined
    <3>5. n = q \/ n = q \o ms
      BY <1>3, <3>2
    <3>6. Ends(n, u)'
      BY <1>1, <3>3, <3>4, <3>5
    <3> QED
      BY <3>2, <3>6
  <2> QED
    BY <1>3, <2>1 DEF AgreeInv, EndsInv
<1>8. HeadInv'
  <2>1. ASSUME NEW u \in Venues, callback[u] = "record"
        PROVE  Head(feed'[u]) = Head(feed[u])
    <3>1. PICK S : feed[u] \in Seq(S) /\ ms \in Seq(S)
      BY <1>3
    <3>2. feed[u] # <<>>
      BY <2>1 DEF FillsInv, FeedInv
    <3> QED
      BY <1>3, <3>1, <3>2
  <2> QED
    BY <1>1, <1>2, <2>1 DEF AgreeInv, HeadInv
<1>9. \A o \in Buys : Knows(o) => Knows(o)'
  <2>1. ASSUME NEW o \in Buys, Awaited(o) PROVE Awaited(o)'
    <3>1. VenueOf[o] \in Venues
      BY BuyFacts
    <3>2. PICK u : u = VenueOf[o]
      OBVIOUS
    <3>3. PICK i \in 1 .. Len(feed[u]) : feed[u][i] = Latest(o)
      BY <2>1, <3>2 DEF Awaited
    <3>4. i \in 1 .. Len(feed'[u]) /\ feed'[u][i] = Latest(o)'
      BY <1>1, <1>4, <3>1, <3>2, <3>3
    <3> QED
      BY <3>2, <3>4 DEF Awaited
  <2> QED
    BY <1>2, <2>1 DEF Knows
<1>10. PhaseInv'
  <2>1. ASSUME NEW o \in Buys PROVE PhaseOK(o)'
    BY <1>1, <1>9 DEF AgreeInv, PhaseInv, PhaseOK
  <2> QED
    BY <2>1 DEF AgreeInv, PhaseInv
<1> QED
  BY <1>5, <1>6, <1>7, <1>8, <1>10 DEF AgreeInv

\* A buy changes, later than anything said about it before, and that is published.
LEMMA BuyAgrees ==
    ASSUME FillsInv, AgreeInv, NEW o \in Buys, Buy(o) \/ BuyCancelled(o)
    PROVE  AgreeInv'
<1> DEFINE v0 == VenueOf[o]
<1>1. /\ clock \in Nat /\ clock' = clock + 1
      /\ UNCHANGED <<callback, orders, statuses, submissions, refresh, app>>
  BY DEF Buy, BuyCancelled, storeVars, appVars, FillsInv, ExchangeInv
<1>2. PICK e : /\ Changes(o, e)
               /\ e.at = clock' /\ e.status # "none"
  <2>1. exchange[o] \in [status : Statuses, origSz : {Size[o]}, sz : 0 .. Size[o],
                         at : Nat]
    BY DEF FillsInv, ExchangeInv, BuyOK
  <2>2. PICK t : t = clock'
    OBVIOUS
  <2>3. CASE Buy(o)
    <3> DEFINE e == [exchange[o] EXCEPT !.sz = @ - 1, !.at = t,
                         !.status = IF exchange[o].sz = 1 THEN "filled" ELSE @]
    <3>1. Changes(o, e) /\ exchange[o].status = "open"
      BY <2>2, <2>3 DEF Buy
    <3>2. e.at = t /\ e.status # "none"
      BY <2>1, <3>1
    <3> QED
      BY <2>2, <3>1, <3>2
  <2>4. CASE BuyCancelled(o)
    <3> DEFINE e == [exchange[o] EXCEPT !.status = "canceled", !.at = t]
    <3>1. Changes(o, e)
      BY <2>2, <2>4 DEF BuyCancelled
    <3>2. e.at = t /\ e.status # "none"
      BY <2>1
    <3> QED
      BY <2>2, <3>1, <3>2
  <2> QED
    BY <2>3, <2>4
<1>3. exchange' = [exchange EXCEPT ![o] = e] /\ Publish(v0, <<Report(o, e)>>)
  BY <1>2 DEF Changes
<1>4. exchange'[o] = e /\ \A b \in Buys : b # o => exchange'[b] = exchange[b]
  BY <1>3, Constants DEF FillsInv, ExchangeInv
<1>5. PICK l : l = Report(o, e)
  OBVIOUS
<1>6. /\ Latest(o)' = l /\ l.order = o /\ l.at = clock' /\ l.status # "none"
      /\ \A b \in Buys : b # o => Latest(b)' = Latest(b)
  BY <1>2, <1>4, <1>5 DEF Latest, Report
<1>7. exchange[o].at \in Nat /\ exchange[o].at <= clock /\ v0 \in Venues
  BY BuyFacts DEF AgreeInv, TimesInv
<1>8. ASSUME NEW m, Timely(m) PROVE Timely(m)' /\ m # l
  <2>1. m # l
    BY <1>1, <1>6, <1>7, <1>8 DEF Timely
  <2>2. ASSUME NEW b \in Buys, m.order = b
        PROVE  /\ m.status # "none" /\ m.at \in Nat /\ m.at <= exchange'[b].at
               /\ m.at = exchange'[b].at => m = Latest(b)'
    <3>1. CASE b = o
      BY <1>1, <1>2, <1>4, <1>7, <1>8, <2>2, <3>1 DEF Timely
    <3>2. CASE b # o
      BY <1>4, <1>6, <1>8, <2>2, <3>2 DEF Timely
    <3> QED
      BY <3>1, <3>2
  <2> QED
    BY <2>1, <2>2 DEF Timely
<1>9. Timely(l)'
  BY <1>1, <1>2, <1>4, <1>6 DEF Timely
<1>10. \A b \in Buys : b # o => (Current(b)' <=> Current(b))
  BY <1>1, <1>4 DEF Current
<1> HIDE DEF v0
<1>11. ASSUME NEW u \in Venues
       PROVE  \E S : feed[u] \in Seq(S) /\ l \in S
  <2>1. PICK S : feed[u] \in Seq(S)
    BY DEF FillsInv, FeedInv, TrueReports
  <2>2. feed[u] \in Seq(S \cup {l})
    BY <2>1
  <2> QED
    BY <2>2
<1>12. ASSUME NEW u \in Venues
       PROVE  feed'[u] = IF app # "down" /\ u = v0 THEN feed[u] \o <<l>> ELSE feed[u]
  BY <1>3, <1>5, <1>7, <1>12 DEF Publish, FillsInv, FeedInv
<1>13. ASSUME NEW u \in Venues
       PROVE  /\ Len(feed[u]) \in Nat /\ Len(feed'[u]) \in Nat
              /\ Len(feed[u]) <= Len(feed'[u])
              /\ \A i \in 1 .. Len(feed[u]) : feed'[u][i] = feed[u][i]
              /\ \A i \in 1 .. Len(feed'[u]) :
                    i \in 1 .. Len(feed[u]) \/ feed'[u][i] = l
              /\ app # "down" /\ u = v0 =>
                    Len(feed'[u]) = Len(feed[u]) + 1 /\ feed'[u][Len(feed[u]) + 1] = l
              /\ feed[u] # <<>> => Head(feed'[u]) = feed[u][1] /\ Head(feed[u]) = feed[u][1]
  <2>1. PICK S : feed[u] \in Seq(S) /\ l \in S
    BY <1>11
  <2>2. PICK q, n : q = feed[u] /\ n = feed'[u]
    OBVIOUS
  <2>3. CASE n = q /\ ~(app # "down" /\ u = v0)
    BY <2>1, <2>2, <2>3
  <2>4. CASE n = q \o <<l>>
    <3>1. /\ Len(q) \in Nat /\ Len(n) = Len(q) + 1
          /\ \A k \in 1 .. Len(q) : n[k] = q[k]
          /\ n[Len(q) + 1] = l
      BY <2>1, <2>2, <2>4
    <3>2. q # <<>> => Head(n) = q[1] /\ Head(q) = q[1]
      BY <2>1, <2>2, <2>4
    <3> QED
      BY <2>2, <3>1, <3>2
  <2> QED
    BY <1>12, <2>2, <2>3, <2>4
<1>14. TimesInv'
  <2>1. ASSUME NEW b \in Buys
        PROVE  /\ exchange'[b].status # "none"
               /\ exchange'[b].at >= 1 /\ exchange'[b].at <= clock'
               /\ b \in DOMAIN orders => orders[b].statusObserved <= exchange'[b].at
    <3>1. CASE b = o
      <4>1. b \in DOMAIN orders => orders[b].statusObserved \in Nat
        BY DEF FillsInv, TrackerInv, Believes, OrderState
      <4>2. b \in DOMAIN orders => orders[b].statusObserved <= exchange[b].at
        BY DEF AgreeInv, TimesInv
      <4> QED
        BY <1>1, <1>2, <1>4, <1>7, <3>1, <4>1, <4>2
    <3>2. CASE b # o
      <4>1. exchange[b].at \in Nat
        BY BuyFacts
      <4> QED
        BY <1>1, <1>4, <3>2, <4>1 DEF AgreeInv, TimesInv
    <3> QED
      BY <3>1, <3>2
  <2> QED
    BY <1>1, <2>1 DEF TimesInv
<1>15. TimelyInv'
  <2>1. ASSUME NEW u \in Venues, NEW i \in 1 .. Len(feed'[u]) PROVE Timely(feed[u][i])'
    <3>1. PICK m : m = feed'[u][i]
      OBVIOUS
    <3>2. Timely(m)'
      <4>1. CASE m = l
        BY <1>9, <4>1
      <4>2. CASE i \in 1 .. Len(feed[u])
        BY <1>8, <1>13, <3>1, <4>2 DEF AgreeInv, TimelyInv
      <4> QED
        BY <1>13, <3>1, <4>1, <4>2
    <3> QED
      BY <3>1, <3>2
  <2>2. ASSUME NEW b \in Buys, statuses[b].status # "none" PROVE Timely(statuses[b])'
    <3>1. PICK m : m = statuses[b]
      OBVIOUS
    <3>2. Timely(m)'
      BY <1>8, <2>2, <3>1 DEF AgreeInv, TimelyInv
    <3> QED
      BY <1>1, <3>1, <3>2
  <2>3. ASSUME NEW b \in Buys, refresh[b].pc = "answer"
        PROVE  refresh[b].m.status # "none" /\ Timely(refresh[b].m)'
    <3>1. PICK m : m = refresh[b].m
      OBVIOUS
    <3>2. Timely(m)' /\ m.status # "none"
      BY <1>8, <2>3, <3>1 DEF AgreeInv, TimelyInv
    <3> QED
      BY <1>1, <3>1, <3>2
  <2> QED
    BY <1>1, <2>1, <2>2, <2>3 DEF TimelyInv
<1>16. EndsInv'
  <2>1. ASSUME NEW u \in Venues PROVE Ends(feed[u], u)'
    <3> SUFFICES ASSUME NEW i \in 1 .. Len(feed'[u]), NEW b \in Buys,
                        feed'[u][i].order = b
                 PROVE  /\ VenueOf[b] = u
                        /\ \E j \in i .. Len(feed'[u]) : feed'[u][j] = Latest(b)'
      BY DEF Ends
    <3>1. ASSUME i \in 1 .. Len(feed[u])
          PROVE  VenueOf[b] = u /\ \E j \in i .. Len(feed[u]) : feed[u][j] = Latest(b)
      BY <1>13, <3>1 DEF AgreeInv, EndsInv, Ends
    <3>2. CASE b = o
      <4>1. u = v0
        <5>1. CASE i \in 1 .. Len(feed[u])
          BY <3>1, <3>2, <5>1 DEF v0
        <5>2. CASE i \notin 1 .. Len(feed[u])
          <6>1. feed'[u] # feed[u]
            BY <5>2
          <6> QED
            BY <1>12, <6>1
        <5> QED
          BY <5>1, <5>2
      <4>2. app # "down"
        <5>1. CASE i \in 1 .. Len(feed[u])
          <6>1. Len(feed[u]) # 0
            BY <1>13, <5>1
          <6>2. feed[u] # <<>>
            BY <6>1
          <6> QED
            BY <6>2 DEF AgreeInv, EndsInv
        <5>2. CASE i \notin 1 .. Len(feed[u])
          <6>1. feed'[u] # feed[u]
            BY <5>2
          <6> QED
            BY <1>12, <6>1
        <5> QED
          BY <5>1, <5>2
      <4>3. Len(feed'[u]) \in i .. Len(feed'[u]) /\ feed'[u][Len(feed'[u])] = l
        BY <1>13, <4>1, <4>2
      <4> QED
        BY <1>6, <3>2, <4>1, <4>3 DEF v0
    <3>3. CASE b # o
      <4>1. i \in 1 .. Len(feed[u])
        BY <1>6, <1>13, <3>3
      <4>2. PICK j \in i .. Len(feed[u]) : feed[u][j] = Latest(b)
        BY <3>1, <4>1
      <4>3. j \in i .. Len(feed'[u]) /\ feed'[u][j] = Latest(b)'
        BY <1>6, <1>13, <3>3, <4>1, <4>2
      <4> QED
        BY <3>1, <4>1, <4>3
    <3> QED
      BY <3>2, <3>3
  <2>2. app = "down" => \A u \in Venues : feed'[u] = <<>>
    BY <1>12 DEF AgreeInv, EndsInv
  <2> QED
    BY <1>1, <2>1, <2>2 DEF EndsInv
<1>17. HeadInv'
  <2>1. ASSUME NEW u \in Venues, callback[u] = "record", NEW b \in Buys,
               Head(feed'[u]) = Latest(b)'
        PROVE  Current(b)'
    <3>1. feed[u] # <<>> /\ 1 \in 1 .. Len(feed[u])
      <4>1. PICK S : feed[u] \in Seq(S)
        BY <1>11
      <4>2. feed[u] # <<>>
        BY <2>1 DEF FillsInv, FeedInv
      <4> QED
        BY <4>1, <4>2
    <3>2. Head(feed'[u]) = Head(feed[u]) /\ Timely(Head(feed[u]))
      BY <1>13, <3>1 DEF AgreeInv, TimelyInv
    <3>3. b # o
      BY <1>6, <1>8, <2>1, <3>2
    <3> QED
      BY <1>6, <1>10, <2>1, <3>2, <3>3 DEF AgreeInv, HeadInv
  <2> QED
    BY <1>1, <2>1 DEF HeadInv
<1>18. PhaseInv'
  <2>1. ASSUME NEW b \in Buys, b # o, Knows(b) PROVE Knows(b)'
    <3>1. ASSUME Awaited(b) PROVE Awaited(b)'
      <4>1. PICK u \in Venues : u = VenueOf[b]
        BY BuyFacts
      <4>2. PICK i \in 1 .. Len(feed[u]) : feed[u][i] = Latest(b)
        BY <3>1, <4>1 DEF Awaited
      <4>3. i \in 1 .. Len(feed'[u]) /\ feed'[u][i] = Latest(b)'
        BY <1>6, <1>13, <2>1, <4>2
      <4> QED
        BY <4>1, <4>3 DEF Awaited
    <3> QED
      BY <1>10, <2>1, <3>1 DEF Knows
  <2>2. app # "down" => Knows(o)'
    <3>1. ASSUME app # "down" PROVE Awaited(o)'
      <4>1. Len(feed'[v0]) \in 1 .. Len(feed'[v0]) /\ feed'[v0][Len(feed'[v0])] = Latest(o)'
        BY <1>6, <1>7, <1>13, <3>1
      <4> QED
        BY <4>1 DEF Awaited, v0
    <3> QED
      BY <3>1 DEF Knows
  <2>3. ASSUME NEW b \in Buys PROVE PhaseOK(b)'
    <3>1. CASE b # o
      BY <1>1, <1>6, <2>1, <3>1 DEF AgreeInv, PhaseInv, PhaseOK
    <3>2. CASE b = o
      BY <1>1, <2>2, <3>2 DEF AgreeInv, PhaseInv, PhaseOK
    <3> QED
      BY <3>1, <3>2
  <2> QED
    BY <1>1, <2>3 DEF AgreeInv, PhaseInv
<1> QED
  BY <1>14, <1>15, <1>16, <1>17, <1>18 DEF AgreeInv

\* Nothing that leaves the feeds and the exchange alone makes Knows false, as long as
\* the tracker keeps what it has heard.
LEMMA KnowsKept ==
    ASSUME UNCHANGED <<exchange, feed>>, NEW o \in Buys, Current(o) => Current(o)',
           Knows(o)
    PROVE  Knows(o)'
  BY SameExchange DEF Knows, Awaited

LEMMA HeadReport ==
    ASSUME FillsInv, AgreeInv, NEW v \in Venues, feed[v] # <<>>
    PROVE  LET m == Head(feed[v])
           IN  /\ m = feed[v][1] /\ 1 \in 1 .. Len(feed[v])
               /\ TrueReport(m) /\ Timely(m)
<1>1. PICK S : feed[v] \in Seq(S) /\ \A m \in S : TrueReport(m)
  BY DEF FillsInv, FeedInv, TrueReports
<1>2. /\ Head(feed[v]) = feed[v][1] /\ 1 \in 1 .. Len(feed[v])
      /\ Head(feed[v]) \in S
  BY <1>1
<1> QED
  BY <1>1, <1>2 DEF AgreeInv, TimelyInv

\* The tracker hears the first report of a feed.
LEMMA CallbackUpdatesAgrees ==
    ASSUME FillsInv, AgreeInv, NEW v \in Venues, CallbackUpdates(v)
    PROVE  AgreeInv'
<1>1. /\ UNCHANGED <<clock, exchange, feed, statuses, submissions, refresh, app>>
      /\ feed[v] # <<>> /\ callback' = [callback EXCEPT ![v] = "record"]
  BY DEF CallbackUpdates, exchangeVars, storeVars, appVars
<1>2. PICK m : m = Head(feed[v])
  OBVIOUS
<1>3. /\ m = feed[v][1] /\ 1 \in 1 .. Len(feed[v]) /\ TrueReport(m) /\ Timely(m)
  BY <1>1, <1>2, HeadReport
<1>4. UpdateStatus(v, m)
  BY <1>2 DEF CallbackUpdates
<1>5. \A o \in Buys :
         /\ o \in DOMAIN orders' => orders'[o].statusObserved <= exchange[o].at
         /\ Current(o) => Current(o)'
         /\ m = Latest(o) => Current(o)'
         /\ o \in DOMAIN orders' => o \in DOMAIN orders \/ m.order = o
  BY <1>1, <1>3, <1>4, UpdateHears DEF AgreeInv
<1>6. /\ \A o \in Buys : Latest(o)' = Latest(o)
      /\ \A x : Timely(x) => Timely(x)'
      /\ \A q, u : Ends(q, u) => Ends(q, u)'
  BY <1>1, SameExchange
<1>7. TimesInv'
  BY <1>1, <1>5 DEF AgreeInv, TimesInv
<1>8. TimelyInv'
  BY <1>1, <1>6 DEF AgreeInv, TimelyInv
<1>9. EndsInv'
  BY <1>1, <1>6 DEF AgreeInv, EndsInv
<1>10. HeadInv'
  <2>1. ASSUME NEW u \in Venues, callback'[u] = "record", NEW o \in Buys,
               Head(feed[u]) = Latest(o)
        PROVE  Current(o)'
    <3>1. CASE u = v
      BY <1>2, <1>5, <2>1, <3>1
    <3>2. CASE u # v
      <4>1. callback[u] = "record"
        BY <1>1, <2>1, <3>2 DEF FillsInv, FeedInv
      <4> QED
        BY <1>5, <2>1, <4>1 DEF AgreeInv, HeadInv
    <3> QED
      BY <3>1, <3>2
  <2> QED
    BY <1>1, <1>6, <2>1 DEF HeadInv
<1>11. ASSUME NEW o \in Buys, Knows(o) PROVE Knows(o)'
  BY <1>1, <1>5, <1>11, KnowsKept
<1>12. PhaseInv'
  <2>1. ASSUME NEW o \in Buys, app = "run", o \in DOMAIN orders' PROVE Knows(o)'
    <3>1. CASE o \in DOMAIN orders
      BY <1>11, <2>1, <3>1 DEF AgreeInv, PhaseInv, PhaseOK
    <3>2. CASE m.order = o
      <4>1. PICK j \in 1 .. Len(feed[v]) : VenueOf[o] = v /\ feed[v][j] = Latest(o)
        BY <1>3, <3>2 DEF AgreeInv, EndsInv, Ends
      <4>2. Awaited(o)
        BY <4>1 DEF Awaited
      <4> QED
        BY <1>11, <4>2 DEF Knows
    <3> QED
      BY <1>5, <2>1, <3>1, <3>2
  <2>2. ASSUME NEW o \in Buys PROVE PhaseOK(o)'
    BY <1>1, <1>6, <1>11, <2>1 DEF AgreeInv, PhaseInv, PhaseOK
  <2> QED
    BY <1>1, <2>2 DEF AgreeInv, PhaseInv
<1> QED
  BY <1>7, <1>8, <1>9, <1>10, <1>12 DEF AgreeInv

LEMMA EndsTail ==
    ASSUME NEW S, NEW q \in Seq(S), q # <<>>, NEW v, Ends(q, v)
    PROVE  Ends(Tail(q), v)
<1>1. /\ Len(q) \in Nat /\ Len(Tail(q)) = Len(q) - 1 /\ Len(q) >= 1
      /\ \A k \in 1 .. Len(q) - 1 : Tail(q)[k] = q[k + 1]
  OBVIOUS
<1> SUFFICES ASSUME NEW i \in 1 .. Len(Tail(q)), NEW o \in Buys, Tail(q)[i].order = o
             PROVE  VenueOf[o] = v /\ \E j \in i .. Len(Tail(q)) : Tail(q)[j] = Latest(o)
  BY DEF Ends
<1>2. i + 1 \in 1 .. Len(q) /\ q[i + 1].order = o
  BY <1>1
<1>3. PICK j \in i + 1 .. Len(q) : q[j] = Latest(o)
  BY <1>2 DEF Ends
<1>4. j - 1 \in i .. Len(Tail(q)) /\ Tail(q)[j - 1] = q[j]
  <2>1. j - 1 \in 1 .. Len(q) - 1 /\ j - 1 \in i .. Len(q) - 1 /\ (j - 1) + 1 = j
    BY <1>1, <1>2
  <2> QED
    BY <1>1, <2>1
<1>5. VenueOf[o] = v
  BY <1>2 DEF Ends
<1> QED
  BY <1>3, <1>4, <1>5

\* The report is stored and leaves the feed: the tracker has heard it.
LEMMA CallbackRecordsAgrees ==
    ASSUME FillsInv, AgreeInv, NEW v \in Venues, CallbackRecords(v)
    PROVE  AgreeInv'
<1>1. /\ UNCHANGED <<clock, exchange, orders, submissions, refresh, app>>
      /\ callback[v] = "record" /\ callback' = [callback EXCEPT ![v] = "idle"]
      /\ feed' = [feed EXCEPT ![v] = Tail(@)]
  BY DEF CallbackRecords, exchangeVars, appVars
<1>2. feed[v] # <<>>
  BY <1>1 DEF FillsInv, FeedInv
<1>3. PICK m : m = Head(feed[v])
  OBVIOUS
<1>4. m = feed[v][1] /\ TrueReport(m) /\ Timely(m)
  BY <1>2, <1>3, HeadReport
<1>5. statuses' = [statuses EXCEPT ![m.order] = m]
  BY <1>3 DEF CallbackRecords
<1>6. PICK S, q : q = feed[v] /\ q \in Seq(S)
  BY DEF FillsInv, FeedInv, TrueReports
<1>7. /\ q # <<>> /\ Len(q) \in Nat /\ Len(Tail(q)) = Len(q) - 1
      /\ \A k \in 1 .. Len(q) - 1 : Tail(q)[k] = q[k + 1]
  BY <1>2, <1>6
<1>8. ASSUME NEW u \in Venues PROVE feed'[u] = IF u = v THEN Tail(q) ELSE feed[u]
  BY <1>1, <1>6 DEF FillsInv, FeedInv
<1>9. /\ \A o \in Buys : Latest(o)' = Latest(o)
      /\ \A x : Timely(x) => Timely(x)'
      /\ \A p, u : Ends(p, u) => Ends(p, u)'
  BY <1>1, SameExchange
<1>10. \A o \in Buys : Current(o)' <=> Current(o)
  BY <1>1 DEF Current
<1>11. TimesInv'
  BY <1>1 DEF AgreeInv, TimesInv
<1>12. ASSUME NEW o \in Buys
       PROVE  (statuses'[o] = m /\ m.order = o) \/ statuses'[o] = statuses[o]
  BY <1>5, Constants DEF FillsInv, StoreInv
<1>13. TimelyInv'
  <2>1. ASSUME NEW u \in Venues, NEW i \in 1 .. Len(feed'[u]) PROVE Timely(feed'[u][i])
    <3>1. CASE u = v
      <4>1. feed'[u] = Tail(q)
        BY <1>8, <3>1
      <4>2. i \in 1 .. Len(q) - 1
        BY <1>7, <4>1
      <4>3. i + 1 \in 1 .. Len(q) /\ feed'[u][i] = feed[v][i + 1]
        BY <1>6, <1>7, <4>1, <4>2
      <4> QED
        BY <1>6, <4>3 DEF AgreeInv, TimelyInv
    <3>2. CASE u # v
      BY <1>8, <3>2 DEF AgreeInv, TimelyInv
    <3> QED
      BY <3>1, <3>2
  <2>2. ASSUME NEW o \in Buys, statuses'[o].status # "none" PROVE Timely(statuses'[o])
    BY <1>4, <1>12, <2>2 DEF AgreeInv, TimelyInv
  <2>3. ASSUME NEW o \in Buys, refresh[o].pc = "answer"
        PROVE  refresh[o].m.status # "none" /\ Timely(refresh[o].m)
    BY <2>3 DEF AgreeInv, TimelyInv
  <2> QED
    BY <1>1, <1>9, <2>1, <2>2, <2>3 DEF TimelyInv
<1>14. EndsInv'
  <2>1. Ends(Tail(q), v)
    BY <1>6, <1>7, EndsTail DEF AgreeInv, EndsInv
  <2>2. ASSUME NEW u \in Venues PROVE Ends(feed'[u], u)
    BY <1>8, <2>1 DEF AgreeInv, EndsInv
  <2>3. app # "down"
    BY <1>2 DEF AgreeInv, EndsInv
  <2> QED
    BY <1>1, <1>9, <2>2, <2>3 DEF EndsInv
<1>15. HeadInv'
  <2>1. ASSUME NEW u \in Venues, callback'[u] = "record"
        PROVE  callback[u] = "record" /\ feed'[u] = feed[u]
    BY <1>1, <1>8, <2>1 DEF FillsInv, FeedInv
  <2> QED
    BY <1>9, <1>10, <2>1 DEF AgreeInv, HeadInv
<1>16. ASSUME NEW o \in Buys, Knows(o) PROVE Knows(o)'
  <2>1. CASE Current(o)
    BY <1>10, <2>1 DEF Knows
  <2>2. CASE Awaited(o) /\ VenueOf[o] # v
    <3>1. feed'[VenueOf[o]] = feed[VenueOf[o]]
      BY <1>8, <2>2, BuyFacts
    <3> QED
      BY <1>9, <2>2, <3>1 DEF Knows, Awaited
  <2>3. CASE Awaited(o) /\ VenueOf[o] = v
    <3>1. PICK i \in 1 .. Len(q) : q[i] = Latest(o)
      BY <1>6, <2>3 DEF Awaited
    <3>2. CASE i = 1
      <4>1. Head(feed[v]) = Latest(o)
        BY <1>3, <1>4, <1>6, <3>1, <3>2
      <4>2. Current(o)
        BY <1>1, <4>1 DEF AgreeInv, HeadInv
      <4> QED
        BY <1>10, <4>2 DEF Knows
    <3>3. CASE i # 1
      <4>1. i - 1 \in 1 .. Len(q) - 1 /\ (i - 1) + 1 = i
        BY <1>7, <3>3
      <4>2. i - 1 \in 1 .. Len(feed'[v]) /\ feed'[v][i - 1] = Latest(o)'
        BY <1>7, <1>8, <1>9, <3>1, <4>1
      <4> QED
        BY <2>3, <4>2 DEF Knows, Awaited
    <3> QED
      BY <3>2, <3>3
  <2> QED
    BY <1>16, <2>1, <2>2, <2>3 DEF Knows
<1>17. PhaseInv'
  <2>1. ASSUME NEW o \in Buys, statuses[o].status # "none" PROVE statuses'[o].status # "none"
    BY <1>4, <1>12, <2>1 DEF Timely
  <2>2. ASSUME NEW o \in Buys PROVE PhaseOK(o)'
    BY <1>1, <1>9, <1>16, <2>1 DEF AgreeInv, PhaseInv, PhaseOK
  <2> QED
    BY <1>1, <2>2 DEF AgreeInv, PhaseInv
<1> QED
  BY <1>11, <1>13, <1>14, <1>15, <1>17 DEF AgreeInv

-----------------------------------------------------------------------------
(* The rest of the process *)

LEMMA PlacedFields ==
    ASSUME NEW o
    PROVE  Placed(o).at = 1 /\ Placed(o).status = "open"
  BY DEF Placed

LEMMA AgreeInit == InitTakeProfit => AgreeInv
<1> SUFFICES ASSUME InitTakeProfit PROVE AgreeInv
  OBVIOUS
<1>1. FillsInv
  BY FillsInit
<1>2. ASSUME NEW o \in Buys
      PROVE  /\ exchange[o] = Placed(o) /\ Latest(o) = Report(o, Placed(o))
             /\ statuses[o] = NoMessage /\ refresh[o] = Refreshed
  BY Constants DEF InitTakeProfit, Latest
<1>3. ASSUME NEW v \in Venues
      PROVE  /\ \A i \in 1 .. Len(feed[v]) : \E o \in Buys :
                   feed[v][i] = Latest(o) /\ VenueOf[o] = v
             /\ \A o \in Buys : VenueOf[o] = v =>
                   \E i \in 1 .. Len(feed[v]) : feed[v][i] = Latest(o)
  <2> DEFINE S == FirstReports(v)
  <2>1. feed[v] = SetToSeq(S)
    BY DEF InitTakeProfit
  <2>2. \A m \in S : \E o \in Buys : m = Latest(o) /\ VenueOf[o] = v
    BY <1>2 DEF FirstReports, Report
  <2>3. \A o \in Buys : VenueOf[o] = v => Latest(o) \in S
    <3>1. ASSUME NEW o \in Buys, VenueOf[o] = v PROVE Latest(o) \in S
      <4>1. Latest(o) \in {Report(b, Placed(b)) : b \in Buys}
        BY <1>2
      <4>2. VenueOf[Latest(o).order] = v
        BY <3>1 DEF Latest, Report
      <4> QED
        BY <4>1, <4>2 DEF FirstReports
    <3> QED
      BY <3>1
  <2> HIDE DEF S
  <2>4. /\ feed[v] \in Seq(S)
        /\ \A x \in S : \E i \in 1 .. Len(feed[v]) : feed[v][i] = x
    BY <2>1, FirstReportsFinite, SetListed DEF S
  <2>5. \A i \in 1 .. Len(feed[v]) : feed[v][i] \in S
    BY <2>4
  <2> QED
    BY <2>2, <2>3, <2>4, <2>5
<1>4. ASSUME NEW o \in Buys PROVE Timely(Latest(o)) /\ Latest(o).order = o
  <2>1. PICK m : m = Latest(o)
    OBVIOUS
  <2>2. m.order = o /\ m.status = exchange[o].status /\ m.at = exchange[o].at
    BY <2>1 DEF Latest, Report
  <2>3. exchange[o].status # "none" /\ exchange[o].at \in Nat
    BY <1>2, PlacedFields
  <2> QED
    BY <2>1, <2>2, <2>3 DEF Timely
<1>5. TimesInv
  <2>1. ASSUME NEW o \in Buys, o \in DOMAIN orders PROVE orders[o].statusObserved = 0
    <3>1. PICK h \in BOOLEAN : h = TRUE
      OBVIOUS
    <3>2. orders[o] = applyScaledSize(NewOrder(h), Size[o])
      BY <2>1, <3>1 DEF InitTakeProfit
    <3>3. PICK s : s = NewOrder(h)
      OBVIOUS
    <3>4. s \in OrderState /\ s.filledQty = 0 /\ s.statusObserved = 0
      BY <3>3 DEF NewOrder, OrderState, Statuses
    <3>5. Size[o] \in Nat /\ s.filledQty <= Size[o]
      BY <3>4, Constants
    <3> QED
      BY <3>2, <3>3, <3>4, <3>5, ScaledHears
  <2>2. ASSUME NEW o \in Buys PROVE exchange[o].at = 1 /\ exchange[o].status = "open"
    BY <1>2, PlacedFields
  <2>3. clock = 1
    BY DEF InitTakeProfit
  <2> QED
    BY <2>1, <2>2, <2>3 DEF TimesInv
<1>6. TimelyInv
  BY <1>2, <1>3, <1>4 DEF TimelyInv, NoMessage, Refreshed
<1>7. EndsInv
  <2>1. ASSUME NEW v \in Venues PROVE Ends(feed[v], v)
    <3> SUFFICES ASSUME NEW i \in 1 .. Len(feed[v]), NEW o \in Buys, feed[v][i].order = o
                 PROVE  VenueOf[o] = v /\ \E j \in i .. Len(feed[v]) : feed[v][j] = Latest(o)
      BY DEF Ends
    <3>1. feed[v][i] = Latest(o) /\ VenueOf[o] = v
      BY <1>3, <1>4
    <3>2. i \in i .. Len(feed[v])
      <4>1. PICK S : feed[v] \in Seq(S)
        BY <1>1 DEF FillsInv, FeedInv, TrueReports
      <4> QED
        BY <4>1
    <3> QED
      BY <3>1, <3>2
  <2> QED
    BY <2>1 DEF InitTakeProfit, EndsInv
<1>8. HeadInv
  BY DEF InitTakeProfit, HeadInv
<1>9. PhaseInv
  <2>1. ASSUME NEW o \in Buys PROVE Knows(o)
    <3>1. PICK v \in Venues : v = VenueOf[o]
      BY <1>1, BuyFacts
    <3>2. \E i \in 1 .. Len(feed[v]) : feed[v][i] = Latest(o)
      BY <1>3, <3>1
    <3> QED
      BY <3>1, <3>2 DEF Knows, Awaited
  <2>2. app = "run" /\ DOMAIN submissions = Orders
    BY DEF InitTakeProfit
  <2>3. ASSUME NEW o \in Buys PROVE submissions[o].kind # "none"
    BY Constants DEF InitTakeProfit
  <2> QED
    BY <2>1, <2>2, <2>3 DEF PhaseInv, PhaseOK
<1> QED
  BY <1>5, <1>6, <1>7, <1>8, <1>9 DEF AgreeInv

\* Workers change take profits on the exchange and in the store.
LEMMA SellsAgree ==
    ASSUME FillsInv, AgreeInv, NEW o \in TakeProfits, NEW e, Changes(o, e) \/ Rest(o, e),
           clock' \in Nat, clock' >= clock,
           UNCHANGED <<callback, orders, statuses, submissions, refresh, app>>
    PROVE  AgreeInv'
<1>1. \A b \in Buys : exchange'[b] = exchange[b]
  BY Constants DEF Changes, Rest, FillsInv, ExchangeInv
<1>2. VenueOf[o] \in Venues /\ o \notin Buys
  BY Constants
<1>3. ASSUME NEW f PROVE Report(o, f).order = o
  BY DEF Report
<1>4. PICK x, y : /\ x = Report(o, e)
                  /\ y = Report(o, [exchange[o] EXCEPT !.status = "canceled", !.at = clock])
  OBVIOUS
<1>5. PICK T : T = {x, y}
  OBVIOUS
<1>6. <<>> \in Seq(T) /\ <<x>> \in Seq(T) /\ <<y>> \in Seq(T)
  BY <1>5
<1>7. PICK ms \in Seq(T) : Publish(VenueOf[o], ms)
  <2>1. CASE Changes(o, e)
    BY <1>4, <1>6, <2>1 DEF Changes
  <2>2. CASE Rest(o, e)
    <3>1. PICK old : (old = <<>> \/ old = <<y>>) /\
             Publish(VenueOf[o], IF OpenBeforeCancel THEN <<x>> \o old ELSE old \o <<x>>)
      BY <1>4, <2>2 DEF Rest
    <3>2. old \in Seq(T)
      BY <1>6, <3>1
    <3>3. PICK q : q = <<x>>
      OBVIOUS
    <3>4. q \o old \in Seq(T) /\ old \o q \in Seq(T)
      BY <1>6, <3>2, <3>3
    <3>5. Publish(VenueOf[o], q \o old) \/ Publish(VenueOf[o], old \o q)
      BY <3>1, <3>3
    <3> QED
      BY <3>4, <3>5
  <2> QED
    BY <2>1, <2>2
<1>8. \A m \in T : m.order \notin Buys
  BY <1>2, <1>3, <1>4, <1>5
<1>9. \A k \in 1 .. Len(ms) : ms[k].order \notin Buys
  BY <1>8
<1> QED
  BY <1>1, <1>2, <1>7, <1>9, SellAgrees

LEMMA SellStepAgrees ==
    ASSUME FillsInv, AgreeInv, NEW o \in TakeProfits, NEW n, Sell(o, n)
    PROVE  AgreeInv'
<1>1. clock' \in Nat /\ clock' >= clock
  BY DEF Sell, FillsInv, ExchangeInv
<1>2. PICK e : Changes(o, e)
  BY DEF Sell
<1> QED
  BY <1>1, <1>2, SellsAgree DEF Sell, storeVars, appVars

LEMMA SubmitAgrees ==
    ASSUME FillsInv, AgreeInv, NEW w \in Workers, Submit(w)
    PROVE  AgreeInv'
<1> DEFINE o == worker[w].work.order
<1>1. o \in TakeProfits
  BY DEF Submit, FillsInv, WorkInv, SellsOnly
<1>2. /\ UNCHANGED <<clock, callback, orders, statuses, submissions, refresh, app>>
      /\ clock' \in Nat /\ clock' >= clock
  BY DEF Submit, storeVars, appVars, FillsInv, ExchangeInv
<1>3. PICK e : Changes(o, e) \/ Rest(o, e) \/ UNCHANGED <<exchange, feed>>
  <2>1. CASE SubmitCreate(w)
    BY <2>1 DEF SubmitCreate
  <2>2. CASE SubmitModify(w)
    BY <2>2 DEF SubmitModify, Modify
  <2>3. CASE SubmitSatisfied(w)
    BY <2>3 DEF SubmitSatisfied
  <2>4. CASE SubmitCancel(w)
    BY <2>4 DEF SubmitCancel
  <2> QED
    BY <2>1, <2>2, <2>3, <2>4 DEF Submit
<1> HIDE DEF o
<1>4. CASE Changes(o, e) \/ Rest(o, e)
  BY <1>1, <1>2, <1>4, SellsAgree
<1>5. CASE UNCHANGED <<exchange, feed>>
  BY <1>2, <1>5, QuietAgree DEF SameBuys
<1> QED
  BY <1>3, <1>4, <1>5

LEMMA WorkerRecordsAgrees ==
    ASSUME FillsInv, AgreeInv, NEW w \in Workers, WorkerRecords(w)
    PROVE  AgreeInv'
<1>1. UNCHANGED <<clock, exchange, feed, callback, orders, statuses, refresh, app>>
  BY DEF WorkerRecords, exchangeVars, appVars
<1>2. worker[w].work.order \in TakeProfits
  BY DEF WorkerRecords, FillsInv, WorkInv, SellsOnly
<1>3. /\ DOMAIN submissions' = Orders
      /\ \A o \in Buys : submissions'[o] = submissions[o]
  BY <1>2, Constants DEF WorkerRecords, AgreeInv, PhaseInv
<1>4. /\ \A o \in Buys : Latest(o)' = Latest(o)
      /\ \A m : Timely(m) => Timely(m)'
      /\ \A q, v : Ends(q, v) => Ends(q, v)'
  BY <1>1, SameExchange
<1>5. \A o \in Buys : (Current(o)' <=> Current(o)) /\ (Knows(o)' <=> Knows(o))
  BY <1>1, <1>4 DEF Current, Knows, Awaited
<1>6. TimesInv'
  BY <1>1 DEF AgreeInv, TimesInv
<1>7. TimelyInv'
  BY <1>1, <1>4 DEF AgreeInv, TimelyInv
<1>8. EndsInv'
  BY <1>1, <1>4 DEF AgreeInv, EndsInv
<1>9. HeadInv'
  BY <1>1, <1>4, <1>5 DEF AgreeInv, HeadInv
<1>10. PhaseInv'
  <2>1. ASSUME NEW o \in Buys PROVE PhaseOK(o)'
    BY <1>1, <1>4, <1>5 DEF AgreeInv, PhaseInv, PhaseOK
  <2> QED
    BY <1>3, <2>1 DEF AgreeInv, PhaseInv
<1> QED
  BY <1>6, <1>7, <1>8, <1>9, <1>10 DEF AgreeInv

\* What is forgotten while everything is at rest is not pending either.
LEMMA CleanupAgrees ==
    ASSUME FillsInv, AgreeInv, CleanupStaleDeals
    PROVE  AgreeInv'
<1>1. UNCHANGED <<clock, exchange, feed, callback, statuses, submissions, refresh, app>>
  BY DEF CleanupStaleDeals, exchangeVars, storeVars, appVars
<1>2. app = "run" /\ DOMAIN orders' = {} /\ \A v \in Venues : feed[v] = <<>>
  BY DEF CleanupStaleDeals, AtRest, NothingTracked
<1>3. /\ \A o \in Buys : Latest(o)' = Latest(o)
      /\ \A m : Timely(m) => Timely(m)'
      /\ \A q, v : Ends(q, v) => Ends(q, v)'
  BY <1>1, SameExchange
<1>4. TimesInv'
  BY <1>1, <1>2 DEF AgreeInv, TimesInv
<1>5. TimelyInv'
  BY <1>1, <1>3 DEF AgreeInv, TimelyInv
<1>6. EndsInv'
  BY <1>1, <1>3 DEF AgreeInv, EndsInv
<1>7. HeadInv'
  BY <1>1, <1>2 DEF FillsInv, FeedInv, HeadInv
<1>8. PhaseInv'
  BY <1>1, <1>2 DEF AgreeInv, PhaseInv, PhaseOK
<1> QED
  BY <1>4, <1>5, <1>6, <1>7, <1>8 DEF AgreeInv

LEMMA CrashAgrees ==
    ASSUME FillsInv, AgreeInv, ProcessCrashes
    PROVE  AgreeInv'
<1>1. /\ UNCHANGED <<clock, exchange, statuses, submissions>>
      /\ app' = "down" /\ DOMAIN orders' = {}
      /\ \A v \in Venues : feed'[v] = <<>> /\ callback'[v] = "idle"
      /\ \A o \in Orders : refresh'[o].pc = "done"
  BY DEF ProcessCrashes, exchangeVars, storeVars, NothingTracked, Refreshed
<1>2. \A m : Timely(m) => Timely(m)'
  BY <1>1, SameExchange
<1>3. TimesInv'
  BY <1>1 DEF AgreeInv, TimesInv
<1>4. TimelyInv'
  BY <1>1, <1>2, Constants DEF AgreeInv, TimelyInv
<1>5. EndsInv'
  BY <1>1 DEF EndsInv, Ends
<1>6. HeadInv'
  BY <1>1 DEF HeadInv
<1>7. PhaseInv'
  BY <1>1 DEF AgreeInv, PhaseInv, PhaseOK
<1> QED
  BY <1>3, <1>4, <1>5, <1>6, <1>7 DEF AgreeInv

\* The start leaves the exchange, the feeds and the callbacks alone: of the invariant
\* the answers and the phase are left to show.
LEMMA BootAgrees ==
    ASSUME FillsInv, AgreeInv, UNCHANGED <<clock, exchange, feed, callback, submissions>>,
           app' # "down",
           \A o \in Buys : o \in DOMAIN orders' => orders'[o].statusObserved <= exchange[o].at,
           \A o \in Buys : Current(o) => Current(o)',
           \A o \in Buys : statuses'[o].status # "none" => Timely(statuses'[o]),
           \A o \in Buys : refresh'[o].pc = "answer" =>
              refresh'[o].m.status # "none" /\ Timely(refresh'[o].m),
           \A o \in Buys : PhaseOK(o)'
    PROVE  AgreeInv'
<1>1. /\ \A o \in Buys : Latest(o)' = Latest(o)
      /\ \A m : Timely(m) => Timely(m)'
      /\ \A q, v : Ends(q, v) => Ends(q, v)'
  BY SameExchange
<1>2. TimesInv'
  BY DEF AgreeInv, TimesInv
<1>3. TimelyInv'
  BY <1>1 DEF AgreeInv, TimelyInv
<1>4. EndsInv'
  BY <1>1 DEF AgreeInv, EndsInv
<1>5. HeadInv'
  BY <1>1 DEF AgreeInv, HeadInv
<1>6. PhaseInv'
  BY DEF AgreeInv, PhaseInv
<1> QED
  BY <1>2, <1>3, <1>4, <1>5, <1>6 DEF AgreeInv

LEMMA RestartAgrees ==
    ASSUME FillsInv, AgreeInv, Restart
    PROVE  AgreeInv'
<1>1. /\ UNCHANGED <<clock, exchange, feed, callback, submissions, orders, statuses>>
      /\ app' = "refresh"
      /\ \A o \in Buys : refresh'[o].pc = "todo"
  BY Constants DEF Restart, exchangeVars, storeVars, AgreeInv, PhaseInv, Todo
<1>2. \A o \in Buys : Current(o) => Current(o)'
  BY <1>1 DEF Current
<1>3. \A o \in Buys : PhaseOK(o)'
  BY <1>1 DEF PhaseOK
<1>4. app' # "down"
  BY <1>1
<1>5. \A o \in Buys : refresh'[o].pc # "answer"
  BY <1>1
<1> QED
  BY <1>1, <1>2, <1>3, <1>4, <1>5, BootAgrees DEF AgreeInv, TimesInv, TimelyInv

\* A query that does not fail brings the last report.
LEMMA QueryAgrees ==
    ASSUME ~QueriesMayFail, FillsInv, AgreeInv, NEW o \in Orders, RefreshQueries(o)
    PROVE  AgreeInv'
<1>1. /\ UNCHANGED <<clock, exchange, feed, callback, submissions, orders, statuses, app>>
      /\ app = "refresh" /\ refresh[o] = Todo
  BY DEF RefreshQueries, exchangeVars, storeVars
<1>2. refresh' = [refresh EXCEPT ![o] = IF exchange[o].status = "none" THEN Refreshed
                                        ELSE Answer(Report(o, exchange[o]))]
  BY DEF RefreshQueries
<1>3. ASSUME NEW b \in Buys, b # o PROVE refresh'[b] = refresh[b]
  BY <1>2, <1>3, Constants DEF FillsInv, AnswersInv
<1>4. ASSUME o \in Buys
      PROVE  /\ refresh'[o].pc = "answer" /\ refresh'[o].m = Latest(o)
             /\ Latest(o).status # "none" /\ Timely(Latest(o))
  <2>1. exchange[o].status # "none" /\ exchange[o].at \in Nat
    BY <1>4, BuyFacts DEF AgreeInv, TimesInv
  <2>2. refresh'[o] = Answer(Latest(o))
    BY <1>2, <2>1 DEF FillsInv, AnswersInv, Latest
  <2>3. PICK m : m = Latest(o)
    OBVIOUS
  <2>4. m.order = o /\ m.status = exchange[o].status /\ m.at = exchange[o].at
    BY <2>3 DEF Latest, Report
  <2>5. Timely(m)
    BY <2>1, <2>3, <2>4 DEF Timely
  <2> QED
    BY <2>1, <2>2, <2>3, <2>4, <2>5 DEF Answer
<1>5. \A b \in Buys : (Current(b) => Current(b)') /\ (Knows(b) => Knows(b)')
  <2>1. \A b \in Buys : Current(b) => Current(b)'
    BY <1>1 DEF Current
  <2> QED
    BY <1>1, <2>1, KnowsKept
<1>6. \A b \in Buys : Latest(b)' = Latest(b)
  BY <1>1, SameExchange
<1>7. ASSUME NEW b \in Buys PROVE PhaseOK(b)'
  <2>1. CASE b = o
    BY <1>1, <1>4, <1>6, <2>1 DEF PhaseOK
  <2>2. CASE b # o
    BY <1>1, <1>3, <1>5, <1>6, <2>2 DEF AgreeInv, PhaseInv, PhaseOK
  <2> QED
    BY <2>1, <2>2
<1>8. \A b \in Buys : refresh'[b].pc = "answer" =>
         refresh'[b].m.status # "none" /\ Timely(refresh'[b].m)
  BY <1>3, <1>4 DEF AgreeInv, TimelyInv
<1>9. app' # "down"
  BY <1>1
<1>10. /\ \A b \in Buys : b \in DOMAIN orders' => orders'[b].statusObserved <= exchange[b].at
       /\ \A b \in Buys : statuses'[b].status # "none" => Timely(statuses'[b])
  BY <1>1 DEF AgreeInv, TimesInv, TimelyInv
<1> QED
  BY <1>1, <1>5, <1>7, <1>8, <1>9, <1>10, BootAgrees

\* The answer is applied: the last report, or an older one that changes nothing.
LEMMA RefreshAgrees ==
    ASSUME FillsInv, AgreeInv, NEW o \in Orders, RefreshApplies(o)
    PROVE  AgreeInv'
<1>1. /\ UNCHANGED <<clock, exchange, feed, callback, submissions, app>>
      /\ app = "refresh" /\ refresh[o].pc = "answer"
      /\ refresh' = [refresh EXCEPT ![o] = Refreshed]
  BY DEF RefreshApplies, exchangeVars
<1>2. PICK m : m = refresh[o].m
  OBVIOUS
<1>3. m.order = o /\ TrueReport(m)
  BY <1>1, <1>2 DEF FillsInv, AnswersInv, AnswerOK
<1>4. Timely(m)
  <2>1. CASE o \in Buys
    BY <1>1, <1>2, <2>1 DEF AgreeInv, TimelyInv
  <2>2. CASE o \notin Buys
    BY <1>3, <2>2 DEF Timely
  <2> QED
    BY <2>1, <2>2
<1>5. UpdateStatus(o, m) /\ statuses' = [statuses EXCEPT ![o] = m]
  BY <1>2 DEF RefreshApplies
<1>6. \A b \in Buys :
         /\ b \in DOMAIN orders' => orders'[b].statusObserved <= exchange[b].at
         /\ Current(b) => Current(b)'
         /\ m = Latest(b) => Current(b)'
  BY <1>1, <1>3, <1>4, <1>5, UpdateHears DEF AgreeInv
<1>7. \A b \in Buys : Knows(b) => Knows(b)'
  BY <1>1, <1>6, KnowsKept
<1>8. \A b \in Buys : Latest(b)' = Latest(b)
  BY <1>1, SameExchange
<1>9. ASSUME NEW b \in Buys, b # o
      PROVE  refresh'[b] = refresh[b] /\ statuses'[b] = statuses[b]
  BY <1>1, <1>5, <1>9, Constants DEF FillsInv, AnswersInv, StoreInv
<1>10. refresh'[o] = Refreshed /\ statuses'[o] = m
  BY <1>1, <1>5 DEF FillsInv, AnswersInv, StoreInv
<1>11. ASSUME NEW b \in Buys PROVE PhaseOK(b)'
  <2>1. CASE b = o
    <3>1. Knows(o) \/ m = Latest(o)
      BY <1>1, <1>2, <2>1 DEF AgreeInv, PhaseInv, PhaseOK
    <3>2. Knows(o)'
      BY <1>6, <1>7, <2>1, <3>1 DEF Knows
    <3>3. m.status # "none"
      BY <1>3, <1>4, <2>1 DEF Timely
    <3> QED
      BY <1>1, <1>10, <2>1, <3>2, <3>3 DEF PhaseOK, Refreshed
  <2>2. CASE b # o
    BY <1>1, <1>7, <1>8, <1>9, <2>2 DEF AgreeInv, PhaseInv, PhaseOK
  <2> QED
    BY <2>1, <2>2
<1>12. \A b \in Buys : refresh'[b].pc = "answer" =>
          refresh'[b].m.status # "none" /\ Timely(refresh'[b].m)
  BY <1>9, <1>10 DEF AgreeInv, TimelyInv, Refreshed
<1>13. \A b \in Buys : statuses'[b].status # "none" => Timely(statuses'[b])
  BY <1>4, <1>9, <1>10 DEF AgreeInv, TimelyInv
<1>14. app' # "down"
  BY <1>1
<1> QED
  BY <1>1, <1>6, <1>11, <1>12, <1>13, <1>14, BootAgrees

\* The rebuild begins with every buy answered.
LEMMA RefreshEndsAgrees ==
    ASSUME FillsInv, AgreeInv, RefreshEnds
    PROVE  AgreeInv'
<1>1. /\ UNCHANGED <<clock, exchange, feed, callback, submissions, orders, statuses>>
      /\ app = "refresh" /\ app' = "rebuild"
      /\ \A o \in Buys : refresh[o] \in {Refreshed, Failed}
      /\ \A o \in Buys : refresh'[o].pc # "answer"
  BY Constants DEF RefreshEnds, exchangeVars, storeVars, Todo, Refreshed
<1>2. \A o \in Buys : (Current(o) => Current(o)') /\ (Knows(o) => Knows(o)')
  <2>1. \A o \in Buys : Current(o) => Current(o)'
    BY <1>1 DEF Current
  <2> QED
    BY <1>1, <2>1, KnowsKept
<1>3. ASSUME NEW o \in Buys PROVE PhaseOK(o)'
  <2>1. refresh[o].pc # "todo" /\ refresh[o].pc # "answer"
    BY <1>1 DEF Refreshed, Failed
  <2>2. statuses[o].status # "none" /\ Knows(o)
    BY <1>1, <2>1 DEF AgreeInv, PhaseInv, PhaseOK
  <2> QED
    BY <1>1, <1>2, <2>2 DEF PhaseOK
<1>4. app' # "down"
  BY <1>1
<1>5. /\ \A b \in Buys : b \in DOMAIN orders' => orders'[b].statusObserved <= exchange[b].at
      /\ \A b \in Buys : statuses'[b].status # "none" => Timely(statuses'[b])
  BY <1>1 DEF AgreeInv, TimesInv, TimelyInv
<1> QED
  BY <1>1, <1>2, <1>3, <1>4, <1>5, BootAgrees

LEMMA LoadAgrees ==
    ASSUME FillsInv, AgreeInv, NEW o \in Orders, RebuildLoads(o)
    PROVE  AgreeInv'
<1>1. /\ UNCHANGED <<clock, exchange, feed, callback, submissions, orders, statuses, app>>
      /\ app = "rebuild" /\ refresh' = [refresh EXCEPT ![o] = Answer(statuses[o])]
  BY DEF RebuildLoads, exchangeVars, storeVars
<1>2. \A b \in Buys : (Current(b) => Current(b)') /\ (Knows(b) => Knows(b)')
  <2>1. \A b \in Buys : Current(b) => Current(b)'
    BY <1>1 DEF Current
  <2> QED
    BY <1>1, <2>1, KnowsKept
<1>3. \A b \in Buys : PhaseOK(b)'
  BY <1>1, <1>2 DEF AgreeInv, PhaseInv, PhaseOK
<1>4. ASSUME NEW b \in Buys, refresh'[b].pc = "answer"
      PROVE  refresh'[b].m.status # "none" /\ Timely(refresh'[b].m)
  <2>1. CASE b = o
    <3>1. refresh'[o].m = statuses[o]
      BY <1>1 DEF FillsInv, AnswersInv, Answer
    <3>2. statuses[o].status # "none" /\ Timely(statuses[o])
      BY <1>1, <2>1 DEF AgreeInv, PhaseInv, PhaseOK, TimelyInv
    <3> QED
      BY <2>1, <3>1, <3>2
  <2>2. CASE b # o
    <3>1. refresh'[b] = refresh[b]
      BY <1>1, <2>2, Constants DEF FillsInv, AnswersInv
    <3> QED
      BY <1>4, <3>1 DEF AgreeInv, TimelyInv
  <2> QED
    BY <2>1, <2>2
<1>5. app' # "down"
  BY <1>1
<1>6. /\ \A b \in Buys : b \in DOMAIN orders' => orders'[b].statusObserved <= exchange[b].at
      /\ \A b \in Buys : statuses'[b].status # "none" => Timely(statuses'[b])
  BY <1>1 DEF AgreeInv, TimesInv, TimelyInv
<1> QED
  BY <1>1, <1>2, <1>3, <1>4, <1>5, <1>6, BootAgrees

\* What the rebuild makes of a buy the tracker has heard of is the same, and what it
\* makes of any other is not newer than the exchange.
LEMMA RebuiltHears ==
    ASSUME FillsInv, NEW o \in Buys, NEW s, Believes(s, Bought(o)),
           s.statusObserved <= exchange[o].at,
           NEW m, m \in Reports(o), Timely(m)
    PROVE  /\ Rebuilt(s, o, m).statusObserved <= exchange[o].at
           /\ Heard(s, exchange[o]) => Heard(Rebuilt(s, o, m), exchange[o])
<1> DEFINE r == applyStatus(applyEvent(s, Size[o], o \in TakeProfits), m)
<1>1. /\ r \in OrderState /\ r.filledQty <= Size[o]
      /\ r.statusObserved <= exchange[o].at
      /\ Heard(s, exchange[o]) => Heard(r, exchange[o])
  BY OneHears
<1>2. m.status # "none"
  BY DEF Timely, Reports
<1>3. Rebuilt(s, o, m) = IF o \in audits THEN applyScaledSize(r, Size[o]) ELSE r
  BY <1>2 DEF Rebuilt
<1> HIDE DEF r
<1>4. /\ applyScaledSize(r, Size[o]).statusObserved = r.statusObserved
      /\ applyScaledSize(r, Size[o]).status = r.status
      /\ applyScaledSize(r, Size[o]).filledQty = r.filledQty
  BY <1>1, Constants, ScaledHears
<1>5. Heard(r, exchange[o]) => Heard(applyScaledSize(r, Size[o]), exchange[o])
  BY <1>4 DEF Heard
<1> QED
  BY <1>1, <1>3, <1>4, <1>5

LEMMA RebuildAgrees ==
    ASSUME FillsInv, AgreeInv, NEW o \in Orders, RebuildApplies(o)
    PROVE  AgreeInv'
<1> DEFINE known == ensureOrder(orders, o)
           s == IF o \in DOMAIN orders THEN orders[o] ELSE NewOrder(hydrated)
<1>1. /\ UNCHANGED <<clock, exchange, feed, callback, submissions, statuses, app>>
      /\ app = "rebuild" /\ refresh[o].pc = "answer"
      /\ refresh' = [refresh EXCEPT ![o] = Refreshed]
  BY DEF RebuildApplies, exchangeVars, storeVars
<1>2. PICK m : m = refresh[o].m
  OBVIOUS
<1>3. /\ DOMAIN known = DOMAIN orders \cup {o} /\ known[o] = s
      /\ \A p \in DOMAIN orders : p # o => known[p] = orders[p]
  <2>1. CASE o \in DOMAIN orders
    BY <2>1 DEF ensureOrder
  <2>2. CASE o \notin DOMAIN orders
    <3>1. known = [x \in DOMAIN orders \cup {o} |->
                      IF x = o THEN NewOrder(hydrated) ELSE orders[x]]
      BY <2>2 DEF ensureOrder
    <3> HIDE DEF known
    <3> QED
      BY <2>2, <3>1
  <2> QED
    BY <2>1, <2>2
<1>4. orders' = [known EXCEPT ![o] = Rebuilt(known[o], o, m)]
  BY <1>2 DEF RebuildApplies
<1> HIDE DEF known
<1>5. /\ DOMAIN orders' = DOMAIN orders \cup {o} /\ orders'[o] = Rebuilt(s, o, m)
      /\ \A p \in DOMAIN orders : p # o => orders'[p] = orders[p]
  <2> HIDE DEF s
  <2> QED
    BY <1>3, <1>4
<1>6. ASSUME NEW b \in Buys
      PROVE  /\ b \in DOMAIN orders' => orders'[b].statusObserved <= exchange[b].at
             /\ Current(b) => Current(b)'
  <2>1. CASE b # o
    BY <1>1, <1>5, <2>1 DEF AgreeInv, TimesInv, Current
  <2>2. CASE b = o
    <3>1. Believes(s, Bought(o)) /\ s.statusObserved <= exchange[o].at
      <4>1. CASE o \in DOMAIN orders
        BY <2>2, <4>1 DEF FillsInv, TrackerInv, AgreeInv, TimesInv
      <4>2. CASE o \notin DOMAIN orders
        <5>1. Bought(o) \in Nat /\ hydrated \in BOOLEAN
          BY <2>2, BoughtSome DEF FillsInv, TrackerInv
        <5>2. Believes(NewOrder(hydrated), Bought(o))
          BY <5>1, NewBelieves
        <5>3. 0 <= exchange[o].at
          BY <2>2, BuyFacts
        <5> QED
          BY <4>2, <5>2, <5>3, NewHears
      <4> QED
        BY <4>1, <4>2
    <3>2. m.status # "none" /\ Timely(m)
      BY <1>1, <1>2, <2>2 DEF AgreeInv, TimelyInv
    <3>3. m \in Reports(o)
      BY <1>1, <1>2, <2>2, <3>2 DEF FillsInv, AnswersInv, AnswerOK
    <3>4. Current(o) => Heard(s, exchange[o])
      BY DEF Current
    <3> HIDE DEF s
    <3>5. /\ Rebuilt(s, o, m).statusObserved <= exchange[o].at
          /\ Heard(s, exchange[o]) => Heard(Rebuilt(s, o, m), exchange[o])
      BY <2>2, <3>1, <3>2, <3>3, RebuiltHears
    <3> QED
      BY <1>1, <1>5, <2>2, <3>4, <3>5 DEF Current
  <2> QED
    BY <2>1, <2>2
<1>7. \A b \in Buys : Knows(b) => Knows(b)'
  BY <1>1, <1>6, KnowsKept
<1>8. \A b \in Buys : PhaseOK(b)'
  BY <1>1, <1>7 DEF AgreeInv, PhaseInv, PhaseOK
<1>9. \A b \in Buys : refresh'[b].pc = "answer" =>
         refresh'[b].m.status # "none" /\ Timely(refresh'[b].m)
  <2>1. \A b \in Buys : refresh'[b] = Refreshed \/ refresh'[b] = refresh[b]
    BY <1>1, Constants DEF FillsInv, AnswersInv
  <2> QED
    BY <2>1 DEF AgreeInv, TimelyInv, Refreshed
<1>10. app' # "down"
  BY <1>1
<1>11. \A b \in Buys : statuses'[b].status # "none" => Timely(statuses'[b])
  BY <1>1 DEF AgreeInv, TimelyInv
<1> QED
  BY <1>1, <1>6, <1>8, <1>9, <1>10, <1>11, BootAgrees

LEMMA RebuildEndsAgrees ==
    ASSUME ~DealFinished, FillsInv, AgreeInv, RebuildEnds
    PROVE  AgreeInv'
<1>1. /\ UNCHANGED <<clock, exchange, feed, callback, submissions, orders, statuses,
                     refresh>>
      /\ app = "rebuild" /\ app' = "run"
  BY DEF RebuildEnds, exchangeVars, storeVars
<1>2. \A o \in Buys : (Current(o) => Current(o)') /\ (Knows(o) => Knows(o)')
  <2>1. \A o \in Buys : Current(o) => Current(o)'
    BY <1>1 DEF Current
  <2> QED
    BY <1>1, <2>1, KnowsKept
<1>3. \A o \in Buys : PhaseOK(o)'
  BY <1>1, <1>2 DEF AgreeInv, PhaseInv, PhaseOK
<1>4. app' # "down"
  BY <1>1
<1>5. /\ \A b \in Buys : b \in DOMAIN orders' => orders'[b].statusObserved <= exchange[b].at
      /\ \A b \in Buys : statuses'[b].status # "none" => Timely(statuses'[b])
      /\ \A b \in Buys : refresh'[b].pc = "answer" =>
            refresh'[b].m.status # "none" /\ Timely(refresh'[b].m)
  BY <1>1 DEF AgreeInv, TimesInv, TimelyInv
<1> QED
  BY <1>1, <1>2, <1>3, <1>4, <1>5, BootAgrees

\* Reconciliation and the engine write take profits only.
LEMMA ReconcileAgrees ==
    ASSUME FillsInv, AgreeInv, NEW g, NEW v \in Venues, Reconcile(g, v)
    PROVE  AgreeInv'
<1>1. PICK tp : tp = TakeProfitAt(v)
  OBVIOUS
<1>2. tp \in TakeProfits /\ tp \notin Buys
  BY <1>1, TakeProfitThere, Constants
<1>3. UNCHANGED <<clock, exchange, feed, callback, statuses, submissions, refresh, app>>
  BY DEF Reconcile, exchangeVars, storeVars, appVars
<1>4. \/ UNCHANGED orders
      \/ orders' = [orders EXCEPT ![tp] = markCancelled(orders[tp], clock)]
  BY <1>1 DEF Reconcile, ReconcileCancels, ReconcileResizes, ReconcileCreates,
              ReconcileLeaves
<1>5. SameBuys
  BY <1>2, <1>4 DEF SameBuys
<1>6. clock' \in Nat /\ clock' >= clock
  BY <1>3 DEF FillsInv, ExchangeInv
<1> QED
  BY <1>3, <1>5, <1>6, QuietAgree

LEMMA EngineAgrees ==
    ASSUME FillsInv, AgreeInv, EngineSteps
    PROVE  AgreeInv'
<1>1. UNCHANGED <<clock, exchange, feed, callback, statuses, submissions, refresh, app>>
  BY DEF EngineSteps, EngineReads, EngineRecords, EngineEmits, exchangeVars, storeVars,
         appVars
<1>2. clock' \in Nat /\ clock' >= clock
  BY <1>1 DEF FillsInv, ExchangeInv
<1>3. CASE EngineReads \/ EngineRecords
  <2>1. UNCHANGED orders
    BY <1>3 DEF EngineReads, EngineRecords
  <2> QED
    BY <1>1, <1>2, <2>1, QuietAgree DEF SameBuys
<1>4. ASSUME NEW v \in Venues, EngineEmits(v) PROVE AgreeInv'
  <2>1. PICK tp : tp = TakeProfitAt(v)
    OBVIOUS
  <2>2. tp \in TakeProfits /\ tp \notin Buys
    BY <2>1, TakeProfitThere, Constants
  <2>3. PICK known : known = ensureOrder(orders, tp)
    OBVIOUS
  <2>4. PICK s : orders' = [known EXCEPT ![tp] = s]
    BY <1>4, <2>1, <2>3 DEF EngineEmits
  <2>5. \A o \in Buys : /\ o \in DOMAIN known <=> o \in DOMAIN orders
                        /\ o \in DOMAIN orders => known[o] = orders[o]
    BY <2>2, <2>3 DEF ensureOrder
  <2>6. SameBuys
    BY <2>2, <2>4, <2>5 DEF SameBuys
  <2> QED
    BY <1>1, <1>2, <2>6, QuietAgree
<1> QED
  BY <1>3, <1>4 DEF EngineSteps

\* These steps touch neither the buys nor anything about them.
LEMMA OtherAgrees ==
    ASSUME FillsInv, AgreeInv,
           \/ Tick \/ ReconcileTakeProfits \/ UNCHANGED takeProfitVars
           \/ \E w \in Workers : OrderWorkerGets(w) \/ SubmitFails(w)
           \/ \E i \in 1 .. Len(backoff) : OrderBackoffEnds(i)
    PROVE  AgreeInv'
<1>1. UNCHANGED <<exchange, feed, callback, orders, statuses, submissions, refresh, app>>
  BY DEF Tick, ReconcileTakeProfits, OrderWorkerGets, SubmitFails, OrderBackoffEnds,
         takeProfitVars, exchangeVars, storeVars, appVars
<1>2. clock' = clock \/ clock' = clock + 1
  BY DEF Tick, ReconcileTakeProfits, OrderWorkerGets, SubmitFails, OrderBackoffEnds,
         takeProfitVars
<1>3. clock' \in Nat /\ clock' >= clock
  BY <1>2 DEF FillsInv, ExchangeInv
<1> QED
  BY <1>1, <1>3, QuietAgree DEF SameBuys

LEMMA AgreeStep ==
    ASSUME ~QueriesMayFail, ~DealFinished
    PROVE  FillsInv /\ AgreeInv /\ [NextTakeProfit]_takeProfitVars => AgreeInv'
<1> SUFFICES ASSUME FillsInv, AgreeInv, [NextTakeProfit]_takeProfitVars PROVE AgreeInv'
  OBVIOUS
<1>1. CASE \E o \in Buys : Buy(o) \/ BuyCancelled(o)
  BY <1>1, BuyAgrees
<1>2. CASE \E o \in TakeProfits : \E n \in 1 .. Largest : Sell(o, n)
  BY <1>2, SellStepAgrees
<1>3. CASE \E v \in Venues : Callback(v)
  BY <1>3, CallbackUpdatesAgrees, CallbackRecordsAgrees DEF Callback
<1>4. CASE \E g \in Goroutines, v \in Venues : Reconcile(g, v)
  BY <1>4, ReconcileAgrees
<1>5. CASE CleanupStaleDeals
  BY <1>5, CleanupAgrees
<1>6. CASE EngineSteps
  BY <1>6, EngineAgrees
<1>7. CASE \E w \in Workers : Submit(w) \/ WorkerRecords(w)
  BY <1>7, SubmitAgrees, WorkerRecordsAgrees
<1>8. CASE ProcessCrashes
  BY <1>8, CrashAgrees
<1>9. CASE Boot
  BY <1>9, RestartAgrees, RefreshEndsAgrees, RebuildEndsAgrees, QueryAgrees,
     RefreshAgrees, LoadAgrees, RebuildAgrees DEF Boot
<1>10. CASE \/ Tick \/ ReconcileTakeProfits \/ UNCHANGED takeProfitVars
            \/ \E w \in Workers : OrderWorkerGets(w) \/ SubmitFails(w)
            \/ \E i \in 1 .. Len(backoff) : OrderBackoffEnds(i)
  BY <1>10, OtherAgrees
<1> QED
  BY <1>1, <1>2, <1>3, <1>4, <1>5, <1>6, <1>7, <1>8, <1>9, <1>10 DEF NextTakeProfit, WorkerSteps

\* Once every report is delivered, the fill tracker and the exchange agree on the status
\* and the fills of every buy the tracker knows, over any number of crashes in which
\* reports were lost: the order of the websocket, the refresher and the rebuild at a
\* start does not matter. A status query that fails leaves what is stored (Refresh goes
\* on to the next order), and the open buys of a finished deal are closed without the
\* exchange (filltracker/service.go:966): neither is claimed here.
THEOREM TrackerAgrees ==
    ASSUME ~QueriesMayFail, ~DealFinished
    PROVE  SpecTakeProfit => []BuysAgree
<1>1. FillsInv /\ AgreeInv => BuysAgree
  <2> SUFFICES ASSUME FillsInv, AgreeInv, NEW o \in DOMAIN orders \cap Buys,
                      Caught(VenueOf[o])
               PROVE  /\ orders[o].status = exchange[o].status
                      /\ orders[o].filledQty = Bought(o)
    BY DEF BuysAgree
  <2>1. app = "run" /\ feed[VenueOf[o]] = <<>>
    BY DEF Caught
  <2>2. Knows(o)
    BY <2>1 DEF AgreeInv, PhaseInv, PhaseOK
  <2>3. ~Awaited(o)
    BY <2>1 DEF Awaited
  <2>4. Heard(orders[o], exchange[o])
    BY <2>2, <2>3 DEF Knows, Current
  <2> QED
    BY <2>4 DEF Heard, Bought
<1>2. InitTakeProfit => FillsInv /\ AgreeInv
  BY FillsInit, AgreeInit
<1>3. FillsInv /\ AgreeInv /\ [NextTakeProfit]_takeProfitVars => FillsInv' /\ AgreeInv'
  BY FillsStep, AgreeStep
<1> QED
  BY <1>1, <1>2, <1>3, PTL DEF SpecTakeProfit

-----------------------------------------------------------------------------
(* Sums *)

\* A set of numbers has a smallest one.
LEMMA Smallest ==
    ASSUME NEW S, S \subseteq Nat, S # {}
    PROVE  \E v \in S : \A u \in S : v <= u
<1> DEFINE R == OpToRel(<, Nat)
<1>1. IsWellFoundedOn(R, Nat)
  BY NatLessThanWellFounded
<1>2. \A u, v \in Nat : u < v => <<u, v>> \in R
  BY DEF OpToRel
<1> HIDE DEF R
<1>3. PICK v \in S : \A u \in S : ~(<<u, v>> \in R)
  BY <1>1, WFMin
<1>4. \A u \in S : ~(u < v)
  BY <1>2, <1>3
<1> QED
  BY <1>4

\* The element that a fold takes out of s first.
Pick(s) == CHOOSE x \in s : TRUE

\* g gives the sum of f over every subset of S.
Sums(f, S, g) ==
    g = [s \in SUBSET S |-> IF s = {} THEN 0 ELSE f[Pick(s)] + g[s \ {Pick(s)}]]

\* So it does over the subsets of up to n elements.
SumsTo(f, S, g, n) ==
    /\ g \in [SUBSET S -> Int]
    /\ \A s \in SUBSET S : Cardinality(s) <= n =>
          g[s] = IF s = {} THEN 0 ELSE f[Pick(s)] + g[s \ {Pick(s)}]

\* The sum of the library is taken from such a function.
LEMMA SumIs ==
    ASSUME NEW f, NEW S
    PROVE  SumFunctionOnSet(f, S) = (CHOOSE g : Sums(f, S, g))[S]
BY DEF SumFunctionOnSet, FoldFunctionOnSet, MapThenFoldSet, Sums, Pick

\* A subset without one of its elements.
LEMMA PickedOff ==
    ASSUME NEW S, IsFiniteSet(S), NEW s \in SUBSET S
    PROVE  /\ Cardinality(s) \in Nat
           /\ s = {} <=> Cardinality(s) = 0
           /\ s # {} => /\ Pick(s) \in s /\ s \ {Pick(s)} \in SUBSET S
                        /\ Cardinality(s \ {Pick(s)}) = Cardinality(s) - 1
<1>1. IsFiniteSet(s)
  BY FS_Subset
<1>2. Cardinality(s) \in Nat
  BY <1>1, FS_CardinalityType
<1>3. s = {} <=> Cardinality(s) = 0
  BY <1>1, FS_EmptySet
<1>4. ASSUME s # {} PROVE Pick(s) \in s
  BY <1>4 DEF Pick
<1>5. ASSUME s # {} PROVE Cardinality(s \ {Pick(s)}) = Cardinality(s) - 1
  BY <1>1, <1>4, <1>5, FS_RemoveElement
<1> QED
  BY <1>2, <1>3, <1>4, <1>5

\* One more element: what SumsTo has is extended.
LEMMA SumsFurther ==
    ASSUME NEW S, IsFiniteSet(S), NEW f \in [S -> Int], NEW n \in Nat,
           NEW g, SumsTo(f, S, g, n)
    PROVE  \E h : SumsTo(f, S, h, n + 1)
<1> DEFINE h == [s \in SUBSET S |-> IF Cardinality(s) <= n THEN g[s]
                                    ELSE f[Pick(s)] + g[s \ {Pick(s)}]]
<1>0. g \in [SUBSET S -> Int]
  BY DEF SumsTo
<1>1. ASSUME NEW s \in SUBSET S
      PROVE  h[s] \in Int
  <2>1. CASE Cardinality(s) <= n
    BY <1>0, <2>1
  <2>2. CASE ~(Cardinality(s) <= n)
    <3>0. s = {} <=> Cardinality(s) = 0
      BY PickedOff
    <3>1. s # {}
      BY <2>2, <3>0
    <3>2. Pick(s) \in S /\ s \ {Pick(s)} \in SUBSET S
      BY <3>1, PickedOff
    <3>3. f[Pick(s)] + g[s \ {Pick(s)}] \in Int
      BY <1>0, <3>2
    <3> QED
      BY <2>2, <3>3
  <2> QED
    BY <2>1, <2>2
<1>2. h \in [SUBSET S -> Int]
  BY <1>1
<1>3. ASSUME NEW s \in SUBSET S, Cardinality(s) <= n + 1
      PROVE  h[s] = IF s = {} THEN 0 ELSE f[Pick(s)] + h[s \ {Pick(s)}]
  <2>1. CASE s = {}
    <3>1. Cardinality(s) = 0
      BY <2>1, PickedOff
    <3>2. h[s] = g[s] /\ g[s] = 0
      BY <2>1, <3>1 DEF SumsTo
    <3> QED
      BY <2>1, <3>2
  <2>2. CASE s # {}
    <3> DEFINE t == s \ {Pick(s)}
    <3>1. t \in SUBSET S /\ Cardinality(t) = Cardinality(s) - 1 /\ Cardinality(s) \in Nat
      BY <2>2, PickedOff
    <3>2. Cardinality(t) <= n
      BY <1>3, <3>1
    <3>3. h[t] = g[t]
      BY <3>1, <3>2
    <3>4. h[s] = f[Pick(s)] + g[t]
      <4>1. CASE Cardinality(s) <= n
        BY <2>2, <4>1 DEF SumsTo
      <4>2. CASE ~(Cardinality(s) <= n)
        BY <4>2
      <4> QED
        BY <4>1, <4>2
    <3> QED
      BY <2>2, <3>3, <3>4
  <2> QED
    BY <2>1, <2>2
<1> HIDE DEF h
<1> QED
  BY <1>2, <1>3 DEF SumsTo

\* There is such a function for any number of elements.
LEMMA SumsExist ==
    ASSUME NEW S, IsFiniteSet(S), NEW f \in [S -> Int]
    PROVE  \A n \in Nat : \E g : SumsTo(f, S, g, n)
<1> DEFINE Without == {n \in Nat : ~\E g : SumsTo(f, S, g, n)}
<1> SUFFICES ASSUME Without # {} PROVE FALSE
  OBVIOUS
<1>1. PICK n \in Without : \A m \in Without : n <= m
  BY Smallest
<1>2. CASE n = 0
  <2> DEFINE g == [s \in SUBSET S |-> 0]
  <2>1. g \in [SUBSET S -> Int]
    OBVIOUS
  <2>2. ASSUME NEW s \in SUBSET S, Cardinality(s) <= 0 PROVE s = {}
    <3>1. Cardinality(s) \in Nat /\ (s = {} <=> Cardinality(s) = 0)
      BY PickedOff
    <3> QED
      BY <2>2, <3>1
  <2>3. SumsTo(f, S, g, 0)
    BY <2>1, <2>2 DEF SumsTo
  <2> QED
    BY <1>2, <2>3
<1>3. CASE n # 0
  <2>1. n - 1 \in Nat /\ n - 1 \notin Without
    BY <1>1, <1>3
  <2>2. PICK g : SumsTo(f, S, g, n - 1)
    BY <2>1
  <2>3. \E h : SumsTo(f, S, h, (n - 1) + 1)
    BY <2>1, <2>2, SumsFurther
  <2>4. (n - 1) + 1 = n
    OBVIOUS
  <2> QED
    BY <2>3, <2>4
<1> QED
  BY <1>2, <1>3

\* The sum of the library, element by element.
SumsUp(f, S, h) ==
    /\ SumFunctionOnSet(f, S) = h[S]
    /\ \A s \in SUBSET S : h[s] = IF s = {} THEN 0 ELSE f[Pick(s)] + h[s \ {Pick(s)}]

\* The library takes its sum from a function that exists.
LEMMA SumSteps ==
    ASSUME NEW S, IsFiniteSet(S), NEW f \in [S -> Int]
    PROVE  \E h : SumsUp(f, S, h)
<1>1. Cardinality(S) \in Nat
  BY FS_CardinalityType
<1>2. PICK g : SumsTo(f, S, g, Cardinality(S))
  BY <1>1, SumsExist
<1>3. \A s \in SUBSET S : Cardinality(s) <= Cardinality(S)
  BY FS_Subset
<1>4. g = [s \in SUBSET S |-> g[s]] /\ \A s \in SUBSET S :
         g[s] = IF s = {} THEN 0 ELSE f[Pick(s)] + g[s \ {Pick(s)}]
  BY <1>2, <1>3 DEF SumsTo
<1>5. Sums(f, S, g)
  BY <1>4 DEF Sums
<1> DEFINE h == CHOOSE k : Sums(f, S, k)
<1>6. Sums(f, S, h)
  BY <1>5
<1> HIDE DEF h
<1>7. \A s \in SUBSET S : h[s] = IF s = {} THEN 0 ELSE f[Pick(s)] + h[s \ {Pick(s)}]
  BY <1>6 DEF Sums
<1>8. SumFunctionOnSet(f, S) = h[S]
  BY SumIs DEF h
<1> QED
  BY <1>7, <1>8 DEF SumsUp

\* The sum of integers is an integer.
LEMMA SumTyped ==
    ASSUME NEW S, IsFiniteSet(S), NEW f \in [S -> Int]
    PROVE  SumFunctionOnSet(f, S) \in Int
<1>1. PICK h : SumsUp(f, S, h)
  BY SumSteps
<1>2. Cardinality(S) \in Nat
  BY FS_CardinalityType
<1> DEFINE Wrong == {n \in Nat : \E s \in SUBSET S : Cardinality(s) = n /\ h[s] \notin Int}
<1>3. Wrong = {}
  <2> SUFFICES ASSUME Wrong # {} PROVE FALSE
    OBVIOUS
  <2>1. PICK n \in Wrong : \A m \in Wrong : n <= m
    BY Smallest
  <2>2. PICK s \in SUBSET S : Cardinality(s) = n /\ h[s] \notin Int
    BY <2>1
  <2>3. s # {}
    <3>1. h[{}] = 0
      BY <1>1 DEF SumsUp
    <3> QED
      BY <2>2, <3>1
  <2>4. Pick(s) \in S /\ s \ {Pick(s)} \in SUBSET S /\ Cardinality(s \ {Pick(s)}) = n - 1
    BY <2>2, <2>3, PickedOff
  <2>5. n - 1 \notin Wrong
    BY <2>1
  <2>6. n - 1 \in Nat
    <3>1. Cardinality(s) \in Nat /\ (s = {} <=> Cardinality(s) = 0)
      BY PickedOff
    <3> QED
      BY <2>2, <2>3, <3>1
  <2>7. h[s \ {Pick(s)}] \in Int
    BY <2>4, <2>5, <2>6
  <2>8. f[Pick(s)] \in Int
    BY <2>4
  <2>9. h[s] = f[Pick(s)] + h[s \ {Pick(s)}]
    BY <1>1, <2>3 DEF SumsUp
  <2> QED
    BY <2>2, <2>7, <2>8, <2>9
<1>4. h[S] \in Int
  BY <1>2, <1>3
<1> QED
  BY <1>1, <1>4 DEF SumsUp

-----------------------------------------------------------------------------
(* Types *)

\* A map of tracked orders.
TrackedMap(os) == Tracked(os) /\ IsFiniteSet(DOMAIN os)

\* What the types need besides themselves: only finitely many orders are tracked ...
TrackerMaps == TrackedMap(orders) /\ hydrated \in BOOLEAN

HandMaps == HandTyped /\ \A g \in Goroutines : IsFiniteSet(DOMAIN hand[g].os)

\* ... and the refresher holds an answer of the exchange.
AnswersTyped ==
    app = "refresh" =>
        \A o \in Orders : refresh[o].pc = "answer" => refresh[o].m \in Message

TypesInv ==
    /\ ExchangeTyped /\ FeedTyped /\ TrackerMaps /\ StoreTyped
    /\ HandMaps /\ WorkTyped /\ AppTyped /\ AnswersTyped

\* What the tracker makes of an order is an order.
LEMMA OrderKept ==
    ASSUME NEW s \in OrderState, NEW size \in Nat, NEW t \in BOOLEAN, NEW now \in Nat
    PROVE  /\ applyEvent(s, size, t) \in OrderState
           /\ inferFromEvent(s, now) \in OrderState
           /\ applyScaledSize(s, size) \in OrderState
           /\ markCancelled(s, now) \in OrderState
<1> DEFINE b == s.filledQty
<1>1. b \in Nat
  BY DEF OrderState
<1>2. Believes(s, b)
  BY <1>1 DEF Believes
<1> HIDE DEF b
<1>3. /\ Believes(applyEvent(s, size, t), b)
      /\ Believes(inferFromEvent(s, now), b)
      /\ Believes(applyScaledSize(s, size), b)
      /\ Believes(markCancelled(s, now), b)
  BY <1>1, <1>2, EventBelieves, InferBelieves, ScaledBelieves, CancelledBelieves
<1> QED
  BY <1>3 DEF Believes

\* So it does with a status.
LEMMA StatusKept ==
    ASSUME NEW s \in OrderState, NEW m, m.status \in Statuses, m.at \in Nat,
           m.origSz \in Nat, m.sz \in Nat
    PROVE  applyStatus(s, m) \in OrderState
<1>1. Minus(m.origSz, m.sz) \in Nat
  BY DEF Minus
<1> HIDE DEF Minus
<1>2. CASE m.at < s.statusObserved
  BY <1>2 DEF applyStatus
<1>3. CASE ~(m.at < s.statusObserved)
  <2> DEFINE r == IF m.status = "canceled" THEN 0 ELSE m.sz
             f == IF m.origSz > 0 THEN Minus(m.origSz, m.sz) ELSE s.filledQty
  <2>1. r \in Nat /\ f \in Nat
    BY <1>1 DEF OrderState
  <2>2. applyStatus(s, m) = [s EXCEPT !.statusObserved = m.at,
              !.status = m.status, !.originalQty = m.origSz,
              !.remainingQty = r, !.filledQty = f]
    BY <1>3 DEF applyStatus, OrderState
  <2> HIDE DEF r, f
  <2> QED
    BY <1>1, <2>1, <2>2 DEF OrderState
<1> QED
  BY <1>2, <1>3

\* A tracker that starts with an order.
LEMMA NewTyped ==
    ASSUME NEW h \in BOOLEAN
    PROVE  NewOrder(h) \in OrderState
  BY DEF NewOrder, OrderState, Statuses

\* An order that is not known is added.
LEMMA EnsureTyped ==
    ASSUME NEW os, TrackedMap(os), NEW o \in Orders, hydrated \in BOOLEAN
    PROVE  /\ TrackedMap(ensureOrder(os, o)) /\ o \in DOMAIN ensureOrder(os, o)
<1>1. CASE o \in DOMAIN os
  BY <1>1 DEF ensureOrder
<1>2. CASE o \notin DOMAIN os
  <2> DEFINE k == [x \in DOMAIN os \cup {o} |->
                                 IF x = o THEN NewOrder(hydrated) ELSE os[x]]
  <2>1. ensureOrder(os, o) = k
    BY <1>2 DEF ensureOrder
  <2>2. NewOrder(hydrated) \in OrderState
    BY NewTyped
  <2>3. IsFiniteSet(DOMAIN os \cup {o})
    BY FS_AddElement DEF TrackedMap
  <2>4. Tracked(k)
    BY <2>2 DEF TrackedMap, Tracked
  <2>5. DOMAIN k = DOMAIN os \cup {o}
    OBVIOUS
  <2> HIDE DEF k
  <2> QED
    BY <2>1, <2>3, <2>4, <2>5 DEF TrackedMap
<1> QED
  BY <1>1, <1>2

\* One order gets another state.
LEMMA PutTyped ==
    ASSUME NEW os, TrackedMap(os), NEW o, NEW s, o \in DOMAIN os => s \in OrderState
    PROVE  /\ TrackedMap([os EXCEPT ![o] = s])
           /\ DOMAIN [os EXCEPT ![o] = s] = DOMAIN os
           /\ o \in DOMAIN os => [os EXCEPT ![o] = s][o] = s
  BY DEF TrackedMap, Tracked

\* A status that reaches the tracker leaves it with typed orders.
LEMMA UpdateTyped ==
    ASSUME TrackedMap(orders), hydrated \in BOOLEAN, NEW g, NEW m \in Message,
           UpdateStatus(g, m)
    PROVE  /\ TrackedMap(orders') /\ hydrated' \in BOOLEAN
           /\ hand' = [hand EXCEPT ![g] = Snapshot(orders')]
<1> DEFINE o == m.order
           s == IF o \in DOMAIN orders THEN orders[o] ELSE NewOrder(hydrated)
           e == applyEvent(s, Size[o], o \in TakeProfits)
           r == applyStatus(e, m)
<1>1. /\ o \in Orders /\ m.status \in Statuses /\ m.at \in Nat
      /\ m.origSz \in Nat /\ m.sz \in Nat
  BY DEF Message
<1>2. /\ DOMAIN orders' = DOMAIN orders \cup {o}
      /\ \A p \in DOMAIN orders : p # o => orders'[p] = orders[p]
      /\ orders'[o] = r \/ orders'[o] = [r EXCEPT !.hydrated = TRUE]
  BY UpdateValue
<1>3. s \in OrderState
  BY NewTyped DEF TrackedMap, Tracked
<1>4. Size[o] \in Nat
  BY <1>1, Constants DEF Orders
<1>5. (o \in TakeProfits) \in BOOLEAN
  OBVIOUS
<1> HIDE DEF o, s
<1>6. e \in OrderState
  <2>1. PICK t \in BOOLEAN : t = (o \in TakeProfits)
    BY <1>5
  <2>2. PICK now \in Nat : now = 0
    OBVIOUS
  <2>3. applyEvent(s, Size[o], t) \in OrderState
    BY <1>3, <1>4, <2>1, <2>2, OrderKept
  <2> QED
    BY <2>1, <2>3
<1> HIDE DEF e
<1>7. r \in OrderState
  BY <1>1, <1>6, StatusKept
<1> HIDE DEF r
<1>8. [r EXCEPT !.hydrated = TRUE] \in OrderState
  BY <1>7 DEF OrderState
<1>9. orders'[o] \in OrderState
  BY <1>2, <1>7, <1>8
<1>10. IsFiniteSet(DOMAIN orders')
  BY <1>2, FS_AddElement DEF TrackedMap
<1>11. Tracked(orders')
  BY <1>1, <1>2, <1>9 DEF TrackedMap, Tracked
<1>12. hydrated' \in BOOLEAN
  BY DEF UpdateStatus
<1>13. hand' = [hand EXCEPT ![g] = Snapshot(orders')]
  BY DEF UpdateStatus
<1> QED
  BY <1>10, <1>11, <1>12, <1>13 DEF TrackedMap

\* A snapshot of typed orders.
LEMMA SnapshotTyped ==
    ASSUME NEW os, TrackedMap(os)
    PROVE  /\ DOMAIN Snapshot(os) = {"os", "todo"} /\ TrackedMap(Snapshot(os).os)
           /\ Snapshot(os).todo \subseteq Venues
<1>1. {VenueOf[o] : o \in DOMAIN os} \subseteq Venues
  BY Constants DEF TrackedMap, Tracked
<1> QED
  BY <1>1 DEF Snapshot

\* No orders at all.
LEMMA NothingTyped == TrackedMap(NothingTracked)
<1>1. DOMAIN NothingTracked = {}
  BY DEF NothingTracked
<1> QED
  BY <1>1, FS_EmptySet DEF TrackedMap, Tracked

\* The filled quantity of some of the orders is a number.
LEMMA FilledTyped ==
    ASSUME NEW os, TrackedMap(os), NEW S
    PROVE  Filled(os, S) \in Int
<1> DEFINE D == S \cap DOMAIN os
           f == [o \in D |-> os[o].filledQty]
<1>1. IsFiniteSet(D)
  BY FS_Subset DEF TrackedMap
<1>2. \A o \in D : os[o].filledQty \in Int
  BY DEF TrackedMap, Tracked, OrderState
<1>3. f \in [D -> Int] /\ DOMAIN f = D
  BY <1>2
<1>4. Filled(os, S) = SumFunctionOnSet(f, DOMAIN f)
  BY DEF Filled, SumFunction, SumFunctionOnSet, FoldFunction
<1> HIDE DEF f, D
<1> QED
  BY <1>1, <1>3, <1>4, SumTyped

\* So is the position at a venue.
LEMMA NetTyped ==
    ASSUME NEW os, TrackedMap(os), NEW v
    PROVE  Net(os, v) \in Int
  BY FilledTyped DEF Net

\* A part of the state that a step leaves alone stays typed.
LEMMA QuietTypes ==
    ASSUME TypesInv
    PROVE  /\ UNCHANGED <<clock, exchange, position>> => ExchangeTyped'
           /\ UNCHANGED <<feed, callback>> => FeedTyped'
           /\ UNCHANGED <<orders, hydrated>> => TrackerMaps'
           /\ UNCHANGED <<statuses, submissions, audits>> => StoreTyped'
           /\ UNCHANGED hand => HandMaps'
           /\ UNCHANGED <<workQueue, backoff, worker>> => WorkTyped'
           /\ UNCHANGED <<engine, app, refresh, crashes, failures>> =>
                 AppTyped' /\ AnswersTyped'
<1>1. UNCHANGED <<clock, exchange, position>> => ExchangeTyped'
  BY DEF TypesInv, ExchangeTyped
<1>2. UNCHANGED <<feed, callback>> => FeedTyped'
  BY DEF TypesInv, FeedTyped
<1>3. UNCHANGED <<orders, hydrated>> => TrackerMaps'
  BY DEF TypesInv, TrackerMaps, TrackedMap, Tracked
<1>4. UNCHANGED <<statuses, submissions, audits>> => StoreTyped'
  BY DEF TypesInv, StoreTyped
<1>5. UNCHANGED hand => HandMaps'
  BY DEF TypesInv, HandMaps, HandTyped, Tracked
<1>6. UNCHANGED <<workQueue, backoff, worker>> => WorkTyped'
  BY DEF TypesInv, WorkTyped
<1>7. UNCHANGED <<engine, app, refresh, crashes, failures>> => AppTyped' /\ AnswersTyped'
  BY DEF TypesInv, AppTyped, AnswersTyped
<1> QED
  BY <1>1, <1>2, <1>3, <1>4, <1>5, <1>6, <1>7

\* An order of the exchange, and what is reported of it.
OnExchange == [status : Statuses, origSz : Nat, sz : Nat, at : Nat]

LEMMA ReportTyped ==
    ASSUME NEW o \in Orders, NEW e \in OnExchange
    PROVE  Report(o, e) \in Message
  BY DEF OnExchange, Report, Message

\* Messages that are published.
LEMMA PublishTyped ==
    ASSUME FeedTyped, NEW v \in Venues, NEW q \in Seq(Message), Publish(v, q),
           UNCHANGED callback
    PROVE  FeedTyped'
<1>1. CASE app = "down"
  BY <1>1 DEF Publish, FeedTyped
<1>2. CASE app # "down"
  <2>1. feed' = [feed EXCEPT ![v] = feed[v] \o q]
    BY <1>2 DEF Publish
  <2>2. feed[v] \in Seq(Message)
    BY DEF FeedTyped
  <2>3. feed[v] \o q \in Seq(Message)
    BY <2>2
  <2>4. feed' \in [Venues -> Seq(Message)]
    BY <2>1, <2>3 DEF FeedTyped
  <2> QED
    BY <2>4 DEF FeedTyped
<1> QED
  BY <1>1, <1>2

\* An order changes on the exchange.
LEMMA ChangesTyped ==
    ASSUME TypesInv, NEW o \in Orders, NEW e \in OnExchange, Changes(o, e),
           clock' \in 1 .. MaxClock, position' \in [Venues -> Nat], UNCHANGED callback
    PROVE  ExchangeTyped' /\ FeedTyped'
<1>1. exchange' = [exchange EXCEPT ![o] = e]
  BY DEF Changes
<1>2. exchange \in [Orders -> OnExchange]
  BY DEF TypesInv, ExchangeTyped, OnExchange
<1>3. exchange' \in [Orders -> OnExchange]
  BY <1>1, <1>2
<1>4. ExchangeTyped'
  BY <1>3 DEF ExchangeTyped, OnExchange
<1>5. Report(o, e) \in Message
  BY ReportTyped
<1> DEFINE q == <<Report(o, e)>>
<1>6. q \in Seq(Message)
  BY <1>5
<1>7. Publish(VenueOf[o], q) /\ VenueOf[o] \in Venues
  BY Constants DEF Changes
<1> HIDE DEF q
<1>8. FeedTyped'
  BY <1>6, <1>7, PublishTyped DEF TypesInv
<1> QED
  BY <1>4, <1>8

\* A new order takes the place of one that rests.
LEMMA RestTyped ==
    ASSUME TypesInv, NEW o \in Orders, NEW e \in OnExchange, Rest(o, e),
           UNCHANGED <<clock, position, callback>>
    PROVE  ExchangeTyped' /\ FeedTyped'
<1>1. exchange' = [exchange EXCEPT ![o] = e]
  BY DEF Rest
<1>2. exchange \in [Orders -> OnExchange]
  BY DEF TypesInv, ExchangeTyped, OnExchange
<1>3. exchange' \in [Orders -> OnExchange]
  BY <1>1, <1>2
<1>4. ExchangeTyped'
  BY <1>3 DEF ExchangeTyped, OnExchange, TypesInv
<1> DEFINE gone == [exchange[o] EXCEPT !.status = "canceled", !.at = clock]
           new == <<Report(o, e)>>
           old == IF exchange[o].status # "open" THEN <<>> ELSE <<Report(o, gone)>>
           q == IF OpenBeforeCancel THEN new \o old ELSE old \o new
<1>5. clock \in Nat
  BY TakeProfitAssumption DEF TypesInv, ExchangeTyped
<1>6. exchange[o] \in OnExchange
  BY <1>2
<1>7. gone \in OnExchange
  BY <1>5, <1>6 DEF OnExchange, Statuses
<1>8. Publish(VenueOf[o], q) /\ VenueOf[o] \in Venues
  BY Constants DEF Rest
<1> HIDE DEF gone
<1>9. Report(o, gone) \in Message /\ Report(o, e) \in Message
  BY <1>7, ReportTyped
<1>10. new \in Seq(Message) /\ old \in Seq(Message)
  BY <1>9
<1> HIDE DEF new, old
<1>11. q \in Seq(Message)
  BY <1>10
<1> HIDE DEF q
<1>12. FeedTyped'
  BY <1>8, <1>11, PublishTyped DEF TypesInv
<1> QED
  BY <1>4, <1>12

\* A goroutine gets something else in hand.
LEMMA HandPut ==
    ASSUME HandMaps, NEW g \in Goroutines, NEW h, DOMAIN h = {"os", "todo"},
           TrackedMap(h.os), h.todo \subseteq Venues, hand' = [hand EXCEPT ![g] = h]
    PROVE  HandMaps'
<1>1. DOMAIN hand' = Goroutines /\ hand'[g] = h
  BY DEF HandMaps, HandTyped
<1>2. \A k \in Goroutines : k # g => hand'[k] = hand[k]
  BY DEF HandMaps, HandTyped
<1>3. ASSUME NEW k \in Goroutines
      PROVE  /\ DOMAIN hand'[k] = {"os", "todo"} /\ TrackedMap(hand'[k].os)
             /\ hand'[k].todo \subseteq Venues
  BY <1>1, <1>2 DEF HandMaps, HandTyped, TrackedMap
<1> QED
  BY <1>1, <1>3 DEF HandMaps, HandTyped, TrackedMap, Tracked

\* A goroutine is through with a venue.
LEMMA FinishedTyped ==
    ASSUME HandMaps, NEW g \in Goroutines, NEW v, Finished(g, v)
    PROVE  HandMaps'
<1> DEFINE h == IF hand[g].todo = {v} THEN EmptyHand
                ELSE [os |-> hand[g].os, todo |-> hand[g].todo \ {v}]
<1>1. hand' = [hand EXCEPT ![g] = h]
  <2>1. CASE hand[g].todo = {v}
    BY <2>1 DEF Finished
  <2>2. CASE hand[g].todo # {v}
    BY <2>2 DEF Finished
  <2> QED
    BY <2>1, <2>2
<1>2. /\ DOMAIN hand[g] = {"os", "todo"} /\ TrackedMap(hand[g].os)
      /\ hand[g].todo \subseteq Venues
  BY DEF HandMaps, HandTyped, TrackedMap
<1>3. DOMAIN h = {"os", "todo"} /\ TrackedMap(h.os) /\ h.todo \subseteq Venues
  <2>1. CASE hand[g].todo = {v}
    <3>1. h = EmptyHand
      BY <2>1
    <3> HIDE DEF h
    <3> QED
      BY <3>1, NothingTyped DEF EmptyHand
  <2>2. CASE hand[g].todo # {v}
    <3>1. h = [os |-> hand[g].os, todo |-> hand[g].todo \ {v}]
      BY <2>2
    <3> HIDE DEF h
    <3>2. DOMAIN h = {"os", "todo"} /\ h.os = hand[g].os /\ h.todo = hand[g].todo \ {v}
      BY <1>2, <3>1
    <3> QED
      BY <1>2, <3>2
  <2> QED
    BY <2>1, <2>2
<1> HIDE DEF h
<1> QED
  BY <1>1, <1>3, HandPut

\* Work is put into the queue.
LEMMA EnqueueTyped ==
    ASSUME WorkTyped, NEW w \in Work, Enqueue(w)
    PROVE  workQueue' \in Seq(Work)
<1>1. workQueue \in Seq(Work)
  BY DEF WorkTyped
<1>2. Append(workQueue, w) \in Seq(Work)
  BY <1>1
<1>3. workQueue' = workQueue \/ workQueue' = Append(workQueue, w)
  BY DEF Enqueue
<1> QED
  BY <1>1, <1>2, <1>3

LEMMA NewWorkTyped ==
    ASSUME NEW type \in {"create", "modify", "cancel"}, NEW o \in Orders, NEW n \in Nat
    PROVE  NewWork(type, o, n) \in Work
  BY DEF NewWork, Work

-----------------------------------------------------------------------------
(* Types, step by step *)

LEMMA TypesInit == InitTakeProfit => TypesInv
<1> SUFFICES ASSUME InitTakeProfit PROVE TypesInv
  OBVIOUS
<1>1. ExchangeTyped
  <2>1. ASSUME NEW o \in Orders PROVE exchange[o] \in OnExchange
    <3>1. CASE o \in Buys
      BY <3>1, Constants DEF InitTakeProfit, Placed, OnExchange, Statuses
    <3>2. CASE o \notin Buys
      BY <3>2 DEF InitTakeProfit, Unplaced, OnExchange, Statuses
    <3> QED
      BY <3>1, <3>2
  <2>2. exchange = [o \in Orders |-> exchange[o]]
    BY DEF InitTakeProfit
  <2>3. exchange \in [Orders -> OnExchange]
    BY <2>1, <2>2
  <2>4. clock \in 1 .. MaxClock
    BY TakeProfitAssumption DEF InitTakeProfit
  <2>5. position \in [Venues -> Nat]
    BY DEF InitTakeProfit
  <2> QED
    BY <2>3, <2>4, <2>5 DEF ExchangeTyped, OnExchange
<1>2. FeedTyped
  <2>1. ASSUME NEW v \in Venues PROVE feed[v] \in Seq(Message)
    <3>1. FirstReports(v) \subseteq Message
      BY Constants DEF FirstReports, Report, Placed, Message, Statuses
    <3>2. SetToSeq(FirstReports(v)) \in Seq(FirstReports(v))
      BY FirstReportsFinite, SetListed
    <3>3. feed[v] \in Seq(FirstReports(v))
      BY <3>2 DEF InitTakeProfit
    <3> HIDE DEF Message
    <3> QED
      BY <3>1, <3>3
  <2>2. feed = [v \in Venues |-> feed[v]]
    BY DEF InitTakeProfit
  <2>3. feed \in [Venues -> Seq(Message)]
    BY <2>1, <2>2
  <2>4. callback \in [Venues -> {"idle", "record"}]
    BY DEF InitTakeProfit
  <2> QED
    BY <2>3, <2>4 DEF FeedTyped
<1>3. TrackerMaps
  <2>1. DOMAIN orders = Buys /\ hydrated \in BOOLEAN
    BY DEF InitTakeProfit
  <2>2. ASSUME NEW o \in Buys PROVE orders[o] \in OrderState
    <3>1. PICK h \in BOOLEAN, now \in Nat : h = TRUE /\ now = 0
      OBVIOUS
    <3>2. applyScaledSize(NewOrder(h), Size[o]) \in OrderState
      BY <3>1, NewTyped, OrderKept, Constants
    <3> QED
      BY <3>1, <3>2 DEF InitTakeProfit
  <2>3. IsFiniteSet(Buys) /\ Buys \subseteq Orders
    BY TakeProfitAssumption DEF Orders
  <2> QED
    BY <2>1, <2>2, <2>3 DEF TrackerMaps, TrackedMap, Tracked
<1>4. StoreTyped
  <2>1. statuses \in [Orders -> Held]
    BY DEF InitTakeProfit, Held
  <2>2. submissions \in [Orders -> [kind : {"none", "create", "modify", "cancel"},
                                    size : Nat]]
    BY Constants DEF InitTakeProfit, NoSubmission
  <2>3. audits \subseteq Orders
    BY DEF InitTakeProfit, Orders
  <2> QED
    BY <2>1, <2>2, <2>3 DEF StoreTyped
<1>5. HandMaps
  <2>1. DOMAIN hand = Goroutines /\ \A g \in Goroutines : hand[g] = EmptyHand
    BY DEF InitTakeProfit
  <2>2. /\ DOMAIN EmptyHand = {"os", "todo"}
        /\ TrackedMap(EmptyHand.os) /\ EmptyHand.todo \subseteq Venues
    BY NothingTyped DEF EmptyHand
  <2> QED
    BY <2>1, <2>2 DEF HandMaps, HandTyped, TrackedMap
<1>6. WorkTyped
  BY DEF InitTakeProfit, WorkTyped
<1>7. AppTyped
  BY TakeProfitAssumption DEF InitTakeProfit, AppTyped, Refreshed, Held
<1>8. AnswersTyped
  BY DEF InitTakeProfit, AnswersTyped
<1> QED
  BY <1>1, <1>2, <1>3, <1>4, <1>5, <1>6, <1>7, <1>8 DEF TypesInv

\* The clock goes on.
LEMMA ClockTyped ==
    ASSUME TypesInv, clock < MaxClock
    PROVE  clock + 1 \in 1 .. MaxClock /\ clock + 1 \in Nat
<1>1. clock \in 1 .. MaxClock /\ MaxClock \in Nat
  BY TakeProfitAssumption DEF TypesInv, ExchangeTyped
<1> QED
  BY <1>1

\* An order of the exchange is one.
LEMMA ExchangedTyped ==
    ASSUME TypesInv, NEW o \in Orders
    PROVE  /\ exchange[o] \in OnExchange
           /\ \A s \in Statuses, n \in Nat, t \in Nat :
                 [exchange[o] EXCEPT !.sz = n, !.at = t, !.status = s] \in OnExchange
  BY DEF TypesInv, ExchangeTyped, OnExchange

LEMMA BuyTyped ==
    ASSUME FillsInv, TypesInv, NEW o \in Buys, Buy(o) \/ BuyCancelled(o)
    PROVE  TypesInv'
<1>1. /\ UNCHANGED <<callback, orders, hydrated, statuses, submissions, audits, hand,
                     workQueue, backoff, worker, engine, app, refresh, crashes, failures>>
      /\ clock' = clock + 1 /\ clock < MaxClock /\ exchange[o].status = "open"
  BY DEF Buy, BuyCancelled, storeVars, orderWorkVars, appVars
<1>2. clock' \in 1 .. MaxClock /\ clock' \in Nat
  BY <1>1, ClockTyped
<1>3. o \in Orders /\ VenueOf[o] \in Venues
  BY Constants
<1>4. exchange[o].sz \in Nat /\ exchange[o].sz >= 1
  BY <1>1 DEF FillsInv, ExchangeInv, BuyOK
<1>5. ExchangeTyped' /\ FeedTyped'
  <2>1. CASE Buy(o)
    <3> DEFINE s == IF exchange[o].sz = 1 THEN "filled" ELSE exchange[o].status
               n == exchange[o].sz - 1
               e == [exchange[o] EXCEPT !.sz = n, !.at = clock', !.status = s]
    <3>1. s \in Statuses /\ n \in Nat
      BY <1>1, <1>4 DEF Statuses
    <3>2. Changes(o, e)
      BY <2>1 DEF Buy
    <3>3. position \in [Venues -> Nat] /\ position' = [position EXCEPT ![VenueOf[o]] = @ + 1]
      BY <2>1 DEF Buy, TypesInv, ExchangeTyped
    <3>4. position' \in [Venues -> Nat]
      BY <1>3, <3>3
    <3> HIDE DEF s, n
    <3>5. e \in OnExchange
      BY <1>2, <1>3, <3>1, ExchangedTyped
    <3> HIDE DEF e
    <3> QED
      BY <1>1, <1>2, <1>3, <3>2, <3>4, <3>5, ChangesTyped
  <2>2. CASE BuyCancelled(o)
    <3> DEFINE e == [exchange[o] EXCEPT !.status = "canceled", !.at = clock']
    <3>1. Changes(o, e)
      BY <2>2 DEF BuyCancelled
    <3>2. position' \in [Venues -> Nat]
      BY <2>2 DEF BuyCancelled, TypesInv, ExchangeTyped
    <3>3. e \in OnExchange
      <4>1. exchange[o] \in OnExchange
        BY <1>3, ExchangedTyped
      <4> QED
        BY <1>2, <4>1 DEF OnExchange, Statuses
    <3> HIDE DEF e
    <3> QED
      BY <1>1, <1>2, <1>3, <3>1, <3>2, <3>3, ChangesTyped
  <2> QED
    BY <2>1, <2>2
<1> QED
  BY <1>1, <1>5, QuietTypes DEF TypesInv

LEMMA SellTyped ==
    ASSUME TypesInv, NEW o \in TakeProfits, NEW n \in 1 .. Largest, Sell(o, n)
    PROVE  TypesInv'
<1>1. /\ UNCHANGED <<callback, orders, hydrated, statuses, submissions, audits, hand,
                     workQueue, backoff, worker, engine, app, refresh, crashes, failures>>
      /\ clock' = clock + 1 /\ clock < MaxClock /\ exchange[o].status = "open"
  BY DEF Sell, storeVars, orderWorkVars, appVars
<1>2. clock' \in 1 .. MaxClock /\ clock' \in Nat
  BY <1>1, ClockTyped
<1>3. o \in Orders /\ VenueOf[o] \in Venues
  BY Constants
<1>4. n \in Nat
  OBVIOUS
<1>5. exchange[o].sz \in Nat /\ position \in [Venues -> Nat]
  BY <1>3 DEF TypesInv, ExchangeTyped
<1>6. n <= exchange[o].sz /\ n <= position[VenueOf[o]]
  BY DEF Sell
<1> DEFINE v == VenueOf[o]
           s == IF exchange[o].sz = n THEN "filled"
                ELSE IF position[v] = n THEN "canceled" ELSE exchange[o].status
           k == exchange[o].sz - n
           e == [exchange[o] EXCEPT !.sz = k, !.at = clock', !.status = s]
<1>7. s \in Statuses /\ k \in Nat
  BY <1>1, <1>4, <1>5, <1>6 DEF Statuses
<1>8. Changes(o, e)
  BY DEF Sell
<1>9. position' = [position EXCEPT ![v] = @ - n] /\ position[v] - n \in Nat
  BY <1>3, <1>4, <1>5, <1>6 DEF Sell
<1>10. position' \in [Venues -> Nat]
  BY <1>3, <1>5, <1>9
<1> HIDE DEF s, k
<1>11. e \in OnExchange
  BY <1>2, <1>3, <1>7, ExchangedTyped
<1> HIDE DEF e
<1>12. ExchangeTyped' /\ FeedTyped'
  BY <1>1, <1>2, <1>3, <1>8, <1>10, <1>11, ChangesTyped
<1> QED
  BY <1>1, <1>12, QuietTypes DEF TypesInv

LEMMA CallbackTyped ==
    ASSUME FillsInv, TypesInv, NEW v \in Venues, Callback(v)
    PROVE  TypesInv'
<1>1. feed[v] # <<>> /\ feed[v] \in Seq(Message)
  BY DEF Callback, CallbackUpdates, CallbackRecords, FillsInv, FeedInv, TypesInv, FeedTyped
<1>2. Head(feed[v]) \in Message /\ Tail(feed[v]) \in Seq(Message)
  BY <1>1
<1>3. v \in Goroutines
  BY DEF Goroutines
<1>4. UNCHANGED <<clock, exchange, position, audits, submissions, workQueue, backoff, worker,
                  engine, app, refresh, crashes, failures>>
  BY DEF Callback, CallbackUpdates, CallbackRecords, exchangeVars, storeVars, orderWorkVars,
         appVars
<1>5. CASE CallbackUpdates(v)
  <2>1. UNCHANGED <<statuses, feed>> /\ callback' = [callback EXCEPT ![v] = "record"]
    BY <1>5 DEF CallbackUpdates, storeVars
  <2>2. FeedTyped'
    BY <2>1 DEF TypesInv, FeedTyped
  <2>3. UpdateStatus(v, Head(feed[v]))
    BY <1>5 DEF CallbackUpdates
  <2>4. /\ TrackedMap(orders') /\ hydrated' \in BOOLEAN
        /\ hand' = [hand EXCEPT ![v] = Snapshot(orders')]
    BY <1>2, <2>3, UpdateTyped DEF TypesInv, TrackerMaps
  <2>5. PICK h : h = Snapshot(orders')
    OBVIOUS
  <2>6. DOMAIN h = {"os", "todo"} /\ TrackedMap(h.os) /\ h.todo \subseteq Venues
    BY <2>4, <2>5, SnapshotTyped
  <2>7. HandMaps'
    BY <1>3, <2>4, <2>5, <2>6, HandPut DEF TypesInv
  <2>8. TrackerMaps'
    BY <2>4 DEF TrackerMaps, TrackedMap, Tracked
  <2> QED
    BY <1>4, <2>1, <2>2, <2>7, <2>8, QuietTypes DEF TypesInv
<1>6. CASE CallbackRecords(v)
  <2> DEFINE m == Head(feed[v])
  <2>1. /\ UNCHANGED <<orders, hydrated, hand>>
        /\ callback' = [callback EXCEPT ![v] = "idle"]
        /\ feed' = [feed EXCEPT ![v] = Tail(feed[v])]
        /\ statuses' = [statuses EXCEPT ![m.order] = m]
    BY <1>6 DEF CallbackRecords
  <2>2. callback' \in [Venues -> {"idle", "record"}]
    BY <2>1 DEF TypesInv, FeedTyped
  <2>3. feed' \in [Venues -> Seq(Message)]
    BY <1>2, <2>1 DEF TypesInv, FeedTyped
  <2>4. FeedTyped'
    BY <2>2, <2>3 DEF FeedTyped
  <2> HIDE DEF m
  <2>5. m \in Held
    BY <1>2 DEF m, Held
  <2>6. statuses \in [Orders -> Held]
    BY DEF TypesInv, StoreTyped
  <2>7. statuses' \in [Orders -> Held]
    BY <2>1, <2>5, <2>6
  <2>8. StoreTyped'
    BY <1>4, <2>7 DEF TypesInv, StoreTyped
  <2> QED
    BY <1>4, <2>1, <2>4, <2>8, QuietTypes DEF TypesInv
<1> QED
  BY <1>5, <1>6 DEF Callback

\* New work joins the queue.
LEMMA QueueTyped ==
    ASSUME TypesInv, workQueue' \in Seq(Work), UNCHANGED <<backoff, worker>>
    PROVE  WorkTyped'
  BY DEF TypesInv, WorkTyped

LEMMA ReconcileTyped ==
    ASSUME TypesInv, NEW g \in Goroutines, NEW v \in Venues, Reconcile(g, v)
    PROVE  TypesInv'
<1> DEFINE os == hand[g].os
           tp == TakeProfitAt(v)
<1>1. UNCHANGED <<clock, exchange, position, feed, callback, hydrated, statuses,
                  submissions, audits, backoff, worker, engine, app, refresh, crashes,
                  failures>>
  BY DEF Reconcile, exchangeVars, storeVars, appVars
<1>2. HandMaps'
  BY FinishedTyped DEF Reconcile, TypesInv
<1>3. TrackedMap(os)
  BY DEF TypesInv, HandMaps, HandTyped, TrackedMap
<1>4. Net(os, v) \in Int /\ tp \in Orders
  BY <1>3, NetTyped, TakeProfitThere, Constants
<1>5. workQueue \in Seq(Work)
  BY DEF TypesInv, WorkTyped
<1>6. workQueue' \in Seq(Work)
  <2>1. ASSUME NEW type \in {"create", "modify", "cancel"}, NEW n \in Nat,
               Enqueue(NewWork(type, tp, n))
        PROVE  workQueue' \in Seq(Work)
    BY <1>4, <2>1, NewWorkTyped, EnqueueTyped DEF TypesInv
  <2>2. CASE ReconcileCancels(g, v)
    <3>1. Enqueue(NewWork("cancel", tp, 0))
      BY <2>2 DEF ReconcileCancels
    <3> HIDE DEF tp
    <3> QED
      BY <2>1, <3>1
  <2>3. CASE ReconcileResizes(g, v)
    <3>1. Net(os, v) > 0 /\ (UNCHANGED workQueue \/ Enqueue(NewWork("modify", tp, Net(os, v))))
      BY <2>3 DEF ReconcileResizes
    <3>2. Net(os, v) \in Nat
      BY <1>4, <3>1
    <3> HIDE DEF tp, os
    <3> QED
      BY <1>5, <2>1, <3>1, <3>2
  <2>4. CASE ReconcileCreates(g, v)
    <3>1. Net(os, v) > 0 /\ (UNCHANGED workQueue \/ Enqueue(NewWork("create", tp, Net(os, v))))
      BY <2>4 DEF ReconcileCreates
    <3>2. Net(os, v) \in Nat
      BY <1>4, <3>1
    <3> HIDE DEF tp, os
    <3> QED
      BY <1>5, <2>1, <3>1, <3>2
  <2>5. CASE ReconcileLeaves(g, v)
    BY <1>5, <2>5 DEF ReconcileLeaves
  <2> QED
    BY <2>2, <2>3, <2>4, <2>5 DEF Reconcile
<1>7. TrackedMap(orders')
  <2>0. TrackedMap(orders)
    BY DEF TypesInv, TrackerMaps
  <2>1. CASE ReconcileCancels(g, v)
    <3>1. orders' = [orders EXCEPT ![tp] = markCancelled(orders[tp], clock)]
      BY <2>1 DEF ReconcileCancels
    <3>2. clock \in Nat
      BY TakeProfitAssumption DEF TypesInv, ExchangeTyped
    <3> HIDE DEF tp
    <3>3. ASSUME tp \in DOMAIN orders PROVE markCancelled(orders[tp], clock) \in OrderState
      <4>1. orders[tp] \in OrderState
        BY <2>0, <3>3 DEF TrackedMap, Tracked
      <4>2. PICK size \in Nat, t \in BOOLEAN : size = 0 /\ t = TRUE
        OBVIOUS
      <4> QED
        BY <3>2, <4>1, <4>2, OrderKept
    <3> QED
      BY <2>0, <3>1, <3>3, PutTyped
  <2>2. CASE UNCHANGED orders
    BY <2>0, <2>2 DEF TrackedMap, Tracked
  <2> QED
    BY <2>1, <2>2 DEF Reconcile, ReconcileResizes, ReconcileCreates, ReconcileLeaves
<1>8. TrackerMaps'
  BY <1>1, <1>7 DEF TypesInv, TrackerMaps, TrackedMap, Tracked
<1>9. WorkTyped'
  BY <1>1, <1>6, QueueTyped
<1> QED
  BY <1>1, <1>2, <1>8, <1>9, QuietTypes DEF TypesInv

LEMMA TickTyped ==
    ASSUME TypesInv, Tick \/ ReconcileTakeProfits \/ CleanupStaleDeals
    PROVE  TypesInv'
<1>1. UNCHANGED <<exchange, position, feed, callback, hydrated, statuses, submissions,
                  audits, workQueue, backoff, worker, engine, app, refresh, crashes, failures>>
  BY DEF Tick, ReconcileTakeProfits, CleanupStaleDeals, exchangeVars, storeVars, orderWorkVars,
         appVars
<1>2. CASE Tick
  <2>1. clock' \in 1 .. MaxClock /\ UNCHANGED <<orders, hand>>
    BY <1>2, ClockTyped DEF Tick
  <2>2. ExchangeTyped'
    BY <1>1, <2>1 DEF TypesInv, ExchangeTyped
  <2> QED
    BY <1>1, <2>1, <2>2, QuietTypes DEF TypesInv
<1>3. CASE ReconcileTakeProfits
  <2>1. UNCHANGED <<clock, orders>> /\ hand' = [hand EXCEPT ![Periodic] = Snapshot(orders)]
    BY <1>3 DEF ReconcileTakeProfits
  <2>2. PICK h : h = Snapshot(orders)
    OBVIOUS
  <2>3. DOMAIN h = {"os", "todo"} /\ TrackedMap(h.os) /\ h.todo \subseteq Venues
    BY <2>2, SnapshotTyped DEF TypesInv, TrackerMaps
  <2>4. Periodic \in Goroutines
    BY DEF Goroutines
  <2>5. HandMaps'
    BY <2>1, <2>2, <2>3, <2>4, HandPut DEF TypesInv
  <2> QED
    BY <1>1, <2>1, <2>5, QuietTypes DEF TypesInv
<1>4. CASE CleanupStaleDeals
  <2>1. UNCHANGED <<clock, hand>> /\ orders' = NothingTracked
    BY <1>4 DEF CleanupStaleDeals
  <2>2. TrackerMaps'
    BY <1>1, <2>1, NothingTyped DEF TypesInv, TrackerMaps, TrackedMap, Tracked
  <2> QED
    BY <1>1, <2>1, <2>2, QuietTypes DEF TypesInv
<1> QED
  BY <1>2, <1>3, <1>4

LEMMA EngineTyped ==
    ASSUME TypesInv, EngineSteps
    PROVE  TypesInv'
<1>1. CASE EngineReads
  <2>1. /\ UNCHANGED <<clock, exchange, position, feed, callback, orders, hydrated,
                       statuses, submissions, audits, hand, workQueue, backoff, worker,
                       app, refresh, crashes, failures>>
        /\ engine' \in {"placing", "skipping"}
    BY <1>1 DEF EngineReads, exchangeVars, storeVars, orderWorkVars
  <2>2. AppTyped' /\ AnswersTyped'
    BY <2>1 DEF TypesInv, AppTyped, AnswersTyped
  <2> QED
    BY <2>1, <2>2, QuietTypes DEF TypesInv
<1>2. CASE EngineRecords
  <2> DEFINE h == [os |-> NothingTracked,
                   todo |-> IF engine = "skipping" THEN {}
                            ELSE {v \in Venues : ~KnownInStore(TakeProfitAt(v))}]
  <2>1. /\ UNCHANGED <<clock, exchange, position, feed, callback, orders, hydrated,
                       statuses, submissions, audits, workQueue, backoff, worker,
                       app, refresh, crashes, failures>>
        /\ engine' = "seen" /\ hand' = [hand EXCEPT ![Engine] = h]
    BY <1>2 DEF EngineRecords, exchangeVars, storeVars, orderWorkVars
  <2>2. AppTyped' /\ AnswersTyped'
    BY <2>1 DEF TypesInv, AppTyped, AnswersTyped
  <2>3. DOMAIN h = {"os", "todo"} /\ TrackedMap(h.os) /\ h.todo \subseteq Venues
    BY NothingTyped
  <2>4. Engine \in Goroutines
    BY DEF Goroutines
  <2> HIDE DEF h
  <2>5. HandMaps'
    BY <2>1, <2>3, <2>4, HandPut DEF TypesInv
  <2> QED
    BY <2>1, <2>2, <2>5, QuietTypes DEF TypesInv
<1>3. ASSUME NEW v \in Venues, EngineEmits(v) PROVE TypesInv'
  <2> DEFINE tp == TakeProfitAt(v)
             known == ensureOrder(orders, tp)
  <2>1. /\ UNCHANGED <<clock, exchange, position, feed, callback, hydrated,
                       statuses, submissions, backoff, worker, engine,
                       app, refresh, crashes, failures>>
        /\ audits' = audits \cup {tp} /\ Enqueue(NewWork("create", tp, Size[tp]))
        /\ Finished(Engine, v)
        /\ orders' = [known EXCEPT ![tp] = applyScaledSize(known[tp], Size[tp])]
    BY <1>3 DEF EngineEmits, exchangeVars, appVars
  <2>2. tp \in Orders /\ Size[tp] \in Nat /\ Engine \in Goroutines
    BY TakeProfitThere, Constants DEF Goroutines
  <2> HIDE DEF tp
  <2>3. HandMaps'
    BY <2>1, <2>2, FinishedTyped DEF TypesInv
  <2>4. NewWork("create", tp, Size[tp]) \in Work
    BY <2>2, NewWorkTyped
  <2>5. workQueue' \in Seq(Work)
    BY <2>1, <2>4, EnqueueTyped DEF TypesInv
  <2>6. StoreTyped'
    BY <2>1, <2>2 DEF TypesInv, StoreTyped
  <2>7. TrackedMap(known) /\ tp \in DOMAIN known
    BY <2>2, EnsureTyped DEF TypesInv, TrackerMaps
  <2> HIDE DEF known
  <2>8. applyScaledSize(known[tp], Size[tp]) \in OrderState
    <3>1. known[tp] \in OrderState
      BY <2>7 DEF TrackedMap, Tracked
    <3>2. PICK now \in Nat, t \in BOOLEAN : now = 0 /\ t = TRUE
      OBVIOUS
    <3> QED
      BY <2>2, <3>1, <3>2, OrderKept
  <2>9. TrackedMap(orders')
    BY <2>1, <2>7, <2>8, PutTyped
  <2>10. TrackerMaps'
    BY <2>1, <2>9 DEF TypesInv, TrackerMaps, TrackedMap, Tracked
  <2> QED
    BY <2>1, <2>3, <2>5, <2>6, <2>10, QueueTyped, QuietTypes DEF TypesInv
<1> QED
  BY <1>1, <1>2, <1>3 DEF EngineSteps

\* A worker gets something else to do.
LEMMA WorkerPut ==
    ASSUME TypesInv, NEW w \in Workers, NEW x,
           x \in [pc : {"idle", "submit", "record"}, work : Work \cup {NoWork}],
           x.pc # "idle" => x.work \in Work, worker' = [worker EXCEPT ![w] = x],
           workQueue' \in Seq(Work), backoff' \in Seq(Work)
    PROVE  WorkTyped'
<1>1. worker \in [Workers -> [pc : {"idle", "submit", "record"},
                              work : Work \cup {NoWork}]]
  BY DEF TypesInv, WorkTyped
<1>2. worker' \in [Workers -> [pc : {"idle", "submit", "record"},
                               work : Work \cup {NoWork}]]
  BY <1>1
<1>3. ASSUME NEW u \in Workers, worker'[u].pc # "idle" PROVE worker'[u].work \in Work
  BY <1>1, <1>3 DEF TypesInv, WorkTyped
<1> QED
  BY <1>2, <1>3 DEF WorkTyped

\* It gets nothing to do.
LEMMA FreeTyped ==
    ASSUME TypesInv, NEW w \in Workers, Free(w), workQueue' \in Seq(Work),
           backoff' \in Seq(Work)
    PROVE  WorkTyped'
<1>1. PICK x : x = [pc |-> "idle", work |-> NoWork]
  OBVIOUS
<1>2. x \in [pc : {"idle", "submit", "record"}, work : Work \cup {NoWork}] /\ x.pc = "idle"
  BY <1>1
<1> QED
  BY <1>1, <1>2, WorkerPut DEF Free

\* It goes on to record what it has submitted.
LEMMA ToRecordTyped ==
    ASSUME TypesInv, NEW w \in Workers, worker[w].work \in Work,
           NEW kind \in {"create", "modify", "cancel"}, ToRecord(w, kind),
           UNCHANGED <<workQueue, backoff>>
    PROVE  WorkTyped'
<1> DEFINE work == [worker[w].work EXCEPT !.type = kind]
<1>1. work \in Work
  BY DEF Work
<1>2. worker' = [worker EXCEPT ![w] = [pc |-> "record", work |-> work]]
  BY DEF ToRecord
<1> HIDE DEF work
<1>3. PICK x : x = [pc |-> "record", work |-> work]
  OBVIOUS
<1>4. /\ x \in [pc : {"idle", "submit", "record"}, work : Work \cup {NoWork}]
      /\ x.pc = "record" /\ x.work \in Work
  BY <1>1, <1>3
<1>5. workQueue' \in Seq(Work) /\ backoff' \in Seq(Work)
  BY DEF TypesInv, WorkTyped
<1> QED
  BY <1>2, <1>3, <1>4, <1>5, WorkerPut

LEMMA SubmitTyped ==
    ASSUME TypesInv, NEW w \in Workers, Submit(w)
    PROVE  TypesInv'
<1> DEFINE work == worker[w].work
           o == work.order
<1>1. UNCHANGED <<clock, position, callback, orders, hydrated, statuses, submissions,
                  audits, hand, workQueue, backoff, engine, app, refresh, crashes, failures>>
  BY DEF Submit, storeVars, appVars
<1>2. work \in Work
  BY DEF Submit, TypesInv, WorkTyped
<1>3. o \in Orders /\ work.size \in Nat
  BY <1>2 DEF Work
<1>4. clock \in Nat /\ clock' \in 1 .. MaxClock /\ position' \in [Venues -> Nat]
  BY <1>1, TakeProfitAssumption DEF TypesInv, ExchangeTyped
<1>5. workQueue' \in Seq(Work) /\ backoff' \in Seq(Work)
  BY <1>1 DEF TypesInv, WorkTyped
<1>6. \A s \in {"open", "rejected"} : Order(s, work.size) \in OnExchange
  BY <1>3, <1>4 DEF Order, OnExchange, Statuses
<1> HIDE DEF work, o
<1>7. ASSUME NEW s \in {"open", "rejected"},
             Rest(o, Order(s, work.size)) \/ Changes(o, Order(s, work.size))
      PROVE  ExchangeTyped' /\ FeedTyped'
  <2>1. PICK e \in OnExchange : e = Order(s, work.size)
    BY <1>6
  <2> QED
    BY <1>1, <1>3, <1>4, <1>7, <2>1, RestTyped, ChangesTyped
<1>8. ASSUME UNCHANGED <<exchange, feed>>
      PROVE  ExchangeTyped' /\ FeedTyped'
  BY <1>1, <1>8, QuietTypes
<1>9. ASSUME NEW kind \in {"create", "modify", "cancel"}, ToRecord(w, kind)
      PROVE  WorkTyped'
  BY <1>1, <1>2, <1>9, ToRecordTyped DEF work
<1>10. Free(w) => WorkTyped'
  BY <1>5, FreeTyped
<1>11. ExchangeTyped' /\ FeedTyped' /\ WorkTyped'
  <2>1. CASE SubmitCreate(w)
    BY <1>7, <1>9, <2>1 DEF SubmitCreate, o, work
  <2>2. CASE SubmitModify(w)
    <3>1. Modify(w, work)
      BY <2>2 DEF SubmitModify, work
    <3> QED
      BY <1>7, <1>8, <1>9, <1>10, <3>1 DEF Modify, o
  <2>3. CASE SubmitSatisfied(w)
    BY <1>8, <1>10, <2>3 DEF SubmitSatisfied
  <2>4. CASE SubmitCancel(w)
    <3> DEFINE e == [exchange[o] EXCEPT !.status = "canceled", !.at = clock]
    <3>1. exchange[o] \in OnExchange
      BY <1>3, ExchangedTyped
    <3>2. e \in OnExchange
      BY <1>4, <3>1 DEF OnExchange, Statuses
    <3>3. UNCHANGED <<exchange, feed>> \/ Changes(o, e)
      BY <2>4 DEF SubmitCancel, o, work
    <3>4. ToRecord(w, "cancel")
      BY <2>4 DEF SubmitCancel
    <3> HIDE DEF e
    <3> QED
      BY <1>1, <1>3, <1>4, <1>8, <1>9, <3>2, <3>3, <3>4, ChangesTyped
  <2> QED
    BY <2>1, <2>2, <2>3, <2>4 DEF Submit
<1> QED
  BY <1>1, <1>11, QuietTypes DEF TypesInv

LEMMA WorkerTyped ==
    ASSUME TypesInv, NEW w \in Workers,
           OrderWorkerGets(w) \/ WorkerRecords(w) \/ SubmitFails(w)
    PROVE  TypesInv'
<1>1. UNCHANGED <<clock, exchange, position, feed, callback, orders, hydrated,
                  statuses, audits, hand, engine, app, refresh, crashes>>
  BY DEF OrderWorkerGets, WorkerRecords, SubmitFails, exchangeVars, storeVars, appVars
<1>2. workQueue \in Seq(Work) /\ backoff \in Seq(Work)
  BY DEF TypesInv, WorkTyped
<1>3. CASE OrderWorkerGets(w)
  <2>1. /\ UNCHANGED <<submissions, backoff, failures>>
        /\ workQueue # <<>> /\ workQueue' = Tail(workQueue)
        /\ worker' = [worker EXCEPT ![w] = [pc |-> "submit", work |-> Head(workQueue)]]
    BY <1>3 DEF OrderWorkerGets, storeVars, appVars
  <2>2. Head(workQueue) \in Work /\ workQueue' \in Seq(Work) /\ backoff' \in Seq(Work)
    BY <1>2, <2>1
  <2>3. PICK x : x = [pc |-> "submit", work |-> Head(workQueue)]
    OBVIOUS
  <2>4. /\ x \in [pc : {"idle", "submit", "record"}, work : Work \cup {NoWork}]
        /\ x.work \in Work
    BY <2>2, <2>3
  <2>5. WorkTyped'
    BY <2>1, <2>2, <2>3, <2>4, WorkerPut
  <2> QED
    BY <1>1, <2>1, <2>5, QuietTypes DEF TypesInv
<1>4. CASE WorkerRecords(w)
  <2> DEFINE work == worker[w].work
             s == [kind |-> work.type, size |-> work.size]
  <2>1. /\ UNCHANGED <<workQueue, backoff, failures>> /\ Free(w)
        /\ submissions' = [submissions EXCEPT ![work.order] = s]
    BY <1>4 DEF WorkerRecords, appVars
  <2>2. work \in Work
    BY <1>4 DEF WorkerRecords, TypesInv, WorkTyped
  <2>3. s \in [kind : {"none", "create", "modify", "cancel"}, size : Nat]
    BY <2>2 DEF Work
  <2>4. WorkTyped'
    BY <1>2, <2>1, FreeTyped
  <2> HIDE DEF s, work
  <2>5. StoreTyped'
    BY <1>1, <2>1, <2>3 DEF TypesInv, StoreTyped
  <2> QED
    BY <1>1, <2>1, <2>4, <2>5, QuietTypes DEF TypesInv
<1>5. CASE SubmitFails(w)
  <2> DEFINE work == worker[w].work
             again == [work EXCEPT !.tries = work.tries + 1]
  <2>1. /\ UNCHANGED <<submissions, workQueue>> /\ Free(w)
        /\ backoff' = backoff \/ backoff' = Append(backoff, again)
        /\ failures < MaxFailures /\ failures' = failures + 1
    BY <1>5 DEF SubmitFails, storeVars
  <2>2. work \in Work
    BY <1>5 DEF SubmitFails, TypesInv, WorkTyped
  <2>3. again \in Work
    BY <2>2 DEF Work
  <2> HIDE DEF again, work
  <2>4. backoff' \in Seq(Work)
    BY <1>2, <2>1, <2>3
  <2>5. WorkTyped'
    BY <1>2, <2>1, <2>4, FreeTyped
  <2>6. failures' \in 0 .. MaxFailures
    BY <2>1, TakeProfitAssumption DEF TypesInv, AppTyped
  <2>7. AppTyped' /\ AnswersTyped'
    BY <1>1, <2>6 DEF TypesInv, AppTyped, AnswersTyped
  <2> QED
    BY <1>1, <2>1, <2>5, <2>7, QuietTypes DEF TypesInv
<1> QED
  BY <1>3, <1>4, <1>5

LEMMA BackoffTyped ==
    ASSUME TypesInv, NEW i \in 1 .. Len(backoff), OrderBackoffEnds(i)
    PROVE  TypesInv'
<1>1. UNCHANGED <<clock, exchange, position, feed, callback, orders, hydrated,
                  statuses, submissions, audits, hand, worker, engine, app, refresh,
                  crashes, failures>>
  BY DEF OrderBackoffEnds, exchangeVars, storeVars, appVars
<1>2. backoff \in Seq(Work) /\ Len(backoff) \in Nat /\ Len(backoff) - 1 \in Nat
  BY DEF TypesInv, WorkTyped
<1>3. backoff[i] \in Work
  BY <1>2
<1>4. workQueue' \in Seq(Work)
  BY <1>3, EnqueueTyped DEF OrderBackoffEnds, TypesInv
<1>5. backoff' \in [1 .. Len(backoff) - 1 -> Work]
  BY <1>2 DEF OrderBackoffEnds
<1>6. backoff' \in Seq(Work)
  BY <1>2, <1>5
<1>7. WorkTyped'
  BY <1>1, <1>4, <1>6 DEF TypesInv, WorkTyped
<1> QED
  BY <1>1, <1>7, QuietTypes DEF TypesInv

LEMMA CrashTyped ==
    ASSUME TypesInv, ProcessCrashes
    PROVE  TypesInv'
<1>1. UNCHANGED <<clock, exchange, position, statuses, submissions, audits>>
  BY DEF ProcessCrashes, exchangeVars, storeVars
<1>2. FeedTyped'
  BY DEF ProcessCrashes, FeedTyped
<1>3. TrackerMaps'
  BY NothingTyped DEF ProcessCrashes, TrackerMaps, TrackedMap, Tracked
<1>4. HandMaps'
  <2>1. DOMAIN hand' = Goroutines /\ \A g \in Goroutines : hand'[g] = EmptyHand
    BY DEF ProcessCrashes
  <2>2. /\ DOMAIN EmptyHand = {"os", "todo"}
        /\ TrackedMap(EmptyHand.os) /\ EmptyHand.todo \subseteq Venues
    BY NothingTyped DEF EmptyHand
  <2> QED
    BY <2>1, <2>2 DEF HandMaps, HandTyped, TrackedMap, Tracked
<1>5. WorkTyped'
  BY DEF ProcessCrashes, WorkTyped
<1>6. AppTyped'
  <2>1. crashes' \in 0 .. MaxCrashes
    BY TakeProfitAssumption DEF ProcessCrashes, TypesInv, AppTyped
  <2>2. UNCHANGED failures /\ app' = "down" /\ refresh' = [o \in Orders |-> Refreshed]
    BY DEF ProcessCrashes
  <2>3. refresh' \in [Orders -> [pc : {"done", "todo", "failed", "answer"}, m : Held]]
    BY <2>2 DEF Refreshed, Held
  <2>4. engine' \in {"pending", "placing", "skipping", "seen"}
    BY DEF ProcessCrashes, TypesInv, AppTyped
  <2> QED
    BY <2>1, <2>2, <2>3, <2>4 DEF TypesInv, AppTyped
<1>7. AnswersTyped'
  BY DEF ProcessCrashes, AnswersTyped
<1> QED
  BY <1>1, <1>2, <1>3, <1>4, <1>5, <1>6, <1>7, QuietTypes DEF TypesInv

\* The progress of one order, or of all of them.
LEMMA AnswerPut ==
    ASSUME TypesInv, NEW o \in Orders, NEW a,
           a \in [pc : {"done", "todo", "failed", "answer"}, m : Held],
           app = "refresh" /\ a.pc = "answer" => a.m \in Message,
           refresh' = [refresh EXCEPT ![o] = a], UNCHANGED <<engine, app, crashes>>,
           failures' \in 0 .. MaxFailures
    PROVE  AppTyped' /\ AnswersTyped'
<1>1. refresh \in [Orders -> [pc : {"done", "todo", "failed", "answer"}, m : Held]]
  BY DEF TypesInv, AppTyped
<1>2. refresh' \in [Orders -> [pc : {"done", "todo", "failed", "answer"}, m : Held]]
  BY <1>1
<1>3. ASSUME app' = "refresh", NEW p \in Orders, refresh'[p].pc = "answer"
      PROVE  refresh'[p].m \in Message
  <2>1. CASE p = o
    BY <1>1, <1>3, <2>1
  <2>2. CASE p # o
    BY <1>1, <1>3, <2>2 DEF TypesInv, AnswersTyped
  <2> QED
    BY <2>1, <2>2
<1> QED
  BY <1>2, <1>3 DEF TypesInv, AppTyped, AnswersTyped

\* The states of progress.
LEMMA ProgressTyped ==
    /\ \A a \in {Refreshed, Todo, Failed} :
          /\ a \in [pc : {"done", "todo", "failed", "answer"}, m : Held]
          /\ a.pc # "answer"
    /\ \A m \in Held :
          /\ Answer(m) \in [pc : {"done", "todo", "failed", "answer"}, m : Held]
          /\ Answer(m).m = m
<1>1. NoMessage \in Held
  BY DEF Held
<1> QED
  BY <1>1 DEF Refreshed, Todo, Failed, Answer

LEMMA PhaseTyped ==
    ASSUME TypesInv, Restart \/ RefreshEnds
    PROVE  TypesInv'
<1>1. /\ UNCHANGED <<clock, exchange, position, feed, callback, orders, statuses,
                     submissions, audits, hand, workQueue, backoff, worker, engine, crashes,
                     failures>>
      /\ app' \in {"refresh", "rebuild"}
  BY DEF Restart, RefreshEnds, exchangeVars, storeVars, orderWorkVars
<1>2. refresh' = [o \in Orders |-> refresh'[o]]
      /\ \A o \in Orders : refresh'[o] \in {Refreshed, Todo, Failed}
  BY DEF Restart, RefreshEnds
<1>3. \A o \in Orders :
         /\ refresh'[o] \in [pc : {"done", "todo", "failed", "answer"}, m : Held]
         /\ refresh'[o].pc # "answer"
  BY <1>2, ProgressTyped
<1>4. AppTyped' /\ AnswersTyped'
  BY <1>1, <1>2, <1>3 DEF TypesInv, AppTyped, AnswersTyped
<1>5. hydrated' \in BOOLEAN
  BY DEF Restart, RefreshEnds, TypesInv, TrackerMaps
<1>6. TrackerMaps'
  BY <1>1, <1>5 DEF TypesInv, TrackerMaps, TrackedMap, Tracked
<1> QED
  BY <1>1, <1>4, <1>6, QuietTypes DEF TypesInv

LEMMA RefreshTyped ==
    ASSUME FillsInv, TypesInv, NEW o \in Orders, RefreshQueries(o) \/ RefreshApplies(o)
    PROVE  TypesInv'
<1>1. /\ UNCHANGED <<clock, exchange, position, feed, callback, submissions, audits,
                     workQueue, backoff, worker, engine, app, crashes>>
      /\ app = "refresh"
  BY DEF RefreshQueries, RefreshApplies, exchangeVars, storeVars, orderWorkVars
<1>2. failures' \in 0 .. MaxFailures
  BY TakeProfitAssumption DEF RefreshQueries, RefreshApplies, TypesInv, AppTyped
<1>3. CASE RefreshQueries(o)
  <2>1. UNCHANGED <<orders, hydrated, statuses, hand>>
    BY <1>3 DEF RefreshQueries, storeVars
  <2>2. Report(o, exchange[o]) \in Message
    BY ExchangedTyped, ReportTyped
  <2>3. PICK m \in Message : m = Report(o, exchange[o])
    BY <2>2
  <2>4. PICK a \in {Refreshed, Failed, Answer(m)} : refresh' = [refresh EXCEPT ![o] = a]
    BY <1>3, <2>3 DEF RefreshQueries
  <2>5. a \in [pc : {"done", "todo", "failed", "answer"}, m : Held]
        /\ (a.pc = "answer" => a.m \in Message)
    BY <2>4, ProgressTyped DEF Held
  <2>6. AppTyped' /\ AnswersTyped'
    BY <1>1, <1>2, <2>4, <2>5, AnswerPut
  <2> QED
    BY <1>1, <2>1, <2>6, QuietTypes DEF TypesInv
<1>4. CASE RefreshApplies(o)
  <2>1. /\ refresh[o].pc = "answer" /\ refresh' = [refresh EXCEPT ![o] = Refreshed]
        /\ statuses' = [statuses EXCEPT ![o] = refresh[o].m]
        /\ UpdateStatus(o, refresh[o].m)
    BY <1>4 DEF RefreshApplies
  <2>2. refresh[o].m \in Message /\ o \in Goroutines
    BY <1>1, <2>1 DEF TypesInv, AnswersTyped, Goroutines
  <2>3. AppTyped' /\ AnswersTyped'
    BY <1>1, <1>2, <2>1, AnswerPut, ProgressTyped
  <2>4. /\ TrackedMap(orders') /\ hydrated' \in BOOLEAN
        /\ hand' = [hand EXCEPT ![o] = Snapshot(orders')]
    BY <2>1, <2>2, UpdateTyped DEF TypesInv, TrackerMaps
  <2>5. PICK h : h = Snapshot(orders')
    OBVIOUS
  <2>6. DOMAIN h = {"os", "todo"} /\ TrackedMap(h.os) /\ h.todo \subseteq Venues
    BY <2>4, <2>5, SnapshotTyped
  <2>7. HandMaps'
    BY <2>2, <2>4, <2>5, <2>6, HandPut DEF TypesInv
  <2>8. TrackerMaps'
    BY <2>4 DEF TrackerMaps, TrackedMap, Tracked
  <2>9. refresh[o].m \in Held /\ statuses \in [Orders -> Held]
    BY <2>2 DEF Held, TypesInv, StoreTyped
  <2>10. statuses' \in [Orders -> Held]
    BY <2>1, <2>9
  <2>11. StoreTyped'
    BY <1>1, <2>10 DEF TypesInv, StoreTyped
  <2> QED
    BY <1>1, <2>3, <2>7, <2>8, <2>11, QuietTypes DEF TypesInv
<1> QED
  BY <1>3, <1>4

\* What a rebuild makes of an order is an order.
LEMMA RebuiltTyped ==
    ASSUME NEW s \in OrderState, NEW o \in Orders, NEW m \in Held
    PROVE  Rebuilt(s, o, m) \in OrderState
<1> DEFINE event == applyEvent(s, Size[o], o \in TakeProfits)
           status == IF m.status # "none" THEN applyStatus(event, m)
                                          ELSE inferFromEvent(event, EventTime)
<1>1. Size[o] \in Nat /\ EventTime \in Nat
  BY Constants DEF Orders, EventTime
<1>0. (o \in TakeProfits) \in BOOLEAN
  OBVIOUS
<1>2. PICK t \in BOOLEAN : t = (o \in TakeProfits)
  BY <1>0
<1>3. applyEvent(s, Size[o], t) \in OrderState
  BY <1>1, OrderKept
<1>4. event \in OrderState
  BY <1>2, <1>3
<1>5. m.status \in Statuses /\ m.at \in Nat /\ m.origSz \in Nat /\ m.sz \in Nat
  BY DEF Held, Message, NoMessage, Statuses
<1> HIDE DEF event
<1>6. applyStatus(event, m) \in OrderState /\ inferFromEvent(event, EventTime) \in OrderState
  BY <1>1, <1>2, <1>4, <1>5, StatusKept, OrderKept
<1>7. status \in OrderState
  BY <1>6
<1>8. Rebuilt(s, o, m) = IF o \in audits THEN applyScaledSize(status, Size[o]) ELSE status
  BY DEF Rebuilt, event
<1> HIDE DEF status
<1>9. applyScaledSize(status, Size[o]) \in OrderState
  BY <1>1, <1>2, <1>7, OrderKept
<1> QED
  BY <1>7, <1>8, <1>9

LEMMA RebuildTyped ==
    ASSUME TypesInv, NEW o \in Orders, RebuildLoads(o) \/ RebuildApplies(o)
    PROVE  TypesInv'
<1>1. /\ UNCHANGED <<clock, exchange, position, feed, callback, hydrated, statuses,
                     submissions, audits, hand, workQueue, backoff, worker, engine, app,
                     crashes, failures>>
      /\ app = "rebuild"
  BY DEF RebuildLoads, RebuildApplies, exchangeVars, storeVars, orderWorkVars
<1>2. failures' \in 0 .. MaxFailures
  BY <1>1 DEF TypesInv, AppTyped
<1>3. CASE RebuildLoads(o)
  <2>1. UNCHANGED orders /\ refresh' = [refresh EXCEPT ![o] = Answer(statuses[o])]
    BY <1>3 DEF RebuildLoads
  <2>2. statuses[o] \in Held
    BY DEF TypesInv, StoreTyped
  <2>3. Answer(statuses[o]) \in [pc : {"done", "todo", "failed", "answer"}, m : Held]
    BY <2>2, ProgressTyped
  <2>4. AppTyped' /\ AnswersTyped'
    BY <1>1, <1>2, <2>1, <2>3, AnswerPut
  <2> QED
    BY <1>1, <2>1, <2>4, QuietTypes DEF TypesInv
<1>4. CASE RebuildApplies(o)
  <2> DEFINE known == ensureOrder(orders, o)
  <2>1. /\ refresh' = [refresh EXCEPT ![o] = Refreshed]
        /\ orders' = [known EXCEPT ![o] = Rebuilt(known[o], o, refresh[o].m)]
    BY <1>4 DEF RebuildApplies
  <2>2. refresh[o].m \in Held
    BY DEF TypesInv, AppTyped
  <2>3. AppTyped' /\ AnswersTyped'
    BY <1>1, <1>2, <2>1, AnswerPut, ProgressTyped
  <2>4. TrackedMap(known) /\ o \in DOMAIN known
    BY EnsureTyped DEF TypesInv, TrackerMaps
  <2> HIDE DEF known
  <2>5. known[o] \in OrderState
    BY <2>4 DEF TrackedMap, Tracked
  <2>6. Rebuilt(known[o], o, refresh[o].m) \in OrderState
    BY <2>2, <2>5, RebuiltTyped
  <2>7. TrackedMap(orders')
    BY <2>1, <2>4, <2>6, PutTyped
  <2>8. TrackerMaps'
    BY <1>1, <2>7 DEF TypesInv, TrackerMaps, TrackedMap, Tracked
  <2> QED
    BY <1>1, <2>3, <2>8, QuietTypes DEF TypesInv
<1> QED
  BY <1>3, <1>4

LEMMA RebuildEndTyped ==
    ASSUME TypesInv, RebuildEnds
    PROVE  TypesInv'
<1>1. /\ UNCHANGED <<clock, exchange, position, feed, callback, hydrated, statuses,
                     submissions, audits, hand, workQueue, backoff, worker, engine, refresh,
                     crashes, failures>>
      /\ app' = "run"
      /\ orders' = IF DealFinished THEN closeOpenOrdersForDeal ELSE orders
  BY DEF RebuildEnds, exchangeVars, storeVars, orderWorkVars
<1>2. AppTyped' /\ AnswersTyped'
  BY <1>1 DEF TypesInv, AppTyped, AnswersTyped
<1>3. TrackedMap(orders) /\ clock \in Nat
  BY TakeProfitAssumption DEF TypesInv, TrackerMaps, ExchangeTyped
<1>4. TrackedMap(closeOpenOrdersForDeal)
  <2>1. DOMAIN closeOpenOrdersForDeal = DOMAIN orders
    BY DEF closeOpenOrdersForDeal
  <2>2. ASSUME NEW o \in DOMAIN orders PROVE closeOpenOrdersForDeal[o] \in OrderState
    <3>1. orders[o] \in OrderState
      BY <1>3 DEF TrackedMap, Tracked
    <3>2. PICK size \in Nat, t \in BOOLEAN : size = 0 /\ t = TRUE
      OBVIOUS
    <3>3. markCancelled(orders[o], clock) \in OrderState
      BY <1>3, <3>1, <3>2, OrderKept
    <3> QED
      BY <3>1, <3>3 DEF closeOpenOrdersForDeal
  <2> QED
    BY <1>3, <2>1, <2>2 DEF TrackedMap, Tracked
<1>5. TrackedMap(orders')
  BY <1>1, <1>3, <1>4
<1>6. TrackerMaps'
  BY <1>1, <1>5 DEF TypesInv, TrackerMaps, TrackedMap, Tracked
<1> QED
  BY <1>1, <1>2, <1>6, QuietTypes DEF TypesInv

LEMMA TypesStep == FillsInv /\ TypesInv /\ [NextTakeProfit]_takeProfitVars => TypesInv'
<1> SUFFICES ASSUME FillsInv, TypesInv, [NextTakeProfit]_takeProfitVars PROVE TypesInv'
  OBVIOUS
<1>1. CASE Tick \/ ReconcileTakeProfits \/ CleanupStaleDeals
  BY <1>1, TickTyped
<1>2. CASE \E o \in Buys : Buy(o) \/ BuyCancelled(o)
  BY <1>2, BuyTyped
<1>3. CASE \E o \in TakeProfits : \E n \in 1 .. Largest : Sell(o, n)
  BY <1>3, SellTyped
<1>4. CASE \E v \in Venues : Callback(v)
  BY <1>4, CallbackTyped
<1>5. CASE \E g \in Goroutines, v \in Venues : Reconcile(g, v)
  BY <1>5, ReconcileTyped
<1>6. CASE EngineSteps
  BY <1>6, EngineTyped
<1>7. CASE \E w \in Workers : WorkerSteps(w) \/ SubmitFails(w)
  BY <1>7, WorkerTyped, SubmitTyped DEF WorkerSteps
<1>8. CASE \E i \in 1 .. Len(backoff) : OrderBackoffEnds(i)
  BY <1>8, BackoffTyped
<1>9. CASE ProcessCrashes
  BY <1>9, CrashTyped
<1>10. CASE Boot
  BY <1>10, PhaseTyped, RefreshTyped, RebuildTyped, RebuildEndTyped DEF Boot
<1>11. CASE UNCHANGED takeProfitVars
  <2>1. UNCHANGED <<clock, exchange, position, feed, callback, orders, hydrated, statuses,
                    submissions, audits, hand, workQueue, backoff, worker, engine, app,
                    refresh, crashes, failures>>
    BY <1>11 DEF takeProfitVars, exchangeVars, storeVars, orderWorkVars, appVars
  <2> QED
    BY <2>1, QuietTypes DEF TypesInv
<1> QED
  BY <1>1, <1>2, <1>3, <1>4, <1>5, <1>6, <1>7, <1>8, <1>9, <1>10, <1>11 DEF NextTakeProfit

\* Every variable keeps its type, for any orders, venues, workers and bounds. That sizes
\* and positions stay natural numbers is not obvious: a fill takes units off an order and
\* off the position, a scaled size replaces a filled one (applyScaledSize), and a modify
\* or a create is sized by a difference of sums (calculateVenuePositions).
THEOREM TypeCorrect == SpecTakeProfit => []TakeProfitTypeOK
<1>1. TypesInv => TakeProfitTypeOK
  BY DEF TypesInv, TakeProfitTypeOK, TrackerMaps, TrackerTyped, TrackedMap, HandMaps
<1> QED
  BY <1>1, TypesInit, TypesStep, FillsInit, FillsStep, PTL DEF SpecTakeProfit
===========================================================================
