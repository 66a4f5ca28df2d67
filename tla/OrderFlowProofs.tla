-------------------------- MODULE OrderFlowProofs --------------------------
(***************************************************************************)
(* That orders follow their 3Commas events, proved for any number of       *)
(* venues, workers, events and faults.                                     *)
(*                                                                         *)
(* The invariant is in three layers.  Types and Steps say where the        *)
(* processes are.  Mirroring says of every venue that is not excused that  *)
(* at most one work for it exists, be it planned, queued or in the hands   *)
(* of a worker, and what that work may rely on: a create finds no stored   *)
(* submission, so that it is never dropped as a duplicate.  Following says *)
(* which event the venue follows: the last one that was decided, and while *)
(* processDeal is about to decide an earlier one.                          *)
(***************************************************************************)
EXTENDS OrderFlow, WellFoundedInduction, TLAPS

\* What the variables may hold, with the bounds that each step keeps.
Placed == [status : {"open", "filled", "canceled"}, price : Prices]
Busy == [work : Works, step : {"check", "call", "record"}, type : {"create", "modify", "cancel"}]
Rows == [kind : {"create", "modify"}, price : Prices] \cup
        [kind : {"cancel"}, price : Prices \cup {Nothing}]

Types ==
    /\ events \in Seq(Events) /\ Len(events) <= MaxEvents
    /\ recorded \in 0..Len(events)
    /\ assigned \in SUBSET Venues \ {{}}
    /\ deal \in {"idle", "decide", "emit"}
    /\ plan \subseteq Works /\ queue \subseteq Works
    /\ \A w \in DOMAIN requeues : w \in Works /\ requeues[w] \in 1..(MaxRequeues + faults)
    /\ worker \in [Workers -> {Idle} \cup Busy]
    /\ submissions \in [Venues -> {NoSubmission} \cup Rows]
    /\ statuses \in [Venues -> {NoOrder} \cup Placed]
    /\ exchange \in [Venues -> {NoOrder} \cup Placed]
    /\ updates \in [Venues -> Seq(Placed)]
    /\ faults \in 0..MaxFaults
    /\ changes \in Nat
    /\ excused \in SUBSET Venues

\* What a worker does with its work: a create is checked first and may turn into a modify.
Shape(k) ==
    worker[k] # Idle =>
        /\ worker[k].step = "check" => worker[k].type = "create" /\ worker[k].work.type = "create"
        /\ worker[k].work.type = "create" => worker[k].type \in {"create", "modify"}
        /\ worker[k].work.type # "create" => worker[k].type = worker[k].work.type

\* processDeal decides with an event at hand and plans only what it emits at once; an event
\* that is not active is the last one.
Steps ==
    /\ deal = "decide" => recorded > 0
    /\ deal # "emit" => plan = {}
    /\ \A k \in Workers : Shape(k)
    /\ \A i \in 1..(Len(events) - 1) : events[i].status = "active"

\* Worker k is busy with the venue.
At(k, v) == worker[k] # Idle /\ worker[k].work.venue = v

\* There is one work for the venue at most.
Alone(v) ==
    /\ \A u, w \in plan : u.venue = v /\ w.venue = v => u = w
    /\ \A u, w \in queue : u.venue = v /\ w.venue = v => u = w
    /\ \A u \in plan, w \in queue : ~(u.venue = v /\ w.venue = v)
    /\ \A u \in plan \cup queue, k \in Workers : ~(u.venue = v /\ At(k, v))
    /\ \A k, l \in Workers : At(k, v) /\ At(l, v) => k = l

\* The work is planned, queued or in the hands of a worker.
Pending(w) ==
    \/ w \in plan \/ w \in queue
    \/ \E k \in Workers : worker[k] # Idle /\ worker[k].work = w

\* What is stored is what is open, unless a work is pending that will make it so.
Mirror(v) ==
    /\ ~PendingAt(v) /\ exchange[v].status = "open" /\ submissions[v].kind \in {"create", "modify"}
         => submissions[v].price = exchange[v].price
    /\ \A w \in Works : Pending(w) /\ w.venue = v /\ w.type = "create" => submissions[v] = NoSubmission
    /\ \A k \in Workers : At(k, v) /\ worker[k].step = "record" /\ worker[k].type # "cancel"
                          /\ exchange[v].status = "open" =>
            exchange[v].price = worker[k].work.price

\* The order at the venue is as the event says.
Matches(v, e) ==
    /\ e.status = "active" =>
        exchange[v].status = "filled" \/ exchange[v] = [status |-> "open", price |-> e.price]
    /\ e.status = "cancelled" => exchange[v].status # "open"

\* The work that is pending for the venue makes its order what the event says.
Underway(v, e) ==
    /\ \A w \in Works : Pending(w) /\ w.venue = v =>
         /\ w.price = e.price
         /\ w.type = "create" => /\ e.status = "active"
                                 /\ \/ exchange[v] = NoOrder
                                    \/ Matches(v, e)
         /\ w.type = "modify" => e.status = "active" /\ exchange[v].status \in {"open", "filled"}
         /\ w.type = "cancel" => e.status = "cancelled"
    /\ \A k \in Workers : At(k, v) /\ worker[k].step = "record" => Matches(v, e)

\* The venue follows the event of number d, or none yet.
Decided(v, d) ==
    /\ d \in 0..recorded
    /\ IF deal = "decide" THEN d < recorded ELSE d = recorded
    /\ d = 0 => ~PendingAt(v) /\ exchange[v] = NoOrder
    /\ d > 0 => /\ ~PendingAt(v) => Matches(v, events[d])
                /\ Underway(v, events[d])

Following == \A v \in assigned \ excused : \E d \in Nat : Decided(v, d)
Mirroring == \A v \in Venues \ excused : Alone(v) /\ Mirror(v)

-----------------------------------------------------------------------------
(* What the events of an order come to *)

\* A set of numbers up to n has a largest one.
LEMMA Latest ==
    ASSUME NEW n \in Nat, NEW S \in SUBSET (1..n), S # {}
    PROVE  \E i \in S : \A j \in S : j <= i
<1> DEFINE R == OpToRel(<, Nat)
           T == {m \in 0..n : n - m \in S}
<1>1. IsWellFoundedOn(R, Nat)
  BY NatLessThanWellFounded
<1>2. \A u, v \in Nat : u < v => <<u, v>> \in R
  BY DEF OpToRel
<1> HIDE DEF R
<1>3. T # {} /\ T \subseteq Nat
  <2>1. PICK i \in S : TRUE
    OBVIOUS
  <2>2. n - i \in T
    OBVIOUS
  <2>3. T # {}
    BY <2>2
  <2>4. T \subseteq Nat
    OBVIOUS
  <2> QED
    BY <2>3, <2>4
<1>4. PICK m \in T : \A l \in T : ~(<<l, m>> \in R)
  BY <1>1, <1>3, WFMin
<1>5. \A j \in S : n - j \in T
  OBVIOUS
<1>6. ASSUME NEW j \in S PROVE j <= n - m
  <2>1. n - j \in T /\ n - j \in Nat /\ m \in Nat /\ j \in Nat
    BY <1>3, <1>5
  <2>2. ~(n - j < m)
    BY <1>2, <1>4, <2>1
  <2> QED
    BY <2>1, <2>2
<1>7. n - m \in S
  OBVIOUS
<1> QED
  BY <1>6, <1>7

\* The history is what was recorded of the events, up to the last one.
LEMMA HistoryIs ==
    ASSUME Types, recorded > 0
    PROVE  /\ Len(History) = recorded
           /\ \A i \in 1..recorded : History[i] = events[i] /\ events[i] \in Events
           /\ Last(History) = events[recorded]
           /\ recorded \in 1..MaxEvents
<1>1. events \in Seq(Events) /\ recorded \in 1..Len(events) /\ Len(events) \in Nat
  BY DEF Types
<1>2. Len(History) = recorded /\ \A i \in 1..recorded : History[i] = events[i]
  BY <1>1 DEF History
<1>3. Last(History) = events[recorded]
  BY <1>1, <1>2 DEF Last
<1> QED
  BY <1>1, <1>2, <1>3, OrderFlowAssumption DEF Types

\* previousDistinct finds an earlier event that differs from the last one, if there is one.
LEMMA PreviousIs ==
    ASSUME Types, recorded > 0
    PROVE  \/ /\ previousDistinct(History) = Nothing
              /\ \A i \in 1..recorded : events[i] = events[recorded]
           \/ \E i \in 1..(recorded - 1) :
                 /\ previousDistinct(History) = events[i]
                 /\ events[i] # Nothing /\ events[i] # events[recorded]
<1> DEFINE n == recorded
           other == {i \in 1..(n - 1) : events[i] # events[n]}
<1>1. /\ Len(History) = n /\ Last(History) = events[n] /\ n \in Nat
      /\ \A i \in 1..n : History[i] = events[i] /\ events[i] \in Events
  BY HistoryIs
<1> DEFINE found == {i \in 1..(Len(History) - 1) : ~sameSnapshot(History[i], Last(History))}
<1>2. found = other
  BY <1>1 DEF sameSnapshot
<1>3. previousDistinct(History) =
        IF other = {} THEN Nothing ELSE History[CHOOSE i \in other : \A j \in other : j <= i]
  <2>1. previousDistinct(History) =
          IF found = {} THEN Nothing ELSE History[CHOOSE i \in found : \A j \in found : j <= i]
    BY DEF previousDistinct
  <2> HIDE DEF found, other
  <2> QED
    BY <1>2, <2>1
<1>4. CASE other = {}
  BY <1>1, <1>3, <1>4
<1>5. CASE other # {}
  <2> DEFINE c == CHOOSE i \in other : \A j \in other : j <= i
  <2>1. other \in SUBSET (1..n)
    BY <1>1
  <2>2. \E i \in other : \A j \in other : j <= i
    <3> HIDE DEF other
    <3> QED  BY <1>1, <1>5, <2>1, Latest
  <2>3. c \in other
    <3> HIDE DEF other
    <3> QED  BY <2>2
  <2>4. previousDistinct(History) = History[c]
    BY <1>3, <1>5
  <2> HIDE DEF c
  <2>5. c \in 1..(n - 1) /\ events[c] # events[n] /\ History[c] = events[c] /\ events[c] \in Events
    BY <1>1, <2>3
  <2> QED
    BY <2>4, <2>5, OrderFlowAssumption
<1> QED
  BY <1>4, <1>5

\* The last event is taken for a create, a modify or a cancel, never for more.
LEMMA ReducedIs ==
    ASSUME Types, recorded > 0, NEW h \in BOOLEAN
    PROVE  LET type == reduceOrderEvents(h)
               last == events[recorded]
           IN  /\ type \in {"create", "modify", "cancel", "none"}
               /\ type \in {"create", "modify"} => last.status = "active"
               /\ type = "cancel" => last.status = "cancelled"
               /\ ~h /\ last.status = "active" => type = "create"
<1> DEFINE p == IF h THEN previousDistinct(History) ELSE Nothing
<1>1. reduceOrderEvents(h) = BuildAction(p, events[recorded])
  BY HistoryIs DEF reduceOrderEvents
<1> HIDE DEF p
<1>2. reduceOrderEvents(h) \in {"create", "modify", "cancel", "none"}
  BY <1>1 DEF BuildAction
<1>3. ~h => p = Nothing
  BY DEF p
<1>4. ~h /\ events[recorded].status = "active" => reduceOrderEvents(h) = "create"
  BY <1>1, <1>3 DEF BuildAction
<1>5. reduceOrderEvents(h) \in {"create", "modify"} => events[recorded].status = "active"
  BY <1>1 DEF BuildAction
<1>6. reduceOrderEvents(h) = "cancel" => events[recorded].status = "cancelled"
  BY <1>1 DEF BuildAction
<1> QED
  BY <1>2, <1>4, <1>5, <1>6

\* Every action that is decided is one for a venue of the bot, made of the last event: a
\* create where nothing is stored, a modify or a cancel where something is.
LEMMA EmittedIs ==
    ASSUME Types, recorded > 0, NEW w \in Emissions
    PROVE  LET type == reduceOrderEvents(storedIdents # {})
               last == events[recorded]
           IN  /\ w = [venue |-> w.venue, type |-> w.type, price |-> last.price, event |-> recorded]
               /\ w.venue \in assigned
               /\ \/ w.type = "create" /\ last.status = "active" /\ ~HasRow(w.venue)
                  \/ w.type = "modify" /\ last.status = "active" /\ HasRow(w.venue) /\ type = "modify"
                  \/ w.type = "cancel" /\ last.status = "cancelled" /\ HasRow(w.venue) /\ type = "cancel"
<1> DEFINE type == reduceOrderEvents(storedIdents # {})
           last == events[recorded]
<1>1. /\ type \in {"create", "modify", "cancel", "none"}
      /\ type \in {"create", "modify"} => last.status = "active"
      /\ type = "cancel" => last.status = "cancelled"
  BY ReducedIs
<1>2. Last(History) = last
  BY HistoryIs
<1> HIDE DEF type, last
<1>3. /\ \A v \in storedIdents : v \in assigned /\ HasRow(v)
      /\ \A v \in missingAssignmentTargets : v \in assigned /\ ~HasRow(v)
  BY DEF storedIdents, missingAssignmentTargets
<1>4. CASE \E v \in resolveOrderTargets(type) : w = Work(v, type)
  <2>1. PICK v \in resolveOrderTargets(type) : w = Work(v, type)
    BY <1>4
  <2>2. w = [venue |-> v, type |-> type, price |-> last.price, event |-> recorded]
    BY <1>2, <2>1 DEF Work
  <2>3. type # "none"
    BY <2>1 DEF resolveOrderTargets
  <2>4. type = "create" => v \in missingAssignmentTargets
    BY <2>1 DEF resolveOrderTargets
  <2>5. type \in {"modify", "cancel"} => v \in storedIdents
    BY <2>1 DEF resolveOrderTargets
  <2> QED
    BY <1>1, <1>3, <2>2, <2>3, <2>4, <2>5 DEF type, last
<1>5. CASE w \in Replay
  <2>1. PICK v \in missingAssignmentTargets : w = Work(v, "create")
    BY <1>5 DEF Replay
  <2>2. w = [venue |-> v, type |-> "create", price |-> last.price, event |-> recorded]
    BY <1>2, <2>1 DEF Work
  <2>3. last.status = "active"
    BY <1>2, <1>5 DEF Replay, replayAvailable
  <2> QED
    BY <1>3, <2>2, <2>3 DEF last
<1> QED
  BY <1>4, <1>5 DEF Emissions, type

\* No venue is given two actions at once.
LEMMA OneEach ==
    ASSUME Types, recorded > 0, NEW u \in Emissions, NEW w \in Emissions, u.venue = w.venue
    PROVE  u = w
<1>1. u.type = w.type
  BY EmittedIs
<1>2. /\ u = [venue |-> u.venue, type |-> u.type, price |-> events[recorded].price, event |-> recorded]
      /\ w = [venue |-> w.venue, type |-> w.type, price |-> events[recorded].price, event |-> recorded]
  BY EmittedIs
<1> QED
  BY <1>1, <1>2

\* The actions that are decided are well typed.
LEMMA EmittedTypes ==
    ASSUME Types, recorded > 0
    PROVE  Emissions \subseteq Works
<1> SUFFICES ASSUME NEW w \in Emissions PROVE w \in Works
  OBVIOUS
<1>1. events[recorded].price \in Prices /\ recorded \in 0..MaxEvents
  BY HistoryIs, OrderFlowAssumption DEF Events, Types
<1>2. w = [venue |-> w.venue, type |-> w.type, price |-> events[recorded].price, event |-> recorded]
  BY EmittedIs
<1>3. w.venue \in Venues
  BY EmittedIs DEF Types
<1>4. w.type \in {"create", "modify", "cancel"}
  BY EmittedIs
<1> QED
  BY <1>1, <1>2, <1>3, <1>4 DEF Works
-----------------------------------------------------------------------------
(* Types *)

\* The initial state is well typed.
LEMMA TypesAtStart == Init => Types
BY OrderFlowAssumption DEF Init, Types, Idle

\* A worker that is done leaves the state well typed.
LEMMA FinishTypes ==
    ASSUME Types, NEW k \in Workers, Finish(k)
    PROVE  /\ queue' = queue
           /\ worker' \in [Workers -> {Idle} \cup Busy]
           /\ \A w \in DOMAIN requeues' : w \in Works /\ requeues'[w] \in 1..(MaxRequeues + faults)
BY DEF Types, Finish, Forget

\* So does a requeue, with one more on the count of its item.
LEMMA AddTypes ==
    ASSUME Types, NEW w \in Works, AddRateLimited(w), NEW f \in Nat, faults <= f,
           Requeued(w) < MaxRequeues + f
    PROVE  /\ queue' \subseteq Works
           /\ \A u \in DOMAIN requeues' : u \in Works /\ requeues'[u] \in 1..(MaxRequeues + f)
<1>1. queue' \subseteq Works
  BY DEF AddRateLimited, Types
<1>2. Requeued(w) \in Nat
  BY OrderFlowAssumption DEF Types, Requeued
<1>3. ASSUME NEW u \in DOMAIN requeues'
      PROVE  u \in Works /\ requeues'[u] \in 1..(MaxRequeues + f)
  <2>1. u \in DOMAIN requeues \cup {w}
    BY <1>3 DEF AddRateLimited
  <2>2. requeues'[u] = IF u = w THEN Requeued(w) + 1 ELSE requeues[u]
    BY <2>1 DEF AddRateLimited
  <2> QED
    BY <1>2, <2>1, <2>2, OrderFlowAssumption DEF Types
<1> QED
  BY <1>1, <1>3

\* So does an error, which requeues below the limit only.
LEMMA RetriesTypes ==
    ASSUME Types, NEW k \in Workers, worker[k] # Idle, Retries(k)
    PROVE  /\ queue' \subseteq Works
           /\ worker' \in [Workers -> {Idle} \cup Busy]
           /\ \A w \in DOMAIN requeues' : w \in Works /\ requeues'[w] \in 1..(MaxRequeues + faults)
           /\ excused' \in SUBSET Venues
<1> DEFINE w == worker[k].work
<1>1. worker[k] \in Busy
  BY DEF Types
<1>2. w \in Works /\ w.venue \in Venues
  BY <1>1 DEF Busy, Works
<1>3. worker' \in [Workers -> {Idle} \cup Busy] /\ faults \in Nat
  BY OrderFlowAssumption DEF Types, Retries
<1> HIDE DEF w
<1>4. CASE Requeued(w) < MaxRequeues /\ AddRateLimited(w) /\ excused' = excused
  <2>1. Requeued(w) \in Nat
    BY OrderFlowAssumption DEF Types, Requeued
  <2>2. Requeued(w) < MaxRequeues + faults
    BY <1>3, <1>4, <2>1, OrderFlowAssumption
  <2> QED
    BY <1>2, <1>3, <1>4, <2>2, AddTypes DEF Types
<1>5. CASE queue' = queue /\ Forget(w) /\ excused' = excused \cup {w.venue}
  BY <1>2, <1>3, <1>5 DEF Types, Forget
<1> QED
  BY <1>4, <1>5 DEF Retries, w

\* So does the exchange when it carries out a call that it accepts.
LEMMA ExecutesTypes ==
    ASSUME Types, NEW k \in Workers, worker[k] # Idle, Accepts(k), Executes(k)
    PROVE  /\ exchange' \in [Venues -> {NoOrder} \cup Placed]
           /\ updates' \in [Venues -> Seq(Placed)]
<1> DEFINE v == worker[k].work.venue
           order == IF worker[k].type = "cancel" THEN [exchange[v] EXCEPT !.status = "canceled"]
                    ELSE [status |-> "open", price |-> worker[k].work.price]
<1>1. worker[k] \in Busy
  BY DEF Types
<1>2. v \in Venues /\ worker[k].work.price \in Prices /\ worker[k].type \in {"create", "modify", "cancel"}
  BY <1>1 DEF Busy, Works
<1>3. ASSUME worker[k].type = "cancel" PROVE order \in Placed
  <2>1. exchange[v].status = "open"
    BY <1>3 DEF Accepts
  <2>2. exchange[v] \in Placed
    BY <1>2, <2>1 DEF Types, NoOrder
  <2>3. order = [exchange[v] EXCEPT !.status = "canceled"]
    BY <1>3
  <2> QED
    BY <2>2, <2>3 DEF Placed
<1>4. ASSUME worker[k].type # "cancel" PROVE order \in Placed
  BY <1>2, <1>4 DEF Placed
<1>5. order \in Placed
  BY <1>3, <1>4
<1>6. exchange' = [exchange EXCEPT ![v] = order] /\ updates' = [updates EXCEPT ![v] = Append(@, order)]
  BY DEF Executes
<1> HIDE DEF order, v
<1>7. Append(updates[v], order) \in Seq(Placed)
  BY <1>2, <1>5 DEF Types
<1> QED
  BY <1>2, <1>5, <1>6, <1>7 DEF Types

\* Every step of processDeal keeps the types.
LEMMA DealTypes ==
    ASSUME Types, Steps, DealStep
    PROVE  Types'
<1>1. CASE DealRecords
  BY <1>1 DEF Types, DealRecords, boundVars
<1>2. CASE DealDone
  BY <1>2 DEF Types, DealDone, storeVars, boundVars
<1>3. CASE DealDecides
  <2>1. recorded > 0
    BY <1>3 DEF DealDecides, Steps
  <2>2. plan' \subseteq Works
    BY <1>3, <2>1, EmittedTypes DEF DealDecides
  <2>3. excused' \in SUBSET Venues
    BY <1>3 DEF DealDecides, StillExcused, Types
  <2> QED
    BY <1>3, <2>2, <2>3 DEF Types, DealDecides, storeVars, boundVars
<1>4. ASSUME NEW w \in plan, DealEmits(w) PROVE Types'
  <2>1. plan' \subseteq Works /\ queue' \subseteq Works
    BY <1>4 DEF Types, DealEmits
  <2> QED
    BY <1>4, <2>1 DEF Types, DealEmits, storeVars, boundVars
<1>5. ASSUME NEW w \in plan, DealCannotScale(w) PROVE Types'
  <2>1. plan' \subseteq plan
    BY <1>5 DEF DealCannotScale
  <2>2. \A u \in plan : u.venue \in Venues
    BY DEF Types, Works
  <2>3. excused' \in SUBSET Venues
    BY <1>5, <2>2 DEF Types, DealCannotScale
  <2>4. faults' = faults + 1 /\ faults' \in 0..MaxFaults /\ faults \in Nat
    BY <1>5, OrderFlowAssumption DEF Types, DealCannotScale
  <2>5. \A u \in DOMAIN requeues : u \in Works /\ requeues[u] \in 1..(MaxRequeues + faults')
    BY <2>4, OrderFlowAssumption DEF Types
  <2> QED
    BY <1>5, <2>1, <2>3, <2>4, <2>5 DEF Types, DealCannotScale, storeVars
<1> QED
  BY <1>1, <1>2, <1>3, <1>4, <1>5 DEF DealStep

\* Every step of an order worker keeps the types.
LEMMA WorkerTypes ==
    ASSUME Types, NEW k \in Workers, WorkerStep(k)
    PROVE  Types'
<1>1. ASSUME NEW w \in queue, TakeWork(k, w) PROVE Types'
  <2>1. w \in Works /\ w.type \in {"create", "modify", "cancel"}
    BY DEF Types, Works
  <2>2. [work |-> w, step |-> IF w.type = "create" THEN "check" ELSE "call", type |-> w.type] \in Busy
    BY <2>1 DEF Busy
  <2>3. worker' \in [Workers -> {Idle} \cup Busy]
    BY <1>1, <2>2 DEF Types, TakeWork
  <2>4. queue' \subseteq Works
    BY <1>1 DEF Types, TakeWork
  <2> QED
    BY <1>1, <2>3, <2>4 DEF Types, TakeWork, storeVars, boundVars
<1> DEFINE w == worker[k].work
<1>2. ASSUME worker[k] # Idle
      PROVE  /\ worker[k] \in Busy /\ w \in Works /\ w.venue \in Venues /\ w.price \in Prices
             /\ faults \in Nat
  BY <1>2, OrderFlowAssumption DEF Types, Busy, Works
<1>3. worker[k].step \in {"check", "call", "record"} => worker[k] # Idle
  BY DEF Idle
<1>4. ASSUME worker[k] # Idle, NEW s \in {"call", "record"}, NEW t \in {"create", "modify", "cancel"}
      PROVE  [worker EXCEPT ![k].step = s, ![k].type = t] \in [Workers -> {Idle} \cup Busy]
  <2>1. [worker[k] EXCEPT !.step = s, !.type = t] \in Busy
    BY <1>2, <1>4 DEF Busy
  <2> QED
    BY <2>1 DEF Types
<1>5. ASSUME worker[k] # Idle
      PROVE  [worker EXCEPT ![k].step = "record"] \in [Workers -> {Idle} \cup Busy]
  <2>1. [worker[k] EXCEPT !.step = "record"] \in Busy
    BY <1>2, <1>5 DEF Busy
  <2> QED
    BY <2>1 DEF Types
<1>6. CASE EmitChecks(k)
  <2>1. worker[k] # Idle
    BY <1>3, <1>6 DEF EmitChecks
  <2>2. CASE Finish(k)
    BY <1>6, <2>2, FinishTypes DEF Types, EmitChecks, storeVars, boundVars
  <2>3. CASE /\ worker' = [worker EXCEPT ![k].step = "call",
                                         ![k].type = IF Live(w.venue) THEN "modify" ELSE @]
             /\ UNCHANGED <<queue, requeues>>
    <3> DEFINE t == IF Live(w.venue) THEN "modify" ELSE worker[k].type
    <3>1. t \in {"create", "modify", "cancel"}
      BY <1>2, <2>1 DEF Busy
    <3>2. worker' = [worker EXCEPT ![k].step = "call", ![k].type = t]
      BY <2>3
    <3>3. worker' \in [Workers -> {Idle} \cup Busy]
      BY <1>4, <2>1, <3>1, <3>2
    <3> QED
      BY <1>6, <2>3, <3>3 DEF Types, EmitChecks, storeVars, boundVars
  <2> QED
    BY <1>6, <2>2, <2>3 DEF EmitChecks
<1>7. CASE EmitCalls(k)
  <2>1. worker[k] # Idle
    BY <1>3, <1>7 DEF EmitCalls
  <2>2. worker' \in [Workers -> {Idle} \cup Busy]
    BY <1>5, <1>7, <2>1 DEF EmitCalls
  <2>3. exchange' \in [Venues -> {NoOrder} \cup Placed] /\ updates' \in [Venues -> Seq(Placed)]
    BY <1>7, <2>1, ExecutesTypes DEF EmitCalls
  <2> QED
    BY <1>7, <2>2, <2>3 DEF Types, EmitCalls, storeVars, boundVars
<1>8. CASE EmitFindsClosed(k)
  <2>1. worker[k] # Idle
    BY <1>3, <1>8 DEF EmitFindsClosed
  <2>2. CASE Finish(k)
    BY <1>8, <2>2, FinishTypes DEF Types, EmitFindsClosed, storeVars, boundVars
  <2>3. CASE UNCHANGED <<queue, requeues>> /\ worker' = [worker EXCEPT ![k].step = "record"]
    BY <1>5, <1>8, <2>1, <2>3 DEF Types, EmitFindsClosed, storeVars, boundVars
  <2> QED
    BY <1>8, <2>2, <2>3 DEF EmitFindsClosed
<1>9. CASE EmitRejected(k)
  <2>1. worker[k] # Idle
    BY <1>3, <1>9 DEF EmitRejected
  <2>2. Retries(k)
    BY <1>9 DEF EmitRejected
  <2> QED
    BY <1>9, <2>1, <2>2, RetriesTypes DEF Types, EmitRejected, storeVars, boundVars
<1>10. CASE EmitCallFails(k)
  <2>1. worker[k] # Idle
    BY <1>3, <1>10 DEF EmitCallFails
  <2>2. exchange' \in [Venues -> {NoOrder} \cup Placed] /\ updates' \in [Venues -> Seq(Placed)]
    BY <1>10, <2>1, ExecutesTypes DEF EmitCallFails, Types
  <2>3. /\ faults' = faults + 1 /\ faults' \in 0..MaxFaults
        /\ faults \in Nat /\ faults' \in Nat /\ faults <= faults'
    BY <1>10, OrderFlowAssumption DEF Types, EmitCallFails
  <2>4. /\ queue' \subseteq Works /\ excused' \in SUBSET Venues
        /\ worker' \in [Workers -> {Idle} \cup Busy]
        /\ \A u \in DOMAIN requeues' : u \in Works /\ requeues'[u] \in 1..(MaxRequeues + faults')
    <3>1. CASE Retries(k)
      <4>1. /\ queue' \subseteq Works /\ excused' \in SUBSET Venues
            /\ worker' \in [Workers -> {Idle} \cup Busy]
            /\ \A u \in DOMAIN requeues' : u \in Works /\ requeues'[u] \in 1..(MaxRequeues + faults)
        BY <2>1, <3>1, RetriesTypes
      <4>2. 1..(MaxRequeues + faults) \subseteq 1..(MaxRequeues + faults')
        BY <2>3, OrderFlowAssumption
      <4> QED
        BY <4>1, <4>2
    <3>2. CASE /\ worker' = [worker EXCEPT ![k] = Idle] /\ AddRateLimited(worker[k].work)
               /\ excused' = excused
      <4>1. Requeued(w) \in 0..(MaxRequeues + faults)
        BY <2>3, OrderFlowAssumption DEF Types, Requeued
      <4>2. Requeued(w) < MaxRequeues + faults'
        BY <2>3, <4>1, OrderFlowAssumption
      <4>3. /\ queue' \subseteq Works
            /\ \A u \in DOMAIN requeues' : u \in Works /\ requeues'[u] \in 1..(MaxRequeues + faults')
        BY <1>2, <2>1, <2>3, <3>2, <4>2, AddTypes
      <4> QED
        BY <3>2, <4>3 DEF Types
    <3> QED
      BY <1>10, <3>1, <3>2 DEF EmitCallFails
  <2> QED
    BY <1>10, <2>2, <2>3, <2>4 DEF Types, EmitCallFails, storeVars
<1>11. CASE EmitSwallows(k)
  <2>1. worker[k] # Idle /\ Finish(k)
    BY <1>3, <1>11 DEF EmitSwallows
  <2>2. upsertHyperliquidCreate(submissions[w.venue], w.price) \in Rows
    BY <1>2, <2>1 DEF upsertHyperliquidCreate, Rows
  <2>3. submissions' \in [Venues -> {NoSubmission} \cup Rows] /\ excused' \in SUBSET Venues
    BY <1>2, <1>11, <2>1, <2>2 DEF Types, EmitSwallows
  <2>4. faults' = faults + 1 /\ faults' \in 0..MaxFaults
    BY <1>11, OrderFlowAssumption DEF Types, EmitSwallows
  <2>5. 1..(MaxRequeues + faults) \subseteq 1..(MaxRequeues + faults')
    BY <1>2, <2>1, <2>4, OrderFlowAssumption
  <2>6. /\ queue' = queue /\ worker' \in [Workers -> {Idle} \cup Busy]
        /\ \A u \in DOMAIN requeues' : u \in Works /\ requeues'[u] \in 1..(MaxRequeues + faults')
    BY <2>1, <2>5, FinishTypes
  <2> QED
    BY <1>11, <2>3, <2>4, <2>6 DEF Types, EmitSwallows
<1>12. CASE EmitRecords(k)
  <2>1. worker[k] # Idle /\ Finish(k)
    BY <1>3, <1>12 DEF EmitRecords
  <2> DEFINE row == submissions[w.venue]
  <2>2. row \in {NoSubmission} \cup Rows
    BY <1>2, <2>1 DEF Types
  <2>3. Recorded(worker[k].type, row, w.price) \in Rows
    <3>1. CASE worker[k].type \in {"create", "modify"}
      BY <1>2, <2>1, <3>1
      DEF Recorded, upsertHyperliquidCreate, appendHyperliquidModify, Rows
    <3>2. CASE worker[k].type \notin {"create", "modify"}
      <4> HIDE DEF row
      <4>1. [row EXCEPT !.kind = "cancel"] \in [kind : {"cancel"}, price : Prices \cup {Nothing}]
        BY <2>2 DEF NoSubmission, Rows
      <4> QED
        BY <3>2, <4>1 DEF Recorded, upsertHyperliquidCancel, Rows
    <3> QED
      BY <3>1, <3>2
  <2>4. submissions' \in [Venues -> {NoSubmission} \cup Rows]
    BY <1>2, <1>12, <2>1, <2>3 DEF Types, EmitRecords
  <2> QED
    BY <1>12, <2>1, <2>4, FinishTypes DEF Types, EmitRecords, boundVars
<1> QED
  BY <1>1, <1>6, <1>7, <1>8, <1>9, <1>10, <1>11, <1>12 DEF WorkerStep

\* Every other step keeps the types.
LEMMA SurroundingTypes ==
    ASSUME Types, Next
    PROVE  \/ DealStep \/ (\E k \in Workers : WorkerStep(k)) \/ Types'
<1>1. ASSUME NEW e \in Events, ThreeCommasReports(e) PROVE Types'
  <2>1. /\ events' \in Seq(Events) /\ Len(events') = Len(events) + 1 /\ Len(events) \in Nat
        /\ recorded \in 0..Len(events')
    BY <1>1 DEF Types, ThreeCommasReports
  <2>2. Len(events') <= MaxEvents
    BY <1>1, <2>1, OrderFlowAssumption DEF ThreeCommasReports
  <2> QED
    BY <1>1, <2>1, <2>2 DEF Types, ThreeCommasReports, storeVars, boundVars
<1>2. ASSUME NEW vs \in SUBSET Venues \ {{}}, AssignmentChanges(vs) PROVE Types'
  BY <1>2 DEF Types, AssignmentChanges, storeVars
<1>3. ASSUME NEW vs \in SUBSET Venues, CancelOrderByOrderId(vs) PROVE Types'
  <2> DEFINE pending == {v \in vs : /\ LoadHyperliquidSubmission(v).kind \in {"create", "modify"}
                                    /\ isCancelableStatus(v)}
             cancel(v) == [venue |-> v, type |-> "cancel", price |-> submissions[v].price,
                           event |-> 0]
  <2>1. ASSUME NEW v \in pending PROVE cancel(v) \in Works /\ v \in Venues
    <3>1. submissions[v].kind \in {"create", "modify"} /\ v \in Venues
      BY DEF LoadHyperliquidSubmission
    <3>2. submissions[v].price \in Prices
      BY <3>1 DEF Types, Rows, NoSubmission
    <3> QED
      BY <3>1, <3>2, OrderFlowAssumption DEF Works
  <2>2. queue' = queue \cup {cancel(v) : v \in pending} /\ excused' = excused \cup pending
    BY <1>3 DEF CancelOrderByOrderId
  <2> HIDE DEF pending, cancel
  <2>3. queue' \subseteq Works /\ excused' \in SUBSET Venues
    BY <2>1, <2>2 DEF Types
  <2> QED
    BY <1>3, <2>3 DEF Types, CancelOrderByOrderId, storeVars
<1>4. ASSUME NEW v \in Venues, Fills(v) PROVE Types'
  <2>1. exchange[v] \in Placed
    BY <1>4 DEF Types, Fills, NoOrder
  <2>2. [exchange[v] EXCEPT !.status = "filled"] \in Placed
    BY <2>1 DEF Placed
  <2>3. exchange' \in [Venues -> {NoOrder} \cup Placed] /\ exchange'[v] \in Placed
    BY <1>4, <2>2 DEF Types, Fills
  <2>4. Append(updates[v], exchange'[v]) \in Seq(Placed)
    BY <2>3 DEF Types
  <2>5. updates' \in [Venues -> Seq(Placed)]
    BY <1>4, <2>4 DEF Types, Fills
  <2> QED
    BY <1>4, <2>3, <2>5 DEF Types, Fills, storeVars, boundVars
<1>5. ASSUME NEW v \in Venues, StatusArrives(v) PROVE Types'
  <2>1. updates[v] \in Seq(Placed) /\ updates[v] # <<>>
    BY <1>5 DEF Types, StatusArrives
  <2>2. Head(updates[v]) \in Placed /\ Tail(updates[v]) \in Seq(Placed)
    BY <2>1
  <2>3. statuses' \in [Venues -> {NoOrder} \cup Placed] /\ updates' \in [Venues -> Seq(Placed)]
    BY <1>5, <2>2 DEF Types, StatusArrives
  <2> QED
    BY <1>5, <2>3 DEF Types, StatusArrives, boundVars
<1>6. ASSUME NEW asked \in SUBSET Venues, CrashAndRestart(asked) PROVE Types'
  <2>1. worker' \in [Workers -> {Idle} \cup Busy] /\ updates' \in [Venues -> Seq(Placed)]
    BY <1>6 DEF CrashAndRestart
  <2>2. statuses' \in [Venues -> {NoOrder} \cup Placed]
    BY <1>6 DEF CrashAndRestart, Types
  <2>3. faults' \in 0..MaxFaults /\ excused' \in SUBSET Venues /\ DOMAIN requeues' = {}
    BY <1>6, OrderFlowAssumption DEF CrashAndRestart, Types
  <2> QED
    BY <1>6, <2>1, <2>2, <2>3 DEF Types, CrashAndRestart
<1>7. CancelOrderByOrderId(Venues) \/ (\E v \in Venues : CancelOrderByOrderId({v})) => Types'
  BY <1>3
<1> QED
  BY <1>1, <1>2, <1>4, <1>5, <1>6, <1>7 DEF Next

\* A worker step is one of its worker alone.
LEMMA WorkerMoves ==
    ASSUME Types, NEW k \in Workers, WorkerStep(k)
    PROVE  /\ \A l \in Workers \ {k} : worker'[l] = worker[l]
           /\ \/ /\ worker'[k] = Idle /\ worker[k] # Idle
                 /\ queue' = queue \/ queue' = queue \cup {worker[k].work}
              \/ \E w \in queue :
                    /\ worker[k] = Idle /\ queue' = queue \ {w}
                    /\ worker'[k] = [work |-> w, type |-> w.type,
                                     step |-> IF w.type = "create" THEN "check" ELSE "call"]
              \/ /\ worker[k].step = "check" /\ worker[k] # Idle /\ queue' = queue
                 /\ \E t \in {"modify", worker[k].type} :
                       worker'[k] = [worker[k] EXCEPT !.step = "call", !.type = t]
              \/ /\ worker[k].step = "call" /\ worker[k] # Idle /\ queue' = queue
                 /\ worker'[k] = [worker[k] EXCEPT !.step = "record"]
<1>0. worker \in [Workers -> {Idle} \cup Busy]
  BY DEF Types
<1>1. ASSUME NEW w \in queue, TakeWork(k, w)
      PROVE  /\ \A l \in Workers \ {k} : worker'[l] = worker[l]
             /\ worker[k] = Idle /\ queue' = queue \ {w}
             /\ worker'[k] = [work |-> w, type |-> w.type,
                              step |-> IF w.type = "create" THEN "check" ELSE "call"]
  BY <1>0, <1>1 DEF TakeWork
<1>2. ASSUME worker' = [worker EXCEPT ![k] = Idle],
             worker[k].step \in {"check", "call", "record"},
             queue' = queue \/ queue' = queue \cup {worker[k].work}
      PROVE  /\ \A l \in Workers \ {k} : worker'[l] = worker[l]
             /\ worker'[k] = Idle /\ worker[k] # Idle
             /\ queue' = queue \/ queue' = queue \cup {worker[k].work}
  BY <1>0, <1>2 DEF Idle
<1>3. ASSUME worker[k].step \in {"check", "call", "record"}, Finish(k) \/ Retries(k)
      PROVE  /\ \A l \in Workers \ {k} : worker'[l] = worker[l]
             /\ worker'[k] = Idle /\ worker[k] # Idle
             /\ queue' = queue \/ queue' = queue \cup {worker[k].work}
  BY <1>2, <1>3 DEF Finish, Retries, AddRateLimited
<1>4. ASSUME worker[k].step = "call", queue' = queue,
             worker' = [worker EXCEPT ![k].step = "record"]
      PROVE  /\ \A l \in Workers \ {k} : worker'[l] = worker[l]
             /\ worker[k].step = "call" /\ worker[k] # Idle /\ queue' = queue
             /\ worker'[k] = [worker[k] EXCEPT !.step = "record"]
  BY <1>0, <1>4 DEF Idle
<1>5. CASE EmitChecks(k)
  <2> DEFINE t == IF Live(worker[k].work.venue) THEN "modify" ELSE worker[k].type
  <2>1. CASE /\ worker' = [worker EXCEPT ![k].step = "call",
                              ![k].type = IF Live(worker[k].work.venue) THEN "modify" ELSE @]
             /\ UNCHANGED <<queue, requeues>>
    <3>1. worker' = [worker EXCEPT ![k].step = "call", ![k].type = t]
      BY <2>1
    <3>2. t \in {"modify", worker[k].type}
      OBVIOUS
    <3> HIDE DEF t
    <3>3. /\ \A l \in Workers \ {k} : worker'[l] = worker[l]
          /\ worker'[k] = [worker[k] EXCEPT !.step = "call", !.type = t]
      BY <1>0, <3>1
    <3>4. worker[k].step = "check" /\ worker[k] # Idle
      BY <1>5 DEF EmitChecks, Idle
    <3> QED
      BY <2>1, <3>2, <3>3, <3>4
  <2> QED
    BY <1>3, <1>5, <2>1 DEF EmitChecks
<1>6. CASE EmitCalls(k)
  BY <1>4, <1>6 DEF EmitCalls
<1>7. CASE EmitFindsClosed(k)
  BY <1>3, <1>4, <1>7 DEF EmitFindsClosed
<1>8. CASE EmitRejected(k) \/ EmitSwallows(k) \/ EmitRecords(k)
  BY <1>3, <1>8 DEF EmitRejected, EmitSwallows, EmitRecords
<1>9. CASE EmitCallFails(k)
  BY <1>2, <1>3, <1>9 DEF EmitCallFails, AddRateLimited
<1> QED
  BY <1>1, <1>5, <1>6, <1>7, <1>8, <1>9 DEF WorkerStep

\* Workers keep to the order of their steps.
LEMMA ShapeKept ==
    ASSUME Types, NEW k \in Workers, WorkerStep(k), \A l \in Workers : Shape(l)
    PROVE  \A l \in Workers : Shape(l)'
<1> SUFFICES ASSUME NEW l \in Workers PROVE Shape(l)'
  OBVIOUS
<1>1. CASE l # k
  <2>1. worker'[l] = worker[l]
    BY <1>1, WorkerMoves
  <2> QED
    BY <2>1 DEF Shape
<1>2. CASE l = k
  <2> SUFFICES ASSUME worker'[k] # Idle
               PROVE  /\ worker'[k].step = "check" =>
                            worker'[k].type = "create" /\ worker'[k].work.type = "create"
                      /\ worker'[k].work.type = "create" => worker'[k].type \in {"create", "modify"}
                      /\ worker'[k].work.type # "create" => worker'[k].type = worker'[k].work.type
    BY <1>2 DEF Shape
  <2>1. CASE \E w \in queue :
                /\ worker[k] = Idle /\ queue' = queue \ {w}
                /\ worker'[k] = [work |-> w, type |-> w.type,
                                 step |-> IF w.type = "create" THEN "check" ELSE "call"]
    BY <2>1
  <2>2. ASSUME worker[k] # Idle PROVE worker[k] \in Busy
    BY <2>2 DEF Types
  <2>3. ASSUME worker[k].step = "check", worker[k] # Idle, NEW t \in {"modify", worker[k].type},
               worker'[k] = [worker[k] EXCEPT !.step = "call", !.type = t]
        PROVE  /\ worker'[k].step = "call" /\ worker'[k].type = t
               /\ worker'[k].work = worker[k].work
    BY <2>2, <2>3 DEF Busy
  <2>4. CASE /\ worker[k].step = "call" /\ worker[k] # Idle
             /\ worker'[k] = [worker[k] EXCEPT !.step = "record"]
    <3>1. /\ worker'[k].step = "record" /\ worker'[k].type = worker[k].type
          /\ worker'[k].work = worker[k].work
      BY <2>2, <2>4 DEF Busy
    <3> QED
      BY <2>4, <3>1 DEF Shape
  <2>5. CASE /\ worker[k].step = "check" /\ worker[k] # Idle
             /\ \E t \in {"modify", worker[k].type} :
                   worker'[k] = [worker[k] EXCEPT !.step = "call", !.type = t]
    BY <2>3, <2>5 DEF Shape
  <2> QED
    BY <2>1, <2>4, <2>5, WorkerMoves
<1> QED
  BY <1>1, <1>2

\* Types and Steps are inductive.
LEMMA StepsPreserved ==
    ASSUME Types, Steps, [Next]_vars
    PROVE  Types' /\ Steps'
<1>1. CASE DealStep
  <2>1. Types'
    BY <1>1, DealTypes
  <2>2. /\ events' = events /\ worker' = worker
        /\ deal' = "decide" => recorded' > 0
        /\ deal' # "emit" => plan' = {}
    <3>1. CASE DealRecords
      BY <3>1 DEF DealRecords, Types, Steps
    <3>2. CASE DealDecides \/ DealDone \/ \E w \in plan : DealEmits(w) \/ DealCannotScale(w)
      BY <3>2 DEF DealDecides, DealDone, DealEmits, DealCannotScale
    <3> QED
      BY <1>1, <3>1, <3>2 DEF DealStep
  <2> QED
    BY <2>1, <2>2 DEF Steps, Shape
<1>2. ASSUME NEW k \in Workers, WorkerStep(k) PROVE Types' /\ Steps'
  <2>1. UNCHANGED <<events, deal, plan, recorded>>
    BY <1>2 DEF WorkerStep, TakeWork, EmitChecks, EmitCalls, EmitFindsClosed, EmitRejected,
        EmitCallFails, EmitSwallows, EmitRecords, storeVars
  <2> QED
    BY <1>2, <2>1, WorkerTypes, ShapeKept DEF Steps
<1>3. ASSUME NEW e \in Events, ThreeCommasReports(e), Types' PROVE Steps'
  <2>1. events \in Seq(Events) /\ events' = Append(events, e) /\ Len(events) \in Nat
    BY <1>3 DEF Types, ThreeCommasReports
  <2>2. /\ Len(events') = Len(events) + 1
        /\ \A i \in 1..Len(events) : events'[i] = events[i]
    BY <2>1
  <2>3. events # <<>> => events[Len(events)].status = "active"
    BY <1>3 DEF ThreeCommasReports, Last
  <2>4. \A i \in 1..(Len(events') - 1) : events'[i].status = "active"
    BY <2>1, <2>2, <2>3 DEF Steps
  <2>5. UNCHANGED <<deal, plan, recorded, worker>>
    BY <1>3 DEF ThreeCommasReports, storeVars
  <2> QED
    BY <2>4, <2>5 DEF Steps, Shape
<1>4. ASSUME UNCHANGED <<events, deal, plan, recorded, worker>> PROVE Steps'
  <2>1. \A k \in Workers : Shape(k)'
    BY <1>4 DEF Steps, Shape
  <2> QED
    BY <1>4, <2>1 DEF Steps
<1>5. ASSUME NEW asked \in SUBSET Venues, CrashAndRestart(asked) PROVE Steps'
  BY <1>5 DEF CrashAndRestart, Steps, Shape
<1>6. CASE Next
  <2>1. CASE \/ \E vs \in SUBSET Venues \ {{}} : AssignmentChanges(vs)
             \/ CancelOrderByOrderId(Venues) \/ \E v \in Venues : CancelOrderByOrderId({v})
             \/ \E v \in Venues : Fills(v) \/ StatusArrives(v)
    <3>1. UNCHANGED <<events, deal, plan, recorded, worker>>
      BY <2>1 DEF AssignmentChanges, CancelOrderByOrderId, Fills, StatusArrives, storeVars
    <3> QED
      BY <1>4, <1>6, <2>1, <3>1, SurroundingTypes, DealTypes, WorkerTypes
  <2> QED
    BY <1>1, <1>2, <1>3, <1>5, <1>6, <2>1, SurroundingTypes DEF Next
<1>7. CASE UNCHANGED vars
  <2>1. Types'
    BY <1>7 DEF vars, storeVars, boundVars, Types
  <2> QED
    BY <1>4, <1>7, <2>1 DEF vars, storeVars
<1> QED
  BY <1>6, <1>7

\* The state stays well typed, and no item is requeued more often than the limit of
\* processOrderItem and the expired calls allow (workers.go:120).
THEOREM TypeCorrect == Spec => []TypeOK
<1>1. Init => Types /\ Steps
  BY TypesAtStart DEF Init, Steps, Shape, Idle
<1>2. Types /\ Steps /\ [Next]_vars => (Types /\ Steps)'
  BY StepsPreserved
<1>3. ASSUME Types PROVE TypeOK
  <2>1. \A k \in Workers : worker[k] # Idle => worker[k].work \in Works
    BY <1>3 DEF Types, Busy
  <2>2. \A v \in Venues : exchange[v].status \in {"none", "open", "filled", "canceled"}
    BY <1>3 DEF Types, Placed, NoOrder
  <2>3. \A w \in DOMAIN requeues : w \in Works /\ requeues[w] \in 1..(MaxRequeues + MaxFaults)
    BY <1>3, OrderFlowAssumption DEF Types
  <2> QED
    BY <1>3, <2>1, <2>2, <2>3 DEF Types, TypeOK
<1> QED
  BY <1>1, <1>2, <1>3, PTL DEF Spec

-----------------------------------------------------------------------------
(* What a step does to the work for a venue *)

\* A venue has pending work exactly if some work for it is pending.
LEMMA PendingIs ==
    ASSUME Types, NEW v \in Venues
    PROVE  PendingAt(v) <=> \E w \in Works : Pending(w) /\ w.venue = v
<1>1. \A k \in Workers : worker[k] # Idle => worker[k].work \in Works
  BY DEF Types, Busy
<1>2. plan \subseteq Works /\ queue \subseteq Works
  BY DEF Types
<1> QED
  BY <1>1, <1>2 DEF PendingAt, Pending

\* A worker takes a work out of the queue, keeps it or puts it back: it never copies it.
LEMMA WorkerAlone ==
    ASSUME Types, NEW k \in Workers, WorkerStep(k), NEW v \in Venues, Alone(v)
    PROVE  Alone(v)'
<1>0. plan' = plan
  BY DEF WorkerStep, TakeWork, EmitChecks, EmitCalls, EmitFindsClosed, EmitRejected,
      EmitCallFails, EmitSwallows, EmitRecords
<1>1. \A l \in Workers \ {k} : worker'[l] = worker[l]
  BY WorkerMoves
<1>2. CASE /\ worker'[k] = Idle /\ worker[k] # Idle
           /\ queue' = queue \/ queue' = queue \cup {worker[k].work}
  BY <1>0, <1>1, <1>2 DEF Alone, At
<1>3. CASE \E w \in queue :
              /\ worker[k] = Idle /\ queue' = queue \ {w}
              /\ worker'[k] = [work |-> w, type |-> w.type,
                               step |-> IF w.type = "create" THEN "check" ELSE "call"]
  <2>1. PICK w \in queue :
              /\ worker[k] = Idle /\ queue' = queue \ {w}
              /\ worker'[k] = [work |-> w, type |-> w.type,
                               step |-> IF w.type = "create" THEN "check" ELSE "call"]
    BY <1>3
  <2>2. worker'[k].work = w /\ ~At(k, v)
    BY <2>1 DEF At
  <2>3. \A l \in Workers : At(l, v)' => (IF l = k THEN w.venue = v ELSE At(l, v))
    BY <1>1, <2>2 DEF At
  <2>4. ~(w.venue = v /\ \E l \in Workers : At(l, v))
    BY DEF Alone
  <2>5. \A u \in queue' : u \in queue /\ u # w
    BY <2>1
  <2>6. \A l, m \in Workers : At(l, v)' /\ At(m, v)' => l = m
    BY <2>3, <2>4 DEF Alone
  <2>7. \A u \in plan' \cup queue', l \in Workers : ~(u.venue = v /\ At(l, v)')
    BY <1>0, <2>3, <2>5 DEF Alone
  <2> QED
    BY <1>0, <2>5, <2>6, <2>7 DEF Alone
<1>4. ASSUME worker[k] # Idle, queue' = queue, worker'[k].work = worker[k].work
      PROVE  Alone(v)'
  <2>1. \A l \in Workers : At(l, v)' => At(l, v)
    BY <1>1, <1>4 DEF At
  <2> QED
    BY <1>0, <1>4, <2>1 DEF Alone
<1>5. ASSUME worker[k] # Idle PROVE worker[k] \in Busy
  BY <1>5 DEF Types
<1>6. CASE /\ worker[k].step = "check" /\ worker[k] # Idle /\ queue' = queue
           /\ \E t \in {"modify", worker[k].type} :
                 worker'[k] = [worker[k] EXCEPT !.step = "call", !.type = t]
  BY <1>4, <1>5, <1>6 DEF Busy
<1>7. CASE /\ worker[k].step = "call" /\ worker[k] # Idle /\ queue' = queue
           /\ worker'[k] = [worker[k] EXCEPT !.step = "record"]
  BY <1>4, <1>5, <1>7 DEF Busy
<1> QED
  BY <1>2, <1>3, <1>6, <1>7, WorkerMoves

\* The work for the venue stays where it is or moves, and nobody comes to record.
Kept(v) ==
    /\ \A w \in Works : w.venue = v => (Pending(w)' <=> Pending(w))
    /\ \A k \in Workers : At(k, v)' /\ worker'[k].step = "record" => worker'[k] = worker[k]

Still(v) ==
    /\ Kept(v)
    /\ exchange'[v] = exchange[v] /\ submissions'[v] = submissions[v]

\* A worker leaves the pending work of all other venues alone.
LEMMA WorkerElsewhere ==
    ASSUME Types, NEW k \in Workers, WorkerStep(k), NEW v \in Venues, ~At(k, v)
    PROVE  Kept(v)
<1>0. plan' = plan
  BY DEF WorkerStep, TakeWork, EmitChecks, EmitCalls, EmitFindsClosed, EmitRejected,
      EmitCallFails, EmitSwallows, EmitRecords
<1>1. \A l \in Workers \ {k} : worker'[l] = worker[l]
  BY WorkerMoves
<1> DEFINE Held(w) == \E l \in Workers \ {k} : worker[l] # Idle /\ worker[l].work = w
<1>2. /\ \A w : Pending(w) <=> w \in plan \/ w \in queue \/ Held(w)
                               \/ (worker[k] # Idle /\ worker[k].work = w)
      /\ \A w : Pending(w)' <=> w \in plan \/ w \in queue' \/ Held(w)
                               \/ (worker'[k] # Idle /\ worker'[k].work = w)
  BY <1>0, <1>1 DEF Pending
<1> HIDE DEF Held
<1>3. CASE /\ worker'[k] = Idle /\ worker[k] # Idle
           /\ queue' = queue \/ queue' = queue \cup {worker[k].work}
  <2>1. worker[k].work.venue # v
    BY <1>3 DEF At
  <2>2. \A w \in Works : w.venue = v => (Pending(w)' <=> Pending(w))
    BY <1>2, <1>3, <2>1
  <2> QED
    BY <1>1, <1>3, <2>2 DEF Kept, At
<1>4. CASE \E w \in queue :
              /\ worker[k] = Idle /\ queue' = queue \ {w}
              /\ worker'[k] = [work |-> w, type |-> w.type,
                               step |-> IF w.type = "create" THEN "check" ELSE "call"]
  <2>1. PICK w \in queue :
              /\ worker[k] = Idle /\ queue' = queue \ {w}
              /\ worker'[k] = [work |-> w, type |-> w.type,
                               step |-> IF w.type = "create" THEN "check" ELSE "call"]
    BY <1>4
  <2>2. worker'[k].work = w /\ worker'[k].step \in {"check", "call"} /\ worker'[k] # Idle
    BY <2>1 DEF Idle
  <2>3. \A u \in Works : u.venue = v => (Pending(u)' <=> Pending(u))
    BY <1>2, <2>1, <2>2
  <2> QED
    BY <1>1, <2>2, <2>3 DEF Kept
<1>5. ASSUME worker[k] # Idle, queue' = queue, worker'[k].work = worker[k].work
      PROVE  Kept(v)
  <2>1. worker[k].work.venue # v
    BY <1>5 DEF At
  <2>2. \A w \in Works : w.venue = v => (Pending(w)' <=> Pending(w))
    BY <1>2, <1>5, <2>1
  <2> QED
    BY <1>1, <1>5, <2>1, <2>2 DEF Kept, At
<1>6. ASSUME worker[k] # Idle PROVE worker[k] \in Busy
  BY <1>6 DEF Types
<1>7. CASE /\ worker[k].step = "check" /\ worker[k] # Idle /\ queue' = queue
           /\ \E t \in {"modify", worker[k].type} :
                 worker'[k] = [worker[k] EXCEPT !.step = "call", !.type = t]
  BY <1>5, <1>6, <1>7 DEF Busy
<1>8. CASE /\ worker[k].step = "call" /\ worker[k] # Idle /\ queue' = queue
           /\ worker'[k] = [worker[k] EXCEPT !.step = "record"]
  BY <1>5, <1>6, <1>8 DEF Busy
<1> QED
  BY <1>3, <1>4, <1>7, <1>8, WorkerMoves

\* A worker leaves the rows and the orders of all other venues alone.
LEMMA ElsewhereStill ==
    ASSUME Types, NEW k \in Workers, WorkerStep(k), NEW v \in Venues, ~At(k, v)
    PROVE  Still(v)
<1>1. Kept(v)
  BY WorkerElsewhere
<1>2. worker[k].step \in {"check", "call", "record"} => worker[k].work.venue # v
  BY DEF At, Idle
<1>3. exchange \in [Venues -> {NoOrder} \cup Placed] /\ submissions \in [Venues -> {NoSubmission} \cup Rows]
  BY DEF Types
<1>4. ASSUME Executes(k), worker[k].work.venue # v PROVE exchange'[v] = exchange[v]
  BY <1>3, <1>4 DEF Executes
<1>5. exchange'[v] = exchange[v]
  <2>1. CASE EmitCalls(k) \/ EmitCallFails(k)
    BY <1>2, <1>4, <2>1 DEF EmitCalls, EmitCallFails
  <2>2. CASE \/ \E w \in queue : TakeWork(k, w)
             \/ EmitChecks(k) \/ EmitFindsClosed(k) \/ EmitRejected(k) \/ EmitSwallows(k)
             \/ EmitRecords(k)
    BY <2>2 DEF TakeWork, EmitChecks, EmitFindsClosed, EmitRejected, EmitSwallows, EmitRecords
  <2> QED
    BY <2>1, <2>2 DEF WorkerStep
<1>6. submissions'[v] = submissions[v]
  <2>1. CASE EmitSwallows(k)
    BY <1>2, <1>3, <2>1 DEF EmitSwallows
  <2>2. CASE EmitRecords(k)
    BY <1>2, <1>3, <2>2 DEF EmitRecords
  <2>3. CASE \/ \E w \in queue : TakeWork(k, w)
             \/ EmitChecks(k) \/ EmitFindsClosed(k) \/ EmitRejected(k) \/ EmitCalls(k)
             \/ EmitCallFails(k)
    BY <2>3 DEF TakeWork, EmitChecks, EmitFindsClosed, EmitRejected, EmitCalls, EmitCallFails,
        storeVars
  <2> QED
    BY <2>1, <2>2, <2>3 DEF WorkerStep
<1> QED
  BY <1>1, <1>5, <1>6 DEF Still

\* The worker of a venue puts its work back: the work stays pending.
LEMMA PutBackKept ==
    ASSUME Types, NEW k \in Workers, NEW v \in Venues, At(k, v), plan' = plan,
           worker' = [worker EXCEPT ![k] = Idle], queue' = queue \cup {worker[k].work}
    PROVE  Kept(v)
<1>1. \A l \in Workers \ {k} : worker'[l] = worker[l]
  BY DEF Types
<1>2. worker'[k] = Idle
  BY DEF Types
<1>3. \A w \in Works : Pending(w)' <=> Pending(w)
  BY <1>1, <1>2 DEF Pending, At
<1> QED
  BY <1>1, <1>2, <1>3 DEF Kept, At

\* The worker of a venue is done with its work: nothing is pending any more.
Free(v) ==
    /\ \A w \in Works : Pending(w) => w.venue # v
    /\ \A k \in Workers : ~At(k, v)

\* A worker that is done with the only work for a venue leaves none.
LEMMA FinishFrees ==
    ASSUME Types, NEW k \in Workers, NEW v \in Venues, At(k, v), Alone(v), plan' = plan, Finish(k)
    PROVE  Free(v)'
<1>1. (\A l \in Workers \ {k} : worker'[l] = worker[l]) /\ worker'[k] = Idle
  BY DEF Types, Finish
<1>2. queue' = queue
  BY DEF Finish
<1>3. \A l \in Workers : ~At(l, v)'
  BY <1>1 DEF Alone, At
<1>4. \A w \in plan \cup queue : w.venue # v
  BY DEF Alone
<1>5. \A w \in Works : Pending(w)' => w.venue # v
  BY <1>2, <1>3, <1>4 DEF Pending, At
<1> QED
  BY <1>3, <1>5 DEF Free

\* Both ways to say that a venue has no pending work agree.
LEMMA FreeIsNotPending ==
    ASSUME Types, NEW v \in Venues
    PROVE  Free(v) <=> ~PendingAt(v)
<1>1. Free(v) => ~PendingAt(v)
  BY PendingIs DEF Free
<1>2. ~PendingAt(v) => Free(v)
  BY PendingIs DEF Free, PendingAt, At
<1> QED
  BY <1>1, <1>2

\* The worker of a venue that goes on with its work leaves it pending.
LEMMA GoesOnPending ==
    ASSUME Types, NEW k \in Workers, NEW v \in Venues, At(k, v), Alone(v), plan' = plan,
           queue' = queue, \A l \in Workers \ {k} : worker'[l] = worker[l],
           worker'[k] # Idle, worker'[k].work = worker[k].work
    PROVE  /\ \A w \in Works : Pending(w)' <=> Pending(w)
           /\ \A l \in Workers : At(l, v)' <=> l = k
<1>1. \A w \in Works : Pending(w)' <=> Pending(w)
  BY DEF Pending, At
<1>2. \A l \in Workers : At(l, v)' <=> l = k
  BY DEF Alone, At
<1> QED
  BY <1>1, <1>2

\* What the worker of a venue can do, when its work is not given up: its venue stays as
\* it is, an order is placed or cancelled, or the work ends.
LEMMA WorkerHere ==
    ASSUME Types, Steps, NEW k \in Workers, WorkerStep(k), NEW v \in Venues, At(k, v),
           v \notin excused', Alone(v), Mirror(v)
    PROVE  \/ Still(v)
           \/ /\ Kept(v) /\ Accepts(k) /\ Executes(k) /\ submissions' = submissions
              /\ \A l \in Workers : ~At(l, v)'
           \/ /\ \A w \in Works : Pending(w)' <=> Pending(w)
              /\ \A l \in Workers : At(l, v)' <=> l = k
              /\ worker'[k] = [worker[k] EXCEPT !.step = "record"]
              /\ submissions' = submissions
              /\ \/ Accepts(k) /\ Executes(k)
                 \/ ~Accepts(k) /\ worker[k].type = "cancel" /\ exchange' = exchange
           \/ /\ Free(v)' /\ submissions' = submissions /\ exchange' = exchange
              /\ worker[k].type = "modify" /\ ~Accepts(k) /\ exchange[v] # NoOrder
           \/ /\ Free(v)' /\ worker[k].step = "record" /\ exchange' = exchange
              /\ submissions'[v] = Recorded(worker[k].type, submissions[v], worker[k].work.price)
<1>0. /\ worker[k] # Idle /\ worker[k] \in Busy /\ worker[k].work.venue = v
      /\ worker[k].work \in Works /\ worker \in [Workers -> {Idle} \cup Busy]
      /\ submissions \in [Venues -> {NoSubmission} \cup Rows]
  BY DEF Types, At, Busy
<1>1. plan' = plan
  BY DEF WorkerStep, TakeWork, EmitChecks, EmitCalls, EmitFindsClosed, EmitRejected,
      EmitCallFails, EmitSwallows, EmitRecords
<1>2. ASSUME Retries(k)
      PROVE  Kept(v) /\ \A l \in Workers : ~At(l, v)'
  <2>1. worker' = [worker EXCEPT ![k] = Idle] /\ queue' = queue \cup {worker[k].work}
    BY <1>0, <1>2 DEF Retries, AddRateLimited
  <2>2. Kept(v)
    BY <1>1, <2>1, PutBackKept
  <2>3. \A l \in Workers : ~At(l, v)'
    BY <1>0, <2>1 DEF Alone, At
  <2> QED
    BY <2>2, <2>3
<1>3. ASSUME worker' = [worker EXCEPT ![k] = Idle], AddRateLimited(worker[k].work)
      PROVE  Kept(v) /\ \A l \in Workers : ~At(l, v)'
  <2>1. queue' = queue \cup {worker[k].work}
    BY <1>3 DEF AddRateLimited
  <2>2. Kept(v)
    BY <1>1, <1>3, <2>1, PutBackKept
  <2>3. \A l \in Workers : ~At(l, v)'
    BY <1>0, <1>3 DEF Alone, At
  <2> QED
    BY <2>2, <2>3
<1>4. ASSUME queue' = queue, worker' = [worker EXCEPT ![k].step = "record"]
      PROVE  /\ \A w \in Works : Pending(w)' <=> Pending(w)
             /\ \A l \in Workers : At(l, v)' <=> l = k
             /\ worker'[k] = [worker[k] EXCEPT !.step = "record"]
  <2>1. /\ \A l \in Workers \ {k} : worker'[l] = worker[l]
        /\ worker'[k] = [worker[k] EXCEPT !.step = "record"]
    BY <1>0, <1>4
  <2>2. worker'[k].work = worker[k].work /\ worker'[k].step = "record"
    BY <1>0, <2>1 DEF Busy
  <2>3. worker'[k] # Idle
    BY <2>2 DEF Idle
  <2> QED
    BY <1>1, <1>4, <2>1, <2>2, <2>3, GoesOnPending
<1>5. CASE \E w \in queue : TakeWork(k, w)
  BY <1>0, <1>5 DEF TakeWork
<1>6. CASE EmitChecks(k)
  <2>1. worker[k].work.type = "create" /\ Pending(worker[k].work)
    BY <1>0, <1>6 DEF EmitChecks, Steps, Shape, Pending
  <2>2. submissions[v] = NoSubmission
    BY <1>0, <2>1 DEF Mirror
  <2>3. ~ordersMatch(v, worker[k].work.price)
    BY <2>2 DEF ordersMatch, LoadHyperliquidSubmission, NoSubmission
  <2> DEFINE t == IF Live(v) THEN "modify" ELSE worker[k].type
  <2>4. /\ worker' = [worker EXCEPT ![k].step = "call", ![k].type = t]
        /\ queue' = queue
    BY <1>0, <1>6, <2>3 DEF EmitChecks
  <2> HIDE DEF t
  <2>5. /\ \A l \in Workers \ {k} : worker'[l] = worker[l]
        /\ worker'[k] = [worker[k] EXCEPT !.step = "call", !.type = t]
    BY <1>0, <2>4
  <2>6. worker'[k].work = worker[k].work /\ worker'[k].step = "call"
    BY <1>0, <2>5 DEF Busy
  <2>7. worker'[k] # Idle
    BY <2>6 DEF Idle
  <2>8. /\ \A w \in Works : Pending(w)' <=> Pending(w)
        /\ \A l \in Workers : At(l, v)' <=> l = k
    BY <1>1, <2>4, <2>5, <2>6, <2>7, GoesOnPending
  <2>9. Kept(v)
    BY <2>6, <2>8 DEF Kept
  <2> QED
    BY <1>6, <2>9 DEF EmitChecks, storeVars, Still
<1>7. CASE EmitCalls(k)
  BY <1>4, <1>7 DEF EmitCalls, storeVars
<1>8. CASE EmitFindsClosed(k)
  <2>1. CASE /\ worker[k].type = "cancel" /\ UNCHANGED <<queue, requeues>>
             /\ worker' = [worker EXCEPT ![k].step = "record"]
    BY <1>4, <1>8, <2>1 DEF EmitFindsClosed, storeVars
  <2>2. CASE worker[k].type = "modify" /\ exchange[v] # NoOrder /\ Finish(k)
    BY <1>1, <1>8, <2>2, FinishFrees DEF EmitFindsClosed, storeVars
  <2> QED
    BY <1>0, <1>8, <2>1, <2>2 DEF EmitFindsClosed
<1>9. CASE EmitRejected(k)
  BY <1>2, <1>9 DEF EmitRejected, storeVars, Still
<1>10. CASE EmitCallFails(k)
  <2>1. Kept(v) /\ \A l \in Workers : ~At(l, v)'
    BY <1>2, <1>3, <1>10 DEF EmitCallFails
  <2>2. submissions' = submissions
    BY <1>10 DEF EmitCallFails, storeVars
  <2> QED
    BY <1>10, <2>1, <2>2 DEF EmitCallFails, Still
<1>11. CASE EmitSwallows(k)
  BY <1>0, <1>11 DEF EmitSwallows
<1>12. CASE EmitRecords(k)
  <2>1. Free(v)'
    BY <1>1, <1>12, FinishFrees DEF EmitRecords
  <2>2. submissions'[v] = Recorded(worker[k].type, submissions[v], worker[k].work.price)
    BY <1>0, <1>12 DEF EmitRecords
  <2> QED
    BY <1>12, <2>1, <2>2 DEF EmitRecords
<1> QED
  BY <1>5, <1>6, <1>7, <1>8, <1>9, <1>10, <1>11, <1>12 DEF WorkerStep

\* Only processDeal makes new work for a venue: no other step does, but for a venue that
\* is excused then.  A step at another venue leaves this one as it is.
Outside ==
    \/ DealRecords \/ DealDone \/ \E w \in plan : DealEmits(w) \/ DealCannotScale(w)
    \/ \E e \in Events : ThreeCommasReports(e)
    \/ \E vs \in SUBSET Venues \ {{}} : AssignmentChanges(vs)
    \/ \E vs \in SUBSET Venues : CancelOrderByOrderId(vs)
    \/ \E v \in Venues : Fills(v) \/ StatusArrives(v)
    \/ \E asked \in SUBSET Venues : CrashAndRestart(asked)
    \/ UNCHANGED vars

\* Every step is a decision, one of a worker, or outside of both.
LEMMA NextIs ==
    ASSUME [Next]_vars
    PROVE  DealDecides \/ (\E k \in Workers : WorkerStep(k)) \/ Outside
<1>1. CASE DealStep
  BY <1>1 DEF DealStep, Outside
<1>2. CASE CancelOrderByOrderId(Venues) \/ \E v \in Venues : CancelOrderByOrderId({v})
  <2>1. \E vs \in SUBSET Venues : CancelOrderByOrderId(vs)
    BY <1>2
  <2> QED
    BY <2>1 DEF Outside
<1> QED
  BY <1>1, <1>2 DEF Next, Outside

FilledAt(v) ==
    /\ Kept(v) /\ submissions'[v] = submissions[v]
    /\ exchange[v].status = "open"
    /\ exchange'[v] = [exchange[v] EXCEPT !.status = "filled"]

\* A step outside leaves a venue as it is, or fills its order.
LEMMA OutsideMoves ==
    ASSUME Types, Outside, NEW v \in Venues, v \notin excused', Alone(v)
    PROVE  /\ Alone(v)'
           /\ Still(v) \/ FilledAt(v)
           /\ v \notin excused
<1>0. /\ worker \in [Workers -> {Idle} \cup Busy] /\ plan \subseteq Works /\ queue \subseteq Works
      /\ exchange \in [Venues -> {NoOrder} \cup Placed]
  BY DEF Types
<1>1. ASSUME UNCHANGED <<plan, queue, worker>> PROVE Kept(v) /\ Alone(v)'
  <2>1. \A w \in Works : Pending(w)' <=> Pending(w)
    BY <1>1 DEF Pending
  <2>2. \A k \in Workers : At(k, v)' <=> At(k, v)
    BY <1>1 DEF At
  <2> QED
    BY <1>1, <2>1, <2>2 DEF Kept, Alone
<1>2. CASE \/ DealRecords \/ DealDone
           \/ \E e \in Events : ThreeCommasReports(e)
           \/ \E vs \in SUBSET Venues \ {{}} : AssignmentChanges(vs)
           \/ \E u \in Venues : StatusArrives(u)
           \/ UNCHANGED vars
  <2>1. UNCHANGED <<plan, queue, worker, exchange, submissions>> /\ excused \subseteq excused'
    BY <1>2 DEF DealRecords, DealDone, ThreeCommasReports, AssignmentChanges, StatusArrives, vars,
        storeVars
  <2> QED
    BY <1>1, <2>1 DEF Still
<1>3. ASSUME NEW w \in plan, DealEmits(w) PROVE Alone(v)' /\ Still(v) /\ v \notin excused
  <2>1. /\ plan' = plan \ {w} /\ queue' = queue \cup {w} /\ UNCHANGED <<worker, excused>>
        /\ UNCHANGED <<exchange, submissions>>
    BY <1>3 DEF DealEmits, storeVars
  <2>2. \A u \in Works : Pending(u)' <=> Pending(u)
    BY <2>1 DEF Pending
  <2>3. Kept(v)
    BY <2>1, <2>2 DEF Kept
  <2>4. \A k \in Workers : At(k, v)' <=> At(k, v)
    BY <2>1 DEF At
  <2>5. Alone(v)'
    BY <2>1, <2>4 DEF Alone
  <2> QED
    BY <2>1, <2>3, <2>5 DEF Still
<1>4. ASSUME NEW w \in plan, DealCannotScale(w) PROVE Alone(v)' /\ Still(v) /\ v \notin excused
  <2>1. /\ plan' \subseteq plan /\ UNCHANGED <<worker, queue, exchange, submissions>>
        /\ \A u \in plan \ plan' : u.venue # v
        /\ v \notin excused
    BY <1>4 DEF DealCannotScale, storeVars
  <2>2. \A u \in Works : u.venue = v => (Pending(u)' <=> Pending(u))
    BY <2>1 DEF Pending
  <2>3. Kept(v)
    BY <2>1, <2>2 DEF Kept
  <2>4. \A k \in Workers : At(k, v)' <=> At(k, v)
    BY <2>1 DEF At
  <2>5. Alone(v)'
    BY <2>1, <2>4 DEF Alone
  <2> QED
    BY <2>1, <2>3, <2>5 DEF Still
<1>5. ASSUME NEW vs \in SUBSET Venues, CancelOrderByOrderId(vs)
      PROVE  Alone(v)' /\ Still(v) /\ v \notin excused
  <2> DEFINE pending == {u \in vs : /\ LoadHyperliquidSubmission(u).kind \in {"create", "modify"}
                                    /\ isCancelableStatus(u)}
             cancel(u) == [venue |-> u, type |-> "cancel", price |-> submissions[u].price,
                           event |-> 0]
  <2>1. /\ queue' = queue \cup {cancel(u) : u \in pending} /\ excused' = excused \cup pending
        /\ UNCHANGED <<worker, plan, exchange, submissions>>
    BY <1>5 DEF CancelOrderByOrderId, storeVars
  <2>2. \A u : cancel(u).venue = u
    OBVIOUS
  <2> HIDE DEF pending, cancel
  <2>3. \A w \in queue' : w.venue = v => w \in queue
    BY <2>1, <2>2
  <2>4. queue \subseteq queue' /\ v \notin excused
    BY <2>1
  <2>5. \A u \in Works : u.venue = v => (Pending(u)' <=> Pending(u))
    BY <2>1, <2>3, <2>4 DEF Pending
  <2>6. Kept(v)
    BY <2>1, <2>5 DEF Kept
  <2>7. \A k \in Workers : At(k, v)' <=> At(k, v)
    BY <2>1 DEF At
  <2>8. Alone(v)'
    BY <2>1, <2>3, <2>7 DEF Alone
  <2> QED
    BY <2>1, <2>4, <2>6, <2>8 DEF Still
<1>6. ASSUME NEW u \in Venues, Fills(u) PROVE Alone(v)' /\ (Still(v) \/ FilledAt(v)) /\ v \notin excused
  <2>1. UNCHANGED <<plan, queue, worker, submissions, excused>>
    BY <1>6 DEF Fills, storeVars
  <2>2. exchange[u].status = "open" /\ exchange' = [exchange EXCEPT ![u].status = "filled"]
    BY <1>6 DEF Fills
  <2>3. IF u = v THEN exchange'[v] = [exchange[v] EXCEPT !.status = "filled"]
                 ELSE exchange'[v] = exchange[v]
    BY <1>0, <2>2
  <2> QED
    BY <1>1, <2>1, <2>2, <2>3 DEF Still, FilledAt
<1>7. ASSUME NEW asked \in SUBSET Venues, CrashAndRestart(asked)
      PROVE  Alone(v)' /\ Still(v) /\ v \notin excused
  <2>1. /\ ~PendingAt(v) /\ v \notin excused /\ UNCHANGED <<exchange, submissions>>
        /\ plan' = {} /\ queue' = {} /\ worker' = [k \in Workers |-> Idle]
    BY <1>7 DEF CrashAndRestart
  <2>2. \A k \in Workers : ~At(k, v)'
    BY <2>1 DEF At
  <2>3. \A w \in Works : w.venue = v => ~Pending(w)
    BY <2>1, PendingIs
  <2>4. \A w \in Works : ~Pending(w)'
    BY <2>1 DEF Pending
  <2>5. Kept(v)
    BY <2>2, <2>3, <2>4 DEF Kept
  <2>6. Alone(v)'
    BY <2>1, <2>2 DEF Alone
  <2> QED
    BY <2>1, <2>5, <2>6 DEF Still
<1> QED
  BY <1>2, <1>3, <1>4, <1>5, <1>6, <1>7 DEF Outside

-----------------------------------------------------------------------------
(* The store mirrors the exchange *)

\* PendingIs for the next state.
LEMMA PendingLater ==
    ASSUME Types', NEW v \in Venues
    PROVE  PendingAt(v)' <=> \E w \in Works : Pending(w)' /\ w.venue = v
<1>1. \A k \in Workers : worker'[k] # Idle => worker'[k].work \in Works
  BY DEF Types, Busy
<1>2. plan' \subseteq Works /\ queue' \subseteq Works
  BY DEF Types
<1> QED
  BY <1>1, <1>2 DEF PendingAt, Pending

\* A venue that stays as it is stays mirrored.
LEMMA StillMirror ==
    ASSUME Types, Types', NEW v \in Venues, Mirror(v), Still(v)
    PROVE  Mirror(v)'
<1>1. PendingAt(v)' <=> PendingAt(v)
  BY PendingIs, PendingLater DEF Still, Kept
<1>2. \A w \in Works : w.venue = v => (Pending(w)' <=> Pending(w))
  BY DEF Still, Kept
<1>3. \A k \in Workers : At(k, v)' /\ worker'[k].step = "record" => worker'[k] = worker[k] /\ At(k, v)
  BY DEF Still, Kept, At
<1> QED
  BY <1>1, <1>2, <1>3 DEF Still, Mirror

\* Whatever the worker of a venue does, the venue stays mirrored: what it records last is
\* what it placed.
LEMMA WorkerMirror ==
    ASSUME Types, Types', Steps, NEW k \in Workers, WorkerStep(k), NEW v \in Venues, At(k, v),
           v \notin excused', Alone(v), Mirror(v)
    PROVE  Mirror(v)'
<1>0. /\ worker[k] \in Busy /\ worker[k].work.venue = v /\ worker[k].work \in Works
      /\ Pending(worker[k].work) /\ Shape(k) /\ worker[k] # Idle
      /\ exchange \in [Venues -> {NoOrder} \cup Placed]
  BY DEF Types, Steps, At, Busy, Pending
<1>1. ASSUME Accepts(k), Executes(k)
      PROVE  \/ worker[k].type = "cancel" /\ exchange'[v].status = "canceled"
             \/ /\ worker[k].type # "cancel"
                /\ exchange'[v] = [status |-> "open", price |-> worker[k].work.price]
  <2>1. CASE worker[k].type # "cancel"
    BY <1>0, <1>1, <2>1 DEF Executes
  <2>2. CASE worker[k].type = "cancel"
    <3>1. exchange'[v] = [exchange[v] EXCEPT !.status = "canceled"]
      BY <1>0, <1>1, <2>2 DEF Executes
    <3>2. exchange[v] \in Placed
      BY <1>0, <1>1, <2>2 DEF Accepts, NoOrder
    <3> QED
      BY <2>2, <3>1, <3>2 DEF Placed
  <2> QED
    BY <2>1, <2>2
<1>2. CASE Still(v)
  BY <1>2, StillMirror
<1>3. ASSUME Kept(v) \/ \A w \in Works : Pending(w)' <=> Pending(w), submissions' = submissions
      PROVE  /\ PendingAt(v)'
             /\ \A w \in Works : Pending(w)' /\ w.venue = v /\ w.type = "create" =>
                    submissions'[v] = NoSubmission
  BY <1>0, <1>3, PendingLater DEF Kept, Mirror
<1>4. CASE /\ Kept(v) /\ Accepts(k) /\ Executes(k) /\ submissions' = submissions
           /\ \A l \in Workers : ~At(l, v)'
  BY <1>3, <1>4 DEF Mirror
<1>5. CASE /\ \A w \in Works : Pending(w)' <=> Pending(w)
           /\ \A l \in Workers : At(l, v)' <=> l = k
           /\ worker'[k] = [worker[k] EXCEPT !.step = "record"]
           /\ submissions' = submissions
           /\ \/ Accepts(k) /\ Executes(k)
              \/ ~Accepts(k) /\ worker[k].type = "cancel" /\ exchange' = exchange
  <2>1. worker'[k].type = worker[k].type /\ worker'[k].work = worker[k].work
    BY <1>0, <1>5 DEF Busy
  <2>2. worker'[k].type # "cancel" /\ exchange'[v].status = "open" =>
            exchange'[v].price = worker'[k].work.price
    BY <1>1, <1>5, <2>1
  <2> QED
    BY <1>3, <1>5, <2>2 DEF Mirror
<1>6. ASSUME Free(v)'
      PROVE  /\ ~PendingAt(v)' /\ \A l \in Workers : ~At(l, v)'
             /\ \A w \in Works : Pending(w)' => w.venue # v
  BY <1>6, PendingLater DEF Free
<1>7. CASE /\ Free(v)' /\ submissions' = submissions /\ exchange' = exchange
           /\ worker[k].type = "modify" /\ ~Accepts(k) /\ exchange[v] # NoOrder
  <2>1. exchange'[v].status # "open"
    BY <1>0, <1>7 DEF Accepts
  <2> QED
    BY <1>6, <1>7, <2>1 DEF Mirror
<1>8. CASE /\ Free(v)' /\ worker[k].step = "record" /\ exchange' = exchange
           /\ submissions'[v] = Recorded(worker[k].type, submissions[v], worker[k].work.price)
  <2>0. /\ ~PendingAt(v)' /\ \A l \in Workers : ~At(l, v)'
        /\ \A w \in Works : Pending(w)' => w.venue # v
    BY <1>6, <1>8
  <2>1. CASE worker[k].type # "cancel"
    <3>1. exchange[v].status = "open" => exchange[v].price = worker[k].work.price
      BY <1>8, <2>1 DEF Mirror
    <3>2. worker[k].type \in {"create", "modify"}
      BY <1>0, <2>1 DEF Busy
    <3>3. submissions'[v].price = worker[k].work.price
      BY <1>8, <3>2 DEF Recorded, upsertHyperliquidCreate, appendHyperliquidModify
    <3>4. exchange'[v].status = "open" => submissions'[v].price = exchange'[v].price
      BY <1>8, <3>1, <3>3
    <3> QED
      BY <2>0, <3>4 DEF Mirror
  <2>2. CASE worker[k].type = "cancel"
    <3>1. submissions[v] \in {NoSubmission} \cup Rows
      BY DEF Types
    <3>2. submissions'[v] = [submissions[v] EXCEPT !.kind = "cancel"]
      BY <1>8, <2>2 DEF Recorded, upsertHyperliquidCancel
    <3>3. submissions'[v].kind = "cancel"
      BY <3>1, <3>2 DEF NoSubmission, Rows
    <3> QED
      BY <2>0, <3>3 DEF Mirror
  <2> QED
    BY <2>1, <2>2
<1> QED
  BY <1>2, <1>4, <1>5, <1>7, <1>8, WorkerHere

\* When processDeal decides, a venue that is not excused has no older work, and gets one
\* action at most: a create where nothing is stored.
LEMMA DecidesFor ==
    ASSUME Types, Steps, DealDecides, NEW v \in Venues, v \notin excused'
    PROVE  /\ recorded > 0 /\ plan = {} /\ plan' = Emissions
           /\ Free(v) /\ ~StoreWrong(v) /\ exchange[v].status # "canceled"
           /\ v \notin excused \/ \E w \in Emissions : w.venue = v
           /\ UNCHANGED <<queue, worker, exchange, submissions>>
           /\ \A k \in Workers : ~At(k, v)'
           /\ \A w \in Works : w.venue = v => (Pending(w)' <=> w \in Emissions)
<1>1. recorded > 0 /\ plan = {} /\ plan' = Emissions
  BY DEF DealDecides, Steps
<1>2. ~PendingAt(v) /\ ~StoreWrong(v) /\ exchange[v].status # "canceled"
  BY DEF DealDecides, StillExcused
<1>3. v \notin excused \/ \E w \in Emissions : w.venue = v
  BY DEF DealDecides, StillExcused
<1>4. Free(v)
  BY <1>2, FreeIsNotPending
<1>5. UNCHANGED <<queue, worker, exchange, submissions>>
  BY DEF DealDecides, storeVars
<1>6. \A k \in Workers : ~At(k, v)'
  BY <1>4, <1>5 DEF Free, At
<1>7. \A w \in Works : w.venue = v => (Pending(w)' <=> w \in Emissions)
  <2>1. \A w \in Works : w.venue = v => ~Pending(w)
    BY <1>4 DEF Free
  <2> QED
    BY <1>1, <1>5, <2>1 DEF Pending
<1> QED
  BY <1>1, <1>2, <1>3, <1>4, <1>5, <1>6, <1>7

\* A decision leaves every venue that is not excused mirrored and with one work at most.
LEMMA DecidesMirror ==
    ASSUME Types, Types', Steps, DealDecides, NEW v \in Venues, v \notin excused',
           v \notin excused => Alone(v) /\ Mirror(v)
    PROVE  Alone(v)' /\ Mirror(v)'
<1>1. /\ recorded > 0 /\ plan' = Emissions /\ Free(v)
      /\ v \notin excused \/ \E w \in Emissions : w.venue = v
      /\ UNCHANGED <<queue, worker, exchange, submissions>>
      /\ \A k \in Workers : ~At(k, v)'
      /\ \A w \in Works : w.venue = v => (Pending(w)' <=> w \in Emissions)
  BY DecidesFor
<1>2. \A w \in queue : w.venue # v
  BY <1>1 DEF Free, Pending, Types
<1>3. \A u, w \in Emissions : u.venue = w.venue => u = w
  BY <1>1, OneEach
<1>4. Alone(v)'
  BY <1>1, <1>2, <1>3 DEF Alone
<1>5. \A w \in Works : Pending(w)' /\ w.venue = v /\ w.type = "create" =>
            submissions'[v] = NoSubmission
  <2> SUFFICES ASSUME NEW w \in Works, Pending(w)', w.venue = v, w.type = "create"
               PROVE  submissions[v] = NoSubmission
    BY <1>1
  <2>1. w \in Emissions
    BY <1>1
  <2>2. ~HasRow(v)
    BY <1>1, <2>1, EmittedIs
  <2> QED
    BY <2>2 DEF HasRow
<1>6. /\ ~PendingAt(v)' /\ exchange'[v].status = "open" /\ submissions'[v].kind \in {"create", "modify"}
      => submissions'[v].price = exchange'[v].price
  <2> SUFFICES ASSUME ~PendingAt(v)'
               PROVE  exchange[v].status = "open" /\ submissions[v].kind \in {"create", "modify"}
                      => submissions[v].price = exchange[v].price
    BY <1>1
  <2>1. Emissions \subseteq Works
    BY <1>1, EmittedTypes
  <2>2. ~\E w \in Emissions : w.venue = v
    BY <1>1, <2>1, PendingLater
  <2>3. Mirror(v) /\ ~PendingAt(v)
    BY <1>1, <2>2, FreeIsNotPending
  <2> QED
    BY <2>3 DEF Mirror
<1> QED
  BY <1>1, <1>4, <1>5, <1>6 DEF Mirror

\* Mirroring is inductive.
LEMMA MirrorKept ==
    ASSUME Types, Types', Steps, Mirroring, [Next]_vars
    PROVE  Mirroring'
<1> SUFFICES ASSUME NEW v \in Venues, v \notin excused' PROVE Alone(v)' /\ Mirror(v)'
  BY DEF Mirroring
<1>1. CASE DealDecides
  BY <1>1, DecidesMirror DEF Mirroring
<1>2. ASSUME NEW k \in Workers, WorkerStep(k) PROVE Alone(v)' /\ Mirror(v)'
  <2>1. excused \subseteq excused'
    BY <1>2 DEF WorkerStep, TakeWork, EmitChecks, EmitCalls, EmitFindsClosed, EmitRejected,
      EmitCallFails, EmitSwallows, EmitRecords, Retries
  <2>2. Alone(v) /\ Mirror(v)
    BY <2>1 DEF Mirroring
  <2>3. Alone(v)'
    BY <1>2, <2>2, WorkerAlone
  <2>4. CASE ~At(k, v)
    BY <1>2, <2>2, <2>3, <2>4, ElsewhereStill, StillMirror
  <2>5. CASE At(k, v)
    BY <1>2, <2>2, <2>3, <2>5, WorkerMirror
  <2> QED
    BY <2>4, <2>5
<1>3. CASE Outside
  <2>1. v \notin excused
    BY <1>3 DEF Outside, DealRecords, DealDone, DealEmits, DealCannotScale, ThreeCommasReports,
        AssignmentChanges, CancelOrderByOrderId, Fills, StatusArrives, CrashAndRestart, vars
  <2>2. Alone(v) /\ Mirror(v)
    BY <2>1 DEF Mirroring
  <2>3. Alone(v)' /\ (Still(v) \/ FilledAt(v))
    BY <1>3, <2>2, OutsideMoves
  <2>4. CASE Still(v)
    BY <2>2, <2>3, <2>4, StillMirror
  <2>5. CASE FilledAt(v)
    <3>1. exchange[v] \in Placed
      BY <2>5 DEF FilledAt, Types, NoOrder
    <3>2. exchange'[v].status = "filled" /\ submissions'[v] = submissions[v]
      BY <2>5, <3>1 DEF FilledAt, Placed
    <3>3. \A w \in Works : w.venue = v => (Pending(w)' <=> Pending(w))
      BY <2>5 DEF FilledAt, Kept
    <3>4. Mirror(v)'
      BY <2>2, <3>2, <3>3 DEF Mirror
    <3> QED
      BY <2>3, <3>4
  <2> QED
    BY <2>3, <2>4, <2>5
<1> QED
  BY <1>1, <1>2, <1>3, NextIs

\* It holds at the start.
LEMMA StartsMirroring == Init => Types /\ Steps /\ Mirroring
<1>1. ASSUME Init PROVE Types /\ Steps /\ Mirroring
  <2>1. Types /\ Steps
    BY <1>1, TypesAtStart DEF Init, Steps, Shape, Idle
  <2>2. \A v \in Venues : Alone(v)
    BY <1>1 DEF Init, Alone, At
  <2>3. \A v \in Venues : Mirror(v)
    <3>1. \A w \in Works : ~Pending(w)
      BY <1>1 DEF Init, Pending
    <3>2. \A v \in Venues : exchange[v].status = "none"
      BY <1>1 DEF Init, NoOrder
    <3> QED
      BY <3>1, <3>2 DEF Mirror
  <2> QED
    BY <2>1, <2>2, <2>3 DEF Mirroring
<1> QED
  BY <1>1

\* When the work is done, the submission that is stored last is the order that is open on
\* the exchange, at every venue whose last decision was carried out: whatever calls
\* failed, were retried or overtook each other, and whenever the process crashed.
THEOREM StoreMirrorsExchange == Spec => []StoreMirrors
<1> DEFINE I == Types /\ Steps /\ Mirroring
<1>1. Init => I
  BY StartsMirroring
<1>2. I /\ [Next]_vars => I'
  BY StepsPreserved, MirrorKept
<1>3. ASSUME I, AtRest, NEW v \in Venues \ excused PROVE ~PendingAt(v) /\ Mirror(v)
  BY <1>3 DEF AtRest, PendingAt, Steps, Mirroring
<1>4. I => StoreMirrors
  BY <1>3 DEF StoreMirrors, Mirror
<1> QED
  BY <1>1, <1>2, <1>4, PTL DEF Spec

-----------------------------------------------------------------------------
(* Every venue follows the events *)

\* The decision d is still the last one after the step.
Frame(d) ==
    /\ d \in 0..recorded'
    /\ IF deal' = "decide" THEN d < recorded' ELSE d = recorded'
    /\ d > 0 => events'[d] = events[d]

\* No step but a decision changes which decision was the last.
LEMMA FrameKept ==
    ASSUME Types, Types', Outside \/ \E k \in Workers : WorkerStep(k),
           NEW v \in assigned', v \notin excused', NEW d \in Nat, Decided(v, d)
    PROVE  Frame(d)
<1>0. /\ d \in 0..recorded /\ recorded \in Nat
      /\ IF deal = "decide" THEN d < recorded ELSE d = recorded
      /\ events \in Seq(Events) /\ recorded \in 0..Len(events)
  BY DEF Types, Decided
<1>1. CASE UNCHANGED <<events, recorded, deal>>
  BY <1>0, <1>1 DEF Frame
<1>2. CASE DealRecords
  BY <1>0, <1>2 DEF DealRecords, Frame
<1>3. CASE DealDone
  BY <1>0, <1>3 DEF DealDone, Frame, storeVars
<1>4. ASSUME NEW e \in Events, ThreeCommasReports(e) PROVE Frame(d)
  <2>1. events' = Append(events, e) /\ UNCHANGED <<recorded, deal>>
    BY <1>4 DEF ThreeCommasReports, storeVars
  <2>2. d > 0 => events'[d] = events[d]
    BY <1>0, <2>1
  <2> QED
    BY <1>0, <2>1, <2>2 DEF Frame
<1>5. ASSUME NEW asked \in SUBSET Venues, CrashAndRestart(asked) PROVE Frame(d)
  <2>1. v \in Venues
    BY DEF Types
  <2>2. deal # "decide" /\ deal' = "idle" /\ UNCHANGED <<events, recorded>>
    BY <1>5, <2>1 DEF CrashAndRestart
  <2> QED
    BY <1>0, <2>2 DEF Frame
<1>6. CASE \/ \E w \in plan : DealEmits(w) \/ DealCannotScale(w)
           \/ \E vs \in SUBSET Venues \ {{}} : AssignmentChanges(vs)
           \/ \E vs \in SUBSET Venues : CancelOrderByOrderId(vs)
           \/ \E u \in Venues : Fills(u) \/ StatusArrives(u)
           \/ UNCHANGED vars
  <2>1. UNCHANGED <<events, recorded, deal>>
    BY <1>6 DEF DealEmits, DealCannotScale, AssignmentChanges, CancelOrderByOrderId, Fills,
        StatusArrives, vars, storeVars
  <2> QED
    BY <1>1, <2>1
<1>7. ASSUME NEW k \in Workers, WorkerStep(k) PROVE Frame(d)
  <2>1. UNCHANGED <<events, recorded, deal>>
    BY <1>7 DEF WorkerStep, TakeWork, EmitChecks, EmitCalls, EmitFindsClosed, EmitRejected,
        EmitCallFails, EmitSwallows, EmitRecords, storeVars
  <2> QED
    BY <1>1, <2>1
<1> QED
  BY <1>2, <1>3, <1>4, <1>5, <1>6, <1>7 DEF Outside

\* A venue that stays as it is follows the same event.
LEMMA StillDecided ==
    ASSUME Types, Types', NEW v \in Venues, NEW d \in Nat, Decided(v, d), Frame(d), Still(v)
    PROVE  Decided(v, d)'
<1>1. PendingAt(v)' <=> PendingAt(v)
  BY PendingIs, PendingLater DEF Still, Kept
<1>2. \A w \in Works : w.venue = v => (Pending(w)' <=> Pending(w))
  BY DEF Still, Kept
<1>3. \A k \in Workers : At(k, v)' /\ worker'[k].step = "record" =>
            At(k, v) /\ worker[k].step = "record"
  BY DEF Still, Kept, At
<1>4. exchange'[v] = exchange[v]
  BY DEF Still
<1>5. ASSUME d > 0
      PROVE  /\ ~PendingAt(v)' => Matches(v, events[d])'
             /\ Underway(v, events[d])'
  <2>1. events'[d] = events[d]
    BY <1>5 DEF Frame
  <2>2. Matches(v, events[d])' <=> Matches(v, events[d])
    BY <1>4, <2>1 DEF Matches
  <2>3. (~PendingAt(v) => Matches(v, events[d])) /\ Underway(v, events[d])
    BY <1>5 DEF Decided
  <2>4. Underway(v, events[d])'
    BY <1>2, <1>3, <1>4, <2>1, <2>2, <2>3 DEF Underway
  <2> QED
    BY <1>1, <2>2, <2>3, <2>4
<1>6. d = 0 => ~PendingAt(v)' /\ exchange'[v] = NoOrder
  BY <1>1, <1>4 DEF Decided
<1> QED
  BY <1>5, <1>6 DEF Decided, Frame

\* So does one whose order fills.
LEMMA FilledDecided ==
    ASSUME Types, Types', NEW v \in Venues, NEW d \in Nat, Decided(v, d), Frame(d), FilledAt(v)
    PROVE  Decided(v, d)'
<1>1. exchange[v] \in Placed
  BY DEF FilledAt, Types, NoOrder
<1>2. exchange'[v].status = "filled" /\ exchange[v] # NoOrder
  BY <1>1 DEF FilledAt, Placed, NoOrder
<1>3. d > 0
  BY <1>2 DEF Decided
<1>4. events'[d] = events[d] /\ Underway(v, events[d])
  BY <1>3 DEF Frame, Decided
<1>5. Matches(v, events[d])'
  BY <1>2, <1>4 DEF Matches
<1>6. Underway(v, events[d])'
  BY <1>2, <1>4, <1>5 DEF FilledAt, Kept, Underway
<1> QED
  BY <1>3, <1>5, <1>6 DEF Decided, Frame

\* So does one whose worker places, cancels or records the order.
LEMMA WorkerDecided ==
    ASSUME Types, Types', Steps, NEW k \in Workers, WorkerStep(k), NEW v \in Venues, At(k, v),
           v \notin excused', Alone(v), Mirror(v), NEW d \in Nat, Decided(v, d), Frame(d)
    PROVE  Decided(v, d)'
<1> DEFINE e == events[d]
           w == worker[k].work
<1>0. /\ worker[k] \in Busy /\ w.venue = v /\ w \in Works
      /\ Pending(w) /\ Shape(k) /\ worker[k] # Idle
      /\ w.type \in {"create", "modify", "cancel"}
      /\ exchange[v] \in {NoOrder} \cup Placed /\ exchange \in [Venues -> {NoOrder} \cup Placed]
  BY DEF Types, Steps, At, Busy, Pending, Works
<1>1. PendingAt(v)
  BY <1>0, PendingIs
<1>2. d > 0 /\ events'[d] = e /\ Underway(v, e)
  BY <1>1 DEF Decided, Frame
<1>3. /\ w.price = e.price
      /\ w.type = "create" => e.status = "active" /\ (exchange[v] = NoOrder \/ Matches(v, e))
      /\ w.type = "modify" => e.status = "active" /\ exchange[v].status \in {"open", "filled"}
      /\ w.type = "cancel" => e.status = "cancelled"
      /\ worker[k].step = "record" => Matches(v, e)
  BY <1>0, <1>2 DEF Underway
<1>4. worker[k].type = "cancel" <=> w.type = "cancel"
  BY <1>0 DEF Shape
<1> HIDE DEF e, w
<1>5. ASSUME Accepts(k), Executes(k)
      PROVE  Matches(v, events[d])'
  <2>1. CASE worker[k].type # "cancel"
    <3>1. exchange'[v] = [status |-> "open", price |-> e.price]
      BY <1>0, <1>3, <1>5, <2>1 DEF Executes, w
    <3>2. e.status = "active"
      BY <1>0, <1>3, <1>4, <2>1
    <3> QED
      BY <1>2, <3>1, <3>2 DEF Matches
  <2>2. CASE worker[k].type = "cancel"
    <3>1. exchange'[v] = [exchange[v] EXCEPT !.status = "canceled"]
      BY <1>0, <1>5, <2>2 DEF Executes, w
    <3>2. exchange[v] \in Placed
      BY <1>0, <1>5, <2>2 DEF Accepts, NoOrder, w
    <3>3. exchange'[v].status = "canceled" /\ e.status = "cancelled"
      BY <1>3, <1>4, <2>2, <3>1, <3>2 DEF Placed
    <3> QED
      BY <1>2, <3>3 DEF Matches
  <2> QED
    BY <2>1, <2>2
\* The work for v stays the only one, and the order it is about is as the event says.
<1>6. ASSUME \A u \in Works : u.venue = v => (Pending(u)' <=> Pending(u)), Matches(v, events[d])',
             exchange'[v] = exchange[v] \/ (Accepts(k) /\ Executes(k))
      PROVE  Underway(v, events[d])'
  <2>1. ASSUME NEW u \in Works, Pending(u)', u.venue = v
        PROVE  /\ u.price = e.price
               /\ u.type = "create" => e.status = "active"
               /\ u.type = "modify" => e.status = "active" /\ exchange'[v].status \in {"open", "filled"}
               /\ u.type = "cancel" => e.status = "cancelled"
    <3>1. Pending(u)
      BY <1>6, <2>1
    <3>2. /\ u.price = e.price
          /\ u.type = "create" => e.status = "active"
          /\ u.type = "modify" => e.status = "active"
          /\ u.type = "cancel" => e.status = "cancelled"
      BY <1>2, <2>1, <3>1 DEF Underway
    <3>3. e.status = "active" => exchange'[v].status \in {"open", "filled"}
      BY <1>2, <1>6 DEF Matches
    <3> QED
      BY <3>2, <3>3
  <2> QED
    BY <1>2, <1>6, <2>1 DEF Underway
<1>7. CASE Still(v)
  BY <1>7, StillDecided
<1>8. CASE /\ Kept(v) /\ Accepts(k) /\ Executes(k) /\ submissions' = submissions
           /\ \A l \in Workers : ~At(l, v)'
  <2>1. Matches(v, events[d])' /\ Underway(v, events[d])'
    BY <1>5, <1>6, <1>8 DEF Kept
  <2> QED
    BY <1>2, <2>1 DEF Decided, Frame
<1>9. CASE /\ \A u \in Works : Pending(u)' <=> Pending(u)
           /\ \A l \in Workers : At(l, v)' <=> l = k
           /\ worker'[k] = [worker[k] EXCEPT !.step = "record"]
           /\ submissions' = submissions
           /\ \/ Accepts(k) /\ Executes(k)
              \/ ~Accepts(k) /\ worker[k].type = "cancel" /\ exchange' = exchange
  <2>1. CASE Accepts(k) /\ Executes(k)
    <3>1. Matches(v, events[d])' /\ Underway(v, events[d])'
      BY <1>5, <1>6, <1>9, <2>1
    <3> QED
      BY <1>2, <3>1 DEF Decided, Frame
  <2>2. CASE ~Accepts(k) /\ worker[k].type = "cancel" /\ exchange' = exchange
    <3>1. exchange'[v].status # "open" /\ e.status = "cancelled" /\ exchange'[v] = exchange[v]
      BY <1>0, <1>3, <1>4, <2>2 DEF Accepts, w
    <3>2. Matches(v, events[d])'
      BY <1>2, <3>1 DEF Matches
    <3>3. Underway(v, events[d])'
      BY <1>6, <1>9, <3>1, <3>2
    <3> QED
      BY <1>2, <3>2, <3>3 DEF Decided, Frame
  <2> QED
    BY <1>9, <2>1, <2>2
<1>10. ASSUME Free(v)', Matches(v, events[d])' PROVE Decided(v, d)'
  <2>1. Underway(v, events[d])'
    BY <1>10 DEF Free, Underway
  <2> QED
    BY <1>2, <1>10, <2>1 DEF Decided, Frame
<1>11. CASE /\ Free(v)' /\ submissions' = submissions /\ exchange' = exchange
            /\ worker[k].type = "modify" /\ ~Accepts(k) /\ exchange[v] # NoOrder
  <2>1. exchange[v].status # "open" /\ w.type # "cancel"
    BY <1>0, <1>4, <1>11 DEF Accepts, w
  <2>2. exchange[v].status = "filled" /\ e.status = "active"
    BY <1>0, <1>3, <1>11, <2>1 DEF Matches
  <2>3. Matches(v, events[d])'
    BY <1>2, <1>11, <2>2 DEF Matches
  <2> QED
    BY <1>10, <1>11, <2>3
<1>12. CASE /\ Free(v)' /\ worker[k].step = "record" /\ exchange' = exchange
            /\ submissions'[v] = Recorded(worker[k].type, submissions[v], worker[k].work.price)
  <2>1. Matches(v, events[d])'
    BY <1>2, <1>3, <1>12 DEF Matches
  <2> QED
    BY <1>10, <1>12, <2>1
<1> QED
  BY <1>7, <1>8, <1>9, <1>11, <1>12, WorkerHere

\* What is decided reaches every venue it is about: one without a row gets an order that
\* is active, one with a row gets the modify or the cancel.
LEMMA EmittedTo ==
    ASSUME Types, recorded > 0, NEW v \in assigned,
           \/ ~HasRow(v) /\ events[recorded].status = "active"
           \/ HasRow(v) /\ reduceOrderEvents(TRUE) \in {"modify", "cancel"}
    PROVE  \E w \in Emissions : w.venue = v
<1> DEFINE type == reduceOrderEvents(storedIdents # {})
<1>1. \A t : Work(v, t).venue = v
  BY DEF Work
<1>2. CASE HasRow(v) /\ reduceOrderEvents(TRUE) \in {"modify", "cancel"}
  <2>1. v \in storedIdents
    BY <1>2 DEF storedIdents
  <2>2. type = reduceOrderEvents(TRUE)
    BY <2>1
  <2>3. v \in resolveOrderTargets(type)
    BY <1>2, <2>1, <2>2 DEF resolveOrderTargets
  <2>4. Work(v, type) \in Emissions
    BY <2>3 DEF Emissions
  <2> QED
    BY <1>1, <2>4
<1>3. CASE ~HasRow(v) /\ events[recorded].status = "active"
  <2>1. v \in missingAssignmentTargets
    BY <1>3 DEF missingAssignmentTargets, storedIdents
  <2>2. CASE storedIdents = {}
    <3>1. (storedIdents # {}) = FALSE
      BY <2>2
    <3>2. type = "create"
      BY <1>3, <3>1, ReducedIs
    <3>3. v \in resolveOrderTargets(type)
      BY <2>1, <3>2 DEF resolveOrderTargets
    <3>4. Work(v, type) \in Emissions
      BY <3>3 DEF Emissions
    <3> QED
      BY <1>1, <3>4
  <2>3. CASE storedIdents # {}
    <3>1. replayAvailable
      BY <1>3, <2>1, <2>3, HistoryIs DEF replayAvailable
    <3>2. Work(v, "create") \in Emissions
      BY <2>1, <3>1 DEF Replay, Emissions
    <3> QED
      BY <1>1, <3>2
  <2> QED
    BY <2>2, <2>3
<1> QED
  BY <1>2, <1>3

\* Without a new action for a venue that has the order, the last event says what the
\* earlier ones said, or that the order is filled.
LEMMA NothingNew ==
    ASSUME Types, Steps, recorded > 0, reduceOrderEvents(TRUE) \notin {"modify", "cancel"},
           NEW d \in 1..(recorded - 1), events[recorded].status # "filled"
    PROVE  events[d] = events[recorded]
<1> DEFINE last == events[recorded]
           prev == previousDistinct(History)
<1>1. reduceOrderEvents(TRUE) = BuildAction(prev, last)
  BY HistoryIs DEF reduceOrderEvents
<1>2. CASE prev = Nothing /\ \A i \in 1..recorded : events[i] = last
  BY <1>2, HistoryIs
<1>3. ASSUME NEW i \in 1..(recorded - 1), prev = events[i], events[i] # Nothing, events[i] # last
      PROVE  FALSE
  <2>1. events[i] \in Events /\ last \in Events /\ recorded \in 1..Len(events) /\ Len(events) \in Nat
    BY HistoryIs DEF Types
  <2>2. events[i].status = "active"
    BY <2>1 DEF Steps
  <2>3. last.status \in {"active", "cancelled"}
    BY <2>1 DEF Events
  <2>4. CASE last.status = "cancelled"
    <3> HIDE DEF prev, last
    <3>1. BuildAction(prev, last) = "cancel"
      BY <1>3, <2>2, <2>4 DEF BuildAction
    <3> QED
      BY <1>1, <3>1
  <2>5. CASE last.status = "active"
    <3>1. events[i].price # last.price
      BY <1>3, <2>1, <2>2, <2>5 DEF Events
    <3> HIDE DEF prev, last
    <3>2. BuildAction(prev, last) = "modify"
      BY <1>3, <2>2, <2>5, <3>1 DEF BuildAction, needsModify
    <3> QED
      BY <1>1, <3>2
  <2> QED
    BY <2>3, <2>4, <2>5
<1> QED
  BY <1>2, <1>3, PreviousIs

\* A decision makes every venue that is not excused follow the last event recorded.
LEMMA DecidesDecided ==
    ASSUME Types, Types', Steps, DealDecides, NEW v \in assigned, v \notin excused',
           v \notin excused => \E d \in Nat : Decided(v, d)
    PROVE  Decided(v, recorded)'
<1> DEFINE e == events[recorded]
<1>0. /\ v \in Venues /\ deal = "decide" /\ deal' = "emit" /\ UNCHANGED <<events, recorded>>
      /\ recorded \in Nat /\ exchange[v] \in {NoOrder} \cup Placed
  BY DEF DealDecides, storeVars, Types
<1>1. /\ recorded > 0 /\ Free(v) /\ exchange[v].status # "canceled"
      /\ HasRow(v) <=> exchange[v] # NoOrder
      /\ v \notin excused \/ \E w \in Emissions : w.venue = v
      /\ exchange' = exchange
      /\ \A k \in Workers : ~At(k, v)'
      /\ \A w \in Works : w.venue = v => (Pending(w)' <=> w \in Emissions)
  <2>1. ~StoreWrong(v)
    BY <1>0, DecidesFor
  <2>2. HasRow(v) \in BOOLEAN
    BY DEF HasRow
  <2>3. HasRow(v) <=> exchange[v] # NoOrder
    BY <2>1, <2>2 DEF StoreWrong
  <2> QED
    BY <1>0, <2>3, DecidesFor
<1>2. Emissions \subseteq Works
  BY <1>1, EmittedTypes
<1> HIDE DEF e
<1>3. CASE \E w \in Emissions : w.venue = v
  <2>1. PendingAt(v)'
    BY <1>0, <1>1, <1>2, <1>3, PendingLater
  <2>2. ASSUME NEW w \in Works, Pending(w)', w.venue = v
        PROVE  /\ w.price = e.price
               /\ w.type = "create" => e.status = "active" /\ exchange'[v] = NoOrder
               /\ w.type = "modify" => e.status = "active" /\ exchange'[v].status \in {"open", "filled"}
               /\ w.type = "cancel" => e.status = "cancelled"
    <3>1. w \in Emissions
      BY <1>1, <2>2
    <3>2. /\ w.price = e.price
          /\ \/ w.type = "create" /\ e.status = "active" /\ ~HasRow(v)
             \/ w.type = "modify" /\ e.status = "active" /\ HasRow(v)
             \/ w.type = "cancel" /\ e.status = "cancelled" /\ HasRow(v)
      BY <1>1, <2>2, <3>1, EmittedIs DEF e
    <3>3. HasRow(v) => exchange'[v].status \in {"open", "filled"}
      BY <1>0, <1>1 DEF Placed
    <3> QED
      BY <1>1, <3>2, <3>3
  <2>3. Underway(v, events[recorded])'
    BY <1>0, <1>1, <2>2 DEF Underway, e
  <2> QED
    BY <1>0, <1>1, <2>1, <2>3 DEF Decided
<1>4. CASE ~\E w \in Emissions : w.venue = v
  <2>1. PICK d \in Nat : Decided(v, d)
    BY <1>1, <1>4
  <2>2. ~PendingAt(v)
    BY <1>0, <1>1, FreeIsNotPending
  <2>3. /\ d \in 0..recorded /\ d < recorded
        /\ d = 0 => exchange[v] = NoOrder
        /\ d > 0 => Matches(v, events[d])
    BY <1>0, <2>1, <2>2 DEF Decided
  <2>4. Matches(v, e)
    <3>1. CASE ~HasRow(v)
      <4>1. e.status # "active"
        BY <1>1, <1>4, <3>1, EmittedTo DEF e
      <4>2. exchange[v].status # "open"
        BY <1>1, <3>1 DEF NoOrder
      <4> QED
        BY <4>1, <4>2 DEF Matches
    <3>2. CASE HasRow(v)
      <4>1. reduceOrderEvents(TRUE) \notin {"modify", "cancel"}
        BY <1>1, <1>4, <3>2, EmittedTo
      <4>2. d \in 1..(recorded - 1) /\ Matches(v, events[d])
        BY <1>0, <1>1, <2>3, <3>2
      <4>3. CASE e.status = "filled"
        BY <4>3 DEF Matches
      <4>4. CASE e.status # "filled"
        <5>1. events[d] = e
          BY <1>1, <4>1, <4>2, <4>4, NothingNew DEF e
        <5> QED
          BY <4>2, <5>1
      <4> QED
        BY <4>3, <4>4
    <3> QED
      BY <3>1, <3>2
  <2>5. \A w \in Works : Pending(w)' => w.venue # v
    BY <1>1, <1>4
  <2>6. Matches(v, events[recorded])'
    BY <1>0, <1>1, <2>4 DEF Matches, e
  <2>7. Underway(v, events[recorded])'
    BY <1>1, <2>5 DEF Underway
  <2> QED
    BY <1>0, <1>1, <2>6, <2>7 DEF Decided
<1> QED
  BY <1>3, <1>4

\* Following is inductive.
LEMMA FollowingKept ==
    ASSUME Types, Types', Steps, Mirroring, Following, [Next]_vars
    PROVE  Following'
<1> SUFFICES ASSUME NEW v \in assigned', v \notin excused'
             PROVE  \E d \in Nat : Decided(v, d)'
  BY DEF Following
<1>0. v \in Venues
  BY DEF Types
<1>1. CASE DealDecides
  <2>1. v \in assigned /\ recorded \in Nat /\ recorded' = recorded
    BY <1>1 DEF DealDecides, storeVars, Types
  <2>2. v \notin excused => \E d \in Nat : Decided(v, d)
    BY <2>1 DEF Following
  <2>3. Decided(v, recorded)'
    BY <1>1, <2>1, <2>2, DecidesDecided
  <2> QED
    BY <2>1, <2>3
<1>2. ASSUME NEW k \in Workers, WorkerStep(k) PROVE \E d \in Nat : Decided(v, d)'
  <2>1. excused \subseteq excused' /\ assigned' = assigned
    BY <1>2 DEF WorkerStep, TakeWork, EmitChecks, EmitCalls, EmitFindsClosed, EmitRejected,
      EmitCallFails, EmitSwallows, EmitRecords, Retries
  <2>2. Alone(v) /\ Mirror(v)
    BY <1>0, <2>1 DEF Mirroring
  <2>3. PICK d \in Nat : Decided(v, d)
    BY <2>1 DEF Following
  <2>4. Frame(d)
    BY <1>2, <2>3, FrameKept
  <2>5. CASE ~At(k, v)
    <3>1. Still(v)
      BY <1>0, <1>2, <2>5, ElsewhereStill
    <3> QED
      BY <1>0, <2>3, <2>4, <3>1, StillDecided
  <2>6. CASE At(k, v)
    BY <1>0, <1>2, <2>2, <2>3, <2>4, <2>6, WorkerDecided
  <2> QED
    BY <2>5, <2>6
<1>3. CASE Outside
  <2>1. v \in assigned /\ v \notin excused
    BY <1>0, <1>3 DEF Outside, DealRecords, DealDone, DealEmits, DealCannotScale,
        ThreeCommasReports, AssignmentChanges, CancelOrderByOrderId, Fills, StatusArrives,
        CrashAndRestart, vars
  <2>2. Alone(v)
    BY <1>0, <2>1 DEF Mirroring
  <2>3. PICK d \in Nat : Decided(v, d)
    BY <2>1 DEF Following
  <2>4. Frame(d)
    BY <1>3, <2>3, FrameKept
  <2>5. Still(v) \/ FilledAt(v)
    BY <1>0, <1>3, <2>2, OutsideMoves
  <2> QED
    BY <1>0, <2>3, <2>4, <2>5, StillDecided, FilledDecided
<1> QED
  BY <1>1, <1>2, <1>3, NextIs

\* Whenever the work is done, every venue of the bot whose last decision was not lost has
\* what the last 3Commas event says, for any number of venues, workers, events, faults,
\* changed assignments and cancels by hand, and whether or not polls overtake the work.
THEOREM OrdersFollowEvents == Spec => []SettledMatches
<1> DEFINE I == Types /\ Steps /\ Mirroring /\ Following
<1>1. ASSUME Init PROVE I
  <2>1. Types /\ Steps /\ Mirroring
    BY <1>1, StartsMirroring
  <2>2. ASSUME NEW v \in assigned PROVE Decided(v, 0)
    <3>1. v \in Venues /\ recorded = 0 /\ deal = "idle" /\ exchange[v] = NoOrder
      BY <1>1, <2>1 DEF Init, Types
    <3>2. ~PendingAt(v)
      BY <1>1 DEF Init, PendingAt
    <3> QED
      BY <3>1, <3>2 DEF Decided
  <2> QED
    BY <2>1, <2>2 DEF Following
<1>2. I /\ [Next]_vars => I'
  BY StepsPreserved, MirrorKept, FollowingKept
<1>3. I => SettledMatches
  <2> SUFFICES ASSUME I, AtRest, recorded > 0, NEW v \in assigned \ excused
               PROVE  CASE Last(events).status = "active" ->
                             \/ exchange[v].status = "filled"
                             \/ exchange[v] = [status |-> "open", price |-> Last(events).price]
                        [] Last(events).status = "cancelled" -> exchange[v].status # "open"
                        [] OTHER -> TRUE
    BY DEF SettledMatches
  <2>1. ~PendingAt(v)
    BY DEF AtRest, PendingAt, Steps
  <2>2. PICK d \in Nat : Decided(v, d)
    BY DEF Following
  <2>3. d = recorded /\ Matches(v, events[d])
    BY <2>1, <2>2 DEF Decided, AtRest
  <2>4. Last(events) = events[d]
    BY <2>3 DEF AtRest, Last
  <2> QED
    BY <2>3, <2>4 DEF Matches
<1> QED
  BY <1>1, <1>2, <1>3, PTL DEF Spec
=============================================================================
