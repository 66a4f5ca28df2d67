---------------------------- MODULE RateLimiter ----------------------------
(***************************************************************************)
(* The fixed-window reservation limiter of ratelimit/limiter.go, through   *)
(* which every 3Commas API call of the engine goes.                        *)
(*                                                                         *)
(* Every method body runs under l.mu, so each is one action; Reserve and   *)
(* Extend release the mutex while they wait and are split at that point.   *)
(* A workflow ID is used by one goroutine at a time for the blocking       *)
(* calls (the deal work queue never hands out a key twice, and the         *)
(* producer runs in one loop), so a workflow is its own caller.            *)
(*                                                                         *)
(* Time is abstracted to one bit: `elapsed` is TRUE when at least          *)
(* `window` has passed since windowStart and nobody has noticed yet.       *)
(***************************************************************************)
EXTENDS Naturals, Sequences, FiniteSets

CONSTANTS
    Workflows,  \* workflow IDs, each "deal:<deal>:<bot>" or "produce:all-bots"
    Limit,      \* Config.RequestsPerMinute
    Counts,     \* slot counts that callers pass to Reserve
    MaxSlots    \* bound: no reservation is asked to grow past this

ASSUME LimitAssumption == Limit \in Nat \ {0}
ASSUME MaxSlotsAssumption == MaxSlots \in Nat /\ Limit <= MaxSlots
ASSUME CountsAssumption == Counts \subseteq 1 .. MaxSlots
ASSUME WorkflowsAssumption == IsFiniteSet(Workflows)

VARIABLES
    consumed,           \* calls charged to the current window
    elapsed,            \* the window is over, the reset has not happened yet
    activeReservations, \* map from workflow ID to its reservation
    waitQueue,          \* FIFO queue of [workflowID, requestedSlots]
    ready,              \* workflows whose `ready` channel is closed, unread
    caller,             \* where the workflow's goroutine is (see Callers)
    extension           \* what a waiting Extend remembers across the unlock

vars == <<consumed, elapsed, activeReservations, waitQueue, ready, caller,
          extension>>

Callers == {"none",       \* holds nothing, is in no limiter call
            "waiting",    \* in Reserve's select, after it queued itself
            "cancelled",  \* its select took ctx.Done, the mutex not yet locked
            "holding",    \* its Reserve returned nil
            "extending"}  \* in Extend's select, waiting for the next window

Reservation == [slotsReserved : 0 .. MaxSlots,
                slotsConsumed : 0 .. MaxSlots,
                completed     : BOOLEAN]

WaitingWorkflow == [workflowID : Workflows, requestedSlots : Counts]

NewReservation(count) ==
    [slotsReserved |-> count, slotsConsumed |-> 0, completed |-> FALSE]

Holds(w) == w \in DOMAIN activeReservations

NoExtension == [target |-> 0, due |-> FALSE]

-----------------------------------------------------------------------------
(* Helpers that run with the lock held *)

\* One pair per slot that the reservations of the map `res` set aside.
ReservedSlots(res) ==
    UNION {{w} \X (1 .. res[w].slotsReserved) : w \in DOMAIN res}

calculateTotalReserved(res) == Cardinality(ReservedSlots(res))

\* The value of l.consumed once resetWindowIfNeeded has run.
ConsumedAfterReset == IF elapsed THEN 0 ELSE consumed

resetWindowIfNeeded ==
    /\ consumed' = ConsumedAfterReset
    /\ elapsed' = FALSE

\* The map after the first k queued workflows were granted.
GrantHeads(res, k) ==
    LET granted == {waitQueue[i].workflowID : i \in 1 .. k}
        position(w) == CHOOSE i \in 1 .. k : waitQueue[i].workflowID = w
    IN  [w \in DOMAIN res \cup granted |->
            IF w \in granted
            THEN NewReservation(waitQueue[position(w)].requestedSlots)
            ELSE res[w]]

\* How many iterations of tryGrantWaiting's loop may grant: it walks the queue
\* from the head and stops at the first workflow that does not fit.
Grantable(res, used) ==
    {k \in 0 .. Len(waitQueue) :
        \A j \in 1 .. k :
            used + calculateTotalReserved(GrantHeads(res, j)) <= Limit}

\* Faulty variant: a workflow that fits overtakes the head that does not.
tryGrantAnyWaiting(res) ==
    LET fitting == {i \in 1 .. Len(waitQueue) :
                       ConsumedAfterReset + calculateTotalReserved(res)
                           + waitQueue[i].requestedSlots <= Limit}
    IN  IF fitting = {}
        THEN /\ activeReservations' = res
             /\ UNCHANGED <<consumed, elapsed, waitQueue, ready>>
        ELSE /\ resetWindowIfNeeded
             /\ \E i \in fitting :
                   LET w == waitQueue[i].workflowID
                   IN  /\ activeReservations' =
                             [v \in DOMAIN res \cup {w} |->
                                 IF v = w
                                 THEN NewReservation(waitQueue[i].requestedSlots)
                                 ELSE res[v]]
                       /\ waitQueue' = SelectSeq(waitQueue,
                                                 LAMBDA e : e.workflowID # w)
                       /\ ready' = ready \cup {w}

\* tryGrantWaiting, called with the map already changed to `res`.
tryGrantWaiting(res) ==
    IF waitQueue = <<>>
    THEN /\ activeReservations' = res
         /\ UNCHANGED <<consumed, elapsed, waitQueue, ready>>
    ELSE /\ resetWindowIfNeeded
         /\ \E k \in 0 .. Len(waitQueue) :
               /\ k \in Grantable(res, ConsumedAfterReset)
               /\ k + 1 \notin Grantable(res, ConsumedAfterReset)
               /\ activeReservations' = GrantHeads(res, k)
               /\ waitQueue' = SubSeq(waitQueue, k + 1, Len(waitQueue))
               /\ ready' = ready \cup {waitQueue[i].workflowID : i \in 1 .. k}

\* removeFromQueue closes the gap at the first entry of w, if there is one.
removeFromQueue(w) ==
    LET entries == {i \in 1 .. Len(waitQueue) : waitQueue[i].workflowID = w}
    IN  IF entries = {}
        THEN UNCHANGED waitQueue
        ELSE \E i \in entries :
                /\ \A j \in entries : i <= j
                /\ waitQueue' = [j \in 1 .. Len(waitQueue) - 1 |->
                                    IF j < i THEN waitQueue[j]
                                             ELSE waitQueue[j + 1]]

-----------------------------------------------------------------------------
Init ==
    /\ consumed = 0
    /\ elapsed = FALSE
    /\ activeReservations = [w \in {} |-> NewReservation(0)]
    /\ waitQueue = <<>>
    /\ ready = {}
    /\ caller = [w \in Workflows |-> "none"]
    /\ extension = [w \in Workflows |-> NoExtension]

\* The clock passes windowStart + window. A timer that a waiting Extend
\* started for the end of this window fires from now on.
WindowElapses ==
    /\ ~elapsed
    /\ elapsed' = TRUE
    /\ extension' = [w \in Workflows |->
                        IF caller[w] = "extending"
                        THEN [extension[w] EXCEPT !.due = TRUE]
                        ELSE extension[w]]
    /\ UNCHANGED <<consumed, activeReservations, waitQueue, ready, caller>>

CanReserve(w, count) ==
    /\ caller[w] = "none"
    /\ ~Holds(w)        \* otherwise ErrAlreadyReserved, nothing changes

\* Faulty variant: the calls made in this window are forgotten.
FitsUnreserved(count) ==
    calculateTotalReserved(activeReservations) + count <= Limit

Fits(count) ==
    ConsumedAfterReset + calculateTotalReserved(activeReservations) + count
        <= Limit

\* Reserve finds capacity and grants at once, whoever is in the queue.
ReserveGranted(w, count) ==
    /\ CanReserve(w, count)
    /\ Fits(count)
    /\ resetWindowIfNeeded
    /\ activeReservations' =
          [v \in DOMAIN activeReservations \cup {w} |->
              IF v = w THEN NewReservation(count) ELSE activeReservations[v]]
    /\ caller' = [caller EXCEPT ![w] = "holding"]
    /\ UNCHANGED <<waitQueue, ready, extension>>

\* Reserve does not fit: it queues itself, unlocks and blocks.
ReserveQueued(w, count) ==
    /\ CanReserve(w, count)
    /\ ~Fits(count)
    /\ resetWindowIfNeeded
    /\ waitQueue' = Append(waitQueue,
                           [workflowID |-> w, requestedSlots |-> count])
    /\ caller' = [caller EXCEPT ![w] = "waiting"]
    /\ UNCHANGED <<activeReservations, ready, extension>>

\* The select of Reserve receives from `ready`: Reserve returns nil.
ReserveReady(w) ==
    /\ caller[w] = "waiting"
    /\ w \in ready
    /\ ready' = ready \ {w}
    /\ caller' = [caller EXCEPT ![w] = "holding"]
    /\ UNCHANGED <<consumed, elapsed, activeReservations, waitQueue, extension>>

\* The select of Reserve takes ctx.Done. With both channels ready Go picks
\* either, so `ready` may be closed already or be closed before the lock.
ReserveCtxDone(w) ==
    /\ caller[w] = "waiting"
    /\ caller' = [caller EXCEPT ![w] = "cancelled"]
    /\ UNCHANGED <<consumed, elapsed, activeReservations, waitQueue, ready,
                   extension>>

\* Faulty variant: the entry stays in the queue.
ReserveAbandonedInQueue(w) ==
    /\ caller[w] = "cancelled"
    /\ ready' = ready \ {w}
    /\ caller' = [caller EXCEPT ![w] = "none"]
    /\ UNCHANGED <<consumed, elapsed, activeReservations, waitQueue, extension>>

\* It then locks, removes itself from the queue and returns ctx.Err().
ReserveAbandoned(w) ==
    /\ caller[w] = "cancelled"
    /\ removeFromQueue(w)
    /\ ready' = ready \ {w}
    /\ caller' = [caller EXCEPT ![w] = "none"]
    /\ UNCHANGED <<consumed, elapsed, activeReservations, extension>>

\* The goroutines that work for w charge calls while w holds its slots.
InUse(w) == caller[w] \in {"holding", "extending"}

\* Faulty variant: ErrConsumeExceedsLimit is never returned.
ConsumeUnchecked(w) ==
    /\ InUse(w)
    /\ Holds(w)
    /\ consumed' = ConsumedAfterReset + 1
    /\ elapsed' = FALSE
    /\ activeReservations' =
          [activeReservations EXCEPT ![w].slotsConsumed = @ + 1]
    /\ UNCHANGED <<waitQueue, ready, caller, extension>>

ConsumeWithOperation(w) ==
    /\ InUse(w)
    /\ Holds(w)
    /\ activeReservations[w].slotsConsumed < activeReservations[w].slotsReserved
    /\ consumed' = ConsumedAfterReset + 1
    /\ elapsed' = FALSE
    /\ activeReservations' =
          [activeReservations EXCEPT ![w].slotsConsumed = @ + 1]
    /\ UNCHANGED <<waitQueue, ready, caller, extension>>

\* Faulty variant: the new total may be below what was consumed.
AdjustDownUnchecked(w, newTotal) ==
    /\ caller[w] = "holding"
    /\ Holds(w)
    /\ newTotal < activeReservations[w].slotsReserved
    /\ tryGrantWaiting(
          [activeReservations EXCEPT ![w].slotsReserved = newTotal])
    /\ UNCHANGED <<caller, extension>>

AdjustDown(w, newTotal) ==
    /\ caller[w] = "holding"
    /\ Holds(w)
    /\ newTotal >= activeReservations[w].slotsConsumed
    /\ newTotal < activeReservations[w].slotsReserved
    /\ tryGrantWaiting(
          [activeReservations EXCEPT ![w].slotsReserved = newTotal])
    /\ UNCHANGED <<caller, extension>>

SignalComplete(w) ==
    /\ caller[w] = "holding"
    /\ Holds(w)
    /\ tryGrantWaiting([activeReservations EXCEPT ![w].completed = TRUE])
    /\ UNCHANGED <<caller, extension>>

Release(w) ==
    /\ caller[w] = "holding"
    /\ Holds(w)
    /\ tryGrantWaiting([v \in DOMAIN activeReservations \ {w} |->
                           activeReservations[v]])
    /\ caller' = [caller EXCEPT ![w] = "none"]
    /\ UNCHANGED extension

Stats ==
    /\ resetWindowIfNeeded
    /\ UNCHANGED <<activeReservations, waitQueue, ready, caller, extension>>

\* Faulty variant: the reset also clears what reservations have consumed.
windowResetForgets ==
    /\ waitQueue # <<>>
    /\ elapsed
    /\ tryGrantWaiting([w \in DOMAIN activeReservations |->
                           [activeReservations[w] EXCEPT !.slotsConsumed = 0]])
    /\ UNCHANGED <<caller, extension>>

\* One tick of windowResetWatcher: it looks at the window only while somebody
\* waits, and at the queue only if this tick itself did the reset.
windowResetWatcher ==
    /\ waitQueue # <<>>
    /\ elapsed
    /\ tryGrantWaiting(activeReservations)
    /\ UNCHANGED <<caller, extension>>

-----------------------------------------------------------------------------
(* Extend, the one operation the engine does not call *)

ExtendFits(w, newReservation) ==
    ConsumedAfterReset + newReservation
        <= Limit + activeReservations[w].slotsConsumed

SetReserved(w, newReservation) ==
    activeReservations' =
        [activeReservations EXCEPT ![w].slotsReserved = newReservation]

\* The window of w has room for what w would still use: granted at once.
\* The slots of other workflows are not looked at.
ExtendGranted(w, additional) ==
    LET newReservation == activeReservations[w].slotsReserved + additional
    IN  /\ caller[w] = "holding"
        /\ Holds(w)
        /\ newReservation <= MaxSlots
        /\ ExtendFits(w, newReservation)
        /\ resetWindowIfNeeded
        /\ SetReserved(w, newReservation)
        /\ UNCHANGED <<waitQueue, ready, caller, extension>>

\* Otherwise it unlocks, and waits for the end of the window with the new
\* total it has computed.
ExtendBlocks(w, additional) ==
    LET newReservation == activeReservations[w].slotsReserved + additional
    IN  /\ caller[w] = "holding"
        /\ Holds(w)
        /\ newReservation <= MaxSlots
        /\ ~ExtendFits(w, newReservation)
        /\ resetWindowIfNeeded
        /\ extension' = [extension EXCEPT
                            ![w] = [target |-> newReservation, due |-> FALSE]]
        /\ caller' = [caller EXCEPT ![w] = "extending"]
        /\ UNCHANGED <<activeReservations, waitQueue, ready>>

ExtendReturns(w) ==
    /\ caller' = [caller EXCEPT ![w] = "holding"]
    /\ extension' = [extension EXCEPT ![w] = NoExtension]
    /\ UNCHANGED <<waitQueue, ready>>

\* The timer fired: one more attempt, ErrInsufficientCapacity if it fails.
ExtendRetries(w) ==
    /\ caller[w] = "extending"
    /\ extension[w].due
    /\ resetWindowIfNeeded
    /\ IF ExtendFits(w, extension[w].target)
       THEN SetReserved(w, extension[w].target)
       ELSE UNCHANGED activeReservations
    /\ ExtendReturns(w)

ExtendCtxDone(w) ==
    /\ caller[w] = "extending"
    /\ UNCHANGED <<consumed, elapsed, activeReservations>>
    /\ ExtendReturns(w)

-----------------------------------------------------------------------------
Next ==
    \/ WindowElapses
    \/ windowResetWatcher
    \/ Stats
    \/ \E w \in Workflows :
          \/ \E count \in Counts : ReserveGranted(w, count)
          \/ \E count \in Counts : ReserveQueued(w, count)
          \/ ReserveReady(w)
          \/ ReserveCtxDone(w)
          \/ ReserveAbandoned(w)
          \/ ConsumeWithOperation(w)
          \/ \E newTotal \in 0 .. Limit : AdjustDown(w, newTotal)
          \/ SignalComplete(w)
          \/ Release(w)

\* The limiter as the engine uses it.
Spec == Init /\ [][Next]_vars

NextWithExtend ==
    \/ Next
    \/ \E w \in Workflows :
          \/ \E additional \in Counts : ExtendGranted(w, additional)
          \/ \E additional \in Counts : ExtendBlocks(w, additional)
          \/ ExtendRetries(w)
          \/ ExtendCtxDone(w)

\* The limiter with its whole interface.
SpecWithExtend == Init /\ [][NextWithExtend]_vars

-----------------------------------------------------------------------------
(* Properties *)

\* Every variable keeps its type.
TypeOK ==
    /\ consumed \in Nat
    /\ elapsed \in BOOLEAN
    /\ DOMAIN activeReservations \subseteq Workflows
    /\ \A w \in DOMAIN activeReservations :
          activeReservations[w] \in Reservation
    /\ waitQueue \in Seq(WaitingWorkflow)
    /\ ready \subseteq Workflows
    /\ caller \in [Workflows -> Callers]
    /\ extension \in [Workflows -> [target : 0 .. MaxSlots, due : BOOLEAN]]

\* Slots that are reserved and can still be turned into API calls.
UnspentSlots(res) ==
    UNION {{w} \X ((res[w].slotsConsumed + 1) .. res[w].slotsReserved) :
              w \in DOMAIN res}

\* The promise of the limiter: the calls charged to the window, and all those
\* that granted reservations may still make, stay within the limit. So no
\* sequence of Consume calls passes Limit in one window, whatever was granted
\* before the reset and however grants, adjustments and releases interleave.
WindowBudget ==
    consumed + Cardinality(UnspentSlots(activeReservations)) <= Limit

\* A workflow never charges more calls than it reserved, also when Consume,
\* AdjustDown and Extend run while its slots change.
WithinReservation ==
    \A w \in DOMAIN activeReservations :
        activeReservations[w].slotsConsumed <= activeReservations[w].slotsReserved

Queued(w) == \E i \in 1 .. Len(waitQueue) : waitQueue[i].workflowID = w

\* No wakeup is lost and no entry is left behind: a goroutine blocked in
\* Reserve is either queued once and unsignalled, or signalled and backed by a
\* reservation; nobody else is in the queue; and who got nil from Reserve owns
\* a reservation until it releases it.
WaitersAccounted ==
    /\ \A w \in Workflows :
          /\ caller[w] \in {"waiting", "cancelled"} =>
                (Queued(w) <=> w \notin ready) /\ (Holds(w) <=> w \in ready)
          /\ caller[w] \in {"none", "holding", "extending"} =>
                ~Queued(w) /\ w \notin ready
          /\ caller[w] \in {"holding", "extending"} => Holds(w)
    /\ \A i, j \in 1 .. Len(waitQueue) :
          waitQueue[i].workflowID = waitQueue[j].workflowID => i = j

\* A queued workflow is granted only after, or together with, all those that
\* were queued before it.
QueueIsFIFO ==
    [][\A j \in 1 .. Len(waitQueue) :
          waitQueue[j].workflowID \in DOMAIN activeReservations' =>
              \A i \in 1 .. j :
                  waitQueue[i].workflowID \in DOMAIN activeReservations']_vars

\* A reset of the window, or anything another workflow does, neither takes a
\* reservation away nor forgets what was charged to it: it ends only when its
\* owner releases it.
ReservationsSurvive ==
    [][\A w \in DOMAIN activeReservations :
          \/ /\ w \in DOMAIN activeReservations'
             /\ activeReservations'[w].slotsConsumed
                   >= activeReservations[w].slotsConsumed
          \/ caller[w] = "holding" /\ caller'[w] = "none"]_vars
=============================================================================
