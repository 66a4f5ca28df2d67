---------------------------- MODULE TrackedOrder ----------------------------
(***************************************************************************)
(* What the fill tracker keeps of one order, and how statuses, events and  *)
(* scaling results change it: type orderState of filltracker/service.go.   *)
(*                                                                         *)
(* Quantities are whole units.  A status message carries the order, its    *)
(* status on the venue, its original and remaining size and a timestamp.   *)
(* Status values are abstracted to the classes the code tells apart:       *)
(* "canceled" is every value with that suffix, "rejected" every other      *)
(* value that is neither open nor filled.                                  *)
(***************************************************************************)
EXTENDS Naturals

Statuses == {"none", "open", "filled", "canceled", "rejected"}

\* orderState; `event` is event # nil, which also tells the order's side.
OrderState == [event : BOOLEAN, reduceOnly : BOOLEAN, status : Statuses,
               statusObserved : Nat, originalQty : Nat, remainingQty : Nat,
               filledQty : Nat, hydrated : BOOLEAN]

NewOrder(hydrated) ==
    [event |-> FALSE, reduceOnly |-> FALSE, status |-> "none",
     statusObserved |-> 0, originalQty |-> 0, remainingQty |-> 0,
     filledQty |-> 0, hydrated |-> hydrated]

Minus(a, b) == IF a > b THEN a - b ELSE 0

applyEvent(s, size, isTakeProfit) ==
    [s EXCEPT !.event = TRUE,
              !.originalQty = IF @ = 0 THEN size ELSE @,
              !.reduceOnly = @ \/ isTakeProfit]

\* Faulty variant: a late report of an older status is not recognised.
applyStatusUnordered(s, m) ==
    [s EXCEPT !.statusObserved = m.at,
              !.status = m.status,
              !.originalQty = m.origSz,
              !.remainingQty = IF m.status = "canceled" THEN 0 ELSE m.sz,
              !.filledQty = IF m.origSz > 0 THEN Minus(m.origSz, m.sz) ELSE @]

\* A status older than the one observed last is dropped; an equal one is not.
applyStatus(s, m) ==
    IF m.at < s.statusObserved
    THEN s
    ELSE [s EXCEPT !.statusObserved = m.at,
                   !.status = m.status,
                   !.originalQty = m.origSz,
                   !.remainingQty = IF m.status = "canceled" THEN 0 ELSE m.sz,
                   !.filledQty = IF m.origSz > 0 THEN Minus(m.origSz, m.sz)
                                                 ELSE @]

\* Faulty variant: an order that 3Commas has reported counts as filled.
inferFilledFromEvent(s, createdAt) ==
    [s EXCEPT !.filledQty = s.originalQty, !.statusObserved = createdAt]

\* No status is stored: what 3Commas reported is not taken for a fill.
inferFromEvent(s, createdAt) ==
    [s EXCEPT !.remainingQty = IF @ = 0 THEN s.originalQty ELSE @,
              !.statusObserved = createdAt]

\* ApplyScaledOrder, and the last part of reloadDeal.
applyScaledSize(s, size) ==
    LET filled == IF s.filledQty > size THEN size ELSE s.filledQty
    IN  [s EXCEPT !.originalQty = size,
                  !.filledQty = filled,
                  !.remainingQty = size - filled]

\* Faulty variant: a status value that no other part of the code knows.
markCancelledMisspelt(s, now) ==
    [s EXCEPT !.remainingQty = 0,
              !.status = "cancelled",
              !.statusObserved = now]

markCancelled(s, now) ==
    [s EXCEPT !.remainingQty = 0,
              !.status = "canceled",
              !.statusObserved = now]

isActive(s) == s.status \notin {"canceled", "filled"} /\ s.remainingQty > 0

isFilled(s) ==
    \/ s.status = "filled"
    \/ s.originalQty > 0 /\ (s.filledQty = s.originalQty \/ s.remainingQty = 0)
=============================================================================
