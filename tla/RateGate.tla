------------------------------ MODULE RateGate ------------------------------
(***************************************************************************)
(* The gate through which the emitters of one wallet pace their calls      *)
(* (emitter/rate_gate.go).  Time is a number of ticks; a waiter sleeps     *)
(* without the lock and looks again when its timer has fired.              *)
(***************************************************************************)
EXTENDS Naturals, FiniteSets, FiniteSetsExt

CONSTANTS
    Waiters,        \* callers of Wait
    minSpacing,
    Cooldowns,      \* durations Cooldown is called with
    MaxTime         \* bound: the last tick

VARIABLES
    now,
    next,           \* rateGate.next
    waiter,         \* where each caller is, and when its timer fires
    passed,         \* time of the last pass
    quietUntil      \* end of the latest cooldown
vars == <<now, next, waiter, passed, quietUntil>>

Init ==
    /\ now = minSpacing /\ next = now
    /\ waiter = [w \in Waiters |-> [pc |-> "idle", timer |-> 0]]
    /\ passed = 0 /\ quietUntil = 0

Calls(w) ==
    /\ waiter[w].pc = "idle"
    /\ waiter' = [waiter EXCEPT ![w].pc = "look"]
    /\ UNCHANGED <<now, next, passed, quietUntil>>

\* Wait, with the lock: pass, or sleep until the time that was read.
Wait(w) ==
    /\ waiter[w].pc = "look"
    /\ IF next <= now
       THEN /\ next' = now + minSpacing
            /\ passed' = now
            /\ waiter' = [waiter EXCEPT ![w] = [pc |-> "idle", timer |-> 0]]
       ELSE /\ waiter' = [waiter EXCEPT ![w] = [pc |-> "sleep", timer |-> next]]
            /\ UNCHANGED <<next, passed>>
    /\ UNCHANGED <<now, quietUntil>>

\* Faulty variant: the caller goes on when its timer fires.
TimerFiresAndPasses(w) ==
    /\ waiter[w].pc = "sleep" /\ waiter[w].timer <= now
    /\ next' = now + minSpacing
    /\ passed' = now
    /\ waiter' = [waiter EXCEPT ![w] = [pc |-> "idle", timer |-> 0]]
    /\ UNCHANGED <<now, quietUntil>>

TimerFires(w) ==
    /\ waiter[w].pc = "sleep" /\ waiter[w].timer <= now
    /\ waiter' = [waiter EXCEPT ![w].pc = "look"]
    /\ UNCHANGED <<now, next, passed, quietUntil>>

CtxDone(w) ==
    /\ waiter[w].pc = "sleep"
    /\ waiter' = [waiter EXCEPT ![w] = [pc |-> "idle", timer |-> 0]]
    /\ UNCHANGED <<now, next, passed, quietUntil>>

Cooldown(d) ==
    /\ d > 0
    /\ next' = Max({next, now + d})
    /\ quietUntil' = Max({quietUntil, now + d})
    /\ UNCHANGED <<now, waiter, passed>>

Tick == now < MaxTime /\ now' = now + 1 /\ UNCHANGED <<next, waiter, passed, quietUntil>>

Next ==
    \/ \E w \in Waiters : Calls(w) \/ Wait(w) \/ TimerFires(w) \/ CtxDone(w)
    \/ \E d \in Cooldowns : Cooldown(d)
    \/ Tick

---------------------------------------------------------------------------
\* Whoever passes does so at least minSpacing after the one before and not before the
\* end of any cooldown, also when several waiters slept towards the same moment or a
\* cooldown came while they slept (rate_gate.go:37-55).
Paced == (next' # next /\ UNCHANGED quietUntil
            => now >= passed + minSpacing /\ now >= quietUntil)
=============================================================================
