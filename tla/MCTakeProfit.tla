---------------------------- MODULE MCTakeProfit ----------------------------
(***************************************************************************)
(* Instances of TakeProfit for TLC.                                        *)
(***************************************************************************)
EXTENDS TakeProfit

CONSTANTS v1, b1, b2, tp1, w1, w2

OneVenue == [o \in Orders |-> v1]
Ones == [o \in Orders |-> IF o \in Buys THEN 1 ELSE 2]
Twos == [o \in Orders |-> 2]

\* The workers are alike: the second takes work only while the first has some.
MCNext ==
    /\ NextTakeProfit
    /\ worker[w1].work = NoWork /\ worker[w2].work = NoWork => worker'[w2].work = NoWork

MCFairSpec == InitTakeProfit /\ [][MCNext]_takeProfitVars /\ FairnessTakeProfit
=============================================================================
