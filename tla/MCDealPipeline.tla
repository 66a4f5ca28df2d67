--------------------------- MODULE MCDealPipeline ---------------------------
(***************************************************************************)
(* Instances of DealPipeline for TLC.                                      *)
(***************************************************************************)
EXTENDS DealPipeline

CONSTANTS b1, b2, d1, d2

OneBot == <<b1>>
TwoBots == <<b1, b2>>
AllOfFirst == [d \in Deals |-> b1]
OnePerBot == [d \in Deals |-> IF d = d1 THEN b1 ELSE b2]

\* No deadline passes while Reserve waits: what one of them does, MCDealPipelineLeak shows.
InTime == \A d \in Deals : caller[d] # "cancelled"

FairSpecInTime == Init /\ [][Next /\ InTime']_vars /\ Fairness
=============================================================================
