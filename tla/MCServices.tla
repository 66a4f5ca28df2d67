----------------------------- MODULE MCServices -----------------------------
(* Values for the constants of Services that a configuration cannot write. *)
EXTENDS Services

CONSTANTS s1, s2

\* The filter of the second client leaves out the second event.
SecondSkips == [s \in {s1, s2} |-> IF s = s1 THEN 1..3 ELSE {1, 3}]
=============================================================================
