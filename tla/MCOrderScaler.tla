--------------------------- MODULE MCOrderScaler ---------------------------
(* The order scaler alone: what 3Commas reports in the runs that refute what *)
(* its specification says.                                                   *)
EXTENDS OrderScaler

Order(type, position, group, size) ==
    [type |-> type, position |-> position, group |-> group, size |-> size]

\* No ladder in the payload.
NoDeals == {<<>>}

\* A ladder of two steps and the first of two safety orders.
SafetyOrder ==
    {{Order(TakeProfitOrder, 1, 2, 2), Order(TakeProfitOrder, 2, 2, 6),
      Order("Averaging", 1, 2, 8)}}

\* Four rising steps of two lots and a part each.
FourSteps == {{Order(TakeProfitOrder, l, 4, 10 + l) : l \in 1..4}}
=============================================================================
