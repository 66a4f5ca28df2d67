------------------------------ MODULE MCOrders ------------------------------
(***************************************************************************)
(* What decides about the orders of a bot: its venues, the flow from event *)
(* to order, and the sizes.  They share no state: Init picks one of them,  *)
(* and every step is a step of that one.  The flow is checked twice: with  *)
(* faults and changed assignments while each poll finds the work of the    *)
(* last one done, and for a single venue with polls, workers and cancels   *)
(* that overtake each other.                                               *)
(***************************************************************************)
EXTENDS OrderFlow, Catalog, OrderScaler

CONSTANT a

VARIABLE part

\* The primary venue under an id of its own, or the default venue itself.
MCSecretSets ==
    {<<[id |-> 2, wallet |-> "w2", primary |-> TRUE]>>,
     <<[id |-> 1, wallet |-> "w2", primary |-> TRUE]>>}

\* A ladder of two steps in the payload only, with an amount and with a share of the base
\* order.
MCDeals ==
    {<<>>,
     <<[id |-> 2, amount |-> 5, percent |-> 0], [id |-> 0, amount |-> 0, percent |-> 50]>>}

Order(type, position, group, size) ==
    [type |-> type, position |-> position, group |-> group, size |-> size]
Step(position, group, size) == Order(TakeProfitOrder, position, group, size)

\* A ladder of two steps, a changed step, one without a size, and safety orders: of a
\* group as large as the ladder and of a smaller one.
MCReports ==
    {{Step(1, 2, 1), Step(2, 2, 3)}, {Step(1, 2, 5)}, {Step(2, 2, 0)},
     {Order("Averaging", 2, 2, 3)}, {Order("Averaging", 3, 1, 5)}}

allVars == <<part, vars, catalogVars, scalerVars>>

\* Both venues are alike, and an operator may assign the other or both before the first event.
MCInit ==
    /\ part \in {"faults", "race", "catalog", "scaler"}
    /\ Init /\ InitCatalog /\ InitScaler
    /\ assigned = {a}
    /\ part # "scaler" => default = Unit

\* Both prices are alike: the first event has the first.
FlowStep ==
    /\ Next /\ UNCHANGED <<catalogVars, scalerVars>>
    /\ events' # <<>> => events'[1].price = 1

\* Two events, each reported after the work of the one before, and no cancel by hand.
WithFaults ==
    /\ part = "faults" /\ FlowStep
    /\ events' # events => Len(events) < 2 /\ AtRest
    /\ changes' # changes => assigned' # assigned

\* Three events, or two and a cancel.
WithRaces ==
    /\ part = "race" /\ FlowStep
    /\ UNCHANGED <<assigned, faults>>
    /\ Len(events') + changes' <= 3

MCNext ==
    /\ UNCHANGED part
    /\ \/ WithFaults
       \/ WithRaces
       \/ part = "catalog" /\ NextCatalog /\ UNCHANGED <<vars, scalerVars>>
       \/ part = "scaler" /\ NextScaler /\ UNCHANGED <<vars, catalogVars>>

\* What MCNext leaves out of the flow need not happen, and in the other parts none of the
\* fair steps can.
MCSpec == MCInit /\ [][MCNext]_allVars /\ Fairness
=============================================================================
