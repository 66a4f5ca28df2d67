----------------------------- MODULE MCCatalog -----------------------------
EXTENDS Catalog

\* The primary venue under an id of its own; the default venue itself, the id that the
\* debug mode uses; or two venues.
MCSecretSets ==
    {<<[id |-> 2, wallet |-> "w2", primary |-> TRUE]>>,
     <<[id |-> 1, wallet |-> "w2", primary |-> TRUE]>>,
     <<[id |-> 2, wallet |-> "w2", primary |-> FALSE],
       [id |-> 3, wallet |-> "w3", primary |-> TRUE]>>}
=============================================================================
