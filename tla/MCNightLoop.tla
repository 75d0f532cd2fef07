---------------------------- MODULE MCNightLoop ----------------------------
\* Instances of NightLoop for TLC.
EXTENDS NightLoop, TLC

\* Every other set of ids is a set of names: the code orders entries and answers,
\* and no property depends on the order.  For safety only: invariants and step properties.
Symmetry ==
    Permutations(Entries) \cup Permutations(Decisions)
        \cup Permutations(Nights) \cup Permutations(Clients)
=============================================================================
