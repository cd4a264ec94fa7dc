------------------------------- MODULE MCRequests -------------------------------
EXTENDS SpaceRequests

CONSTANTS t1, t2, t3, m1, m2

\* The first name is taken, or the cache of Spaces lags behind; or both, when the name may
\* become free while the cache still shows it taken.
TakenOrBehind ==
    {[lag |-> FALSE, taken |-> {1}, kinds |-> Kinds, edits |-> 2, faults |-> 1],
     [lag |-> TRUE, taken |-> {}, kinds |-> Kinds, edits |-> 2, faults |-> 1],
     [lag |-> TRUE, taken |-> {1}, kinds |-> {"name", "removal"}, edits |-> 2, faults |-> 1]}

=============================================================================
