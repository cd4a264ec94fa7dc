-------------------------------- MODULE MCUsers --------------------------------
EXTENDS UserLifecycle

\* Two changes; with time a change or a failure; a change and a failure; one change with caches
\* that lag.
Lives ==
    {[lag |-> FALSE, time |-> FALSE, kinds |-> Kinds, edits |-> 2, faults |-> 0],
     [lag |-> FALSE, time |-> TRUE, kinds |-> Kinds, edits |-> 1, faults |-> 0],
     [lag |-> FALSE, time |-> TRUE, kinds |-> {}, edits |-> 0, faults |-> 1],
     [lag |-> FALSE, time |-> FALSE, kinds |-> Kinds, edits |-> 1, faults |-> 1],
     [lag |-> TRUE, time |-> FALSE, kinds |-> Kinds, edits |-> 1, faults |-> 0]}

=============================================================================
