------------------------------- MODULE MCBindings -------------------------------
EXTENDS SpaceBindingRequests

CONSTANTS r1, r2, admin, view, root

\* Two changes; a change and a failure with caches of the host that lag.
Smallest == {[lag |-> FALSE, edits |-> 2, faults |-> 0], [lag |-> TRUE, edits |-> 1, faults |-> 1]}
=============================================================================
