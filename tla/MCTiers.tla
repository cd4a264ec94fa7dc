--------------------------------- MODULE MCTiers ---------------------------------
EXTENDS TierRevisions

CONSTANTS t1, t2

=============================================================================
