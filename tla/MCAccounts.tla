------------------------------- MODULE MCAccounts -------------------------------
EXTENDS MasterUserRecords

CONSTANTS m1, m2, x1

=============================================================================
