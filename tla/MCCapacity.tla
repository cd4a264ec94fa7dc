------------------------------ MODULE MCCapacity ------------------------------
EXTENDS Capacity

CONSTANTS m1, m2, m3, s1, s2, s3, s4, s5, s6, s7, none, tenant, gpu

One == [c \in Clusters |-> 1]

TwoAndFour == [c \in Clusters |-> IF c = m1 THEN 2 ELSE 4]

SameOrigin == Permutations(Signups) \cup Permutations(Spaces \ Signups)

AllTenant == [c \in Clusters |-> {tenant}]

=============================================================================
