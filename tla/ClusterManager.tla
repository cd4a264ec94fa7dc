---------------------------- MODULE ClusterManager ----------------------------
(***************************************************************************)
(* How a member cluster is chosen for a new Space (pkg/capacity/manager.go):*)
(* the clusters whose SpaceProvisionerConfig is ready, that are below their *)
(* threshold and have the required roles, in batches and by relative usage. *)
(* There is one SpaceProvisionerConfig per cluster.                         *)
(***************************************************************************)
EXTENDS Integers, FiniteSets, SequencesExt

CONSTANTS
    Clusters,           \* member clusters
    None,               \* the empty cluster name
    MaxNumberOfSpaces,  \* threshold of each cluster, 0 for no limit
    PlacementRoles,     \* roles of each cluster
    Tenant,             \* the role required when none is asked for
    Batch               \* 50 in the code

ASSUME ClustersAssumption ==
    /\ IsFiniteSet(Clusters) /\ None \notin Clusters
    /\ MaxNumberOfSpaces \in [Clusters -> Nat]
    /\ Batch \in Nat \ {0}

Required(roles) == IF roles = {} THEN {Tenant} ELSE roles

\* Mutant: the threshold may be reached once more.
BelowOrAtThreshold(c, counts) ==
    MaxNumberOfSpaces[c] = 0 \/ counts[c] <= MaxNumberOfSpaces[c]

HasNotReachedThreshold(c, counts) ==
    MaxNumberOfSpaces[c] = 0 \/ counts[c] < MaxNumberOfSpaces[c]

Candidates(ready, counts, roles) ==
    {c \in Clusters : /\ ready[c] = "True"
                      /\ HasNotReachedThreshold(c, counts)
                      /\ Required(roles) \subseteq PlacementRoles[c]}

RoundedDown(n) == (n \div Batch) * Batch

\* provisioned / threshold compared in floating point, where 0 / 0 is not less
\* than anything and n / 0 is infinite.
LessUsed(c, d, counts) ==
    LET p(x) == RoundedDown(counts[x])
        t(x) == MaxNumberOfSpaces[x]
    IN  /\ t(c) # 0
        /\ \/ t(d) = 0 /\ p(d) # 0
           \/ t(d) # 0 /\ p(c) * t(d) < p(d) * t(c)

\* sort.Slice sorts up to 12 candidates by insertion: each one moves
\* towards the front past those it is less used than.
Inserted(x, s, counts) ==
    LET stays == {i \in 1..Len(s) : ~LessUsed(x, s[i], counts)}
    IN  InsertAt(s, IF stays = {} THEN 1 ELSE 1 + Max(stays), x)

FirstOf(listed, counts) ==
    FoldLeft(LAMBDA s, x : Inserted(x, s, counts), <<>>, listed)[1]

\* Mutant: the last used cluster is kept when its batch is complete.
SameBatchAlways(last, cs, counts) == last \in cs

SameBatch(last, cs, counts) == last \in cs /\ counts[last] % Batch # 0

\* The possible answers of GetOptimalTargetCluster: the configs are listed from
\* a cache, in any order.
Optimal(cs, counts, last, preferred) ==
    IF cs = {} THEN {None}
    ELSE IF preferred \in cs THEN {preferred}
    ELSE IF SameBatch(last, cs, counts) THEN {last}
    ELSE {c \in cs : \E listed \in SetToSeqs(cs) : FirstOf(listed, counts) = c}

\* A preferred or a single candidate is returned without being remembered.
LastUsed(cs, last, preferred, answer) ==
    IF preferred \in cs \/ Cardinality(cs) < 2 THEN last ELSE answer

=============================================================================
