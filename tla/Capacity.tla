------------------------------- MODULE Capacity -------------------------------
(***************************************************************************)
(* Placing many Spaces on the member clusters.  Two controllers choose      *)
(* clusters with a ClusterManager of their own: UserSignup for the default  *)
(* Space of a new user, through the MasterUserRecord it creates first, and  *)
(* SpaceCompletion for a Space created without a target cluster.  Between   *)
(* a choice and the moment the Space counts on its cluster lie several      *)
(* calls of three controllers.  The SpaceProvisionerConfig controller       *)
(* publishes which clusters are ready, and every change of ToolchainStatus  *)
(* wakes the oldest Space that is still waiting for a cluster.              *)
(***************************************************************************)
EXTENDS ClusterManager

CONSTANTS
    Spaces,       \* names of Spaces, each used once
    Signups,      \* those that are the default Space of a user
    RoleSets,     \* targetClusterRoles a Space may be created with
    Preferences,  \* clusters a returning user may have used before, or None
    QuietStart,   \* do users and administrators wait for the counters?
    MaxInFlight,  \* bound: placements chosen and not yet counted
    MaxEdits,     \* bound: changes of configs, clusters and memory
    MaxDeletes,   \* bound: deleted Spaces
    MaxRestarts   \* bound: restarts of the operator

ASSUME SpacesAssumption ==
    /\ IsFiniteSet(Spaces) /\ Signups \subseteq Spaces
    /\ Preferences \subseteq Clusters \cup {None}
    /\ QuietStart \in BOOLEAN /\ MaxInFlight \in Nat \ {0}
    /\ {MaxEdits, MaxDeletes, MaxRestarts} \subseteq Nat

VARIABLES
    space,     \* the Spaces, None for one that does not exist
    born,      \* names of all Spaces ever created, oldest first
    mur,       \* cluster in the MasterUserRecord of a user without a Space
    chosen,    \* choice of each controller that it has not written yet
    lastUsed,  \* the cluster each ClusterManager used last
    count,     \* cached number of Spaces of each cluster
    synced,    \* have the counters been initialised since the last start?
    ready,     \* Ready condition of the SpaceProvisionerConfigs
    usable,    \* is the config enabled and its ToolchainCluster ready?
    memory,    \* memory of each member, against maxMemoryUtilizationPercent
    reported,  \* the same in the ToolchainStatus, "absent" when it has no such member
    spcQueue,  \* work queue of the SpaceProvisionerConfig controller
    queue,     \* work queue of SpaceCompletion
    pending,   \* names in the cache of pending Spaces
    edits, deletes, restarts

spaceVars   == <<space, born, mur>>
managerVars == <<chosen, lastUsed>>
countVars   == <<count, synced>>
configVars  == <<ready, usable, spcQueue>>
statusVars  == <<memory, reported>>
wakeVars    == <<queue, pending>>
boundVars   == <<edits, deletes, restarts>>

vars == <<space, born, mur, chosen, lastUsed, count, synced, ready, usable, memory,
          reported, spcQueue, queue, pending, edits, deletes, restarts>>

-----------------------------------------------------------------------------
Space == [target: Clusters \cup {None}, roles: RoleSets \cup {{Tenant}},
          label: {"None", "pending", "assigned"},
          hosted: BOOLEAN,    \* is there an NSTemplateSet, counted on the target?
          deleting: BOOLEAN]

\* seen is the version of the Space that the controller read.
Choice == [space: Spaces, target: Clusters, seen: Space \cup {None}]

ASSUME NoneAssumption == None \notin Space \cup Choice

Managers == {"usersignup", "spacecompletion"}

Memory == {"low", "high", "unknown"}

\* The operator starts for the first time: every config is new, nothing is
\* reported about the members yet.
Init ==
    /\ space = [s \in Spaces |-> None] /\ born = <<>>
    /\ mur = [s \in Spaces |-> None]
    /\ chosen = [m \in Managers |-> None] /\ lastUsed = [m \in Managers |-> None]
    /\ count = [c \in Clusters |-> 0] /\ synced = FALSE
    /\ ready = [c \in Clusters |-> "Unknown"]
    /\ usable = [c \in Clusters |-> TRUE]
    /\ memory = [c \in Clusters |-> "low"]
    /\ reported = [c \in Clusters |-> "absent"]
    /\ spcQueue = Clusters
    /\ queue = {} /\ pending = <<>>
    /\ edits = 0 /\ deletes = 0 /\ restarts = 0

Exists(s) == space[s] # None

Created(s) == \E i \in 1..Len(born) : born[i] = s

Started == QuietStart => synced

Deleting(s) == Exists(s) /\ space[s].deleting

HostedOn(s, c) == Exists(s) /\ space[s].hosted /\ space[s].target = c

\* A place is taken for the Space and does not count yet.
InFlightTo(s, c) ==
    \/ \E m \in Managers : chosen[m] # None /\ chosen[m].space = s /\ chosen[m].target = c
    \/ mur[s] = c
    \/ Exists(s) /\ space[s].target = c /\ ~space[s].hosted /\ ~space[s].deleting

InFlight == {s \in Spaces : \E c \in Clusters : InFlightTo(s, c)}

-----------------------------------------------------------------------------
(***************************************************************************)
(* Choosing                                                                *)
(***************************************************************************)
\* GetOptimalTargetCluster called by controller m; the answer is kept with the
\* version of the Space it is meant for.
Choose(m, s, roles, preferred) ==
    LET cs == Candidates(ready, count, roles) IN
    /\ chosen[m] = None
    /\ \E c \in Optimal(cs, count, lastUsed[m], preferred) :
          IF c = None
          THEN UNCHANGED managerVars
          ELSE /\ Cardinality(InFlight) < MaxInFlight
               /\ chosen' = [chosen EXCEPT ![m] = [space |-> s, target |-> c, seen |-> space[s]]]
               /\ lastUsed' = [lastUsed EXCEPT ![m] = LastUsed(cs, @, preferred, c)]

\* UserSignup: an approved user without MasterUserRecord.
ChooseForUser(s) ==
    /\ s \in Signups /\ mur[s] = None /\ ~Created(s) /\ Started
    /\ \E p \in Preferences : Choose("usersignup", s, {Tenant}, p)
    /\ UNCHANGED <<spaceVars, countVars, configVars, statusVars, wakeVars, boundVars>>

CreateMasterUserRecord ==
    LET choice == chosen["usersignup"] IN
    /\ choice # None
    /\ mur' = [mur EXCEPT ![choice.space] = choice.target]
    /\ chosen' = [chosen EXCEPT !["usersignup"] = None]
    /\ UNCHANGED <<space, born, lastUsed, countVars, configVars, statusVars, wakeVars, boundVars>>

NewSpace(c, roles) ==
    [target |-> c, roles |-> roles, label |-> "None", hosted |-> FALSE, deleting |-> FALSE]

\* ensureSpace: the Space goes where the MasterUserRecord is.
EnsureSpace(s) ==
    /\ mur[s] # None
    /\ space' = [space EXCEPT ![s] = NewSpace(mur[s], {Tenant})]
    /\ born' = Append(born, s)
    /\ mur' = [mur EXCEPT ![s] = None]
    /\ UNCHANGED <<managerVars, countVars, configVars, statusVars, wakeVars, boundVars>>

\* A Space without target cluster, from a SpaceRequest or an administrator.
CreateSpace(s) ==
    /\ s \in Spaces \ Signups /\ ~Created(s) /\ Started
    /\ \E roles \in RoleSets : space' = [space EXCEPT ![s] = NewSpace(None, roles)]
    /\ born' = Append(born, s)
    /\ queue' = queue \cup {s}
    /\ UNCHANGED <<mur, managerVars, countVars, configVars, statusVars, pending, boundVars>>

\* SpaceCompletion: when no cluster is available the Space is left to the next
\* change of ToolchainStatus.
EnsureFields(s) ==
    /\ s \in queue /\ chosen["spacecompletion"] = None
    /\ queue' = queue \ {s}
    /\ IF Exists(s) /\ ~space[s].deleting /\ space[s].target = None
       THEN Choose("spacecompletion", s, space[s].roles, None)
       ELSE UNCHANGED managerVars
    /\ UNCHANGED <<spaceVars, countVars, configVars, statusVars, pending, boundVars>>

\* The update of an outdated version is refused and the Space is queued again.
UpdateTargetCluster ==
    LET choice == chosen["spacecompletion"] IN
    /\ choice # None
    /\ IF space[choice.space] = choice.seen
       THEN /\ space' = [space EXCEPT ![choice.space].target = choice.target]
            /\ UNCHANGED queue
       ELSE /\ queue' = queue \cup {choice.space}
            /\ UNCHANGED space
    /\ chosen' = [chosen EXCEPT !["spacecompletion"] = None]
    /\ UNCHANGED <<born, mur, lastUsed, countVars, configVars, statusVars, pending, boundVars>>

-----------------------------------------------------------------------------
(***************************************************************************)
(* The Space controller, as far as placement sees it                       *)
(***************************************************************************)
SetStateLabel(s) ==
    LET label == IF space[s].target = None THEN "pending" ELSE "assigned" IN
    /\ Exists(s) /\ ~space[s].deleting /\ space[s].label # label
    /\ space' = [space EXCEPT ![s].label = label]
    /\ UNCHANGED <<born, mur, managerVars, countVars, configVars, statusVars, wakeVars, boundVars>>

\* The NSTemplateSet is created and counted.
Provision(s) ==
    /\ Exists(s) /\ ~space[s].deleting /\ ~space[s].hosted /\ space[s].label = "assigned"
    /\ space' = [space EXCEPT ![s].hosted = TRUE]
    /\ count' = [count EXCEPT ![space[s].target] = @ + 1]
    /\ UNCHANGED <<born, mur, managerVars, synced, configVars, statusVars, wakeVars, boundVars>>

DeleteSpace(s) ==
    /\ Exists(s) /\ ~space[s].deleting /\ deletes < MaxDeletes
    /\ deletes' = deletes + 1
    /\ space' = [space EXCEPT ![s].deleting = TRUE]
    /\ UNCHANGED <<born, mur, managerVars, countVars, configVars, statusVars, wakeVars, edits,
                   restarts>>

\* DecrementSpaceCount
Decremented(n) == IF n > 0 THEN n - 1 ELSE n

\* The NSTemplateSet is deleted and no longer counted; then the Space is let go.
Deprovision(s) ==
    /\ Deleting(s)
    /\ IF space[s].hosted
       THEN /\ space' = [space EXCEPT ![s].hosted = FALSE]
            /\ count' = [count EXCEPT ![space[s].target] = Decremented(@)]
       ELSE /\ space' = [space EXCEPT ![s] = None]
            /\ UNCHANGED count
    /\ UNCHANGED <<born, mur, managerVars, synced, configVars, statusVars, wakeVars, boundVars>>

-----------------------------------------------------------------------------
(***************************************************************************)
(* Readiness of the clusters                                               *)
(***************************************************************************)
\* refreshStatus: a disabled config or a cluster that is not ready first, then
\* what ToolchainStatus and the counters say of the consumed capacity.
ReadyState(c) ==
    IF ~usable[c] THEN "False"
    ELSE IF reported[c] = "absent" THEN "Unknown"
    ELSE IF ~HasNotReachedThreshold(c, count) THEN "False"
    ELSE CASE reported[c] = "low" -> "True"
           [] reported[c] = "high" -> "False"
           [] reported[c] = "unknown" -> "Unknown"

RefreshConfig(c) ==
    /\ c \in spcQueue
    /\ spcQueue' = spcQueue \ {c}
    /\ ready' = [ready EXCEPT ![c] = ReadyState(c)]
    /\ UNCHANGED <<spaceVars, managerVars, countVars, usable, statusVars, wakeVars, boundVars>>

IsPending(s) == Exists(s) /\ space[s].label = "pending"

\* Mutant: a Space that needs no cluster any more stays in front.
FirstExistingKept(names) == names

\* getFirstExisting drops names from the front until one is pending.
FirstExisting(names) ==
    LET at == {i \in 1..Len(names) : IsPending(names[i])}
    IN  IF at = {} THEN <<>> ELSE SubSeq(names, Min(at), Len(names))

\* getOldestPendingObject: the names are listed again when none is left.
Latest ==
    IF FirstExisting(pending) # <<>> THEN FirstExisting(pending)
                                     ELSE SelectSeq(born, IsPending)

MapToOldestPending ==
    /\ pending' = Latest
    /\ queue' = IF Latest = <<>> THEN queue ELSE queue \cup {Head(Latest)}

\* Mutant: the configs do not follow ToolchainStatus.
NoConfigs == {}

\* MapToolchainStatusToSpaceProvisionerConfigs
ConfigsOfStatus == Clusters

\* ToolchainStatus is refreshed every few seconds and changes each time, by the
\* timestamps in it at least.
RefreshToolchainStatus ==
    /\ reported' = memory
    /\ spcQueue' = spcQueue \cup ConfigsOfStatus
    /\ MapToOldestPending
    /\ UNCHANGED <<spaceVars, managerVars, countVars, ready, usable, memory, boundVars>>

-----------------------------------------------------------------------------
(***************************************************************************)
(* Environment                                                             *)
(***************************************************************************)
Edit == edits < MaxEdits /\ edits' = edits + 1 /\ UNCHANGED <<deletes, restarts>>

\* The config is enabled or disabled, or its ToolchainCluster changes.
ChangeUsable(c) ==
    /\ Edit
    /\ usable' = [usable EXCEPT ![c] = ~@]
    /\ spcQueue' = spcQueue \cup {c}
    /\ UNCHANGED <<spaceVars, managerVars, countVars, ready, statusVars, wakeVars>>

ChangeMemory(c) ==
    /\ Edit
    /\ \E u \in Memory \ {memory[c]} : memory' = [memory EXCEPT ![c] = u]
    /\ UNCHANGED <<spaceVars, managerVars, countVars, configVars, reported, wakeVars>>

\* The operator restarts: everything in memory is lost, and each object is
\* queued once.
Restart ==
    /\ restarts < MaxRestarts /\ restarts' = restarts + 1
    /\ chosen' = [m \in Managers |-> None] /\ lastUsed' = [m \in Managers |-> None]
    /\ count' = [c \in Clusters |-> 0] /\ synced' = FALSE
    /\ spcQueue' = Clusters
    /\ queue' = {s \in Spaces : Exists(s)} /\ pending' = <<>>
    /\ UNCHANGED <<spaceVars, ready, usable, statusVars, edits, deletes>>

\* metrics.Synchronize counts every Space by its Spec, besides the Spaces the
\* controllers have counted already.
Synchronize ==
    /\ ~synced /\ synced' = TRUE
    /\ count' = [c \in Clusters |->
                    count[c] + Cardinality({s \in Spaces : Exists(s) /\ space[s].target = c})]
    /\ UNCHANGED <<spaceVars, managerVars, configVars, statusVars, wakeVars, boundVars>>

OfSpace(s) ==
    \/ ChooseForUser(s) \/ EnsureSpace(s) \/ EnsureFields(s)
    \/ SetStateLabel(s) \/ Provision(s) \/ Deprovision(s)

Next ==
    \/ \E s \in Spaces : OfSpace(s) \/ CreateSpace(s) \/ DeleteSpace(s)
    \/ CreateMasterUserRecord \/ UpdateTargetCluster
    \/ \E c \in Clusters : RefreshConfig(c) \/ ChangeUsable(c) \/ ChangeMemory(c)
    \/ RefreshToolchainStatus \/ Restart \/ Synchronize

Spec == Init /\ [][Next]_vars

(***************************************************************************)
(* Fairness: the work queues hand out what they hold, the controllers go   *)
(* on with what they have begun, ToolchainStatus is refreshed again and    *)
(* again.  Users, administrators and restarts are not assumed to act.      *)
(***************************************************************************)
Fairness ==
    /\ \A s \in Spaces : /\ WF_vars(EnsureSpace(s)) /\ WF_vars(EnsureFields(s))
                         /\ WF_vars(SetStateLabel(s)) /\ WF_vars(Provision(s))
                         /\ WF_vars(Deprovision(s))
    /\ WF_vars(CreateMasterUserRecord) /\ WF_vars(UpdateTargetCluster)
    /\ \A c \in Clusters : WF_vars(RefreshConfig(c))
    /\ WF_vars(RefreshToolchainStatus) /\ WF_vars(Synchronize)

FairSpec == Spec /\ Fairness

-----------------------------------------------------------------------------
(***************************************************************************)
(* Properties                                                              *)
(***************************************************************************)
Occupied(c) == {s \in Spaces : HostedOn(s, c) \/ InFlightTo(s, c)}

\* As long as the operator keeps its counters, a cluster is over-committed by
\* less than the number of placements that are in flight at the same time: a
\* choice looks only at the Spaces already counted (GetOptimalTargetCluster).
OverCommitmentBounded ==
    \A c \in Clusters : restarts = 0 /\ MaxNumberOfSpaces[c] # 0 =>
        Cardinality(Occupied(c)) <= MaxNumberOfSpaces[c] + MaxInFlight - 1

\* The controllers take turns and neither has a common memory of the last used
\* cluster; all the same each choice falls on a cluster that is least used
\* among the candidates when its Spaces are counted in whole batches.
ChosenLeastUsed ==
    [][\A m \in Managers : chosen[m] = None /\ chosen'[m] # None =>
         \A d \in Candidates(ready, count, {Tenant}) :
            ~LessUsed(d, chosen'[m].target, count)]_vars

\* When nothing changes any more, the Ready conditions agree with the members
\* and the counters.
ReadinessConverges ==
    <>[]\A c \in Clusters : /\ reported[c] = memory[c]
                            /\ ready[c] = ReadyState(c)

\* A Space without target cluster does not wait for ever while there is a
\* cluster that could take it.
Starved(s) ==
    /\ Exists(s) /\ ~space[s].deleting /\ space[s].target = None
    /\ Candidates(ready, count, space[s].roles) # {}

PendingServed == \A s \in Spaces : []<>~Starved(s)

=============================================================================
