--------------------------- MODULE Capacity_proofs ---------------------------
(***************************************************************************)
(* Over-commitment of a cluster is bounded by the placements in flight, for *)
(* any number of clusters, Spaces, thresholds and changes.                  *)
(***************************************************************************)
EXTENDS Capacity, FiniteSetTheorems, TLAPS

-----------------------------------------------------------------------------
(***************************************************************************)
(* Strengthening: Spaces count at most once, and only where they are sent. *)
(***************************************************************************)
Hosted(c) == {s \in Spaces : HostedOn(s, c)}

PlaceTypes ==
    /\ space \in [Spaces -> Space \cup {None}]
    /\ mur \in [Spaces -> Clusters \cup {None}]
    /\ chosen \in [Managers -> Choice \cup {None}]
    /\ count \in [Clusters -> Nat]
    /\ restarts \in Nat

\* A Space is labelled and provisioned only with a target cluster.
TargetFirst ==
    \A s \in Spaces : Exists(s) /\ (space[s].hosted \/ space[s].label = "assigned")
                         => space[s].target # None

\* SpaceCompletion chooses for Spaces that it read without target cluster.
ChosenForUntargeted ==
    LET choice == chosen["spacecompletion"] IN
    choice # None => /\ choice.seen \in Space
                     /\ choice.seen.target = None
                     /\ ~choice.seen.hosted /\ choice.seen.label # "assigned"

PlaceInv == PlaceTypes /\ TargetFirst /\ ChosenForUntargeted

Counted == \A c \in Clusters : Cardinality(Hosted(c)) <= count[c]

Bounded == \A c \in Clusters :
    MaxNumberOfSpaces[c] # 0 => Cardinality(Occupied(c)) <= MaxNumberOfSpaces[c] + MaxInFlight - 1

CapacityInv == PlaceInv /\ (restarts = 0 => Counted /\ Bounded)

-----------------------------------------------------------------------------
(***************************************************************************)
(* Finite sets of Spaces                                                   *)
(***************************************************************************)
LEMMA Smaller ==
    ASSUME NEW S \in SUBSET Spaces, NEW T \in SUBSET S
    PROVE  /\ Cardinality(S) \in Nat /\ Cardinality(T) \in Nat
           /\ Cardinality(T) <= Cardinality(S)
<1>1. IsFiniteSet(S) /\ IsFiniteSet(T)
  BY SpacesAssumption, FS_Subset DEF SpacesAssumption
<1> QED
  BY <1>1, FS_Subset, FS_CardinalityType

LEMMA OneMore ==
    ASSUME NEW S \in SUBSET Spaces, NEW s \in Spaces, NEW T \in SUBSET (S \cup {s})
    PROVE  /\ Cardinality(S) \in Nat /\ Cardinality(T) \in Nat
           /\ Cardinality(T) <= Cardinality(S) + 1
<1>1. IsFiniteSet(S)
  BY SpacesAssumption, FS_Subset DEF SpacesAssumption
<1>2. Cardinality(S) \in Nat
  BY <1>1, FS_CardinalityType
<1>3. IsFiniteSet(S \cup {s}) /\ Cardinality(S \cup {s}) \in {Cardinality(S), Cardinality(S) + 1}
  BY <1>1, FS_AddElement
<1>4. Cardinality(T) \in Nat /\ Cardinality(T) <= Cardinality(S \cup {s})
  BY <1>3, FS_Subset, FS_CardinalityType
<1> QED
  BY <1>2, <1>3, <1>4

LEMMA OneLess ==
    ASSUME NEW S \in SUBSET Spaces, NEW s \in S, NEW T \in SUBSET (S \ {s})
    PROVE  /\ Cardinality(S) \in Nat /\ Cardinality(T) \in Nat
           /\ Cardinality(T) <= Cardinality(S) - 1
<1>1. IsFiniteSet(S)
  BY SpacesAssumption, FS_Subset DEF SpacesAssumption
<1>2. Cardinality(S \ {s}) = Cardinality(S) - 1
  BY <1>1, FS_RemoveElement
<1> QED
  BY <1>1, <1>2, Smaller, FS_CardinalityType

LEMMA TwoParts ==
    ASSUME NEW S \in SUBSET Spaces, NEW U \in SUBSET Spaces, NEW s \in Spaces,
           NEW T \in SUBSET (S \cup U \cup {s})
    PROVE  /\ Cardinality(S) \in Nat /\ Cardinality(U) \in Nat /\ Cardinality(T) \in Nat
           /\ Cardinality(T) <= Cardinality(S) + Cardinality(U) + 1
<1>1. IsFiniteSet(S) /\ IsFiniteSet(U)
  BY SpacesAssumption, FS_Subset DEF SpacesAssumption
<1>2. /\ Cardinality(S) \in Nat /\ Cardinality(U) \in Nat
      /\ Cardinality(S \cap U) \in Nat
  BY <1>1, FS_CardinalityType, FS_Subset
<1>3. Cardinality(S \cup U) = Cardinality(S) + Cardinality(U) - Cardinality(S \cap U)
  BY <1>1, FS_Union
<1>4. Cardinality(S \cup U) <= Cardinality(S) + Cardinality(U)
  BY <1>2, <1>3
<1>5. Cardinality(T) \in Nat /\ Cardinality(T) <= Cardinality(S \cup U) + 1
  BY OneMore
<1>6. Cardinality(S \cup U) \in Nat
  BY OneMore
<1> QED
  BY <1>2, <1>4, <1>5, <1>6

-----------------------------------------------------------------------------
(***************************************************************************)
(* The choice                                                              *)
(***************************************************************************)
LEMMA OptimalIsCandidate ==
    ASSUME NEW cs, NEW counts, NEW last, NEW preferred,
           NEW c \in Optimal(cs, counts, last, preferred)
    PROVE  c \in cs \cup {None}
BY DEF Optimal, SameBatch

\* A new choice is for a candidate, and one place at least was free in the bound.
LEMMA ChooseResult ==
    ASSUME NEW m \in Managers, NEW s \in Spaces, NEW roles, NEW preferred,
           Choose(m, s, roles, preferred), chosen' # chosen
    PROVE  \E c \in Candidates(ready, count, roles) :
              /\ Cardinality(InFlight) < MaxInFlight
              /\ chosen' = [chosen EXCEPT ![m] = [space |-> s, target |-> c, seen |-> space[s]]]
BY OptimalIsCandidate DEF Choose, managerVars

-----------------------------------------------------------------------------
(***************************************************************************)
(* Every step keeps the types and what they say of targets.                *)
(***************************************************************************)
LEMMA InitPlaceInv == Init => PlaceInv
BY SpacesAssumption DEF SpacesAssumption, Init, PlaceInv, PlaceTypes, TargetFirst,
                        ChosenForUntargeted, Exists, Managers

LEMMA NewSpaceType ==
    ASSUME NEW c \in Clusters \cup {None}, NEW roles \in RoleSets \cup {{Tenant}}
    PROVE  NewSpace(c, roles) \in Space
BY DEF NewSpace, Space

LEMMA NoneIsNoSpace == \A o \in Space : o # None
BY NoneAssumption

LEMMA ChoosePlaceInv ==
    ASSUME PlaceInv, NEW m \in Managers, NEW s \in Spaces, NEW roles, NEW preferred,
           Choose(m, s, roles, preferred),
           m = "spacecompletion" => Exists(s) /\ space[s].target = None,
           UNCHANGED <<space, mur, count, restarts>>
    PROVE  PlaceInv'
<1>1. CASE chosen' = chosen
  BY <1>1 DEF PlaceInv, PlaceTypes, TargetFirst, ChosenForUntargeted, Exists
<1>2. CASE chosen' # chosen
  <2>1. PICK c \in Clusters :
           chosen' = [chosen EXCEPT ![m] = [space |-> s, target |-> c, seen |-> space[s]]]
    BY <1>2, ChooseResult DEF Candidates
  <2>2. [space |-> s, target |-> c, seen |-> space[s]] \in Choice
    BY DEF Choice, PlaceInv, PlaceTypes
  <2>3. PlaceTypes'
    BY <2>1, <2>2 DEF PlaceInv, PlaceTypes
  <2>4. TargetFirst'
    BY DEF PlaceInv, TargetFirst, Exists
  <2>5. ChosenForUntargeted'
    <3>1. CASE m = "spacecompletion"
      <4>1. space[s] \in Space /\ space[s].target = None
        BY <3>1 DEF Exists, PlaceInv, PlaceTypes
      <4>2. ~space[s].hosted /\ space[s].label # "assigned"
        BY <3>1, <4>1 DEF PlaceInv, TargetFirst, Exists
      <4> QED
        BY <2>1, <3>1, <4>1, <4>2 DEF ChosenForUntargeted, PlaceInv, PlaceTypes
    <3>2. CASE m # "spacecompletion"
      BY <2>1, <3>2 DEF ChosenForUntargeted, PlaceInv, PlaceTypes
    <3> QED
      BY <3>1, <3>2
  <2> QED
    BY <2>3, <2>4, <2>5 DEF PlaceInv
<1> QED
  BY <1>1, <1>2

LEMMA NextPlaceInv ==
    ASSUME PlaceInv, Next
    PROVE  PlaceInv'
<1> USE DEF PlaceInv, PlaceTypes
<1>1. ASSUME NEW s \in Spaces, ChooseForUser(s)
      PROVE  PlaceInv'
  <2>1. PICK p \in Preferences : Choose("usersignup", s, {Tenant}, p)
    BY <1>1 DEF ChooseForUser
  <2>2. UNCHANGED <<space, mur, count, restarts>> /\ "usersignup" \in Managers
    BY <1>1 DEF ChooseForUser, spaceVars, countVars, boundVars, Managers
  <2> QED
    BY <2>1, <2>2, ChoosePlaceInv
<1>2. CASE CreateMasterUserRecord
  <2>1. chosen["usersignup"].target \in Clusters /\ chosen["usersignup"].space \in Spaces
    BY <1>2 DEF CreateMasterUserRecord, Choice, Managers
  <2>2. PlaceTypes'
    BY <1>2, <2>1 DEF CreateMasterUserRecord, countVars, boundVars
  <2> QED
    BY <1>2, <2>2 DEF CreateMasterUserRecord, TargetFirst, ChosenForUntargeted, Exists
<1>3. ASSUME NEW s \in Spaces, EnsureSpace(s)
      PROVE  PlaceInv'
  <2>1. mur[s] \in Clusters /\ NewSpace(mur[s], {Tenant}) \in Space
    BY <1>3, NewSpaceType DEF EnsureSpace
  <2>2. PlaceTypes'
    BY <1>3, <2>1 DEF EnsureSpace, managerVars, countVars, boundVars
  <2>3. TargetFirst'
    BY <1>3, <2>1, ClustersAssumption DEF ClustersAssumption, EnsureSpace, TargetFirst, Exists, NewSpace
  <2> QED
    BY <1>3, <2>2, <2>3 DEF EnsureSpace, managerVars, ChosenForUntargeted
<1>4. ASSUME NEW s \in Spaces, CreateSpace(s)
      PROVE  PlaceInv'
  <2>1. PICK roles \in RoleSets : space' = [space EXCEPT ![s] = NewSpace(None, roles)]
    BY <1>4 DEF CreateSpace
  <2>2. PlaceTypes'
    BY <1>4, <2>1, NewSpaceType DEF CreateSpace, managerVars, countVars, boundVars
  <2>3. TargetFirst'
    BY <2>1 DEF TargetFirst, Exists, NewSpace
  <2> QED
    BY <1>4, <2>2, <2>3 DEF CreateSpace, managerVars, ChosenForUntargeted
<1>5. ASSUME NEW s \in Spaces, EnsureFields(s)
      PROVE  PlaceInv'
  <2>1. UNCHANGED <<space, mur, count, restarts>> /\ "spacecompletion" \in Managers
    BY <1>5 DEF EnsureFields, spaceVars, countVars, boundVars, Managers
  <2>2. CASE Exists(s) /\ ~space[s].deleting /\ space[s].target = None
    <3>1. Choose("spacecompletion", s, space[s].roles, None)
      BY <1>5, <2>2 DEF EnsureFields
    <3> QED
      BY <2>1, <2>2, <3>1, ChoosePlaceInv
  <2>3. CASE UNCHANGED chosen
    BY <2>1, <2>3 DEF TargetFirst, ChosenForUntargeted, Exists
  <2> QED
    BY <1>5, <2>2, <2>3 DEF EnsureFields, managerVars
<1>6. CASE UpdateTargetCluster
  <2>1. DEFINE choice == chosen["spacecompletion"]
  <2>2. /\ choice \in Choice /\ choice # None
        /\ chosen' = [chosen EXCEPT !["spacecompletion"] = None]
        /\ UNCHANGED <<mur, count, restarts>>
    BY <1>6 DEF UpdateTargetCluster, countVars, boundVars, Managers
  <2>3. PICK s \in Spaces, d \in Clusters : s = choice.space /\ d = choice.target
    BY <2>2 DEF Choice
  <2>4. chosen' \in [Managers -> Choice \cup {None}] /\ ChosenForUntargeted'
    BY <2>2 DEF ChosenForUntargeted, Managers
  <2>5. CASE space[s] = choice.seen
    <3>1. /\ space[s] \in Space /\ ~space[s].hosted /\ space[s].label # "assigned"
      BY <2>2, <2>5 DEF ChosenForUntargeted
    <3>2. space' = [space EXCEPT ![s] = [space[s] EXCEPT !.target = d]]
      BY <1>6, <2>3, <2>5 DEF UpdateTargetCluster
    <3>3. [space[s] EXCEPT !.target = d] \in Space
      BY <2>3, <3>1 DEF Space
    <3>4. TargetFirst'
      <4>1. /\ ~space'[s].hosted /\ space'[s].label # "assigned"
            /\ \A t \in Spaces \ {s} : space'[t] = space[t]
        BY <2>3, <3>1, <3>2 DEF Space
      <4> QED
        BY <4>1 DEF TargetFirst, Exists
    <3> QED
      BY <2>2, <2>4, <3>2, <3>3, <3>4
  <2>6. CASE UNCHANGED space
    BY <2>2, <2>4, <2>6 DEF TargetFirst, Exists
  <2> QED
    BY <1>6, <2>3, <2>5, <2>6 DEF UpdateTargetCluster
<1>7. ASSUME NEW s \in Spaces, SetStateLabel(s) \/ Provision(s) \/ DeleteSpace(s) \/ Deprovision(s)
      PROVE  PlaceInv'
  <2>1. space[s] \in Space
    BY <1>7 DEF SetStateLabel, Provision, DeleteSpace, Deprovision, Deleting, Exists
  <2>2. UNCHANGED <<mur, chosen, restarts>>
    BY <1>7 DEF SetStateLabel, Provision, DeleteSpace, Deprovision, managerVars, boundVars
  <2>3. CASE SetStateLabel(s)
    <3>1. PICK label \in {"pending", "assigned"} :
             /\ space' = [space EXCEPT ![s].label = label]
             /\ label = "assigned" => space[s].target # None
      BY <2>3 DEF SetStateLabel
    <3>2. [space[s] EXCEPT !.label = label] \in Space
      BY <2>1 DEF Space
    <3>3. count' = count
      BY <2>3 DEF SetStateLabel, countVars
    <3>4. PlaceTypes'
      BY <2>2, <3>1, <3>2, <3>3
    <3>5. TargetFirst'
      <4>1. /\ space'[s].target = space[s].target /\ space'[s].hosted = space[s].hosted
            /\ space'[s].label = label
        BY <2>1, <3>1 DEF Space
      <4>2. \A t \in Spaces \ {s} : space'[t] = space[t]
        BY <3>1
      <4> QED
        BY <2>1, <3>1, <4>1, <4>2, NoneIsNoSpace DEF TargetFirst, Exists
    <3> QED
      BY <2>2, <3>4, <3>5 DEF ChosenForUntargeted
  <2>4. CASE Provision(s)
    <3>1. space[s].target \in Clusters
      BY <2>1, <2>4 DEF Provision, TargetFirst, Space
    <3>2. space' = [space EXCEPT ![s] = [space[s] EXCEPT !.hosted = TRUE]]
      BY <2>4 DEF Provision
    <3>3. [space[s] EXCEPT !.hosted = TRUE] \in Space
      BY <2>1 DEF Space
    <3>4. count' \in [Clusters -> Nat]
      BY <2>4, <3>1 DEF Provision
    <3>5. TargetFirst'
      BY <2>1, <3>1, <3>2, ClustersAssumption DEF ClustersAssumption, TargetFirst, Exists, Space
    <3> QED
      BY <2>2, <3>2, <3>3, <3>4, <3>5 DEF ChosenForUntargeted
  <2>5. CASE DeleteSpace(s)
    <3>1. [space[s] EXCEPT !.deleting = TRUE] \in Space
      BY <2>1 DEF Space
    <3>2. count' = count
      BY <2>5 DEF DeleteSpace, countVars
    <3>3. TargetFirst'
      BY <2>1, <2>5 DEF DeleteSpace, TargetFirst, Exists, Space
    <3> QED
      BY <2>2, <2>5, <3>1, <3>2, <3>3 DEF DeleteSpace, ChosenForUntargeted
  <2>6. CASE Deprovision(s)
    <3>1. count' \in [Clusters -> Nat]
      BY <2>1, <2>6 DEF Deprovision, Decremented, Space
    <3>2. space' \in [Spaces -> Space \cup {None}]
      <4>1. [space[s] EXCEPT !.hosted = FALSE] \in Space
        BY <2>1 DEF Space
      <4> QED
        BY <2>6, <4>1 DEF Deprovision
    <3>3. TargetFirst'
      <4>1. \A t \in Spaces \ {s} : space'[t] = space[t]
        BY <2>6 DEF Deprovision
      <4>2. \/ space'[s] = None
            \/ space'[s].target = space[s].target /\ space'[s].label = space[s].label /\ space[s].hosted
        BY <2>1, <2>6 DEF Deprovision, Space
      <4> QED
        BY <2>1, <4>1, <4>2, NoneIsNoSpace DEF TargetFirst, Exists
    <3> QED
      BY <2>2, <3>1, <3>2, <3>3 DEF ChosenForUntargeted
  <2> QED
    BY <1>7, <2>3, <2>4, <2>5, <2>6
<1>8. ASSUME NEW c \in Clusters, RefreshConfig(c) \/ ChangeUsable(c) \/ ChangeMemory(c)
      PROVE  PlaceInv'
  BY <1>8 DEF RefreshConfig, ChangeUsable, ChangeMemory, Edit, spaceVars, managerVars, countVars,
              boundVars, TargetFirst, ChosenForUntargeted, Exists
<1>9. CASE RefreshToolchainStatus
  BY <1>9 DEF RefreshToolchainStatus, spaceVars, managerVars, countVars, boundVars, TargetFirst,
              ChosenForUntargeted, Exists
<1>10. CASE Restart
  BY <1>10 DEF Restart, spaceVars, TargetFirst, ChosenForUntargeted, Exists, Managers
<1>11. CASE Synchronize
  <2>1. \A c \in Clusters : Cardinality({s \in Spaces : Exists(s) /\ space[s].target = c}) \in Nat
    BY Smaller
  <2>2. count' \in [Clusters -> Nat]
    BY <1>11, <2>1 DEF Synchronize
  <2> QED
    BY <1>11, <2>2 DEF Synchronize, spaceVars, managerVars, boundVars, TargetFirst,
                       ChosenForUntargeted, Exists
<1> QED
  BY <1>1, <1>2, <1>3, <1>4, <1>5, <1>6, <1>7, <1>8, <1>9, <1>10, <1>11 DEF Next, OfSpace

-----------------------------------------------------------------------------
(***************************************************************************)
(* Over-commitment                                                         *)
(***************************************************************************)
\* Steps that move no Space to another cluster and lower no counter.
LEMMA NothingGained ==
    ASSUME PlaceInv, PlaceInv', Counted, Bounded,
           \A c \in Clusters : /\ Hosted(c)' \subseteq Hosted(c) /\ count'[c] >= count[c]
                              /\ Occupied(c)' \subseteq Occupied(c)
    PROVE  Counted' /\ Bounded'
<1>1. ASSUME NEW c \in Clusters
      PROVE  /\ Cardinality(Hosted(c)') <= count'[c]
             /\ MaxNumberOfSpaces[c] # 0 =>
                   Cardinality(Occupied(c)') <= MaxNumberOfSpaces[c] + MaxInFlight - 1
  <2>1. Hosted(c) \in SUBSET Spaces /\ Occupied(c) \in SUBSET Spaces
    BY DEF Hosted, Occupied
  <2>2. /\ Cardinality(Hosted(c)) \in Nat /\ Cardinality(Hosted(c)') \in Nat
        /\ Cardinality(Hosted(c)') <= Cardinality(Hosted(c))
    BY <2>1, Smaller
  <2>3. /\ Cardinality(Occupied(c)) \in Nat /\ Cardinality(Occupied(c)') \in Nat
        /\ Cardinality(Occupied(c)') <= Cardinality(Occupied(c))
    BY <2>1, Smaller
  <2>4. /\ count[c] \in Nat /\ count'[c] \in Nat
        /\ MaxNumberOfSpaces[c] \in Nat /\ MaxInFlight \in Nat
    BY ClustersAssumption, SpacesAssumption
    DEF ClustersAssumption, SpacesAssumption, PlaceInv, PlaceTypes
  <2> QED
    BY <2>2, <2>3, <2>4 DEF Counted, Bounded
<1> QED
  BY <1>1 DEF Counted, Bounded

\* A choice adds one Space to a cluster that is below its threshold.
LEMMA ChooseBound ==
    ASSUME PlaceInv, Counted, Bounded, NEW m \in Managers, NEW s \in Spaces,
           NEW roles, NEW preferred, Choose(m, s, roles, preferred),
           UNCHANGED <<space, mur, count>>
    PROVE  Counted' /\ Bounded'
<1>1. Counted'
  BY DEF Counted, Hosted, HostedOn, Exists
<1>2. CASE chosen' = chosen
  BY <1>1, <1>2 DEF Bounded, Occupied, HostedOn, InFlightTo, Exists
<1>3. CASE chosen' # chosen
  <2>1. PICK d \in Candidates(ready, count, roles) :
           /\ Cardinality(InFlight) < MaxInFlight
           /\ chosen' = [chosen EXCEPT ![m] = [space |-> s, target |-> d, seen |-> space[s]]]
    BY <1>3, ChooseResult
  <2>2. d \in Clusters /\ (MaxNumberOfSpaces[d] = 0 \/ count[d] < MaxNumberOfSpaces[d])
    BY <2>1 DEF Candidates, HasNotReachedThreshold
  <2>3. ASSUME NEW c \in Clusters, NEW t \in Spaces, InFlightTo(t, c)'
        PROVE  InFlightTo(t, c) \/ (t = s /\ c = d)
    <3>1. CASE mur'[t] = c \/ (Exists(t) /\ space[t].target = c /\ ~space[t].hosted /\ ~space[t].deleting)'
      BY <3>1 DEF InFlightTo, Exists
    <3>2. ASSUME NEW n \in Managers, chosen'[n] # None, chosen'[n].space = t, chosen'[n].target = c
          PROVE  InFlightTo(t, c) \/ (t = s /\ c = d)
      <4>1. CASE n = m
        BY <2>1, <3>2, <4>1 DEF PlaceInv, PlaceTypes
      <4>2. CASE n # m
        BY <2>1, <3>2, <4>2 DEF InFlightTo, PlaceInv, PlaceTypes
      <4> QED
        BY <4>1, <4>2
    <3> QED
      BY <2>3, <3>1, <3>2 DEF InFlightTo
  <2>4. ASSUME NEW c \in Clusters, MaxNumberOfSpaces[c] # 0
        PROVE  Cardinality(Occupied(c)') <= MaxNumberOfSpaces[c] + MaxInFlight - 1
    <3>1. CASE c # d
      <4>1. Occupied(c)' \subseteq Occupied(c) /\ Occupied(c) \in SUBSET Spaces
        BY <2>3, <3>1 DEF Occupied, HostedOn, Exists
      <4>2. /\ Cardinality(Occupied(c)) \in Nat /\ Cardinality(Occupied(c)') \in Nat
            /\ Cardinality(Occupied(c)') <= Cardinality(Occupied(c))
        BY <4>1, Smaller
      <4> QED
        BY <2>4, <4>2, ClustersAssumption, SpacesAssumption
        DEF Bounded, ClustersAssumption, SpacesAssumption
    <3>2. CASE c = d
      <4>1. Occupied(c)' \subseteq Hosted(c) \cup InFlight \cup {s}
        BY <2>3 DEF Occupied, Hosted, HostedOn, InFlight, Exists
      <4>2. Hosted(c) \in SUBSET Spaces /\ InFlight \in SUBSET Spaces
        BY DEF Hosted, InFlight
      <4>3. /\ Cardinality(Hosted(c)) \in Nat /\ Cardinality(InFlight) \in Nat
            /\ Cardinality(Occupied(c)') \in Nat
            /\ Cardinality(Occupied(c)') <= Cardinality(Hosted(c)) + Cardinality(InFlight) + 1
        BY <4>1, <4>2, TwoParts
      <4>4. Cardinality(Hosted(c)) <= count[c] /\ count[c] < MaxNumberOfSpaces[c]
        BY <2>2, <2>4, <3>2 DEF Counted
      <4>5. count[c] \in Nat /\ MaxNumberOfSpaces[c] \in Nat /\ MaxInFlight \in Nat
        BY ClustersAssumption, SpacesAssumption
        DEF ClustersAssumption, SpacesAssumption, PlaceInv, PlaceTypes
      <4> QED
        BY <2>1, <4>3, <4>4, <4>5
    <3> QED
      BY <3>1, <3>2
  <2> QED
    BY <1>1, <2>4 DEF Bounded
<1> QED
  BY <1>2, <1>3

LEMMA InitCapacityInv == Init => CapacityInv
<1> SUFFICES ASSUME Init PROVE Counted /\ Bounded
  BY InitPlaceInv DEF CapacityInv
<1>1. \A c \in Clusters : Hosted(c) = {} /\ Occupied(c) = {}
  BY ClustersAssumption DEF ClustersAssumption, Init, Hosted, Occupied, HostedOn, InFlightTo, Exists
<1>2. \A c \in Clusters : Cardinality(Hosted(c)) = 0 /\ Cardinality(Occupied(c)) = 0
  BY <1>1, FS_EmptySet
<1> QED
  BY <1>2, ClustersAssumption, SpacesAssumption
  DEF ClustersAssumption, SpacesAssumption, Init, Counted, Bounded

LEMMA NextCounts ==
    ASSUME PlaceInv, PlaceInv', Counted, Bounded, Next, restarts' = 0, restarts = 0
    PROVE  Counted' /\ Bounded'
<1>0. \A c \in Clusters : count[c] \in Nat /\ count'[c] \in Nat
  BY DEF PlaceInv, PlaceTypes
<1>1. ASSUME NEW s \in Spaces, ChooseForUser(s) PROVE Counted' /\ Bounded'
  <2>1. PICK p \in Preferences : Choose("usersignup", s, {Tenant}, p)
    BY <1>1 DEF ChooseForUser
  <2> QED
    BY <1>1, <2>1, ChooseBound DEF ChooseForUser, spaceVars, countVars, Managers
<1>2. ASSUME NEW s \in Spaces, EnsureFields(s) PROVE Counted' /\ Bounded'
  <2>1. UNCHANGED <<space, mur, count>> /\ "spacecompletion" \in Managers
    BY <1>2 DEF EnsureFields, spaceVars, countVars, Managers
  <2>2. CASE UNCHANGED chosen
    BY <2>1, <2>2, <1>0, NothingGained DEF Hosted, HostedOn, Occupied, InFlightTo, Exists
  <2>3. CASE Choose("spacecompletion", s, space[s].roles, None)
    BY <2>1, <2>3, ChooseBound
  <2> QED
    BY <1>2, <2>2, <2>3 DEF EnsureFields, managerVars
<1>3. CASE CreateMasterUserRecord
  <2>1. /\ chosen["usersignup"] \in Choice /\ chosen["usersignup"] # None
        /\ mur' = [mur EXCEPT ![chosen["usersignup"].space] = chosen["usersignup"].target]
        /\ chosen' = [chosen EXCEPT !["usersignup"] = None]
        /\ UNCHANGED <<space, count>>
    BY <1>3 DEF CreateMasterUserRecord, countVars, PlaceInv, PlaceTypes, Managers
  <2>2. \A c \in Clusters, s \in Spaces : InFlightTo(s, c)' => InFlightTo(s, c)
    BY <2>1 DEF InFlightTo, Exists, PlaceInv, PlaceTypes, Managers
  <2> QED
    BY <1>0, <2>1, <2>2, NothingGained DEF Hosted, HostedOn, Occupied, Exists
<1>4. ASSUME NEW s \in Spaces, EnsureSpace(s) PROVE Counted' /\ Bounded'
  <2>1. /\ mur[s] \in Clusters
        /\ space' = [space EXCEPT ![s] = NewSpace(mur[s], {Tenant})]
        /\ mur' = [mur EXCEPT ![s] = None]
        /\ UNCHANGED <<chosen, count>>
    BY <1>4 DEF EnsureSpace, managerVars, countVars, PlaceInv, PlaceTypes
  <2>2. \A c \in Clusters, t \in Spaces : InFlightTo(t, c)' => InFlightTo(t, c)
    BY <2>1, ClustersAssumption
    DEF ClustersAssumption, InFlightTo, Exists, NewSpace, PlaceInv, PlaceTypes
  <2>3. \A c \in Clusters, t \in Spaces : HostedOn(t, c)' => HostedOn(t, c)
    BY <2>1 DEF HostedOn, Exists, NewSpace, PlaceInv, PlaceTypes
  <2> QED
    BY <1>0, <2>1, <2>2, <2>3, NothingGained DEF Hosted, Occupied
<1>5. ASSUME NEW s \in Spaces, CreateSpace(s) PROVE Counted' /\ Bounded'
  <2>1. PICK roles \in RoleSets : /\ space' = [space EXCEPT ![s] = NewSpace(None, roles)]
                                  /\ UNCHANGED <<mur, chosen, count>>
    BY <1>5 DEF CreateSpace, managerVars, countVars
  <2>2. \A c \in Clusters, t \in Spaces : InFlightTo(t, c)' => InFlightTo(t, c)
    BY <2>1, ClustersAssumption
    DEF ClustersAssumption, InFlightTo, Exists, NewSpace, PlaceInv, PlaceTypes
  <2>3. \A c \in Clusters, t \in Spaces : HostedOn(t, c)' => HostedOn(t, c)
    BY <2>1 DEF HostedOn, Exists, NewSpace, PlaceInv, PlaceTypes
  <2> QED
    BY <1>0, <2>1, <2>2, <2>3, NothingGained DEF Hosted, Occupied
<1>6. CASE UpdateTargetCluster
  <2>1. DEFINE choice == chosen["spacecompletion"]
  <2>2. /\ choice \in Choice /\ choice # None
        /\ chosen' = [chosen EXCEPT !["spacecompletion"] = None]
        /\ UNCHANGED <<mur, count>>
    BY <1>6 DEF UpdateTargetCluster, countVars, PlaceInv, PlaceTypes, Managers
  <2>3. PICK s \in Spaces, d \in Clusters : s = choice.space /\ d = choice.target
    BY <2>2 DEF Choice
  <2>4. \A c \in Clusters, t \in Spaces : /\ InFlightTo(t, c)' => InFlightTo(t, c)
                                          /\ HostedOn(t, c)' => HostedOn(t, c)
    <3>1. CASE space[choice.space] = choice.seen
      <4>1. /\ space[s] \in Space /\ ~space[s].hosted
        BY <2>2, <2>3, <3>1 DEF PlaceInv, ChosenForUntargeted
      <4>2. space' = [space EXCEPT ![s].target = d]
        BY <1>6, <2>3, <3>1 DEF UpdateTargetCluster
      <4>3. /\ space'[s].target = d
            /\ ~space'[s].hosted
            /\ \A t \in Spaces \ {s} : space'[t] = space[t]
        BY <2>3, <4>1, <4>2 DEF Space, PlaceInv, PlaceTypes
      <4>4. ASSUME NEW c \in Clusters, InFlightTo(s, c)' PROVE InFlightTo(s, c)
        <5>1. CASE c = d
          BY <2>2, <2>3, <5>1 DEF InFlightTo, Managers
        <5>2. CASE c # d
          BY <2>2, <4>3, <4>4, <5>2 DEF InFlightTo, Exists, Managers, PlaceInv, PlaceTypes
        <5> QED
          BY <5>1, <5>2
      <4>5. ASSUME NEW c \in Clusters, NEW t \in Spaces \ {s}, InFlightTo(t, c)'
            PROVE  InFlightTo(t, c)
        BY <2>2, <4>3, <4>5 DEF InFlightTo, Exists, Managers, PlaceInv, PlaceTypes
      <4>6. ASSUME NEW c \in Clusters, NEW t \in Spaces, HostedOn(t, c)' PROVE HostedOn(t, c)
        BY <4>3, <4>6 DEF HostedOn, Exists
      <4> QED
        BY <4>4, <4>5, <4>6
    <3>2. CASE UNCHANGED space
      BY <2>2, <3>2 DEF InFlightTo, HostedOn, Exists, Managers, PlaceInv, PlaceTypes
    <3> QED
      BY <1>6, <3>1, <3>2 DEF UpdateTargetCluster
  <2> QED
    BY <1>0, <2>2, <2>4, NothingGained DEF Hosted, Occupied
<1>7. ASSUME NEW s \in Spaces, SetStateLabel(s) \/ DeleteSpace(s) PROVE Counted' /\ Bounded'
  <2>1. UNCHANGED <<mur, chosen, count>>
    BY <1>7 DEF SetStateLabel, DeleteSpace, managerVars, countVars
  <2>2. space[s] \in Space
    BY <1>7 DEF SetStateLabel, DeleteSpace, Exists, PlaceInv, PlaceTypes
  <2>3. /\ space'[s].target = space[s].target /\ space'[s].hosted = space[s].hosted
        /\ space[s].deleting => space'[s].deleting
        /\ \A t \in Spaces \ {s} : space'[t] = space[t]
    BY <1>7, <2>2 DEF SetStateLabel, DeleteSpace, Space, PlaceInv, PlaceTypes
  <2>4. space[s] # None
    BY <1>7 DEF SetStateLabel, DeleteSpace, Exists
  <2>5. \A c \in Clusters, t \in Spaces : /\ InFlightTo(t, c)' => InFlightTo(t, c)
                                          /\ HostedOn(t, c)' => HostedOn(t, c)
    BY <2>1, <2>3, <2>4 DEF InFlightTo, HostedOn, Exists
  <2> QED
    BY <1>0, <2>1, <2>5, NothingGained DEF Hosted, Occupied
<1>8. ASSUME NEW s \in Spaces, Provision(s) PROVE Counted' /\ Bounded'
  <2>1. /\ UNCHANGED <<mur, chosen>> /\ space[s] \in Space /\ ~space[s].hosted
        /\ ~space[s].deleting /\ space[s].target \in Clusters
    BY <1>8 DEF Provision, managerVars, PlaceInv, PlaceTypes, TargetFirst, Exists, Space
  <2>2. /\ space'[s].target = space[s].target
        /\ \A t \in Spaces \ {s} : space'[t] = space[t]
        /\ space[s] # None
    BY <1>8, <2>1 DEF Provision, Space, Exists, PlaceInv, PlaceTypes
  <2>3. \A c \in Clusters : Occupied(c)' \subseteq Occupied(c)
    <3>1. \A c \in Clusters : HostedOn(s, c)' \/ InFlightTo(s, c)' => InFlightTo(s, c)
      BY <2>1, <2>2 DEF HostedOn, InFlightTo, Exists
    <3>2. \A c \in Clusters, t \in Spaces \ {s} :
             HostedOn(t, c)' \/ InFlightTo(t, c)' => HostedOn(t, c) \/ InFlightTo(t, c)
      BY <2>1, <2>2 DEF HostedOn, InFlightTo, Exists
    <3> QED
      BY <3>1, <3>2 DEF Occupied
  <2>4. Bounded'
    <3>1. ASSUME NEW c \in Clusters, MaxNumberOfSpaces[c] # 0
          PROVE  Cardinality(Occupied(c)') <= MaxNumberOfSpaces[c] + MaxInFlight - 1
      <4>1. Occupied(c)' \subseteq Occupied(c) /\ Occupied(c) \in SUBSET Spaces
        BY <2>3 DEF Occupied
      <4>2. /\ Cardinality(Occupied(c)) \in Nat /\ Cardinality(Occupied(c)') \in Nat
            /\ Cardinality(Occupied(c)') <= Cardinality(Occupied(c))
        BY <4>1, Smaller
      <4> QED
        BY <3>1, <4>2, ClustersAssumption, SpacesAssumption
        DEF Bounded, ClustersAssumption, SpacesAssumption
    <3> QED
      BY <3>1 DEF Bounded
  <2>5. ASSUME NEW c \in Clusters
        PROVE  Cardinality(Hosted(c)') <= count'[c]
    <3>1. CASE c = space[s].target
      <4>1. Hosted(c)' \subseteq Hosted(c) \cup {s} /\ Hosted(c) \in SUBSET Spaces
        BY <2>2 DEF Hosted, HostedOn, Exists
      <4>2. count'[c] = count[c] + 1
        BY <1>8, <3>1 DEF Provision, PlaceInv, PlaceTypes
      <4>3. /\ Cardinality(Hosted(c)) \in Nat /\ Cardinality(Hosted(c)') \in Nat
            /\ Cardinality(Hosted(c)') <= Cardinality(Hosted(c)) + 1
        BY <4>1, OneMore
      <4> QED
        BY <1>0, <4>2, <4>3 DEF Counted
    <3>2. CASE c # space[s].target
      <4>1. Hosted(c)' = Hosted(c)
        BY <2>2, <3>2 DEF Hosted, HostedOn, Exists
      <4>2. count'[c] = count[c]
        BY <1>8, <3>2 DEF Provision, PlaceInv, PlaceTypes
      <4> QED
        BY <4>1, <4>2 DEF Counted
    <3> QED
      BY <3>1, <3>2
  <2> QED
    BY <2>4, <2>5 DEF Counted
<1>9. ASSUME NEW s \in Spaces, Deprovision(s) PROVE Counted' /\ Bounded'
  <2>1. /\ UNCHANGED <<mur, chosen>> /\ space[s] \in Space /\ space[s] # None
        /\ space[s].deleting
        /\ \A t \in Spaces \ {s} : space'[t] = space[t]
    BY <1>9 DEF Deprovision, Deleting, Exists, managerVars, PlaceInv, PlaceTypes
  <2>2. /\ \/ space'[s] = None
           \/ space'[s].deleting /\ ~space'[s].hosted
    BY <1>9, <2>1 DEF Deprovision, Space, PlaceInv, PlaceTypes
  <2>3. \A c \in Clusters, t \in Spaces : /\ InFlightTo(t, c)' => InFlightTo(t, c)
                                          /\ HostedOn(t, c)' => HostedOn(t, c) /\ t # s
    BY <2>1, <2>2 DEF InFlightTo, HostedOn, Exists
  <2>4. CASE count' = count
    BY <1>0, <2>3, <2>4, NothingGained DEF Hosted, Occupied
  <2>5. CASE space[s].hosted
    <3>1. space[s].target \in Clusters
      BY <2>1, <2>5 DEF PlaceInv, TargetFirst, Exists, Space
    <3>2. ASSUME NEW c \in Clusters
          PROVE  Cardinality(Hosted(c)') <= count'[c]
      <4>1. Hosted(c) \in SUBSET Spaces
        BY DEF Hosted
      <4>2. CASE c = space[s].target
        <5>1. s \in Hosted(c) /\ Hosted(c)' \subseteq Hosted(c) \ {s}
          BY <2>1, <2>3, <2>5, <4>2 DEF Hosted, HostedOn, Exists
        <5>2. /\ Cardinality(Hosted(c)) \in Nat /\ Cardinality(Hosted(c)') \in Nat
              /\ Cardinality(Hosted(c)') <= Cardinality(Hosted(c)) - 1
          BY <4>1, <5>1, OneLess
        <5>3. count'[c] = Decremented(count[c])
          BY <1>9, <2>5, <4>2 DEF Deprovision, PlaceInv, PlaceTypes
        <5> QED
          BY <1>0, <5>2, <5>3 DEF Counted, Decremented
      <4>3. CASE c # space[s].target
        <5>1. count'[c] = count[c]
          BY <1>9, <2>5, <4>3 DEF Deprovision, PlaceInv, PlaceTypes
        <5>2. Hosted(c)' \subseteq Hosted(c)
          BY <2>3 DEF Hosted
        <5>3. /\ Cardinality(Hosted(c)) \in Nat /\ Cardinality(Hosted(c)') \in Nat
              /\ Cardinality(Hosted(c)') <= Cardinality(Hosted(c))
          BY <4>1, <5>2, Smaller
        <5> QED
          BY <1>0, <5>1, <5>3 DEF Counted
      <4> QED
        BY <4>2, <4>3
    <3>3. ASSUME NEW c \in Clusters, MaxNumberOfSpaces[c] # 0
          PROVE  Cardinality(Occupied(c)') <= MaxNumberOfSpaces[c] + MaxInFlight - 1
      <4>1. Occupied(c)' \subseteq Occupied(c) /\ Occupied(c) \in SUBSET Spaces
        BY <2>3 DEF Occupied
      <4>2. /\ Cardinality(Occupied(c)) \in Nat /\ Cardinality(Occupied(c)') \in Nat
            /\ Cardinality(Occupied(c)') <= Cardinality(Occupied(c))
        BY <4>1, Smaller
      <4> QED
        BY <3>3, <4>2, ClustersAssumption, SpacesAssumption
        DEF Bounded, ClustersAssumption, SpacesAssumption
    <3> QED
      BY <3>2, <3>3 DEF Counted, Bounded
  <2> QED
    BY <1>9, <2>4, <2>5 DEF Deprovision
<1>10. CASE UNCHANGED <<space, mur, chosen, count>>
  BY <1>0, <1>10, NothingGained DEF Hosted, HostedOn, Occupied, InFlightTo, Exists
<1>11. CASE Synchronize
  <2>1. UNCHANGED <<space, mur, chosen>>
    BY <1>11 DEF Synchronize, spaceVars, managerVars
  <2>2. \A c \in Clusters : Cardinality({s \in Spaces : Exists(s) /\ space[s].target = c}) \in Nat
    BY Smaller
  <2>3. \A c \in Clusters : count'[c] >= count[c]
    BY <1>0, <1>11, <2>2 DEF Synchronize
  <2> QED
    BY <2>1, <2>3, NothingGained DEF Hosted, HostedOn, Occupied, InFlightTo, Exists
<1>12. ASSUME NEW c \in Clusters, RefreshConfig(c) \/ ChangeUsable(c) \/ ChangeMemory(c)
       PROVE  UNCHANGED <<space, mur, chosen, count>>
  BY <1>12 DEF RefreshConfig, ChangeUsable, ChangeMemory, spaceVars, managerVars, countVars
<1>13. RefreshToolchainStatus => UNCHANGED <<space, mur, chosen, count>>
  BY DEF RefreshToolchainStatus, spaceVars, managerVars, countVars
<1>14. ~Restart
  BY DEF Restart
<1> QED
  BY <1>1, <1>2, <1>3, <1>4, <1>5, <1>6, <1>7, <1>8, <1>9, <1>10, <1>11, <1>12, <1>13, <1>14
  DEF Next, OfSpace

LEMMA RestartsOnlyGrow ==
    ASSUME PlaceInv, Next
    PROVE  restarts' = restarts \/ restarts' = restarts + 1
BY DEF Next, OfSpace, ChooseForUser, EnsureSpace, EnsureFields, SetStateLabel, Provision,
       Deprovision, CreateSpace, DeleteSpace, CreateMasterUserRecord, UpdateTargetCluster,
       RefreshConfig, ChangeUsable, ChangeMemory, Edit, RefreshToolchainStatus, Restart,
       Synchronize, boundVars

LEMMA NextCapacityInv ==
    ASSUME CapacityInv, [Next]_vars
    PROVE  CapacityInv'
<1>1. CASE Next
  <2>1. PlaceInv'
    BY <1>1, NextPlaceInv DEF CapacityInv
  <2>2. ASSUME restarts' = 0 PROVE Counted' /\ Bounded'
    <3>1. restarts = 0
      BY <1>1, <2>2, RestartsOnlyGrow DEF CapacityInv, PlaceInv, PlaceTypes
    <3> QED
      BY <1>1, <2>1, <2>2, <3>1, NextCounts DEF CapacityInv
  <2> QED
    BY <2>1, <2>2 DEF CapacityInv
<1>2. CASE UNCHANGED vars
  BY <1>2 DEF vars, CapacityInv, PlaceInv, PlaceTypes, TargetFirst, ChosenForUntargeted, Counted,
              Bounded, Hosted, HostedOn, Occupied, InFlightTo, Exists
<1> QED
  BY <1>1, <1>2

\* As long as the operator is not restarted, a member cluster never holds more
\* Spaces, those on their way included, than its threshold and the number of
\* placements in flight allow (GetOptimalTargetCluster reads only the counter).
THEOREM OverCommitmentIsBounded == Spec => []OverCommitmentBounded
<1>1. CapacityInv => OverCommitmentBounded
  BY DEF CapacityInv, Bounded, OverCommitmentBounded
<1> QED
  BY <1>1, InitCapacityInv, NextCapacityInv, PTL DEF Spec

=============================================================================
