----------------------- MODULE SpaceController_proofs -----------------------
(***************************************************************************)
(* Proofs about SpaceController, for every value of its constants.         *)
(***************************************************************************)
EXTENDS SpaceController, TLAPS

-----------------------------------------------------------------------------
(***************************************************************************)
(* Types                                                                   *)
(***************************************************************************)
\* The calls that work on the NSTemplateSet of the target cluster.
Managing == {"manage", "provisioning", "create", "hash", "namespaces"}

\* What the reconcile in progress knows about its copy of the Space.
WorkerOK ==
    /\ pc \in {"retarget", "reset"} => NeedsRetarget(obj)
    /\ pc = "tier" => obj.tier # None /\ obj.target # None
    /\ pc \in Managing => obj.target \in Clusters /\ want \in SetSpec

IType == TypeOK /\ WorkerOK

LEMMA SetSpecType ==
    ASSUME TypeOK, NEW o \in Space, o.tier # None, NEW users \in SUBSET Users
    PROVE  NewNSTemplateSetSpec(o, users) \in SetSpec
BY DEF TypeOK, Space, SetSpec, Templates, NewNSTemplateSetSpec

\* The member side keeps its types.
LEMMA MemberType ==
    ASSUME TypeOK, NEW c \in Clusters, NEW n \in TemplateSet \cup {None},
           SetNSTemplateSet(c, n)
    PROVE  /\ nsts' \in [Clusters -> TemplateSet \cup {None}]
           /\ view' \in [Clusters -> TemplateSet \cup {None}]
BY DEF TypeOK, SetNSTemplateSet

LEMMA DecrementType ==
    ASSUME TypeOK, NEW c, DecrementSpaceCount(c)
    PROVE  count' \in [Clusters -> Int]
BY DEF TypeOK, DecrementSpaceCount

LEMMA IncrementType ==
    ASSUME TypeOK, NEW c \in Clusters, IncrementSpaceCount(c)
    PROVE  count' \in [Clusters -> Int]
BY DEF TypeOK, IncrementSpaceCount

LEMMA FaultType ==
    ASSUME TypeOK, Fault \/ UNCHANGED faults
    PROVE  faults' \in 0..MaxFaults
BY ConstantsAssumption DEF ConstantsAssumption, TypeOK, Fault

LEMMA DeleteFromClusterType ==
    ASSUME TypeOK, NEW c, NEW gone \in PCs, NEW waiting \in Conditions,
           NEW failed \in PCs, NEW reason \in Conditions,
           DeleteFromCluster(c, gone, waiting, failed, reason)
    PROVE  /\ nsts' \in [Clusters -> TemplateSet \cup {None}]
           /\ view' \in [Clusters -> TemplateSet \cup {None}]
           /\ queued' \in BOOLEAN
           /\ count' \in [Clusters -> Int]
           /\ faults' \in 0..MaxFaults
           /\ pc' \in {gone, "status", failed}
           /\ next' \in Conditions
<1>1. c \in Clusters /\ nsts[c] # None => [nsts[c] EXCEPT !.deleting = TRUE] \in TemplateSet
  BY DEF TypeOK, TemplateSet
<1>2. nsts' \in [Clusters -> TemplateSet \cup {None}] /\ view' \in [Clusters -> TemplateSet \cup {None}]
  <2>1. CASE UNCHANGED memberVars
    BY <2>1 DEF memberVars, TypeOK
  <2>2. CASE c \in Clusters /\ nsts[c] # None /\ SetNSTemplateSet(c, [nsts[c] EXCEPT !.deleting = TRUE])
    BY <1>1, <2>2, MemberType
  <2> QED
    BY <2>1, <2>2 DEF DeleteFromCluster
<1>3. queued' \in BOOLEAN
  BY ConstantsAssumption DEF ConstantsAssumption, DeleteFromCluster, MemberEvent, TypeOK
<1>4. count' \in [Clusters -> Int]
  BY DecrementType DEF DeleteFromCluster, TypeOK
<1>5. faults' \in 0..MaxFaults
  BY FaultType DEF DeleteFromCluster
<1>6. pc' \in {gone, "status", failed} /\ next' \in Conditions
  BY DEF DeleteFromCluster, Goto, Conditions
<1> QED
  BY <1>2, <1>3, <1>4, <1>5, <1>6

\* Every write of the Space by the controller keeps its type.
LEMMA SpaceUpdates ==
    ASSUME NEW o \in Space
    PROVE  /\ [o EXCEPT !.fin = TRUE] \in Space
           /\ [o EXCEPT !.deleting = TRUE] \in Space
           /\ \A l \in {"None", "pending", "assigned"} : [o EXCEPT !.label = l] \in Space
           /\ \A h \in Templates \cup {None} : [o EXCEPT !.hash = h] \in Space
           /\ \A r \in Conditions, c \in ClusterNames \cup {None} :
                 [o EXCEPT !.cond = r, !.st = c] \in Space
           /\ \A c \in ClusterNames \cup {None} :
                 [o EXCEPT !.st = c] \in Space /\ [o EXCEPT !.target = c] \in Space
           /\ \A t \in Tiers \cup {None} : [o EXCEPT !.tier = t] \in Space
BY DEF Space

LEMMA NSTemplateSetUpdates ==
    ASSUME NEW n \in TemplateSet, NEW spec \in SetSpec
    PROVE  /\ [n EXCEPT !.deleting = TRUE] \in TemplateSet
           /\ [n EXCEPT !.spec = spec] \in TemplateSet
           /\ \A p \in {"created", "Provisioning", "Provisioned", "Updating", "Failed",
                         "Terminating"} :
                 /\ [n EXCEPT !.phase = p] \in TemplateSet
                 /\ [n EXCEPT !.applied = spec, !.phase = p] \in TemplateSet
           /\ n.spec \in SetSpec
           /\ CreatedWith(spec) \in TemplateSet
BY DEF TemplateSet, CreatedWith

LEMMA UpdateStatusType ==
    ASSUME TypeOK, pc # "idle", NEW r \in Conditions, UpdateStatus(r)
    PROVE  /\ api' \in Space \cup {None}
           /\ obj' \in Space /\ obj'.target = obj.target /\ obj'.tier = obj.tier
           /\ young' \in BOOLEAN
<1>1. obj \in Space /\ st \in ClusterNames \cup {None}
  BY DEF TypeOK
<1>2. [obj EXCEPT !.cond = r, !.st = st] \in Space
  BY <1>1, SpaceUpdates
<1>3. obj' \in Space /\ api' \in Space \cup {None}
  BY <1>1, <1>2 DEF UpdateStatus, Write, TypeOK
<1>4. obj'.target = obj.target /\ obj'.tier = obj.tier
  BY <1>1 DEF UpdateStatus, Write, Space
<1>5. young' \in BOOLEAN
  BY DEF UpdateStatus, Transition, TypeOK
<1> QED
  BY <1>3, <1>4, <1>5

-----------------------------------------------------------------------------
\* The state of every variable has the type TypeOK gives it.
LEMMA ITypeInit == Init => IType
<1> SUFFICES ASSUME Init PROVE IType
  OBVIOUS
<1>1. nsts \in [Clusters -> TemplateSet \cup {None}] /\ count \in [Clusters -> Int]
  BY DEF Init
<1>2. rev \in [Tiers -> 0..MaxRev] /\ edits \in 0..MaxEdits /\ faults \in 0..MaxFaults
  BY ConstantsAssumption DEF ConstantsAssumption, Init
<1>3. pc = "idle" /\ pc \in PCs /\ next \in Conditions
  BY DEF Init, PCs, Conditions
<1> QED
  BY <1>1, <1>2, <1>3 DEF Init, IType, TypeOK, WorkerOK, Managing

LEMMA ITypeNext == IType /\ [Next]_vars => IType'
<1> SUFFICES ASSUME IType, [Next]_vars PROVE IType'
  OBVIOUS
<1> USE ConstantsAssumption, NoneAssumption
    DEF spaceVars, memberVars, inputVars, workerVars, clockVars, countVars, boundVars,
        IType, ConstantsAssumption
<1>1. CASE Reconcile
  <2>1. CASE cache = None
    BY <1>1, <2>1 DEF Reconcile, TypeOK, WorkerOK
  <2>2. CASE cache # None
    <3>1. cache \in Space /\ cache.st \in ClusterNames \cup {None}
      BY <2>2 DEF TypeOK, Space
    <3>2. /\ pc' \in {"delete", "finalizer", "retarget", "label"}
          /\ pc' = "retarget" => NeedsRetarget(cache)
      BY <1>1, <2>2 DEF Reconcile, FirstCall, AfterFinalizer
    <3> QED
      BY <1>1, <2>2, <3>1, <3>2 DEF Reconcile, TypeOK, WorkerOK, PCs, Managing, NeedsRetarget
  <2> QED
    BY <2>1, <2>2
<1>2. CASE AddFinalizer
  <2>1. pc' \in {"retarget", "label"} /\ (pc' = "retarget" <=> NeedsRetarget(obj))
    BY <1>2 DEF AddFinalizer, AfterFinalizer
  <2>2. obj \in Space /\ obj' = [obj EXCEPT !.fin = TRUE] /\ api' = obj'
    BY <1>2 DEF AddFinalizer, TypeOK, Write
  <2>3. obj' \in Space /\ NeedsRetarget(obj') = NeedsRetarget(obj)
    BY <2>2 DEF Space, NeedsRetarget
  <2> QED
    BY <1>2, <2>1, <2>2, <2>3 DEF AddFinalizer, TypeOK, WorkerOK, PCs, Managing
<1>3. CASE Retarget
  <2>1. /\ nsts' \in [Clusters -> TemplateSet \cup {None}]
        /\ view' \in [Clusters -> TemplateSet \cup {None}]
        /\ queued' \in BOOLEAN
        /\ count' \in [Clusters -> Int]
        /\ faults' \in 0..MaxFaults
        /\ pc' \in {"reset", "status", "fail"}
        /\ next' \in Conditions
    <3>1. {"reset", "fail"} \subseteq PCs /\ {"Retargeting", "RetargetingFailed"} \subseteq Conditions
      BY DEF PCs, Conditions
    <3> QED
      BY <1>3, <3>1, DeleteFromClusterType DEF Retarget
  <2> QED
    BY <1>3, <2>1 DEF Retarget, TypeOK, WorkerOK, PCs, Managing, NeedsRetarget
<1>4. CASE ResetTargetCluster
  <2>1. obj \in Space /\ obj' = [obj EXCEPT !.st = None] /\ api' = obj' /\ obj' \in Space
    BY <1>4 DEF ResetTargetCluster, TypeOK, Write, Space
  <2> QED
    BY <1>4, <2>1 DEF ResetTargetCluster, TypeOK, WorkerOK, PCs, Managing
<1>5. CASE SetStateLabel
  BY <1>5 DEF SetStateLabel, Write, TypeOK, WorkerOK, Managing, PCs, Space, Goto, StateLabel,
              Conditions
<1>6. CASE GetTier
  <2>1. obj \in Space /\ obj.tier # None
    BY <1>6 DEF GetTier, TypeOK, WorkerOK
  <2>2. want' \in SetSpec \cup {None} /\ (pc' = "manage" => want' \in SetSpec)
    <3>1. /\ NewNSTemplateSetSpec(obj, bindings) \in SetSpec
          /\ NewNSTemplateSetSpec(obj, {}) \in SetSpec
      BY <2>1, SetSpecType DEF TypeOK
    <3> QED
      BY <1>6, <3>1 DEF GetTier, Goto, Done, TypeOK
  <2>3. faults' \in 0..MaxFaults
    BY <1>6, FaultType DEF GetTier
  <2>4. /\ pc' \in {"manage", "fail", "idle"} /\ next' \in Conditions
        /\ pc' = "manage" => obj' = obj /\ obj.target \in Clusters
        /\ pc' = "fail" => obj' = obj
        /\ obj' \in {obj, None} /\ queued' \in BOOLEAN
        /\ st' \in ClusterNames \cup {None}
    BY <1>6 DEF GetTier, Goto, Done, TypeOK, Conditions, ClusterNames
  <2> QED
    BY <1>6, <2>1, <2>2, <2>3, <2>4 DEF GetTier, TypeOK, WorkerOK, PCs, Managing
<1>7. CASE ManageNSTemplateSet
  <2>1. faults' \in 0..MaxFaults
    BY <1>7, FaultType DEF ManageNSTemplateSet
  <2>2. /\ pc' \in {"provisioning", "fail", "idle"} /\ next' \in Conditions
        /\ pc' # "idle" => obj' = obj /\ want' = want /\ st' = st
        /\ pc' = "idle" => obj' = None /\ want' = None /\ st' = None
        /\ queued' \in BOOLEAN
    BY <1>7 DEF ManageNSTemplateSet, Goto, Done, TypeOK, Conditions
  <2> QED
    BY <1>7, <2>1, <2>2 DEF ManageNSTemplateSet, TypeOK, WorkerOK, PCs, Managing
<1>8. CASE UpdateNSTemplateSet
  <2>1. /\ nsts' \in [Clusters -> TemplateSet \cup {None}]
        /\ view' \in [Clusters -> TemplateSet \cup {None}]
    <3>1. obj.target \in Clusters /\ want \in SetSpec /\ Found # None /\ Found \in TemplateSet
      BY <1>8 DEF UpdateNSTemplateSet, Outdated, Found, TypeOK, WorkerOK, Managing
    <3>2. [Found EXCEPT !.spec = want] \in TemplateSet
      BY <3>1, NSTemplateSetUpdates
    <3>3. CASE UNCHANGED memberVars
      BY <3>3 DEF TypeOK
    <3>4. CASE SetNSTemplateSet(obj.target, [Found EXCEPT !.spec = want])
      BY <3>1, <3>2, <3>4, MemberType
    <3> QED
      BY <1>8, <3>3, <3>4 DEF UpdateNSTemplateSet
  <2>2. faults' \in 0..MaxFaults
    BY <1>8, FaultType DEF UpdateNSTemplateSet
  <2>3. pc' \in {"status", "fail"} /\ next' \in Conditions /\ busy' \in BOOLEAN
    BY <1>8 DEF UpdateNSTemplateSet, Goto, Conditions, TypeOK, Postponable
  <2> QED
    BY <1>8, <2>1, <2>2, <2>3 DEF UpdateNSTemplateSet, TypeOK, WorkerOK, PCs, Managing
<1>9. CASE ReplicateStatus
  <2>1. /\ pc' \in {"status", "hash", "fail", "idle"} /\ next' \in Conditions
        /\ pc' # "idle" => obj' = obj /\ want' = want /\ st' = st
        /\ pc' = "idle" => obj' = None /\ want' = None /\ st' = None
        /\ queued' \in BOOLEAN
    BY <1>9 DEF ReplicateStatus, Goto, Done, TypeOK, Conditions
  <2> QED
    BY <1>9, <2>1 DEF ReplicateStatus, TypeOK, WorkerOK, PCs, Managing
<1>10. CASE SetStatusProvisioning
  <2>1. /\ api' \in Space \cup {None}
        /\ obj' \in Space /\ obj'.target = obj.target
        /\ young' \in BOOLEAN
    <3>1. "Provisioning" \in Conditions /\ pc # "idle"
      BY <1>10 DEF Conditions, SetStatusProvisioning
    <3> QED
      BY <1>10, <3>1, UpdateStatusType DEF SetStatusProvisioning
  <2> QED
    BY <1>10, <2>1 DEF SetStatusProvisioning, TypeOK, WorkerOK, PCs, Managing, Goto, Conditions
<1>11. CASE CreateNSTemplateSet
  <2>1. obj.target \in Clusters /\ want \in SetSpec /\ CreatedWith(want) \in TemplateSet
    BY <1>11, NSTemplateSetUpdates DEF CreateNSTemplateSet, WorkerOK, Managing, CreatedWith, TemplateSet
  <2>2. /\ nsts' \in [Clusters -> TemplateSet \cup {None}]
        /\ view' \in [Clusters -> TemplateSet \cup {None}]
    <3>1. CASE UNCHANGED memberVars
      BY <3>1 DEF TypeOK
    <3>2. CASE SetNSTemplateSet(obj.target, CreatedWith(want))
      BY <2>1, <3>2, MemberType
    <3> QED
      BY <1>11, <3>1, <3>2 DEF CreateNSTemplateSet
  <2>3. count' \in [Clusters -> Int]
    BY <1>11, <2>1, IncrementType DEF CreateNSTemplateSet, TypeOK
  <2>4. faults' \in 0..MaxFaults
    BY <1>11, FaultType DEF CreateNSTemplateSet
  <2>5. /\ pc' \in {"fail", "idle"} /\ next' \in Conditions /\ queued' \in BOOLEAN
        /\ pc' = "fail" => obj' = obj /\ want' = want /\ st' = st
        /\ pc' = "idle" => obj' = None /\ want' = None /\ st' = None
    BY <1>11 DEF CreateNSTemplateSet, Goto, Done, TypeOK, Conditions, MemberEvent
  <2> QED
    BY <1>11, <2>2, <2>3, <2>4, <2>5 DEF CreateNSTemplateSet, TypeOK, WorkerOK, PCs, Managing
<1>12. CASE SetHashLabel
  <2>1. obj \in Space /\ want.tmpl \in Templates
    BY <1>12 DEF SetHashLabel, TypeOK, WorkerOK, Managing, SetSpec
  <2>2. obj' = [obj EXCEPT !.hash = want.tmpl] /\ obj' \in Space /\ api' = obj' /\ obj'.target = obj.target
    BY <1>12, <2>1 DEF SetHashLabel, Write, Space
  <2>3. obj.st \in ClusterNames \cup {None}
    BY <2>1 DEF Space
  <2> QED
    BY <1>12, <2>2, <2>3 DEF SetHashLabel, TypeOK, WorkerOK, PCs, Managing, Goto, Conditions
<1>13. CASE SetProvisionedNamespaces
  <2>1. obj \in Space /\ [obj EXCEPT !.st = st] \in Space
    BY <1>13, SpaceUpdates DEF SetProvisionedNamespaces, TypeOK
  <2> QED
    BY <1>13, <2>1 DEF SetProvisionedNamespaces, Write, TypeOK, WorkerOK, PCs, Managing, Goto, Conditions
<1>14. CASE SetStatus
  <2>1. [obj EXCEPT !.cond = next, !.st = st] \in Space
    BY <1>14, SpaceUpdates DEF SetStatus, WriteStatus, TypeOK
  <2>2. api' \in Space \cup {None}
    BY <1>14, <2>1 DEF SetStatus, WriteStatus, TypeOK
  <2>3. young' \in BOOLEAN
    BY <1>14 DEF SetStatus, WriteStatus, Transition, TypeOK
  <2> QED
    BY <1>14, <2>2, <2>3 DEF SetStatus, WriteStatus, TypeOK, WorkerOK, PCs, Managing, Done, Conditions
<1>15. CASE DeleteNSTemplateSet
  <2>1. /\ nsts' \in [Clusters -> TemplateSet \cup {None}]
        /\ view' \in [Clusters -> TemplateSet \cup {None}]
        /\ queued' \in BOOLEAN
        /\ count' \in [Clusters -> Int]
        /\ faults' \in 0..MaxFaults
        /\ pc' \in {"unfinalize", "status", "fail"}
        /\ next' \in Conditions
    <3>1. /\ {"unfinalize", "fail"} \subseteq PCs
          /\ {"None", "Terminating", "TerminatingFailed"} \subseteq Conditions
      BY DEF PCs, Conditions
    <3>2. CASE DeletionCluster(obj) = None
      BY <1>15, <3>2 DEF DeleteNSTemplateSet, Goto, TypeOK, Conditions
    <3>3. CASE DeletionCluster(obj) # None
      BY <1>15, <3>1, <3>3, DeleteFromClusterType DEF DeleteNSTemplateSet
    <3> QED
      BY <3>2, <3>3
  <2> QED
    BY <1>15, <2>1 DEF DeleteNSTemplateSet, TypeOK, WorkerOK, PCs, Managing
<1>16. CASE RemoveFinalizer
  BY <1>16 DEF RemoveFinalizer, TypeOK, WorkerOK, PCs, Managing, Done, Conditions
<1>17. CASE WriteRefused
  <2>1. faults' \in 0..MaxFaults
    BY <1>17, FaultType DEF WriteRefused, Refused
  <2>2. /\ pc' \in {"fail", "idle"} /\ next' \in Conditions /\ queued' \in BOOLEAN
        /\ pc' = "fail" => obj' = obj /\ want' = want /\ st' = st
        /\ pc' = "idle" => obj' = None /\ want' = None /\ st' = None
    BY <1>17 DEF WriteRefused, Goto, Done, TypeOK, Conditions
  <2>3. pc # "idle"
    BY <1>17 DEF WriteRefused
  <2> QED
    BY <1>17, <2>1, <2>2, <2>3 DEF WriteRefused, TypeOK, WorkerOK, PCs, Managing
<1>18. CASE DeliverSpace
  BY <1>18 DEF DeliverSpace, TypeOK, WorkerOK, Wakes
<1>19. CASE CompleteSpace
  <2>1. api \in Space
    BY <1>19 DEF CompleteSpace, TypeOK
  <2>2. api' \in Space
    <3>1. [api EXCEPT !.tier = DefaultTier] \in Space
      BY <2>1 DEF Space
    <3>2. \A c \in Clusters : [api EXCEPT !.target = c] \in Space
      BY <2>1 DEF Space, ClusterNames
    <3> QED
      BY <1>19, <3>1, <3>2 DEF CompleteSpace
  <2> QED
    BY <1>19, <2>2 DEF CompleteSpace, TypeOK, WorkerOK
<1>20. CASE SecondPasses
  BY <1>20 DEF SecondPasses, TypeOK, WorkerOK
<1>21. CASE PostponeDelayPasses
  BY <1>21 DEF PostponeDelayPasses, TypeOK, WorkerOK
<1>22. CASE Synchronize
  BY <1>22 DEF Synchronize, TypeOK, WorkerOK
<1>23. ASSUME NEW c \in Clusters, MemberStep(c) PROVE IType'
  <2>1. nsts[c] \in TemplateSet
    BY <1>23 DEF MemberStep, Live, Terminating, TypeOK
  <2>2. \E n \in TemplateSet \cup {None} : SetNSTemplateSet(c, n)
    <3>1. nsts[c].spec \in SetSpec
      BY <2>1, NSTemplateSetUpdates DEF TemplateSet
    <3>2. /\ [nsts[c] EXCEPT !.applied = nsts[c].spec,
                 !.phase = IF @ = "created" THEN "Provisioning" ELSE "Updating"] \in TemplateSet
          /\ [nsts[c] EXCEPT !.phase = "Provisioned"] \in TemplateSet
          /\ [nsts[c] EXCEPT !.phase = "Failed"] \in TemplateSet
          /\ [nsts[c] EXCEPT !.phase = "Terminating"] \in TemplateSet
      BY <2>1, <3>1 DEF TemplateSet
    <3> QED
      BY <1>23, <3>2 DEF MemberStep
  <2>3. faults' \in 0..MaxFaults
    BY <1>23, FaultType DEF MemberStep
  <2> QED
    BY <1>23, <2>2, <2>3, MemberType DEF MemberStep, MemberEvent, TypeOK, WorkerOK
<1>24. ASSUME NEW c \in Clusters, DeliverNSTemplateSet(c) PROVE IType'
  BY <1>24 DEF DeliverNSTemplateSet, TypeOK, WorkerOK
<1>25. CASE CreateSpace
  <2>1. api' \in Space
    BY <1>25 DEF CreateSpace, Space, Conditions
  <2> QED
    BY <1>25, <2>1 DEF CreateSpace, Edit, TypeOK, WorkerOK
<1>26. CASE SetTarget
  <2>1. api' \in Space
    <3>1. api \in Space
      BY <1>26 DEF SetTarget, TypeOK
    <3>2. \A c \in ClusterNames \cup {None} : [api EXCEPT !.target = c] \in Space
      BY <3>1 DEF Space
    <3> QED
      BY <1>26, <3>2 DEF SetTarget
  <2> QED
    BY <1>26, <2>1 DEF SetTarget, Edit, TypeOK, WorkerOK
<1>27. CASE SetTier
  <2>1. api' \in Space
    <3>1. api \in Space
      BY <1>27 DEF SetTier, TypeOK
    <3>2. \A t \in Tiers : [api EXCEPT !.tier = t] \in Space
      BY <3>1 DEF Space
    <3> QED
      BY <1>27, <3>2 DEF SetTier
  <2> QED
    BY <1>27, <2>1 DEF SetTier, Edit, TypeOK, WorkerOK
<1>28. CASE DeleteSpace
  <2>1. api' \in Space \cup {None}
    BY <1>28, SpaceUpdates DEF DeleteSpace, TypeOK
  <2> QED
    BY <1>28, <2>1 DEF DeleteSpace, Edit, TypeOK, WorkerOK
<1>29. CASE ChangeBindings
  BY <1>29 DEF ChangeBindings, Edit, TypeOK, WorkerOK
<1>30. ASSUME NEW t \in Tiers, UpdateTier(t) PROVE IType'
  <2>1. queued' \in BOOLEAN
    BY <1>30 DEF UpdateTier, OutdatedHash, TypeOK
  <2> QED
    BY <1>30, <2>1 DEF UpdateTier, Edit, TypeOK, WorkerOK
<1>31. CASE Restart
  <2>1. count' \in [Clusters -> Int]
    BY <1>31 DEF Restart
  <2> QED
    BY <1>31, <2>1, FaultType DEF Restart, Done, TypeOK, WorkerOK, PCs, Managing, Conditions
<1>32. CASE UNCHANGED vars
  BY <1>32 DEF vars, TypeOK, WorkerOK
<1> QED
  BY <1>1, <1>2, <1>3, <1>4, <1>5, <1>6, <1>7, <1>8, <1>9, <1>10, <1>11, <1>12, <1>13, <1>14,
     <1>15, <1>16, <1>17, <1>18, <1>19, <1>20, <1>21, <1>22, <1>23, <1>24, <1>25, <1>26,
     <1>27, <1>28, <1>29, <1>30, <1>31, <1>32
  DEF Next, System, Worker, Environment

\* Type correctness of the specification.
THEOREM TypeCorrect == Spec => []TypeOK
<1>1. Spec => []IType
  BY ITypeInit, ITypeNext, PTL DEF Spec
<1> QED
  BY <1>1, PTL DEF IType

-----------------------------------------------------------------------------
(***************************************************************************)
(* NSTemplateSets are created for existing Spaces only                     *)
(*                                                                         *)
(* The reconcile that is about to create holds a copy of the Space that    *)
(* may be outdated in any way, but not in this one: the finalizer it saw   *)
(* is still there, because only the same worker takes it away, and it does *)
(* so only when the copy it read is already being deleted, as is every     *)
(* copy the cache can deliver afterwards.                                  *)
(***************************************************************************)
Held(o) == o # None /\ o.fin

\* The object is on its way out, or was never taken in charge.
Gone(o) == o = None \/ o.deleting \/ ~o.fin

\* The calls made between the finalizer and the final status.
InProvision == {"retarget", "reset", "label", "tier"} \cup Managing

FinInv ==
    /\ \A o \in {api, cache, obj} : o # None /\ o.deleting => o.fin
    /\ ~Gone(cache) => Held(api)
    /\ cache # None /\ cache.deleting => Gone(api)
    /\ pc \in InProvision => Held(api)
    /\ pc = "finalizer" /\ ~Held(api) => ~Held(cache)
    /\ pc \in {"delete", "unfinalize"} => Gone(api) /\ Gone(cache)

\* Two versions that agree on the life of the Space.
SameLife(o, p) ==
    /\ o = None <=> p = None
    /\ o # None => p.fin = o.fin /\ p.deleting = o.deleting

LEMMA FinInit == Init => FinInv
BY DEF Init, FinInv, Gone, Held, InProvision, Managing

\* Steps that neither begin nor end anything.
LEMMA FinKept ==
    ASSUME FinInv, SameLife(api, api'), cache' = cache,
           obj' = None \/ SameLife(obj, obj'),
           pc' \in InProvision => pc \in InProvision,
           pc' = "finalizer" => pc = "finalizer",
           pc' \in {"delete", "unfinalize"} => pc \in {"delete", "unfinalize"}
    PROVE  FinInv'
BY DEF FinInv, SameLife, Gone, Held

\* Writes that keep the life of the Space.
LEMMA SameLifeUpdates ==
    ASSUME NEW o \in Space, None \notin Space
    PROVE  /\ SameLife(o, o)
           /\ \A l \in {"pending", "assigned"} : SameLife(o, [o EXCEPT !.label = l])
           /\ \A h \in Templates : SameLife(o, [o EXCEPT !.hash = h])
           /\ \A r \in Conditions, c \in ClusterNames \cup {None} :
                 SameLife(o, [o EXCEPT !.cond = r, !.st = c])
           /\ \A c \in ClusterNames \cup {None} :
                 SameLife(o, [o EXCEPT !.st = c]) /\ SameLife(o, [o EXCEPT !.target = c])
           /\ \A t \in Tiers : SameLife(o, [o EXCEPT !.tier = t])
<1> USE DEF SameLife
<1>1. o # None
  OBVIOUS
<1>2. ASSUME NEW p \in Space, p.fin = o.fin, p.deleting = o.deleting PROVE SameLife(o, p)
  BY <1>1, <1>2
<1>3. \A l \in {"pending", "assigned"} : SameLife(o, [o EXCEPT !.label = l])
  BY <1>2 DEF Space
<1>4. \A h \in Templates : SameLife(o, [o EXCEPT !.hash = h])
  BY <1>2 DEF Space
<1>5. \A r \in Conditions, c \in ClusterNames \cup {None} :
        SameLife(o, [o EXCEPT !.cond = r, !.st = c])
  BY <1>2 DEF Space
<1>6. \A c \in ClusterNames \cup {None} : SameLife(o, [o EXCEPT !.st = c])
  BY <1>2 DEF Space
<1>7. \A c \in ClusterNames \cup {None} : SameLife(o, [o EXCEPT !.target = c])
  BY <1>2 DEF Space
<1>8. \A t \in Tiers : SameLife(o, [o EXCEPT !.tier = t])
  BY <1>2 DEF Space
<1> QED
  BY <1>1, <1>3, <1>4, <1>5, <1>6, <1>7, <1>8

LEMMA FinNext == IType /\ FinInv /\ [Next]_vars => FinInv'
<1> SUFFICES ASSUME IType, FinInv, [Next]_vars PROVE FinInv'
  OBVIOUS
<1> USE DEF spaceVars, workerVars
<1>0. None \notin Space
  BY NoneAssumption
<1>t. /\ api \in Space \cup {None} /\ obj \in Space \cup {None}
      /\ pc # "idle" => obj \in Space
      /\ st \in ClusterNames \cup {None} /\ next \in Conditions
      /\ pc \in Managing => want \in SetSpec
  BY DEF IType, TypeOK, WorkerOK
<1>s. SameLife(api, api) /\ SameLife(obj, obj)
  BY DEF SameLife
<1>1. CASE Reconcile
  <2>1. CASE cache = None
    BY <1>1, <2>1 DEF Reconcile, FinInv, Gone, Held
  <2>2. CASE cache # None
    <3>1. /\ api' = api /\ cache' = cache /\ obj' = cache
          /\ pc' = FirstCall(cache)
      BY <1>1, <2>2 DEF Reconcile
    <3>2. CASE cache.deleting
      BY <3>1, <3>2, <2>2 DEF FirstCall, FinInv, Gone, Held, InProvision, Managing
    <3>3. CASE ~cache.deleting /\ cache.fin
      <4>1. pc' \in {"retarget", "label"}
        BY <3>1, <3>3 DEF FirstCall, AfterFinalizer
      <4> QED
        BY <2>2, <3>1, <3>3, <4>1 DEF FinInv, Gone, Held, InProvision
    <3>4. CASE ~cache.deleting /\ ~cache.fin
      BY <3>1, <3>4, <2>2 DEF FirstCall, FinInv, Gone, Held, InProvision, Managing
    <3> QED
      BY <3>2, <3>3, <3>4
  <2> QED
    BY <2>1, <2>2
<1>2. CASE AddFinalizer
  <2>1. /\ pc = "finalizer" /\ pc' \in {"retarget", "label"}
        /\ obj \in Space /\ api = obj /\ cache' = cache
        /\ api' = [obj EXCEPT !.fin = TRUE] /\ obj' = api'
    BY <1>2, <1>t DEF AddFinalizer, Write, AfterFinalizer
  <2>2. api' \in Space /\ api'.fin /\ api'.deleting = api.deleting
    BY <2>1 DEF Space
  <2> QED
    BY <1>0, <2>1, <2>2 DEF FinInv, Gone, Held
<1>3. ASSUME UNCHANGED spaceVars, obj' \in {obj, None},
             pc' \in InProvision => pc \in InProvision,
             pc' # "finalizer",
             pc' \in {"delete", "unfinalize"} => pc \in {"delete", "unfinalize"}
      PROVE  FinInv'
  BY <1>3, <1>s, FinKept
<1>4. CASE Retarget
  <2>1. pc = "retarget" /\ pc' \in {"reset", "status", "fail"}
    BY <1>4 DEF Retarget, DeleteFromCluster, Goto
  <2> QED
    BY <1>3, <1>4, <2>1 DEF Retarget, InProvision, Managing
<1>5. CASE ResetTargetCluster
  <2>1. SameLife(obj, [obj EXCEPT !.st = None])
    BY <1>0, <1>t, <1>5, SameLifeUpdates DEF ResetTargetCluster
  <2> QED
    BY <1>5, <2>1, FinKept DEF ResetTargetCluster, Write, InProvision
<1>6. CASE SetStateLabel
  <2>1. SameLife(obj, [obj EXCEPT !.label = StateLabel(obj)])
    BY <1>0, <1>t, <1>6, SameLifeUpdates DEF SetStateLabel, StateLabel
  <2>2. pc = "label" /\ pc' \in {"status", "tier"} /\ cache' = cache
    BY <1>6 DEF SetStateLabel, Goto
  <2>3. SameLife(api, api') /\ SameLife(obj, obj')
    BY <1>6, <1>s, <2>1 DEF SetStateLabel, Write
  <2> QED
    BY <2>2, <2>3, FinKept DEF InProvision
<1>7. CASE GetTier
  <2>1. pc = "tier" /\ pc' \in {"manage", "fail", "idle"} /\ obj' \in {obj, None}
    BY <1>7 DEF GetTier, Goto, Done
  <2> QED
    BY <1>3, <1>7, <2>1 DEF GetTier, InProvision
<1>8. CASE ManageNSTemplateSet
  <2>1. pc = "manage" /\ pc' \in {"provisioning", "fail", "idle"} /\ obj' \in {obj, None}
    BY <1>8 DEF ManageNSTemplateSet, Goto, Done
  <2> QED
    BY <1>3, <1>8, <2>1 DEF ManageNSTemplateSet, InProvision, Managing
<1>9. CASE UpdateNSTemplateSet
  <2>1. pc = "manage" /\ pc' \in {"status", "fail"} /\ obj' = obj
    BY <1>9 DEF UpdateNSTemplateSet, Goto
  <2> QED
    BY <1>3, <1>9, <2>1 DEF UpdateNSTemplateSet, InProvision, Managing
<1>10. CASE ReplicateStatus
  <2>1. pc = "manage" /\ pc' \in {"status", "hash", "fail", "idle"} /\ obj' \in {obj, None}
    BY <1>10 DEF ReplicateStatus, Goto, Done
  <2> QED
    BY <1>3, <1>10, <2>1 DEF ReplicateStatus, InProvision, Managing
<1>11. CASE SetStatusProvisioning
  <2>1. SameLife(obj, [obj EXCEPT !.cond = "Provisioning", !.st = st])
    BY <1>0, <1>t, <1>11, SameLifeUpdates DEF SetStatusProvisioning, Conditions
  <2>2. SameLife(api, api') /\ SameLife(obj, obj')
    BY <1>11, <1>s, <2>1 DEF SetStatusProvisioning, UpdateStatus, Write
  <2> QED
    BY <1>11, <2>2, FinKept DEF SetStatusProvisioning, Goto, InProvision, Managing
<1>12. CASE CreateNSTemplateSet
  <2>1. pc = "create" /\ pc' \in {"fail", "idle"} /\ obj' \in {obj, None}
    BY <1>12 DEF CreateNSTemplateSet, Goto, Done
  <2> QED
    BY <1>3, <1>12, <2>1 DEF CreateNSTemplateSet, InProvision, Managing
<1>13. CASE SetHashLabel
  <2>1. want.tmpl \in Templates /\ obj \in Space
    BY <1>13, <1>t DEF SetHashLabel, Managing, SetSpec
  <2>2. SameLife(obj, [obj EXCEPT !.hash = want.tmpl])
    BY <1>0, <2>1, SameLifeUpdates
  <2> QED
    BY <1>13, <2>2, FinKept DEF SetHashLabel, Write, Goto, InProvision, Managing
<1>14. CASE SetProvisionedNamespaces
  <2>1. SameLife(obj, [obj EXCEPT !.st = st])
    BY <1>0, <1>t, <1>14, SameLifeUpdates DEF SetProvisionedNamespaces
  <2>2. SameLife(api, api') /\ SameLife(obj, obj')
    BY <1>14, <1>s, <2>1 DEF SetProvisionedNamespaces, Write
  <2> QED
    BY <1>14, <2>2, FinKept DEF SetProvisionedNamespaces, Goto, InProvision, Managing
<1>15. CASE SetStatus
  <2>1. SameLife(obj, [obj EXCEPT !.cond = next, !.st = st])
    BY <1>0, <1>t, <1>15, SameLifeUpdates DEF SetStatus
  <2>2. SameLife(api, api') /\ obj' = None /\ pc' = "idle"
    BY <1>15, <1>s, <2>1 DEF SetStatus, WriteStatus, Done
  <2> QED
    BY <1>15, <2>2, FinKept DEF SetStatus, InProvision, Managing
<1>16. CASE DeleteNSTemplateSet
  <2>1. pc = "delete" /\ pc' \in {"unfinalize", "status", "fail"}
    BY <1>16 DEF DeleteNSTemplateSet, DeleteFromCluster, Goto
  <2> QED
    BY <1>3, <1>16, <2>1 DEF DeleteNSTemplateSet, InProvision, Managing
<1>17. CASE RemoveFinalizer
  BY <1>17 DEF RemoveFinalizer, Done, FinInv, Gone, Held, InProvision, Managing
<1>18. CASE WriteRefused
  <2>1. pc' \in {"fail", "idle"} /\ obj' \in {obj, None}
    BY <1>18 DEF WriteRefused, Goto, Done
  <2> QED
    BY <1>3, <1>18, <2>1 DEF WriteRefused, InProvision, Managing
<1>19. CASE DeliverSpace
  BY <1>19 DEF DeliverSpace, FinInv, Gone, Held
<1>20. ASSUME NEW o \in Space, api = o, SameLife(o, api'), UNCHANGED <<cache, workerVars>>
       PROVE  FinInv'
  BY <1>20, <1>s, FinKept
<1>21. CASE CompleteSpace
  <2>1. api \in Space
    BY <1>21, <1>t DEF CompleteSpace
  <2>2. SameLife(api, api')
    <3>1. DefaultTier \in Tiers /\ Clusters \subseteq ClusterNames
      BY ConstantsAssumption DEF ConstantsAssumption, ClusterNames
    <3>2. SameLife(api, [api EXCEPT !.tier = DefaultTier])
      BY <1>0, <2>1, <3>1, SameLifeUpdates
    <3>3. \A c \in Clusters : SameLife(api, [api EXCEPT !.target = c])
      BY <1>0, <2>1, <3>1, SameLifeUpdates
    <3> QED
      BY <1>21, <3>2, <3>3 DEF CompleteSpace
  <2> QED
    BY <1>20, <1>21, <2>1, <2>2 DEF CompleteSpace
<1>22. CASE CreateSpace
  <2>1. api = None /\ api' \in Space /\ ~api'.fin /\ ~api'.deleting /\ UNCHANGED <<cache, workerVars>>
    BY <1>22 DEF CreateSpace, Space, Conditions
  <2> QED
    BY <1>0, <2>1 DEF FinInv, Gone, Held
<1>23. CASE SetTarget
  <2>1. api \in Space
    BY <1>23, <1>t DEF SetTarget
  <2>2. SameLife(api, api')
    BY <1>0, <1>23, <2>1, SameLifeUpdates DEF SetTarget
  <2> QED
    BY <1>20, <1>23, <2>1, <2>2 DEF SetTarget
<1>24. CASE SetTier
  <2>1. api \in Space
    BY <1>24, <1>t DEF SetTier
  <2>2. SameLife(api, api')
    BY <1>0, <1>24, <2>1, SameLifeUpdates DEF SetTier
  <2> QED
    BY <1>20, <1>24, <2>1, <2>2 DEF SetTier
<1>25. CASE DeleteSpace
  <2>1. api \in Space /\ UNCHANGED <<cache, workerVars>>
    BY <1>25, <1>t DEF DeleteSpace
  <2>2. CASE api.fin
    <3>1. api' \in Space /\ api'.fin /\ api'.deleting
      BY <1>25, <2>1, <2>2 DEF DeleteSpace, Space
    <3> QED
      BY <1>0, <2>1, <2>2, <3>1 DEF FinInv, Gone, Held
  <2>3. CASE ~api.fin
    <3>1. api' = None
      BY <1>25, <2>3 DEF DeleteSpace
    <3> QED
      BY <2>1, <2>3, <3>1 DEF FinInv, Gone, Held
  <2> QED
    BY <2>2, <2>3
<1>26. CASE Restart
  BY <1>26 DEF Restart, Done, FinInv, Gone, Held, InProvision, Managing
<1>27. CASE UNCHANGED <<spaceVars, workerVars>>
  BY <1>27, <1>s, FinKept
<1> QED
  BY <1>1, <1>2, <1>4, <1>5, <1>6, <1>7, <1>8, <1>9, <1>10, <1>11, <1>12, <1>13, <1>14,
     <1>15, <1>16, <1>17, <1>18, <1>19, <1>21, <1>22, <1>23, <1>24, <1>25, <1>26, <1>27
  DEF Next, System, Worker, Environment, vars, SecondPasses, PostponeDelayPasses, Synchronize,
      MemberStep, DeliverNSTemplateSet, ChangeBindings, UpdateTier

\* Only CreateNSTemplateSet makes an NSTemplateSet appear.
LEMMA OnlyCreateCreates ==
    ASSUME IType, [Next]_vars, NEW c \in Clusters, nsts[c] = None, nsts'[c] # None
    PROVE  CreateNSTemplateSet
<1> USE DEF memberVars, IType
<1>0. nsts \in [Clusters -> TemplateSet \cup {None}]
  BY DEF TypeOK
<1>1. nsts' # nsts
  OBVIOUS
<1>2. ASSUME NEW d, NEW n, SetNSTemplateSet(d, n), nsts[d] # None \/ n = None PROVE FALSE
  BY <1>0, <1>2 DEF SetNSTemplateSet
<1>3. CASE Retarget
  BY <1>1, <1>2, <1>3 DEF Retarget, DeleteFromCluster
<1>4. CASE DeleteNSTemplateSet
  BY <1>1, <1>2, <1>4 DEF DeleteNSTemplateSet, DeleteFromCluster
<1>5. CASE UpdateNSTemplateSet
  BY <1>1, <1>2, <1>5 DEF UpdateNSTemplateSet, Outdated
<1>6. ASSUME NEW d \in Clusters, MemberStep(d) PROVE FALSE
  BY <1>2, <1>6 DEF MemberStep, Live, Terminating
<1> QED
  BY <1>1, <1>3, <1>4, <1>5, <1>6
  DEF Next, System, Worker, Environment, vars, Reconcile, AddFinalizer, ResetTargetCluster,
      SetStateLabel, GetTier, ManageNSTemplateSet, ReplicateStatus, SetStatusProvisioning,
      SetHashLabel, SetProvisionedNamespaces, SetStatus, RemoveFinalizer, WriteRefused,
      DeliverSpace, CompleteSpace, CreateSpace, SetTarget, SetTier, DeleteSpace,
      ChangeBindings, UpdateTier, DeliverNSTemplateSet, SecondPasses, PostponeDelayPasses,
      Restart, Synchronize

\* However stale the caches of the host and of the members, and whatever
\* administrators and faults do, an NSTemplateSet is created only for a Space
\* that exists and holds its finalizer.
THEOREM CreatesForExisting == Spec => CreatedForExisting
<1>1. Spec => [](IType /\ FinInv)
  <2>1. Init => IType /\ FinInv
    BY ITypeInit, FinInit
  <2>2. IType /\ FinInv /\ [Next]_vars => (IType /\ FinInv)'
    BY ITypeNext, FinNext
  <2> QED
    BY <2>1, <2>2, PTL DEF Spec
<1>2. ASSUME IType, FinInv, [Next]_vars
      PROVE  \A c \in Clusters : nsts[c] = None /\ nsts'[c] # None =>
                 api # None /\ api.fin /\ api' = api
  <2> SUFFICES ASSUME NEW c \in Clusters, nsts[c] = None, nsts'[c] # None
               PROVE  api # None /\ api.fin /\ api' = api
    OBVIOUS
  <2>1. CreateNSTemplateSet
    BY <1>2, OnlyCreateCreates
  <2>2. pc \in InProvision /\ api' = api
    BY <2>1 DEF CreateNSTemplateSet, InProvision, Managing, spaceVars
  <2> QED
    BY <1>2, <2>2 DEF FinInv, Held
<1> QED
  BY <1>1, <1>2, PTL DEF Spec, CreatedForExisting

=============================================================================
