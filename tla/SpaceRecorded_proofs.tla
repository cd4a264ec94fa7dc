------------------------ MODULE SpaceRecorded_proofs ------------------------
(***************************************************************************)
(* Recorded, the refinement of SpacePlacement, what the status forgets and *)
(* what the counters count, proved for every value of the constants, when  *)
(* administrators wait for a retargeting to finish (Disciplined) and the   *)
(* caches of the members do not lag (~MemberLag): without either, TLC has  *)
(* counterexamples to the first two.                                       *)
(*                                                                         *)
(* Recorded is not inductive: the step that breaks it would be a write of  *)
(* Status.TargetCluster, or a creation, decided on an outdated copy.  The  *)
(* invariant says what such copies cannot be wrong about.  Provisioning is *)
(* reported together with the target cluster (Aligned) and, as long as any *)
(* copy still says Provisioning, the cluster it names is the one on record *)
(* (Known), so a reconcile that finds nothing to report before it creates  *)
(* is right not to write.                                                  *)
(***************************************************************************)
EXTENDS SpaceController_proofs

\* Nothing is recorded before the finalizer is there.
Fresh(o) == o # None /\ ~o.fin => o.cond = "None" /\ o.st = None

Aligned(o) == o # None /\ o.cond = "Provisioning" => o.target # None /\ o.st = o.target

Leaving(o) == o # None /\ o.deleting => o.st = None \/ o.target = None \/ o.st = o.target

Known(o) ==
    o # None /\ ~o.deleting /\ o.cond = "Provisioning" => Held(api) /\ api.st = o.st

ObjectsOK == \A o \in {api, cache, obj} : Fresh(o) /\ Aligned(o) /\ Leaving(o)

KnownOK == Known(cache) /\ Known(obj)

\* The in-memory status of the reconcile in progress.
CopyOK ==
    /\ pc \notin {"idle", "finalizer"} => obj.fin
    /\ pc = "finalizer" => ~obj.fin
    /\ pc \in InProvision \cup {"finalizer"} => ~obj.deleting
    /\ pc \in {"delete", "unfinalize"} => obj.deleting
    /\ pc \in {"finalizer", "retarget", "reset", "label", "tier", "namespaces", "delete",
              "unfinalize"} => st = obj.st
    /\ pc \in {"label", "tier"} => ~NeedsRetarget(obj)
    /\ pc \in Managing => obj.st \in {None, obj.target}
    /\ pc \in Managing \ {"namespaces"} => st = obj.target
    /\ pc \in {"status", "fail"} =>
          /\ st = obj.st \/ (~obj.deleting /\ obj.st = None /\ st = obj.target)
          /\ next = "Provisioning" => st # None /\ st = obj.target

\* The recorded cluster is empty when it is about to be forgotten.
ClearedOK == pc \in {"reset", "unfinalize"} /\ obj.st \in Clusters => nsts[obj.st] = None

\* A retargeting that can still be written is not followed by a copy of the
\* Space from before it was provisioned.
RetargetOK ==
    pc \in {"retarget", "reset"} /\ (api = None \/ api.cond # "Provisioning")
        => cache = None \/ cache.deleting \/ cache.cond # "Provisioning"

CreateOK == pc = "create" => api.st = obj.target

RecInv ==
    /\ view = nsts
    /\ Recorded
    /\ ObjectsOK
    /\ KnownOK
    /\ CopyOK
    /\ ClearedOK
    /\ RetargetOK
    /\ CreateOK

LEMMA RecInit == Init => RecInv
BY DEF Init, RecInv, Recorded, ObjectsOK, Fresh, Aligned, Leaving, KnownOK, Known, CopyOK,
       ClearedOK, RetargetOK, CreateOK, InProvision, Managing

-----------------------------------------------------------------------------
\* The cache of the members is never behind them.
LEMMA ViewNext ==
    ASSUME ~MemberLag, IType, view = nsts, [Next]_vars
    PROVE  view' = nsts'
<1> USE DEF memberVars
<1>1. ASSUME NEW c, NEW n, SetNSTemplateSet(c, n) PROVE view' = nsts'
  BY <1>1 DEF SetNSTemplateSet
<1>2. CASE UNCHANGED memberVars
  BY <1>2
<1>3. CASE Retarget
  BY <1>1, <1>3 DEF Retarget, DeleteFromCluster
<1>4. CASE DeleteNSTemplateSet
  BY <1>1, <1>4 DEF DeleteNSTemplateSet, DeleteFromCluster
<1>5. CASE UpdateNSTemplateSet
  BY <1>1, <1>5 DEF UpdateNSTemplateSet
<1>6. CASE CreateNSTemplateSet
  BY <1>1, <1>6 DEF CreateNSTemplateSet
<1>7. ASSUME NEW c \in Clusters, MemberStep(c) PROVE view' = nsts'
  BY <1>1, <1>7 DEF MemberStep
<1>8. ASSUME NEW c \in Clusters, DeliverNSTemplateSet(c) PROVE view' = nsts'
  BY <1>8 DEF DeliverNSTemplateSet
<1>9. CASE Restart
  BY <1>9 DEF Restart
<1> QED
  BY <1>2, <1>3, <1>4, <1>5, <1>6, <1>7, <1>8, <1>9
  DEF Next, System, Worker, Environment, vars, Reconcile, AddFinalizer, ResetTargetCluster,
      SetStateLabel, GetTier, ManageNSTemplateSet, ReplicateStatus, SetStatusProvisioning,
      SetHashLabel, SetProvisionedNamespaces, SetStatus, RemoveFinalizer, WriteRefused,
      DeliverSpace, CompleteSpace, CreateSpace, SetTarget, SetTier, DeleteSpace,
      ChangeBindings, UpdateTier, SecondPasses, PostponeDelayPasses, Synchronize

-----------------------------------------------------------------------------
\* p is o with another finalizer, reason and recorded cluster; the labels and
\* the tier do not matter here.
Rewritten(o, p, fin, cond, recorded) ==
    /\ p # None
    /\ p.fin = fin /\ p.deleting = o.deleting
    /\ p.target = o.target
    /\ p.cond = cond /\ p.st = recorded

LEMMA Writes ==
    ASSUME NEW o \in Space
    PROVE  /\ Rewritten(o, o, o.fin, o.cond, o.st)
           /\ Rewritten(o, [o EXCEPT !.fin = TRUE], TRUE, o.cond, o.st)
           /\ \A l \in {"pending", "assigned"} :
                 Rewritten(o, [o EXCEPT !.label = l], o.fin, o.cond, o.st)
           /\ \A h \in Templates :
                 Rewritten(o, [o EXCEPT !.hash = h], o.fin, o.cond, o.st)
           /\ \A c \in ClusterNames \cup {None} :
                 Rewritten(o, [o EXCEPT !.st = c], o.fin, o.cond, c)
           /\ \A r \in Conditions, c \in ClusterNames \cup {None} :
                 Rewritten(o, [o EXCEPT !.cond = r, !.st = c], o.fin, r, c)
<1> USE DEF Rewritten
<1>1. \A p \in Space : p # None
  BY NoneAssumption
<1>2. Rewritten(o, o, o.fin, o.cond, o.st)
  BY <1>1
<1>3. Rewritten(o, [o EXCEPT !.fin = TRUE], TRUE, o.cond, o.st)
  <2>1. [o EXCEPT !.fin = TRUE] \in Space
    BY DEF Space
  <2> QED
    BY <1>1, <2>1 DEF Space
<1>4. ASSUME NEW l \in {"pending", "assigned"}
      PROVE  Rewritten(o, [o EXCEPT !.label = l], o.fin, o.cond, o.st)
  <2>1. [o EXCEPT !.label = l] \in Space
    BY DEF Space
  <2> QED
    BY <1>1, <2>1 DEF Space
<1>5. ASSUME NEW h \in Templates
      PROVE  Rewritten(o, [o EXCEPT !.hash = h], o.fin, o.cond, o.st)
  <2>1. [o EXCEPT !.hash = h] \in Space
    BY DEF Space
  <2> QED
    BY <1>1, <2>1 DEF Space
<1>6. ASSUME NEW c \in ClusterNames \cup {None}
      PROVE  Rewritten(o, [o EXCEPT !.st = c], o.fin, o.cond, c)
  <2>1. [o EXCEPT !.st = c] \in Space
    BY DEF Space
  <2> QED
    BY <1>1, <2>1 DEF Space
<1>7. ASSUME NEW r \in Conditions, NEW c \in ClusterNames \cup {None}
      PROVE  Rewritten(o, [o EXCEPT !.cond = r, !.st = c], o.fin, r, c)
  <2>1. [o EXCEPT !.cond = r, !.st = c] \in Space
    BY DEF Space
  <2> QED
    BY <1>1, <2>1 DEF Space
<1> QED
  BY <1>2, <1>3, <1>4, <1>5, <1>6, <1>7

-----------------------------------------------------------------------------
\* Steps that leave the Space and the cache alone and go from one call of the
\* reconcile to a later one, or end it.
LEMMA QuietKept ==
    ASSUME RecInv, UNCHANGED spaceVars, obj' \in {obj, None},
           pc' \in {"retarget", "reset"} => pc \in {"retarget", "reset"}
    PROVE  ObjectsOK' /\ KnownOK' /\ RetargetOK'
<1> USE DEF spaceVars
<1>1. ObjectsOK'
  BY DEF RecInv, ObjectsOK, Fresh, Aligned, Leaving
<1>2. KnownOK'
  BY DEF RecInv, KnownOK, Known, Held
<1>3. RetargetOK'
  BY DEF RecInv, RetargetOK
<1> QED
  BY <1>1, <1>2, <1>3

\* Steps that create nothing.
LEMMA NothingCreated ==
    ASSUME IType, RecInv, Held(api) => Held(api') /\ api'.st = api.st,
           nsts' \in [Clusters -> TemplateSet \cup {None}],
           \A c \in Clusters : nsts[c] = None => nsts'[c] = None
    PROVE  Recorded'
BY DEF RecInv, Recorded, Held

LEMMA NoNewEntry ==
    ASSUME IType, NEW c \in Clusters, NEW n, SetNSTemplateSet(c, n), nsts[c] # None \/ n = None
    PROVE  \A d \in Clusters : nsts[d] = None => nsts'[d] = None
BY DEF IType, TypeOK, SetNSTemplateSet

\* Writes of an up-to-date copy that do not move the recorded cluster.
LEMMA WrittenKept ==
    ASSUME RecInv, api = obj, obj \in Space, cache' = cache, nsts' = nsts,
           NEW p, NEW fin, NEW cond, NEW recorded,
           Rewritten(obj, p, fin, cond, recorded), api' = p, obj' \in {p, None},
           obj.fin => fin,
           fin,
           cond = "Provisioning" => obj.target # None /\ recorded = obj.target,
           obj.deleting => recorded = obj.st,
           obj.st # None => recorded = obj.st
    PROVE  ObjectsOK' /\ KnownOK' /\ Recorded'
<1> USE DEF Rewritten
<1>1. api # None /\ obj # None
  BY NoneAssumption
<1>2. ObjectsOK'
  BY <1>1 DEF RecInv, ObjectsOK, Fresh, Aligned, Leaving
<1>3. Known(cache)'
  BY <1>1 DEF RecInv, ObjectsOK, Aligned, KnownOK, Known, Held
<1>4. Known(obj)'
  BY <1>1 DEF Known, Held
<1>5. Recorded'
  BY <1>1, NoneAssumption, ConstantsAssumption
  DEF RecInv, Recorded, ConstantsAssumption
<1> QED
  BY <1>2, <1>3, <1>4, <1>5 DEF KnownOK

\* Steps of the other actors: the reconcile in progress is left alone.
LEMMA OthersKept ==
    ASSUME RecInv, UNCHANGED <<cache, workerVars>>,
           Held(api) => Held(api') /\ api'.st = api.st,
           api' # None => Fresh(api') /\ Aligned(api') /\ Leaving(api'),
           api' = None \/ api'.cond # "Provisioning"
               => api = None \/ api.cond # "Provisioning" \/ ~Held(api),
           view' = nsts', Recorded',
           \A c \in Clusters : nsts[c] = None => nsts'[c] = None,
           FinInv
    PROVE  RecInv'
<1> USE DEF workerVars
<1>1. ObjectsOK'
  BY DEF RecInv, ObjectsOK, Fresh, Aligned, Leaving
<1>2. KnownOK'
  BY DEF RecInv, KnownOK, Known
<1>3. CopyOK'
  BY DEF RecInv, CopyOK, NeedsRetarget
<1>4. ClearedOK'
  BY DEF RecInv, ClearedOK
<1>5. RetargetOK'
  BY DEF RecInv, RetargetOK, FinInv, InProvision
<1>6. CreateOK'
  BY DEF RecInv, CreateOK, FinInv, InProvision, Managing
<1> QED
  BY <1>1, <1>2, <1>3, <1>4, <1>5, <1>6 DEF RecInv

-----------------------------------------------------------------------------
LEMMA ReconcileKept ==
    ASSUME IType, FinInv, RecInv, Reconcile
    PROVE  RecInv'
<1> USE DEF spaceVars, memberVars, workerVars
<1>1. CASE cache = None
  <2>1. UNCHANGED <<api, cache, nsts, view, pc, obj, st, want, next>>
    BY <1>1 DEF Reconcile
  <2> QED
    BY <2>1 DEF RecInv, Recorded, ObjectsOK, Fresh, Aligned, Leaving, KnownOK, Known, Held,
                CopyOK, NeedsRetarget, ClearedOK, RetargetOK, CreateOK
<1>2. CASE cache # None
  <2>1. /\ UNCHANGED <<api, cache, nsts, view>>
        /\ obj' = cache /\ st' = cache.st /\ pc' = FirstCall(cache)
        /\ next' = next
    BY <1>2 DEF Reconcile
  <2>2. /\ pc' \in {"delete", "finalizer", "retarget", "label"}
        /\ pc' = "delete" <=> cache.deleting
        /\ pc' \in {"retarget", "label"} => cache.fin
        /\ pc' = "finalizer" => ~cache.fin
        /\ pc' = "retarget" => NeedsRetarget(cache)
        /\ pc' = "label" => ~NeedsRetarget(cache)
    BY <2>1 DEF FirstCall, AfterFinalizer
  <2>3. ObjectsOK' /\ KnownOK'
    BY <2>1 DEF RecInv, ObjectsOK, Fresh, Aligned, Leaving, KnownOK, Known, Held
  <2>4. CopyOK'
    BY <1>2, <2>1, <2>2 DEF RecInv, CopyOK, NeedsRetarget, InProvision, Managing, FinInv
  <2>5. RetargetOK'
    BY <1>2, <2>1, <2>2 DEF RecInv, RetargetOK, ObjectsOK, Aligned, NeedsRetarget
  <2>6. Recorded' /\ ClearedOK' /\ CreateOK' /\ view' = nsts'
    BY <2>1, <2>2 DEF RecInv, Recorded, ClearedOK, CreateOK
  <2> QED
    BY <2>3, <2>4, <2>5, <2>6 DEF RecInv
<1> QED
  BY <1>1, <1>2

LEMMA AddFinalizerKept ==
    ASSUME IType, RecInv, AddFinalizer
    PROVE  RecInv'
<1> USE DEF spaceVars, memberVars
<1>1. /\ pc = "finalizer" /\ obj \in Space /\ api = obj
      /\ UNCHANGED <<cache, nsts, view, st>>
      /\ api' = [obj EXCEPT !.fin = TRUE] /\ obj' = api'
      /\ pc' = AfterFinalizer(obj)
  BY DEF AddFinalizer, Write, IType, TypeOK
<1>2. Rewritten(obj, [obj EXCEPT !.fin = TRUE], TRUE, obj.cond, obj.st)
  BY <1>1, Writes
<1>3. /\ obj.cond = "Provisioning" => obj.target # None /\ obj.st = obj.target
      /\ ~obj.deleting /\ st = obj.st
  BY <1>1, NoneAssumption DEF RecInv, ObjectsOK, Aligned, CopyOK
<1>4. ObjectsOK' /\ KnownOK' /\ Recorded'
  BY <1>1, <1>2, <1>3, WrittenKept
<1>5. pc' \in {"retarget", "label"} /\ (pc' = "label" => ~NeedsRetarget(obj))
  BY <1>1 DEF AfterFinalizer
<1>6. obj'.st = obj.st /\ obj'.target = obj.target /\ ~obj'.deleting /\ obj'.fin
  BY <1>1, <1>2, <1>3 DEF Rewritten
<1>7. CopyOK'
  BY <1>1, <1>3, <1>5, <1>6 DEF CopyOK, NeedsRetarget, InProvision, Managing
<1>8. RetargetOK'
  <2>1. ~obj.fin /\ obj.st = None
    BY <1>1, NoneAssumption DEF RecInv, CopyOK, ObjectsOK, Fresh
  <2>2. pc' = "label"
    BY <1>1, <2>1 DEF AfterFinalizer, NeedsRetarget
  <2> QED
    BY <2>2 DEF RetargetOK
<1>9. ClearedOK' /\ CreateOK' /\ view' = nsts'
  BY <1>1, <1>5 DEF RecInv, ClearedOK, CreateOK
<1> QED
  BY <1>4, <1>7, <1>8, <1>9 DEF RecInv

LEMMA RetargetKept ==
    ASSUME ~MemberLag, IType, RecInv, Retarget, view' = nsts',
           nsts' \in [Clusters -> TemplateSet \cup {None}]
    PROVE  RecInv'
<1> USE DEF memberVars, spaceVars
<1>1. /\ pc = "retarget" /\ pc' \in {"reset", "status", "fail"}
      /\ UNCHANGED <<api, cache, obj, st>>
      /\ next' # "Provisioning"
  BY DEF Retarget, DeleteFromCluster, Goto
<1>2. \A c \in Clusters : nsts[c] = None => nsts'[c] = None
  BY NoNewEntry DEF Retarget, DeleteFromCluster
<1>3. ObjectsOK' /\ KnownOK' /\ RetargetOK'
  BY <1>1, QuietKept
<1>4. Recorded'
  BY <1>1, <1>2, NothingCreated
<1>5. CopyOK'
  BY <1>1 DEF RecInv, CopyOK, NeedsRetarget, InProvision, Managing
<1>6. ClearedOK'
  BY <1>1 DEF ClearedOK, RecInv, Retarget, DeleteFromCluster, Goto, Live
<1> QED
  BY <1>1, <1>3, <1>4, <1>5, <1>6 DEF RecInv, CreateOK

LEMMA ResetTargetClusterKept ==
    ASSUME IType, FinInv, RecInv, ResetTargetCluster
    PROVE  RecInv'
<1> USE DEF spaceVars, memberVars
<1>1. /\ pc = "reset" /\ pc' = "label" /\ obj \in Space /\ obj # None /\ api = obj
      /\ UNCHANGED <<cache, nsts, view>>
      /\ api' = [obj EXCEPT !.st = None] /\ obj' = api' /\ st' = None
  BY NoneAssumption DEF ResetTargetCluster, Write, IType, TypeOK
<1>2. Rewritten(obj, api', obj.fin, obj.cond, None)
  BY <1>1, Writes
<1>3. NeedsRetarget(obj) /\ obj.cond # "Provisioning" /\ obj.fin /\ ~obj.deleting
  BY <1>1 DEF IType, WorkerOK, RecInv, ObjectsOK, Aligned, NeedsRetarget, CopyOK, InProvision
<1>4. ObjectsOK'
  BY <1>1, <1>2, <1>3 DEF RecInv, ObjectsOK, Fresh, Aligned, Leaving, Rewritten
<1>5. KnownOK'
  BY <1>1, <1>2, <1>3 DEF RecInv, RetargetOK, KnownOK, Known, Rewritten
<1>6. \A c \in Clusters : nsts[c] = None
  BY <1>1 DEF RecInv, Recorded, ClearedOK
<1>7. CopyOK'
  BY <1>1, <1>2, <1>3 DEF CopyOK, Rewritten, NeedsRetarget, InProvision, Managing
<1> QED
  BY <1>1, <1>4, <1>5, <1>6, <1>7 DEF RecInv, Recorded, ClearedOK, RetargetOK, CreateOK

LEMMA SetStateLabelKept ==
    ASSUME IType, RecInv, SetStateLabel
    PROVE  RecInv'
<1> USE DEF spaceVars, memberVars
<1>1. /\ pc = "label" /\ obj \in Space /\ obj # None
      /\ UNCHANGED <<cache, nsts, view, st>>
      /\ pc' \in {"status", "tier"} /\ next' # "Provisioning"
  BY NoneAssumption DEF SetStateLabel, IType, TypeOK, Goto
<1>2. /\ obj.fin /\ ~obj.deleting /\ ~NeedsRetarget(obj) /\ st = obj.st
      /\ obj.cond = "Provisioning" => obj.target # None /\ obj.st = obj.target
  BY <1>1 DEF RecInv, CopyOK, ObjectsOK, Aligned, InProvision
<1>3. StateLabel(obj) \in {"pending", "assigned"}
  BY DEF StateLabel
<1>4. Rewritten(obj, [obj EXCEPT !.label = StateLabel(obj)], obj.fin, obj.cond, obj.st)
  BY <1>1, <1>3, Writes
<1>5. ObjectsOK' /\ KnownOK' /\ Recorded'
  <2>1. CASE UNCHANGED <<api, obj>>
    BY <1>1, <2>1 DEF RecInv, ObjectsOK, Fresh, Aligned, Leaving, KnownOK, Known, Held, Recorded
  <2>2. CASE Write([obj EXCEPT !.label = StateLabel(obj)])
    <3>1. /\ api = obj /\ obj' = api'
          /\ api' = [obj EXCEPT !.label = StateLabel(obj)]
      BY <2>2 DEF Write
    <3> QED
      BY <1>1, <1>2, <1>4, <3>1, WrittenKept
  <2> QED
    BY <2>1, <2>2 DEF SetStateLabel
<1>6. /\ obj'.fin /\ ~obj'.deleting /\ obj'.target = obj.target /\ obj'.st = obj.st
  BY <1>2, <1>4 DEF SetStateLabel, Write, Rewritten
<1>7. CopyOK'
  BY <1>1, <1>2, <1>6 DEF CopyOK, NeedsRetarget, InProvision, Managing
<1> QED
  BY <1>1, <1>5, <1>7 DEF RecInv, ClearedOK, RetargetOK, CreateOK

\* The steps between the state label and the last status that write neither
\* the Space nor a member.
LEMMA ReadingKept ==
    ASSUME IType, RecInv, GetTier \/ ManageNSTemplateSet \/ ReplicateStatus
    PROVE  RecInv'
<1> USE DEF spaceVars, memberVars
<1>1. /\ pc \in {"tier", "manage"}
      /\ UNCHANGED <<api, cache, nsts, view>>
      /\ pc' \in {"manage", "provisioning", "hash", "status", "fail", "idle"}
      /\ obj' \in {obj, None} /\ (pc' # "idle" => obj' = obj)
  BY DEF GetTier, ManageNSTemplateSet, ReplicateStatus, Goto, Done
<1>2. ObjectsOK' /\ KnownOK' /\ RetargetOK'
  BY <1>1, QuietKept
<1>3. CASE pc = "tier"
  <2>1. /\ pc' \in {"manage", "fail", "idle"}
        /\ pc' = "manage" => st' = obj.target
        /\ pc' = "fail" => st' = st /\ next' # "Provisioning"
    BY <1>3 DEF GetTier, ManageNSTemplateSet, ReplicateStatus, Goto, Done
  <2> QED
    BY <1>1, <1>2, <1>3, <2>1
    DEF RecInv, CopyOK, NeedsRetarget, InProvision, Managing, Recorded, ClearedOK, CreateOK
<1>4. CASE pc = "manage"
  <2>1. /\ pc' \in {"provisioning", "hash", "status", "fail", "idle"}
        /\ pc' # "idle" => st' = st
    BY <1>4 DEF GetTier, ManageNSTemplateSet, ReplicateStatus, Goto, Done
  <2>2. st # None
    BY <1>4, ConstantsAssumption
    DEF ConstantsAssumption, IType, WorkerOK, RecInv, CopyOK, Managing
  <2>3. st = obj.target /\ obj.st \in {None, obj.target} /\ obj.fin /\ ~obj.deleting
    BY <1>4 DEF RecInv, CopyOK, Managing, InProvision
  <2>4. CopyOK'
    BY <1>1, <2>1, <2>2, <2>3 DEF CopyOK, NeedsRetarget, InProvision, Managing
  <2> QED
    BY <1>1, <1>2, <1>4, <2>1, <2>4 DEF RecInv, Recorded, ClearedOK, CreateOK
<1> QED
  BY <1>1, <1>3, <1>4

LEMMA UpdateNSTemplateSetKept ==
    ASSUME IType, RecInv, UpdateNSTemplateSet, view' = nsts',
           nsts' \in [Clusters -> TemplateSet \cup {None}]
    PROVE  RecInv'
<1> USE DEF spaceVars, memberVars
<1>1. /\ pc = "manage" /\ pc' \in {"status", "fail"}
      /\ UNCHANGED <<api, cache, obj, st>>
      /\ next' # "Provisioning"
  BY DEF UpdateNSTemplateSet, Goto
<1>2. \A c \in Clusters : nsts[c] = None => nsts'[c] = None
  <2>1. obj.target \in Clusters
    BY <1>1 DEF IType, WorkerOK, Managing
  <2> QED
    BY <2>1, NoNewEntry DEF UpdateNSTemplateSet, Outdated
<1>3. ObjectsOK' /\ KnownOK' /\ RetargetOK'
  BY <1>1, QuietKept
<1>4. Recorded'
  BY <1>1, <1>2, NothingCreated
<1>5. CopyOK'
  BY <1>1 DEF RecInv, CopyOK, NeedsRetarget, InProvision, Managing
<1> QED
  BY <1>1, <1>3, <1>4, <1>5 DEF RecInv, ClearedOK, CreateOK

LEMMA SetStatusProvisioningKept ==
    ASSUME IType, FinInv, RecInv, SetStatusProvisioning
    PROVE  RecInv'
<1> USE DEF spaceVars, memberVars
<1>1. /\ pc = "provisioning" /\ pc' = "create" /\ obj \in Space /\ obj # None
      /\ UNCHANGED <<cache, nsts, view, st>>
      /\ st \in ClusterNames \cup {None}
  BY NoneAssumption DEF SetStatusProvisioning, IType, TypeOK, Goto
<1>2. /\ obj.fin /\ ~obj.deleting /\ st = obj.target /\ obj.target # None
      /\ obj.st \in {None, obj.target}
  BY <1>1, ConstantsAssumption
  DEF ConstantsAssumption, RecInv, CopyOK, InProvision, Managing, IType, WorkerOK
<1>3. CASE obj.cond = "Provisioning"
  <2>1. UNCHANGED <<api, obj>>
    BY <1>3 DEF SetStatusProvisioning, UpdateStatus
  <2>2. api.st = obj.target
    BY <1>1, <1>2, <1>3 DEF RecInv, KnownOK, Known, ObjectsOK, Aligned
  <2>3. CopyOK'
    BY <1>1, <1>2, <2>1 DEF CopyOK, InProvision, Managing
  <2> QED
    BY <1>1, <2>1, <2>2, <2>3
    DEF RecInv, ObjectsOK, Fresh, Aligned, Leaving, KnownOK, Known, Held, Recorded, ClearedOK,
        RetargetOK, CreateOK
<1>4. CASE obj.cond # "Provisioning"
  <2>1. /\ api = obj /\ obj' = api'
        /\ api' = [obj EXCEPT !.cond = "Provisioning", !.st = st]
    BY <1>4 DEF SetStatusProvisioning, UpdateStatus, Write
  <2>2. Rewritten(obj, api', obj.fin, "Provisioning", st)
    BY <1>1, <2>1, Writes DEF Conditions
  <2>3. ObjectsOK' /\ KnownOK' /\ Recorded'
    BY <1>1, <1>2, <2>1, <2>2, WrittenKept
  <2>4. CopyOK'
    BY <1>1, <1>2, <2>1, <2>2 DEF CopyOK, Rewritten, InProvision, Managing
  <2> QED
    BY <1>1, <1>2, <2>1, <2>2, <2>3, <2>4
    DEF RecInv, ClearedOK, RetargetOK, CreateOK, Rewritten
<1> QED
  BY <1>3, <1>4

LEMMA CreateNSTemplateSetKept ==
    ASSUME IType, FinInv, RecInv, CreateNSTemplateSet, view' = nsts',
           nsts' \in [Clusters -> TemplateSet \cup {None}]
    PROVE  RecInv'
<1> USE DEF spaceVars, memberVars
<1>1. /\ pc = "create" /\ pc' \in {"idle", "fail"}
      /\ UNCHANGED <<api, cache>>
      /\ obj' \in {obj, None} /\ (pc' # "idle" => obj' = obj /\ st' = st)
      /\ pc' = "fail" => next' # "Provisioning"
  BY DEF CreateNSTemplateSet, Goto, Done
<1>2. obj.target \in Clusters /\ api.st = obj.target /\ Held(api)
  BY <1>1 DEF IType, WorkerOK, RecInv, CreateOK, FinInv, Managing, InProvision
<1>3. ObjectsOK' /\ KnownOK' /\ RetargetOK'
  BY <1>1, QuietKept
<1>4. \A c \in Clusters : nsts'[c] = nsts[c] \/ c = obj.target
  BY DEF CreateNSTemplateSet, SetNSTemplateSet, IType, TypeOK
<1>5. Recorded'
  BY <1>1, <1>2, <1>4 DEF RecInv, Recorded, Held
<1>6. CopyOK'
  BY <1>1 DEF RecInv, CopyOK, NeedsRetarget, InProvision, Managing
<1> QED
  BY <1>1, <1>3, <1>5, <1>6 DEF RecInv, ClearedOK, CreateOK

LEMMA SetHashLabelKept ==
    ASSUME IType, RecInv, SetHashLabel
    PROVE  RecInv'
<1> USE DEF spaceVars, memberVars
<1>1. /\ pc = "hash" /\ pc' = "namespaces" /\ obj \in Space /\ want.tmpl \in Templates
      /\ UNCHANGED <<cache, nsts, view>> /\ st' = obj.st
      /\ api = obj /\ api' = [obj EXCEPT !.hash = want.tmpl] /\ obj' = api'
  BY DEF SetHashLabel, Write, Goto, IType, TypeOK, WorkerOK, Managing, SetSpec
<1>2. /\ obj.fin /\ ~obj.deleting /\ st = obj.target
      /\ obj.st \in {None, obj.target}
      /\ obj.cond = "Provisioning" => obj.target # None /\ obj.st = obj.target
  BY <1>1, NoneAssumption DEF RecInv, CopyOK, InProvision, Managing, ObjectsOK, Aligned
<1>3. Rewritten(obj, api', obj.fin, obj.cond, obj.st)
  BY <1>1, Writes
<1>4. ObjectsOK' /\ KnownOK' /\ Recorded'
  BY <1>1, <1>2, <1>3, WrittenKept
<1>5. CopyOK'
  BY <1>1, <1>2, <1>3 DEF CopyOK, Rewritten, InProvision, Managing
<1> QED
  BY <1>1, <1>4, <1>5 DEF RecInv, ClearedOK, RetargetOK, CreateOK

LEMMA SetProvisionedNamespacesKept ==
    ASSUME IType, RecInv, SetProvisionedNamespaces
    PROVE  RecInv'
<1> USE DEF spaceVars, memberVars
<1>1. /\ pc = "namespaces" /\ pc' = "status" /\ next' # "Provisioning"
      /\ obj \in Space /\ obj # None
      /\ UNCHANGED <<cache, nsts, view, st>>
      /\ st \in ClusterNames \cup {None}
  BY NoneAssumption DEF SetProvisionedNamespaces, Goto, IType, TypeOK
<1>2. /\ obj.fin /\ ~obj.deleting /\ st = obj.st
      /\ obj.st \in {None, obj.target}
      /\ obj.cond = "Provisioning" => obj.target # None /\ obj.st = obj.target
  BY <1>1 DEF RecInv, CopyOK, InProvision, Managing, ObjectsOK, Aligned
<1>3. CASE UNCHANGED <<api, obj>>
  <2>1. CopyOK'
    BY <1>1, <1>2, <1>3 DEF CopyOK, NeedsRetarget, InProvision, Managing
  <2> QED
    BY <1>1, <1>3, <2>1
    DEF RecInv, ObjectsOK, Fresh, Aligned, Leaving, KnownOK, Known, Held, Recorded, ClearedOK,
        RetargetOK, CreateOK
<1>4. CASE Write([obj EXCEPT !.st = st])
  <2>1. api = obj /\ obj' = api' /\ api' = [obj EXCEPT !.st = st]
    BY <1>4 DEF Write
  <2>2. Rewritten(obj, api', obj.fin, obj.cond, st)
    BY <1>1, <2>1, Writes
  <2>3. ObjectsOK' /\ KnownOK' /\ Recorded'
    BY <1>1, <1>2, <2>1, <2>2, WrittenKept
  <2>4. CopyOK'
    BY <1>1, <1>2, <2>1, <2>2 DEF CopyOK, Rewritten, NeedsRetarget, InProvision, Managing
  <2> QED
    BY <1>1, <2>3, <2>4 DEF RecInv, ClearedOK, RetargetOK, CreateOK
<1> QED
  BY <1>3, <1>4 DEF SetProvisionedNamespaces

LEMMA SetStatusKept ==
    ASSUME IType, FinInv, RecInv, SetStatus
    PROVE  RecInv'
<1> USE DEF spaceVars, memberVars
<1>1. /\ pc \in {"status", "fail"} /\ pc' = "idle" /\ obj \in Space /\ obj # None
      /\ UNCHANGED <<cache, nsts, view>> /\ obj' = None
      /\ st \in ClusterNames \cup {None} /\ next \in Conditions
  BY NoneAssumption DEF SetStatus, WriteStatus, Done, IType, TypeOK
<1>2. /\ obj.fin
      /\ st = obj.st \/ (~obj.deleting /\ obj.st = None /\ st = obj.target)
      /\ next = "Provisioning" => st # None /\ st = obj.target
  BY <1>1 DEF RecInv, CopyOK
<1>3. ObjectsOK' /\ KnownOK' /\ Recorded'
  <2>1. CASE api' = api
    BY <1>1, <2>1 DEF RecInv, ObjectsOK, Fresh, Aligned, Leaving, KnownOK, Known, Held, Recorded
  <2>2. CASE api = obj /\ api' = [obj EXCEPT !.cond = next, !.st = st]
    <3>1. Rewritten(obj, api', obj.fin, next, st)
      BY <1>1, <2>2, Writes
    <3> QED
      BY <1>1, <1>2, <2>2, <3>1, WrittenKept
  <2> QED
    BY <2>1, <2>2 DEF SetStatus, WriteStatus
<1> QED
  BY <1>1, <1>3 DEF RecInv, CopyOK, InProvision, Managing, ClearedOK, RetargetOK, CreateOK

LEMMA DeleteNSTemplateSetKept ==
    ASSUME ~MemberLag, IType, RecInv, DeleteNSTemplateSet, view' = nsts',
           nsts' \in [Clusters -> TemplateSet \cup {None}]
    PROVE  RecInv'
<1> USE DEF memberVars, spaceVars
<1>1. /\ pc = "delete" /\ pc' \in {"unfinalize", "status", "fail"}
      /\ UNCHANGED <<api, cache, obj, st>>
      /\ next' # "Provisioning"
      /\ obj \in Space /\ obj # None
  BY NoneAssumption DEF DeleteNSTemplateSet, DeleteFromCluster, Goto, IType, TypeOK
<1>2. \A c \in Clusters : nsts[c] = None => nsts'[c] = None
  BY NoNewEntry DEF DeleteNSTemplateSet, DeleteFromCluster
<1>3. ObjectsOK' /\ KnownOK' /\ RetargetOK'
  BY <1>1, QuietKept
<1>4. Recorded'
  BY <1>1, <1>2, NothingCreated
<1>5. st = obj.st /\ obj.deleting
  BY <1>1 DEF RecInv, CopyOK
<1>6. CopyOK'
  BY <1>1 DEF RecInv, CopyOK, NeedsRetarget, InProvision, Managing
<1>7. ClearedOK'
  <2>1. CASE obj.st = None
    BY <1>1, <2>1, ConstantsAssumption DEF ConstantsAssumption, ClearedOK
  <2>2. CASE obj.st # None
    <3>1. DeletionCluster(obj) = obj.st
      BY <1>1, <1>5, <2>2 DEF DeletionCluster, RecInv, ObjectsOK, Leaving
    <3>2. DeleteFromCluster(obj.st, "unfinalize", "Terminating", "fail", "TerminatingFailed")
      BY <1>5, <2>2, <3>1 DEF DeleteNSTemplateSet
    <3> QED
      BY <1>1, <3>2 DEF ClearedOK, RecInv, DeleteFromCluster, Goto, Live
  <2> QED
    BY <2>1, <2>2
<1> QED
  BY <1>1, <1>3, <1>4, <1>6, <1>7 DEF RecInv, CreateOK

LEMMA RemoveFinalizerKept ==
    ASSUME IType, FinInv, RecInv, RemoveFinalizer
    PROVE  RecInv'
<1> USE DEF memberVars
<1>1. /\ pc = "unfinalize" /\ pc' = "idle" /\ api = obj /\ api' = None /\ obj' = None
      /\ UNCHANGED <<cache, nsts, view>>
  BY DEF RemoveFinalizer, Done
<1>2. \A c \in Clusters : nsts[c] = None
  BY <1>1 DEF RecInv, Recorded, ClearedOK
<1>3. ObjectsOK'
  BY <1>1 DEF RecInv, ObjectsOK, Fresh, Aligned, Leaving
<1>4. KnownOK'
  BY <1>1 DEF RecInv, KnownOK, Known, ObjectsOK, Fresh, FinInv, Gone
<1> QED
  BY <1>1, <1>2, <1>3, <1>4
  DEF RecInv, Recorded, CopyOK, InProvision, Managing, ClearedOK, RetargetOK, CreateOK

LEMMA WriteRefusedKept ==
    ASSUME IType, RecInv, WriteRefused
    PROVE  RecInv'
<1> USE DEF memberVars, spaceVars
<1>1. /\ pc \in {"label", "provisioning", "hash", "unfinalize", "finalizer", "reset",
                "namespaces", "status", "fail"}
      /\ UNCHANGED <<api, cache, nsts, view>>
      /\ pc' \in {"fail", "idle"} /\ obj' \in {obj, None}
      /\ pc' = "fail" => /\ pc \in {"label", "provisioning", "hash", "unfinalize"}
                         /\ UNCHANGED <<obj, st>> /\ next' # "Provisioning"
  BY DEF WriteRefused, Goto, Done
<1>2. ObjectsOK' /\ KnownOK' /\ RetargetOK'
  BY <1>1, QuietKept
<1>3. CopyOK'
  <2>1. CASE pc' = "idle"
    BY <2>1 DEF CopyOK, InProvision, Managing
  <2>2. CASE pc' = "fail"
    <3>1. /\ obj.fin /\ (pc # "unfinalize" => ~obj.deleting)
          /\ st = obj.st \/ (pc # "unfinalize" /\ obj.st = None /\ st = obj.target)
      BY <1>1, <2>2 DEF RecInv, CopyOK, InProvision, Managing
    <3> QED
      BY <1>1, <2>2, <3>1 DEF CopyOK, InProvision, Managing
  <2> QED
    BY <1>1, <2>1, <2>2
<1> QED
  BY <1>1, <1>2, <1>3 DEF RecInv, Recorded, ClearedOK, CreateOK

-----------------------------------------------------------------------------
LEMMA DeliverKept ==
    ASSUME RecInv, UNCHANGED <<api, nsts, pc, obj, st, next>>, cache' = api, view' = nsts'
    PROVE  RecInv'
<1>1. ObjectsOK'
  BY DEF RecInv, ObjectsOK, Fresh, Aligned, Leaving
<1>2. KnownOK'
  BY DEF RecInv, KnownOK, Known, Held, ObjectsOK, Fresh
<1>3. CopyOK' /\ ClearedOK' /\ CreateOK'
  BY DEF RecInv, CopyOK, NeedsRetarget, ClearedOK, CreateOK
<1>4. RetargetOK'
  BY DEF RetargetOK
<1> QED
  BY <1>1, <1>2, <1>3, <1>4 DEF RecInv, Recorded

LEMMA RestartKept ==
    ASSUME RecInv, Restart
    PROVE  RecInv'
<1>1. /\ UNCHANGED <<api, nsts>> /\ cache' = api /\ view' = nsts
      /\ pc' = "idle" /\ obj' = None
  BY DEF Restart, Done
<1> QED
  BY <1>1
  DEF RecInv, ObjectsOK, Fresh, Aligned, Leaving, KnownOK, Known, Held, Recorded, CopyOK,
      InProvision, Managing, ClearedOK, RetargetOK, CreateOK

\* Users, administrators and the SpaceCompletion controller change the Spec, or
\* ask for the deletion, under the discipline.
LEMMA SpaceEdits ==
    ASSUME Disciplined, IType, FinInv, RecInv,
           CompleteSpace \/ CreateSpace \/ SetTarget \/ SetTier \/ DeleteSpace
    PROVE  RecInv'
<1> USE DEF memberVars
<1>1. UNCHANGED <<cache, workerVars, nsts, view>>
  BY DEF CompleteSpace, CreateSpace, SetTarget, SetTier, DeleteSpace
<1>2. api # None => api \in Space /\ Fresh(api) /\ Aligned(api) /\ Leaving(api)
  BY DEF IType, TypeOK, RecInv, ObjectsOK
<1>3. \A c \in Clusters : nsts[c] # None => Held(api) /\ api.st = c
  BY DEF RecInv, Recorded, Held
<1>4. CASE CompleteSpace
  <2>1. api \in Space /\ api # None /\ ~api.deleting
    BY <1>2, <1>4, NoneAssumption DEF CompleteSpace
  <2>2. PICK t \in Tiers \cup {None}, c \in ClusterNames \cup {None} :
           /\ api' = [api EXCEPT !.tier = t, !.target = c]
           /\ c = api.target \/ api.target = None
    <3>1. CASE api' = [api EXCEPT !.tier = DefaultTier]
      <4>1. api' = [api EXCEPT !.tier = DefaultTier, !.target = api.target]
        BY <2>1, <3>1 DEF Space
      <4> QED
        BY <2>1, <4>1, ConstantsAssumption DEF ConstantsAssumption, Space
    <3>2. ASSUME NEW c \in Clusters, api.target = None, api' = [api EXCEPT !.target = c]
          PROVE  /\ api' = [api EXCEPT !.tier = api.tier, !.target = c]
                 /\ c \in ClusterNames /\ api.tier \in Tiers \cup {None}
      BY <2>1, <3>2 DEF Space, ClusterNames
    <3> QED
      BY <1>4, <3>1, <3>2 DEF CompleteSpace
  <2>3. /\ api' # None /\ api'.fin = api.fin /\ api'.deleting = api.deleting
        /\ api'.st = api.st /\ api'.cond = api.cond
        /\ api'.target = api.target \/ api.target = None
    <3>1. api' \in Space
      BY <2>1, <2>2 DEF Space
    <3> QED
      BY <2>1, <2>2, <3>1, NoneAssumption DEF Space
  <2>4. Fresh(api') /\ Aligned(api') /\ Leaving(api')
    BY <1>2, <2>1, <2>3 DEF Fresh, Aligned, Leaving
  <2>5. Recorded'
    BY <1>1, <1>3, <2>3 DEF Recorded, Held
  <2> QED
    BY <1>1, <2>1, <2>3, <2>4, <2>5, OthersKept DEF RecInv, Held
<1>5. CASE CreateSpace
  <2>1. /\ api = None /\ api' # None /\ ~api'.fin /\ ~api'.deleting
        /\ api'.st = None /\ api'.cond = "None"
    <3>1. api' \in Space
      BY <1>5 DEF CreateSpace, Space, Conditions
    <3>2. PICK t \in Tiers \cup {None}, c \in ClusterNames \cup {None} :
             api' = [fin |-> FALSE, deleting |-> FALSE, tier |-> t, target |-> c,
                     st |-> None, cond |-> "None", label |-> "None", hash |-> None]
      BY <1>5 DEF CreateSpace
    <3> QED
      BY <1>5, <3>1, <3>2, NoneAssumption DEF CreateSpace
  <2>2. Fresh(api') /\ Aligned(api') /\ Leaving(api')
    BY <2>1 DEF Fresh, Aligned, Leaving
  <2>3. Recorded'
    BY <1>1, <1>3, <2>1 DEF Recorded, Held
  <2> QED
    BY <1>1, <2>1, <2>2, <2>3, OthersKept DEF RecInv, Held
<1>6. CASE SetTarget
  <2>1. api \in Space /\ api # None /\ ~api.deleting /\ api.cond # "Provisioning"
    <3>1. api \in Space /\ api # None /\ ~api.deleting
      BY <1>2, <1>6 DEF SetTarget, MayRetarget
    <3>2. api.st = None \/ (api.st = api.target /\ api.cond # "Provisioning")
      BY <1>6 DEF SetTarget, MayRetarget
    <3> QED
      BY <1>2, <3>1, <3>2 DEF Aligned
  <2>2. /\ api' # None /\ api'.fin = api.fin /\ api'.deleting = api.deleting
        /\ api'.st = api.st /\ api'.cond = api.cond
    <3>1. PICK c \in ClusterNames \cup {None} : api' = [api EXCEPT !.target = c]
      BY <1>6 DEF SetTarget
    <3>2. api' \in Space
      BY <2>1, <3>1 DEF Space
    <3> QED
      BY <2>1, <3>1, <3>2, NoneAssumption DEF Space
  <2>3. Fresh(api') /\ Aligned(api') /\ Leaving(api')
    BY <1>2, <2>1, <2>2 DEF Fresh, Aligned, Leaving
  <2>4. Recorded'
    BY <1>1, <1>3, <2>2 DEF Recorded, Held
  <2> QED
    BY <1>1, <2>1, <2>2, <2>3, <2>4, OthersKept DEF RecInv, Held
<1>7. CASE SetTier
  <2>1. api \in Space /\ api # None
    BY <1>2, <1>7 DEF SetTier
  <2>2. /\ api' # None /\ api'.fin = api.fin /\ api'.deleting = api.deleting
        /\ api'.st = api.st /\ api'.cond = api.cond /\ api'.target = api.target
    <3>1. PICK t \in Tiers : api' = [api EXCEPT !.tier = t]
      BY <1>7 DEF SetTier
    <3>2. api' \in Space
      BY <2>1, <3>1 DEF Space
    <3> QED
      BY <2>1, <3>1, <3>2, NoneAssumption DEF Space
  <2>3. Fresh(api') /\ Aligned(api') /\ Leaving(api')
    BY <1>2, <2>1, <2>2 DEF Fresh, Aligned, Leaving
  <2>4. Recorded'
    BY <1>1, <1>3, <2>2 DEF Recorded, Held
  <2> QED
    BY <1>1, <2>1, <2>2, <2>3, <2>4, OthersKept DEF RecInv, Held
<1>8. CASE DeleteSpace
  <2>1. /\ api \in Space /\ api # None
        /\ api.st = None \/ api.st = api.target \/ api.target = None
    BY <1>2, <1>8 DEF DeleteSpace, MayDelete
  <2>2. CASE api.fin
    <3>1. /\ api' # None /\ api'.fin = api.fin /\ api'.deleting
          /\ api'.st = api.st /\ api'.cond = api.cond /\ api'.target = api.target
      <4>1. api' = [api EXCEPT !.deleting = TRUE]
        BY <1>8, <2>2 DEF DeleteSpace
      <4>2. api' \in Space
        BY <2>1, <4>1 DEF Space
      <4> QED
        BY <2>1, <4>1, <4>2, NoneAssumption DEF Space
    <3>2. Fresh(api') /\ Aligned(api') /\ Leaving(api')
      BY <1>2, <2>1, <3>1 DEF Fresh, Aligned, Leaving
    <3>3. Recorded'
      BY <1>1, <1>3, <3>1 DEF Recorded, Held
    <3> QED
      BY <1>1, <2>1, <3>1, <3>2, <3>3, OthersKept DEF RecInv, Held
  <2>3. CASE ~api.fin
    <3>1. api' = None
      BY <1>8, <2>3 DEF DeleteSpace
    <3>2. Recorded'
      BY <1>1, <1>3, <2>3 DEF Recorded, Held
    <3> QED
      BY <1>1, <2>3, <3>1, <3>2, OthersKept DEF RecInv, Held
  <2> QED
    BY <2>2, <2>3
<1> QED
  BY <1>4, <1>5, <1>6, <1>7, <1>8

\* The NSTemplateSet controllers of the members create nothing.
LEMMA MemberStepKept ==
    ASSUME IType, FinInv, RecInv, NEW c \in Clusters, MemberStep(c), view' = nsts',
           nsts' \in [Clusters -> TemplateSet \cup {None}]
    PROVE  RecInv'
<1> USE DEF spaceVars
<1>1. UNCHANGED <<api, cache, workerVars>>
  BY DEF MemberStep
<1>2. \A d \in Clusters : nsts[d] = None => nsts'[d] = None
  <2>1. nsts[c] # None
    BY DEF MemberStep, Live, Terminating
  <2> QED
    BY <2>1, NoNewEntry DEF MemberStep
<1>3. Recorded'
  BY <1>1, <1>2, NothingCreated
<1>4. api # None => Fresh(api) /\ Aligned(api) /\ Leaving(api)
  BY DEF RecInv, ObjectsOK
<1>5. api' # None => Fresh(api') /\ Aligned(api') /\ Leaving(api')
  BY <1>1, <1>4
<1> QED
  BY <1>1, <1>2, <1>3, <1>5, OthersKept

-----------------------------------------------------------------------------
LEMMA RecNext ==
    ASSUME Disciplined, ~MemberLag, IType, FinInv, RecInv, [Next]_vars
    PROVE  RecInv'
<1>1. view' = nsts'
  BY ViewNext DEF RecInv
<1>2. nsts' \in [Clusters -> TemplateSet \cup {None}]
  BY ITypeNext DEF IType, TypeOK
<1>3. CASE Worker
  BY <1>1, <1>2, <1>3, ReconcileKept, AddFinalizerKept, RetargetKept, ResetTargetClusterKept,
     SetStateLabelKept, ReadingKept, UpdateNSTemplateSetKept, SetStatusProvisioningKept,
     CreateNSTemplateSetKept, SetHashLabelKept, SetProvisionedNamespacesKept, SetStatusKept,
     DeleteNSTemplateSetKept, RemoveFinalizerKept, WriteRefusedKept
  DEF Worker
<1>4. CASE DeliverSpace
  BY <1>1, <1>4, DeliverKept DEF DeliverSpace, memberVars, workerVars
<1>5. CASE CompleteSpace \/ CreateSpace \/ SetTarget \/ SetTier \/ DeleteSpace
  BY <1>5, SpaceEdits
<1>6. ASSUME NEW c \in Clusters, MemberStep(c) PROVE RecInv'
  BY <1>1, <1>2, <1>6, MemberStepKept
<1>7. ASSUME NEW c \in Clusters, DeliverNSTemplateSet(c) PROVE FALSE
  BY <1>7 DEF DeliverNSTemplateSet, RecInv
<1>8. CASE Restart
  BY <1>8, RestartKept
<1>9. CASE UNCHANGED <<spaceVars, memberVars, workerVars>>
  <2>1. UNCHANGED <<api, cache, nsts, view, pc, obj, st, want, next>>
    BY <1>9 DEF spaceVars, memberVars, workerVars
  <2> QED
    BY <2>1
    DEF RecInv, Recorded, ObjectsOK, Fresh, Aligned, Leaving, KnownOK, Known, Held, CopyOK,
        NeedsRetarget, ClearedOK, RetargetOK, CreateOK
<1> QED
  BY <1>3, <1>4, <1>5, <1>6, <1>7, <1>8, <1>9
  DEF Next, System, Environment, vars, spaceVars, memberVars, workerVars, SecondPasses,
      PostponeDelayPasses, Synchronize, ChangeBindings, UpdateTier

\* The conjunction of the three invariants is one.
IInv == IType /\ FinInv /\ RecInv

LEMMA IInvHolds ==
    ASSUME Disciplined, ~MemberLag
    PROVE  Spec => []IInv
<1>1. Init => IInv
  BY ITypeInit, FinInit, RecInit DEF IInv
<1>2. IInv /\ [Next]_vars => IInv'
  BY ITypeNext, FinNext, RecNext DEF IInv
<1> QED
  BY <1>1, <1>2, PTL DEF Spec

\* When a Space is not retargeted before it has settled, every NSTemplateSet is
\* on the cluster its Space has on record, and that Space holds its finalizer.
THEOREM RecordsWhereItProvisions ==
    ASSUME Disciplined, ~MemberLag
    PROVE  Spec => []Recorded
<1>1. IInv => Recorded
  BY DEF IInv, RecInv
<1> QED
  BY <1>1, IInvHolds, PTL

-----------------------------------------------------------------------------
(***************************************************************************)
(* Refinement                                                              *)
(***************************************************************************)
Hosts == {c \in Clusters : nsts[c] # None}

\* Under the invariant the Space has at most one host, and only as long as
\* it is there.
LEMMA HostsOK ==
    ASSUME IInv
    PROVE  Hosts = {} \/ (SpaceStatus # "absent" /\ \E c \in Clusters : Hosts = {c})
<1>1. \A c \in Hosts : api # None /\ c = api.st /\ c \in Clusters
  BY DEF IInv, RecInv, Recorded, Hosts
<1> QED
  BY <1>1 DEF SpaceStatus

\* Every step keeps the life of the Space, except these three.
LEMMA StatusKept ==
    ASSUME IType, [Next]_vars, ~CreateSpace, ~DeleteSpace, ~RemoveFinalizer
    PROVE  SpaceStatus' = SpaceStatus
<1> USE DEF spaceVars
<1>0. /\ api \in Space \cup {None} /\ obj \in Space \cup {None}
      /\ pc # "idle" => obj \in Space
      /\ st \in ClusterNames \cup {None} /\ next \in Conditions
      /\ pc = "hash" => want.tmpl \in Templates
  BY DEF IType, TypeOK, WorkerOK, Managing, SetSpec
<1>1. ASSUME NEW o \in Space, NEW fin, NEW cond, NEW recorded, api = o,
             Rewritten(o, api', fin, cond, recorded)
      PROVE  SpaceStatus' = SpaceStatus
  BY <1>1, NoneAssumption DEF Rewritten, SpaceStatus
<1>2. ASSUME api' = api PROVE SpaceStatus' = SpaceStatus
  BY <1>2 DEF SpaceStatus
<1>3. CASE AddFinalizer
  BY <1>0, <1>1, <1>3, Writes DEF AddFinalizer, Write
<1>4. CASE ResetTargetCluster
  BY <1>0, <1>1, <1>4, Writes DEF ResetTargetCluster, Write
<1>5. CASE SetStateLabel
  <2>1. StateLabel(obj) \in {"pending", "assigned"}
    BY DEF StateLabel
  <2> QED
    <3>1. CASE UNCHANGED api
      BY <1>2, <3>1
    <3>2. CASE Write([obj EXCEPT !.label = StateLabel(obj)])
      <4>1. api = obj /\ obj \in Space /\ api' = [obj EXCEPT !.label = StateLabel(obj)]
        BY <1>0, <1>5, <3>2 DEF SetStateLabel, Write
      <4> QED
        BY <1>1, <2>1, <4>1, Writes
    <3> QED
      BY <1>5, <3>1, <3>2 DEF SetStateLabel
<1>6. CASE SetStatusProvisioning
  <2>1. CASE UNCHANGED api
    BY <1>2, <2>1
  <2>2. CASE Write([obj EXCEPT !.cond = "Provisioning", !.st = st])
    <3>1. /\ api = obj /\ obj \in Space
          /\ api' = [obj EXCEPT !.cond = "Provisioning", !.st = st]
      BY <1>0, <1>6, <2>2 DEF SetStatusProvisioning, Write
    <3>2. "Provisioning" \in Conditions
      BY DEF Conditions
    <3> QED
      BY <1>0, <1>1, <3>1, <3>2, Writes
  <2> QED
    BY <1>6, <2>1, <2>2 DEF SetStatusProvisioning, UpdateStatus
<1>7. CASE SetHashLabel
  <2>1. /\ api = obj /\ obj \in Space /\ want.tmpl \in Templates
        /\ api' = [obj EXCEPT !.hash = want.tmpl]
    BY <1>0, <1>7 DEF SetHashLabel, Write
  <2> QED
    BY <1>1, <2>1, Writes
<1>8. CASE SetProvisionedNamespaces
  <2>1. CASE UNCHANGED api
    BY <1>2, <2>1
  <2>2. CASE Write([obj EXCEPT !.st = st])
    <3>1. api = obj /\ obj \in Space /\ api' = [obj EXCEPT !.st = st]
      BY <1>0, <1>8, <2>2 DEF SetProvisionedNamespaces, Write
    <3> QED
      BY <1>0, <1>1, <3>1, Writes
  <2> QED
    BY <1>8, <2>1, <2>2 DEF SetProvisionedNamespaces
<1>9. CASE SetStatus
  <2>1. CASE UNCHANGED api
    BY <1>2, <2>1
  <2>2. CASE api = obj /\ api' = [obj EXCEPT !.cond = next, !.st = st]
    <3>1. obj \in Space
      BY <1>0, <1>9 DEF SetStatus, WriteStatus
    <3> QED
      BY <1>0, <1>1, <2>2, <3>1, Writes
  <2> QED
    BY <1>9, <2>1, <2>2 DEF SetStatus, WriteStatus
<1>10. ASSUME api \in Space, SameLife(api, api') PROVE SpaceStatus' = SpaceStatus
  BY <1>10, NoneAssumption DEF SameLife, SpaceStatus
<1>11. CASE CompleteSpace
  <2>1. api \in Space
    BY <1>0, <1>11 DEF CompleteSpace
  <2>2. DefaultTier \in Tiers /\ Clusters \subseteq ClusterNames
    BY ConstantsAssumption DEF ConstantsAssumption, ClusterNames
  <2>3. /\ SameLife(api, [api EXCEPT !.tier = DefaultTier])
        /\ \A c \in Clusters : SameLife(api, [api EXCEPT !.target = c])
    BY <2>1, <2>2, NoneAssumption, SameLifeUpdates
  <2> QED
    BY <1>10, <1>11, <2>1, <2>3 DEF CompleteSpace
<1>12. CASE SetTarget
  BY <1>0, <1>10, <1>12, NoneAssumption, SameLifeUpdates DEF SetTarget
<1>13. CASE SetTier
  BY <1>0, <1>10, <1>13, NoneAssumption, SameLifeUpdates DEF SetTier
<1> QED
  BY <1>2, <1>3, <1>4, <1>5, <1>6, <1>7, <1>8, <1>9, <1>11, <1>12, <1>13
  DEF Next, System, Worker, Environment, vars, Reconcile, Retarget, GetTier,
      ManageNSTemplateSet, UpdateNSTemplateSet, ReplicateStatus, CreateNSTemplateSet,
      DeleteNSTemplateSet, WriteRefused, DeliverSpace, SecondPasses, PostponeDelayPasses,
      Synchronize, MemberStep, DeliverNSTemplateSet, ChangeBindings, UpdateTier, Restart

\* A step of Next is a step of SpacePlacement or changes nothing there.
LEMMA PlacementStep ==
    ASSUME IInv, [Next]_vars
    PROVE  [Placement!Next]_<<SpaceStatus, Hosts>>
<1> USE DEF memberVars
<1>0. nsts \in [Clusters -> TemplateSet \cup {None}] /\ nsts' \in [Clusters -> TemplateSet \cup {None}]
  BY ITypeNext DEF IInv, IType, TypeOK
<1>1. CASE CreateSpace
  <2>1. api = None /\ api' # None /\ ~api'.deleting /\ nsts' = nsts
    <3>1. api' \in Space /\ ~api'.deleting
      BY <1>1 DEF CreateSpace, Space, Conditions
    <3> QED
      BY <1>1, <3>1, NoneAssumption DEF CreateSpace
  <2>2. SpaceStatus = "absent" /\ SpaceStatus' = "present" /\ Hosts' = Hosts
    BY <2>1 DEF SpaceStatus, Hosts
  <2> QED
    BY <2>2 DEF Placement!Next, Placement!Request, Hosts
<1>2. ASSUME api # None, api' = None, nsts' = nsts, \A c \in Clusters : nsts[c] = None
      PROVE  Placement!Release
  BY <1>2 DEF Placement!Release, SpaceStatus
<1>3. CASE DeleteSpace
  <2>1. api \in Space /\ api # None /\ ~api.deleting /\ nsts' = nsts
    BY <1>3 DEF DeleteSpace, IInv, IType, TypeOK
  <2>2. CASE api.fin
    <3>1. api' = [api EXCEPT !.deleting = TRUE] /\ api' \in Space /\ api'.deleting
      BY <1>3, <2>1, <2>2 DEF DeleteSpace, Space
    <3>2. SpaceStatus = "present" /\ SpaceStatus' = "terminating" /\ Hosts' = Hosts
      BY <2>1, <3>1, NoneAssumption DEF SpaceStatus, Hosts
    <3> QED
      BY <3>2 DEF Placement!Next, Placement!Terminate, Hosts
  <2>3. CASE ~api.fin
    <3>1. api' = None /\ \A c \in Clusters : nsts[c] = None
      BY <1>3, <2>3 DEF DeleteSpace, IInv, RecInv, Recorded
    <3> QED
      BY <1>2, <2>1, <3>1 DEF Placement!Next
  <2> QED
    BY <2>2, <2>3
<1>4. CASE RemoveFinalizer
  <2>1. /\ pc = "unfinalize" /\ api = obj /\ api' = None /\ nsts' = nsts /\ obj \in Space
    BY <1>4 DEF RemoveFinalizer, IInv, IType, TypeOK
  <2>2. api # None /\ \A c \in Clusters : nsts[c] = None
    BY <2>1, NoneAssumption DEF IInv, RecInv, Recorded, ClearedOK
  <2> QED
    BY <1>2, <2>1, <2>2 DEF Placement!Next
<1>5. CASE CreateNSTemplateSet /\ nsts' # nsts
  <2>1. /\ pc = "create" /\ nsts[obj.target] = None
        /\ nsts' = [nsts EXCEPT ![obj.target] = CreatedWith(want)]
        /\ api' = api
    BY <1>5 DEF CreateNSTemplateSet, SetNSTemplateSet, spaceVars
  <2>2. /\ obj.target \in Clusters /\ want \in SetSpec
        /\ api.st = obj.target /\ Held(api)
    BY <2>1 DEF IInv, IType, WorkerOK, Managing, FinInv, InProvision, RecInv, CreateOK
  <2>3. CreatedWith(want) # None
    <3>1. CreatedWith(want) \in TemplateSet
      BY <2>2 DEF CreatedWith, TemplateSet
    <3> QED
      BY <3>1, NoneAssumption
  <2>4. \A c \in Clusters : nsts[c] = None
    BY <2>1, <2>2 DEF IInv, RecInv, Recorded
  <2>5. Hosts = {} /\ Hosts' = {obj.target}
    BY <1>0, <2>1, <2>2, <2>3, <2>4 DEF Hosts
  <2>6. SpaceStatus' = SpaceStatus /\ SpaceStatus # "absent"
    BY <2>1, <2>2 DEF SpaceStatus, Held
  <2>7. PICK c \in Clusters : c = obj.target
    BY <2>2
  <2>8. Placement!Place(c)
    BY <2>5, <2>6, <2>7 DEF Placement!Place, Hosts
  <2> QED
    BY <2>8 DEF Placement!Next
<1>6. CASE /\ ~CreateSpace /\ ~DeleteSpace /\ ~RemoveFinalizer
           /\ ~CreateNSTemplateSet \/ nsts' = nsts
  <2>1. SpaceStatus' = SpaceStatus
    BY <1>6, StatusKept DEF IInv
  <2>2. Hosts' \subseteq Hosts
    <3>1. CASE nsts' = nsts
      BY <3>1 DEF Hosts
    <3>2. CASE ~CreateNSTemplateSet
      BY <3>2, OnlyCreateCreates DEF Hosts, IInv
    <3> QED
      BY <1>6, <3>1, <3>2
  <2>3. CASE Hosts' = Hosts
    BY <2>1, <2>3
  <2>4. CASE Hosts' # Hosts
    <3>1. PICK c \in Clusters : Hosts = {c}
      BY <2>2, <2>4, HostsOK
    <3>2. Hosts' = {}
      BY <2>2, <2>4, <3>1
    <3>3. Placement!Vacate(c)
      BY <2>1, <3>1, <3>2 DEF Placement!Vacate, Hosts
    <3> QED
      BY <3>3 DEF Placement!Next
  <2> QED
    BY <2>3, <2>4
<1> QED
  BY <1>1, <1>3, <1>4, <1>5, <1>6

\* Under the same conditions the controller implements SpacePlacement: the
\* Space is on one cluster at a time, and gone only when none holds it.
THEOREM PlacementImplemented ==
    ASSUME Disciplined, ~MemberLag
    PROVE  Spec => ImplementsPlacement
<1>1. Init => Placement!Init
  BY DEF Init, Placement!Init, SpaceStatus
<1>2. IInv /\ [Next]_vars => [Placement!Next]_(Placement!vars)
  BY PlacementStep DEF Placement!vars, Hosts
<1> QED
  BY <1>1, <1>2, IInvHolds, PTL DEF Spec, ImplementsPlacement, Placement!Spec

-----------------------------------------------------------------------------
(***************************************************************************)
(* What the status forgets                                                 *)
(***************************************************************************)
\* One call changes the Space or the members, never both.
LEMMA OneSide == [Next]_vars => api' = api \/ nsts' = nsts
BY DEF Next, System, Worker, Environment, vars, spaceVars, memberVars, Reconcile, AddFinalizer,
       Retarget, ResetTargetCluster, SetStateLabel, GetTier, ManageNSTemplateSet,
       UpdateNSTemplateSet, ReplicateStatus, SetStatusProvisioning, CreateNSTemplateSet,
       SetHashLabel, SetProvisionedNamespaces, SetStatus, DeleteNSTemplateSet, RemoveFinalizer,
       WriteRefused, DeliverSpace, CompleteSpace, SecondPasses, PostponeDelayPasses, Synchronize,
       MemberStep, DeliverNSTemplateSet, CreateSpace, SetTarget, SetTier, DeleteSpace,
       ChangeBindings, UpdateTier, Restart

\* Under the same conditions the status names another cluster, or none, only when the
\* NSTemplateSet on the one it named is gone (ensureNSTemplateSet, updateStatus).
THEOREM ForgottenOnlyWhenGone ==
    ASSUME Disciplined, ~MemberLag
    PROVE  Spec => ForgottenWhenGone
<1>1. ASSUME IInv, IInv', [Next]_vars, NEW c \in Clusters,
             api # None, api' # None, api.st = c, api'.st # c
      PROVE  nsts[c] = None
  <2>1. nsts' = nsts
    BY <1>1, OneSide
  <2>2. nsts'[c] = None
    BY <1>1 DEF IInv, RecInv, Recorded
  <2> QED
    BY <2>1, <2>2
<1>2. IInv /\ IInv' /\ [Next]_vars
        => [\A c \in Clusters : api # None /\ api' # None /\ api.st = c /\ api'.st # c =>
              nsts[c] = None]_vars
  BY <1>1
<1> QED
  BY <1>2, IInvHolds, PTL DEF Spec, ForgottenWhenGone

-----------------------------------------------------------------------------
(***************************************************************************)
(* The counters                                                            *)
(***************************************************************************)
\* Copies of a Space that is being deleted name the cluster that is on record: nothing moves
\* it any more.
Departed(o) == o # None /\ o.deleting /\ Held(api) => api.st = o.st

DepartInv == Departed(cache) /\ (pc = "delete" => Departed(obj))

\* As long as no call has failed, no NSTemplateSet is missing in the counters.
CountInv == faults = 0 => \A c \in Clusters : count[c] >= LiveOn(c)

\* The finalizer, the status and nothing else move what is on record.
LEMMA RecordMoves ==
    ASSUME IInv, [Next]_vars, ~AddFinalizer, ~ResetTargetCluster, ~SetStatusProvisioning,
           ~SetProvisionedNamespaces, ~SetStatus
    PROVE  Held(api') => Held(api) /\ api'.st = api.st
<1> USE DEF spaceVars
<1>0. /\ api \in Space \cup {None} /\ (pc # "idle" => obj \in Space)
      /\ pc = "hash" => want.tmpl \in Templates
  BY DEF IInv, IType, TypeOK, WorkerOK, Managing, SetSpec
<1>1. CASE api' = api
  BY <1>1
<1>2. ASSUME api' = None PROVE Held(api') => Held(api) /\ api'.st = api.st
  BY <1>2 DEF Held
<1>3. ASSUME api = obj, obj \in Space, NEW p, Rewritten(obj, p, obj.fin, obj.cond, obj.st), api' = p
      PROVE  Held(api') => Held(api) /\ api'.st = api.st
  BY <1>3, NoneAssumption DEF Rewritten, Held
<1>4. CASE SetStateLabel
  <2>1. CASE Write([obj EXCEPT !.label = StateLabel(obj)])
    <3>1. /\ api = obj /\ obj \in Space /\ api' = [obj EXCEPT !.label = StateLabel(obj)]
          /\ StateLabel(obj) \in {"pending", "assigned"}
      BY <1>0, <1>4, <2>1 DEF SetStateLabel, Write, StateLabel
    <3> QED
      BY <1>3, <3>1, Writes
  <2> QED
    BY <1>1, <1>4, <2>1 DEF SetStateLabel
<1>5. CASE SetHashLabel
  <2>1. /\ api = obj /\ obj \in Space /\ want.tmpl \in Templates
        /\ api' = [obj EXCEPT !.hash = want.tmpl]
    BY <1>0, <1>5 DEF SetHashLabel, Write
  <2> QED
    BY <1>3, <2>1, Writes
<1>6. CASE CompleteSpace \/ SetTarget \/ SetTier \/ (DeleteSpace /\ api.fin)
  <2>1. api \in Space /\ api # None
    BY <1>0, <1>6 DEF CompleteSpace, SetTarget, SetTier, DeleteSpace
  <2>2. \/ \E t : api' = [api EXCEPT !.tier = t]
        \/ \E c : api' = [api EXCEPT !.target = c]
        \/ api' = [api EXCEPT !.deleting = TRUE]
    BY <1>6 DEF CompleteSpace, SetTarget, SetTier, DeleteSpace
  <2>3. api'.fin = api.fin /\ api'.st = api.st
    BY <2>1, <2>2 DEF Space
  <2> QED
    BY <2>1, <2>3 DEF Held
<1>7. CASE CreateSpace
  BY <1>7 DEF CreateSpace, Held
<1>8. CASE RemoveFinalizer \/ (DeleteSpace /\ ~api.fin)
  BY <1>2, <1>8 DEF RemoveFinalizer, DeleteSpace
<1> QED
  BY <1>1, <1>4, <1>5, <1>6, <1>7, <1>8
  DEF Next, System, Worker, Environment, vars, Reconcile, Retarget, GetTier,
      ManageNSTemplateSet, UpdateNSTemplateSet, ReplicateStatus, CreateNSTemplateSet,
      DeleteNSTemplateSet, WriteRefused, DeliverSpace, SecondPasses, PostponeDelayPasses,
      Synchronize, MemberStep, DeliverNSTemplateSet, ChangeBindings, UpdateTier, Restart


LEMMA DepartNext ==
    ASSUME IInv, DepartInv, [Next]_vars
    PROVE  DepartInv'
<1> USE DEF spaceVars, workerVars
<1>0. /\ obj \in Space \cup {None} /\ st \in ClusterNames \cup {None} /\ next \in Conditions
      /\ pc # "idle" => obj \in Space /\ obj # None
  BY NoneAssumption DEF IInv, IType, TypeOK
<1>1. ASSUME Held(api') => Held(api) /\ api'.st = api.st,
             cache' \in {cache, api'}, pc' = "delete" => obj' = cache' \/ (pc = "delete" /\ obj' = obj)
      PROVE  DepartInv'
  BY <1>1 DEF DepartInv, Departed
\* A copy of a Space that is being deleted in the cache, and a write that is accepted.
<1>2. ASSUME api = obj, obj # None, cache # None, cache.deleting, obj.fin PROVE obj.deleting
  BY <1>2 DEF IInv, FinInv, Gone
<1>3. CASE AddFinalizer
  <2>1. /\ pc = "finalizer" /\ pc' # "delete" /\ cache' = cache /\ api = obj /\ obj # None
    BY <1>0, <1>3 DEF AddFinalizer, Write, AfterFinalizer
  <2>2. ~obj.fin
    BY <2>1 DEF IInv, RecInv, CopyOK
  <2>3. ~(cache # None /\ cache.deleting)
    BY <2>1, <2>2 DEF IInv, FinInv, Held
  <2> QED
    BY <2>1, <2>3 DEF DepartInv, Departed
<1>4. CASE ResetTargetCluster \/ SetStatusProvisioning \/ SetProvisionedNamespaces
  <2>1. /\ pc \in InProvision /\ pc' # "delete" /\ cache' = cache /\ pc # "idle"
    BY <1>4 DEF ResetTargetCluster, SetStatusProvisioning, SetProvisionedNamespaces, Goto,
                InProvision, Managing
  <2>2. obj.fin /\ ~obj.deleting
    BY <2>1 DEF IInv, RecInv, CopyOK, InProvision, Managing
  <2>3. api' = api \/ api = obj
    BY <1>4 DEF ResetTargetCluster, SetStatusProvisioning, SetProvisionedNamespaces,
                UpdateStatus, Write
  <2>4. CASE api' = api
    BY <1>1, <2>1, <2>4
  <2>5. CASE api = obj
    BY <1>0, <1>2, <2>1, <2>2, <2>5 DEF DepartInv, Departed
  <2> QED
    BY <2>3, <2>4, <2>5
<1>5. CASE SetStatus
  <2>1. pc \in {"status", "fail"} /\ pc' = "idle" /\ cache' = cache
    BY <1>5 DEF SetStatus, Done
  <2>2. obj.fin /\ (obj.deleting => st = obj.st)
    BY <2>1 DEF IInv, RecInv, CopyOK
  <2>3. CASE api' = api
    BY <1>1, <2>1, <2>3
  <2>4. CASE api = obj /\ api' = [obj EXCEPT !.cond = next, !.st = st]
    <3>1. Rewritten(obj, api', obj.fin, next, st)
      BY <1>0, <2>1, <2>4, Writes
    <3>2. obj.deleting => api'.st = api.st
      BY <2>2, <2>4, <3>1 DEF Rewritten
    <3> QED
      BY <1>0, <1>2, <2>1, <2>2, <2>4, <3>2 DEF DepartInv, Departed, Held
  <2> QED
    BY <1>5, <2>3, <2>4 DEF SetStatus, WriteStatus
<1>6. CASE ~(AddFinalizer \/ ResetTargetCluster \/ SetStatusProvisioning
             \/ SetProvisionedNamespaces \/ SetStatus)
  <2>1. Held(api') => Held(api) /\ api'.st = api.st
    BY <1>6, RecordMoves
  <2>2. cache' \in {cache, api'}
    BY DEF Next, System, Worker, Environment, vars, Reconcile, AddFinalizer, Retarget,
           ResetTargetCluster, SetStateLabel, GetTier, ManageNSTemplateSet, UpdateNSTemplateSet,
           ReplicateStatus, SetStatusProvisioning, CreateNSTemplateSet, SetHashLabel,
           SetProvisionedNamespaces, SetStatus, DeleteNSTemplateSet, RemoveFinalizer,
           WriteRefused, DeliverSpace, CompleteSpace, SecondPasses, PostponeDelayPasses,
           Synchronize, MemberStep, DeliverNSTemplateSet, CreateSpace, SetTarget, SetTier,
           DeleteSpace, ChangeBindings, UpdateTier, Restart
  <2>3. CASE Reconcile
    BY <1>1, <2>1, <2>2, <2>3 DEF Reconcile
  <2>4. CASE ~Reconcile
    <3>1. pc' = "delete" => pc = "delete" /\ obj' = obj
      BY <2>4, <1>6
      DEF Next, System, Worker, Environment, vars, Retarget, SetStateLabel, GetTier,
          ManageNSTemplateSet, UpdateNSTemplateSet, ReplicateStatus, CreateNSTemplateSet,
          SetHashLabel, DeleteNSTemplateSet, RemoveFinalizer, DeleteFromCluster, Goto, Done,
          WriteRefused, DeliverSpace, CompleteSpace, SecondPasses, PostponeDelayPasses,
          Synchronize, MemberStep, DeliverNSTemplateSet, CreateSpace, SetTarget, SetTier,
          DeleteSpace, ChangeBindings, UpdateTier, Restart
    <3> QED
      BY <1>1, <2>1, <2>2, <3>1
  <2> QED
    BY <2>3, <2>4
<1> QED
  BY <1>3, <1>4, <1>5, <1>6


\* The counter of every cluster moves with the NSTemplateSets on it.
Moves == \A c \in Clusters : count'[c] - count[c] = LiveOn(c)' - LiveOn(c)

LEMMA NothingMoves ==
    ASSUME IType, count' = count, \A c \in Clusters : Live(nsts'[c]) <=> Live(nsts[c])
    PROVE  Moves
BY DEF Moves, LiveOn, IType, TypeOK

\* A deletion without fault takes one off the counter of the cluster it is sent to, when that
\* is the cluster the copy of the status names.
LEMMA DeletionMoves ==
    ASSUME IType, ~MemberLag, view = nsts, faults = 0, faults' = 0, CountInv,
           NEW c, NEW gone, NEW waiting, NEW failed, NEW reason,
           DeleteFromCluster(c, gone, waiting, failed, reason),
           c \in Clusters /\ Live(nsts[c]) => st = c
    PROVE  Moves
<1> USE DEF memberVars
<1>0. nsts \in [Clusters -> TemplateSet \cup {None}] /\ count \in [Clusters -> Int]
  BY DEF IType, TypeOK
<1>1. CASE UNCHANGED <<memberVars, count>>
  BY <1>1, NothingMoves
<1>2. CASE /\ c \in Clusters /\ Live(view[c])
           /\ SetNSTemplateSet(c, [nsts[c] EXCEPT !.deleting = TRUE])
           /\ DecrementSpaceCount(st)
  <2>1. st = c /\ c \in Clusters /\ Live(nsts[c]) /\ count[c] > 0
    BY <1>0, <1>2 DEF CountInv, LiveOn
  <2>2. nsts[c] \in TemplateSet
    BY <1>0, <2>1 DEF Live
  <2>3. [nsts[c] EXCEPT !.deleting = TRUE].deleting
    BY <2>2 DEF TemplateSet
  <2>4. /\ nsts' = [nsts EXCEPT ![c] = [nsts[c] EXCEPT !.deleting = TRUE]]
        /\ count' = [count EXCEPT ![c] = @ - 1]
    BY <1>2, <2>1 DEF SetNSTemplateSet, DecrementSpaceCount
  <2>5. ~Live(nsts'[c]) /\ count'[c] = count[c] - 1
    BY <1>0, <2>1, <2>3, <2>4 DEF Live
  <2>6. \A d \in Clusters \ {c} : nsts'[d] = nsts[d] /\ count'[d] = count[d]
    BY <1>0, <2>4
  <2> QED
    BY <1>0, <2>1, <2>5, <2>6 DEF Moves, LiveOn
<1> QED
  BY <1>1, <1>2 DEF DeleteFromCluster, Fault

LEMMA CountMoves ==
    ASSUME ~MemberLag, IInv, DepartInv, CountInv, [Next]_vars,
           faults' = 0, synced' = synced
    PROVE  Moves
<1> USE DEF memberVars, countVars, boundVars
<1>0. /\ nsts \in [Clusters -> TemplateSet \cup {None}] /\ count \in [Clusters -> Int]
      /\ faults \in Nat /\ IType /\ view = nsts /\ None \notin TemplateSet
  BY NoneAssumption, ConstantsAssumption
  DEF IInv, IType, TypeOK, RecInv, ConstantsAssumption
<1>1. ~Fault
  BY <1>0 DEF Fault
<1>2. faults = 0
  BY <1>0, <1>1 DEF Next, System, Worker, Environment, vars, Edit, Reconcile, AddFinalizer,
       Retarget, ResetTargetCluster, SetStateLabel, GetTier, ManageNSTemplateSet,
       UpdateNSTemplateSet, ReplicateStatus, SetStatusProvisioning, CreateNSTemplateSet,
       SetHashLabel, SetProvisionedNamespaces, SetStatus, DeleteNSTemplateSet, RemoveFinalizer,
       DeleteFromCluster, WriteRefused, Refused, DeliverSpace, CompleteSpace, SecondPasses,
       PostponeDelayPasses, Synchronize, MemberStep, DeliverNSTemplateSet, CreateSpace,
       SetTarget, SetTier, DeleteSpace, ChangeBindings, UpdateTier, Restart
<1>3. CASE UNCHANGED <<nsts, count>>
  BY <1>0, <1>3, NothingMoves
<1>4. ASSUME NEW c \in Clusters, NEW n, SetNSTemplateSet(c, n), count' = count,
             Live(n) <=> Live(nsts[c])
      PROVE  Moves
  <2>1. \A d \in Clusters : Live(nsts'[d]) <=> Live(nsts[d])
    BY <1>0, <1>4 DEF SetNSTemplateSet
  <2> QED
    BY <1>0, <1>4, <2>1, NothingMoves
\* Retarget: the cluster on record in the copy.
<1>5. CASE Retarget
  <2>1. pc = "retarget" /\ DeleteFromCluster(obj.st, "reset", "Retargeting", "fail", "RetargetingFailed")
    BY <1>5 DEF Retarget
  <2>2. st = obj.st
    BY <2>1 DEF IInv, RecInv, CopyOK
  <2> QED
    BY <1>0, <1>2, <2>1, <2>2, DeletionMoves
<1>6. CASE DeleteNSTemplateSet
  <2>1. pc = "delete" /\ obj # None /\ obj.deleting /\ st = obj.st
    BY <1>6, NoneAssumption DEF DeleteNSTemplateSet, IInv, IType, TypeOK, RecInv, CopyOK
  <2>2. ASSUME DeletionCluster(obj) \in Clusters, Live(nsts[DeletionCluster(obj)])
        PROVE  st = DeletionCluster(obj)
    <3>1. Held(api) /\ api.st = DeletionCluster(obj)
      BY <2>2 DEF IInv, RecInv, Recorded, Held, Live
    <3> QED
      BY <2>1, <3>1 DEF DepartInv, Departed
  <2>3. CASE DeletionCluster(obj) = None
    BY <1>3, <1>6, <2>3 DEF DeleteNSTemplateSet
  <2>4. CASE \E failed, reason :
               DeleteFromCluster(DeletionCluster(obj), "unfinalize", "Terminating", failed, reason)
    <3>1. PICK failed, reason :
            DeleteFromCluster(DeletionCluster(obj), "unfinalize", "Terminating", failed, reason)
      BY <2>4
    <3> QED
      BY <1>0, <1>2, <2>2, <3>1, DeletionMoves
  <2> QED
    BY <1>6, <2>3, <2>4 DEF DeleteNSTemplateSet
<1>7. CASE UpdateNSTemplateSet /\ nsts' # nsts
  <2>1. /\ pc = "manage" /\ obj.target \in Clusters /\ want \in SetSpec
        /\ Found # None /\ Found = nsts[obj.target] /\ count' = count
        /\ SetNSTemplateSet(obj.target, [Found EXCEPT !.spec = want])
    BY <1>0, <1>7 DEF UpdateNSTemplateSet, Outdated, IInv, IType, WorkerOK, Managing
  <2>2. /\ Found \in TemplateSet /\ [Found EXCEPT !.spec = want] \in TemplateSet
        /\ [Found EXCEPT !.spec = want].deleting = Found.deleting
    BY <1>0, <2>1 DEF TemplateSet
  <2> QED
    BY <1>0, <1>4, <2>1, <2>2 DEF Live
<1>8. CASE CreateNSTemplateSet
  <2>1. CASE /\ nsts[obj.target] = None /\ SetNSTemplateSet(obj.target, CreatedWith(want))
             /\ IncrementSpaceCount(obj.target)
    <3>1. obj.target \in Clusters /\ want \in SetSpec
      BY <1>8 DEF CreateNSTemplateSet, IInv, IType, WorkerOK, Managing
    <3>2. CreatedWith(want) \in TemplateSet /\ ~CreatedWith(want).deleting
      BY <3>1 DEF CreatedWith, TemplateSet
    <3>3. /\ nsts' = [nsts EXCEPT ![obj.target] = CreatedWith(want)]
          /\ count' = [count EXCEPT ![obj.target] = @ + 1]
      BY <2>1 DEF SetNSTemplateSet, IncrementSpaceCount
    <3>4. Live(nsts'[obj.target]) /\ ~Live(nsts[obj.target]) /\ count'[obj.target] = count[obj.target] + 1
      BY <1>0, <2>1, <3>1, <3>2, <3>3 DEF Live
    <3>5. \A d \in Clusters \ {obj.target} : nsts'[d] = nsts[d] /\ count'[d] = count[d]
      BY <1>0, <3>3
    <3> QED
      BY <1>0, <3>1, <3>4, <3>5 DEF Moves, LiveOn
  <2> QED
    BY <1>1, <1>3, <1>8, <2>1 DEF CreateNSTemplateSet
<1>9. ASSUME NEW c \in Clusters, MemberStep(c) PROVE Moves
  <2>1. nsts[c] \in TemplateSet /\ count' = count
    BY <1>0, <1>9 DEF MemberStep, Live, Terminating
  <2>2. ASSUME NEW n, SetNSTemplateSet(c, n),
               n = None => nsts[c].deleting,
               n # None => n.deleting = nsts[c].deleting
        PROVE  Moves
    BY <1>0, <1>4, <2>1, <2>2 DEF Live
  <2>3. ASSUME NEW spec \in SetSpec,
               NEW p \in {"created", "Provisioning", "Provisioned", "Updating", "Failed", "Terminating"}
        PROVE  /\ [nsts[c] EXCEPT !.phase = p].deleting = nsts[c].deleting
               /\ [nsts[c] EXCEPT !.applied = spec, !.phase = p].deleting = nsts[c].deleting
    BY <2>1 DEF TemplateSet
  <2>4. nsts[c].spec \in SetSpec
    BY <2>1 DEF TemplateSet
  <2>5. CASE SetNSTemplateSet(c, [nsts[c] EXCEPT !.applied = nsts[c].spec,
                    !.phase = IF @ = "created" THEN "Provisioning" ELSE "Updating"])
    <3>1. PICK p \in {"Provisioning", "Updating"} :
            SetNSTemplateSet(c, [nsts[c] EXCEPT !.applied = nsts[c].spec, !.phase = p])
      BY <2>5
    <3>2. [nsts[c] EXCEPT !.applied = nsts[c].spec, !.phase = p] \in TemplateSet
      BY <2>1, <2>4, <3>1 DEF TemplateSet
    <3> QED
      BY <2>2, <2>3, <2>4, <3>1, <3>2, NoneAssumption
  <2>6. CASE \E p \in {"Provisioned", "Failed", "Terminating"} :
               SetNSTemplateSet(c, [nsts[c] EXCEPT !.phase = p])
    <3>1. PICK p \in {"Provisioned", "Failed", "Terminating"} :
            SetNSTemplateSet(c, [nsts[c] EXCEPT !.phase = p])
      BY <2>6
    <3>2. [nsts[c] EXCEPT !.phase = p] \in TemplateSet
      BY <2>1, <3>1 DEF TemplateSet
    <3> QED
      BY <2>2, <2>3, <2>4, <3>1, <3>2, NoneAssumption
  <2>7. CASE Terminating(nsts[c]) /\ SetNSTemplateSet(c, None)
    BY <2>2, <2>7 DEF Terminating
  <2> QED
    BY <1>9, <2>5, <2>6, <2>7 DEF MemberStep
<1> QED
  BY <1>1, <1>3, <1>5, <1>6, <1>7, <1>8, <1>9
  DEF Next, System, Worker, Environment, vars, Reconcile, AddFinalizer, ResetTargetCluster,
      SetStateLabel, GetTier, ManageNSTemplateSet, UpdateNSTemplateSet, ReplicateStatus,
      SetStatusProvisioning, SetHashLabel, SetProvisionedNamespaces, SetStatus, RemoveFinalizer,
      WriteRefused, DeliverSpace, CompleteSpace, CreateSpace, SetTarget, SetTier, DeleteSpace,
      ChangeBindings, UpdateTier, DeliverNSTemplateSet, SecondPasses, PostponeDelayPasses,
      Restart, Synchronize


LEMMA CountNext ==
    ASSUME ~MemberLag, IInv, DepartInv, CountInv, [Next]_vars
    PROVE  CountInv'
<1> USE DEF memberVars, countVars, boundVars, LiveOn
<1>0. /\ count \in [Clusters -> Int] /\ count' \in [Clusters -> Int]
      /\ faults \in Nat /\ Others \in Nat
  BY ITypeNext, ConstantsAssumption DEF IInv, IType, TypeOK, ConstantsAssumption
<1>1. SUFFICES ASSUME faults' = 0 PROVE \A c \in Clusters : count'[c] >= LiveOn(c)'
  BY DEF CountInv
<1>2. ~Fault /\ ~Restart
  BY <1>0, <1>1 DEF Fault, Restart
<1>3. CASE synced' = synced
  <2>1. faults = 0
    BY <1>0, <1>1, <1>2 DEF Next, System, Worker, Environment, vars, Edit, Reconcile,
       AddFinalizer, Retarget, ResetTargetCluster, SetStateLabel, GetTier, ManageNSTemplateSet,
       UpdateNSTemplateSet, ReplicateStatus, SetStatusProvisioning, CreateNSTemplateSet,
       SetHashLabel, SetProvisionedNamespaces, SetStatus, DeleteNSTemplateSet, RemoveFinalizer,
       DeleteFromCluster, WriteRefused, Refused, DeliverSpace, CompleteSpace, SecondPasses,
       PostponeDelayPasses, Synchronize, MemberStep, DeliverNSTemplateSet, CreateSpace,
       SetTarget, SetTier, DeleteSpace, ChangeBindings, UpdateTier
  <2>2. Moves
    BY <1>1, <1>3, CountMoves
  <2> QED
    BY <1>0, <2>1, <2>2 DEF CountInv, Moves
<1>4. CASE synced' # synced
  <2>1. Synchronize
    BY <1>2, <1>4 DEF Next, System, Worker, Environment, vars, Reconcile,
       AddFinalizer, Retarget, ResetTargetCluster, SetStateLabel, GetTier, ManageNSTemplateSet,
       UpdateNSTemplateSet, ReplicateStatus, SetStatusProvisioning, CreateNSTemplateSet,
       SetHashLabel, SetProvisionedNamespaces, SetStatus, DeleteNSTemplateSet, RemoveFinalizer,
       WriteRefused, DeliverSpace, CompleteSpace, SecondPasses, PostponeDelayPasses, MemberStep,
       DeliverNSTemplateSet, CreateSpace, SetTarget, SetTier, DeleteSpace, ChangeBindings,
       UpdateTier
  <2>2. faults = 0 /\ nsts' = nsts /\ \A c \in Clusters : count'[c] >= count[c]
    BY <1>0, <1>1, <2>1 DEF Synchronize
  <2> QED
    BY <1>0, <2>2 DEF CountInv
<1> QED
  BY <1>3, <1>4

\* Under the same conditions the cached counter of every cluster is incremented and decremented
\* exactly when an NSTemplateSet appears there or begins to go, as long as no call has failed
\* (IncrementSpaceCount, DecrementSpaceCount and the cluster they are called with).
THEOREM CountsFollow ==
    ASSUME Disciplined, ~MemberLag
    PROVE  Spec => CountFollows
<1>1. Init => DepartInv /\ CountInv
  BY DEF Init, DepartInv, Departed, CountInv, LiveOn, Live
<1>2. IInv /\ DepartInv /\ CountInv /\ [Next]_vars => (DepartInv /\ CountInv)'
  BY DepartNext, CountNext
<1>3. IInv /\ DepartInv /\ CountInv /\ [Next]_vars
        => [faults' = 0 /\ synced' = synced =>
              \A c \in Clusters : count'[c] - count[c] = LiveOn(c)' - LiveOn(c)]_vars
  BY CountMoves DEF Moves
<1> QED
  BY <1>1, <1>2, <1>3, IInvHolds, PTL DEF Spec, CountFollows

=============================================================================
