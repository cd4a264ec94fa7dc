--------------------------- MODULE SpaceController ---------------------------
(***************************************************************************)
(* The Space controller (controllers/space/space_controller.go) working on *)
(* one Space: it keeps an NSTemplateSet on the member cluster named by the *)
(* Space, moves it when the Space is retargeted and removes it before it   *)
(* lets the Space go.  The host API object, the informer cache the         *)
(* controller reads, the NSTemplateSets of the members and the calls of    *)
(* one reconcile are separate, so that a user edit, a cache delivery, a    *)
(* member step or a crash can fall between any two of them.  The           *)
(* SpaceCompletion controller, which fills in the two fields the Space     *)
(* controller waits for, and the space counters are modelled with it.      *)
(***************************************************************************)
EXTENDS Integers

CONSTANTS
    Clusters,     \* names of the member clusters the operator is connected to
    Unknown,      \* cluster names it has no connection to
    Tiers,        \* names of NSTemplateTiers
    DefaultTier,  \* ToolchainConfig's defaultSpaceTier
    Users,        \* users a SpaceBinding may give access to
    None,         \* the empty string, the missing object, the unset label
    Others,       \* Spaces other than this one provisioned to each cluster
    MaxRev,       \* bound: revisions of a tier
    MaxEdits,     \* bound: changes made by users and administrators
    MaxFaults,    \* bound: failed API calls, failed templates and crashes
    Disciplined,  \* do administrators wait for a retargeting to finish?
    Labelled,     \* are tiers updated only when the Space has their hash label?
    MemberLag     \* do the caches of the member clusters lag behind them?

ASSUME ConstantsAssumption ==
    /\ Clusters \cap Unknown = {}
    /\ None \notin Clusters \cup Unknown \cup Tiers
    /\ DefaultTier \in Tiers
    /\ Others \in Nat /\ MaxRev \in Nat /\ MaxEdits \in Nat /\ MaxFaults \in Nat
    /\ {Disciplined, Labelled, MemberLag} \subseteq BOOLEAN

VARIABLES
    api,       \* the Space in the host API server, None when there is none
    cache,     \* the Space in the informer cache the controllers read
    nsts,      \* NSTemplateSet of the Space on each member cluster
    view,      \* the same in the operator's cache of each member cluster
    rev,       \* revision of the templates of each tier
    bindings,  \* users bound to the Space
    queued,    \* is the Space in the work queue of the controller?
    pc,        \* next call of the reconcile in progress
    obj,       \* the version of the Space this reconcile read or last wrote
    st,        \* Status.TargetCluster in the memory of the reconcile
    want,      \* NSTemplateSet spec computed by the reconcile
    next,      \* the Ready reason about to be written
    young,     \* did the Ready status of the Space flip in the last second?
    busy,      \* was a tier update executed in the last two seconds?
    count,     \* the cached space count of each cluster
    synced,    \* have the counters been initialised since the last start?
    edits, faults

spaceVars  == <<api, cache>>
memberVars == <<nsts, view>>
inputVars  == <<rev, bindings>>
workerVars == <<pc, obj, st, want, next>>
clockVars  == <<young, busy>>
countVars  == <<count, synced>>
boundVars  == <<edits, faults>>

vars == <<api, cache, nsts, view, rev, bindings, queued, pc, obj, st, want,
          next, young, busy, count, synced, edits, faults>>

-----------------------------------------------------------------------------
(***************************************************************************)
(* Data                                                                    *)
(***************************************************************************)
ClusterNames == Clusters \cup Unknown

\* Reasons of the Ready condition; Provisioned is the only one with status True.
Conditions ==
    {"None", "Provisioning", "Pending", "ProvisioningFailed", "Provisioned",
     "Updating", "Retargeting", "RetargetingFailed", "Terminating",
     "TerminatingFailed", "UnableToCreate", "UnableToUpdate"}

Templates == [tier: Tiers, rev: 0..MaxRev]

Space ==
    [fin: BOOLEAN, deleting: BOOLEAN,
     tier: Tiers \cup {None}, target: ClusterNames \cup {None},  \* Spec
     st: ClusterNames \cup {None}, cond: Conditions,            \* Status
     label: {"None", "pending", "assigned"},          \* state label
     hash: Templates \cup {None}]                     \* <tier>-tier-hash label

SetSpec == [tmpl: Templates, roles: SUBSET Users]

\* phase is the reason of the NSTemplateSet's Ready condition, "created" when
\* it has none yet; applied is the spec its controller last worked on.
TemplateSet ==
    [spec: SetSpec, applied: SetSpec \cup {None}, deleting: BOOLEAN,
     phase: {"created", "Provisioning", "Provisioned", "Updating", "Failed",
             "Terminating"}]

ASSUME NoneAssumption == None \notin Space \cup SetSpec \cup Templates \cup TemplateSet

PCs == {"idle", "finalizer", "retarget", "reset", "label", "tier", "manage",
        "provisioning", "create", "hash", "namespaces", "status", "fail",
        "delete", "unfinalize"}

TypeOK ==
    /\ api \in Space \cup {None}
    /\ cache \in Space \cup {None}
    /\ nsts \in [Clusters -> TemplateSet \cup {None}]
    /\ view \in [Clusters -> TemplateSet \cup {None}]
    /\ rev \in [Tiers -> 0..MaxRev]
    /\ bindings \in SUBSET Users
    /\ queued \in BOOLEAN
    /\ pc \in PCs
    /\ obj \in Space \cup {None}
    /\ pc # "idle" => obj \in Space
    /\ st \in ClusterNames \cup {None}
    /\ want \in SetSpec \cup {None}
    /\ next \in Conditions
    /\ young \in BOOLEAN /\ busy \in BOOLEAN
    /\ count \in [Clusters -> Int]
    /\ synced \in BOOLEAN
    /\ edits \in 0..MaxEdits /\ faults \in 0..MaxFaults

Init ==
    /\ api = None /\ cache = None
    /\ nsts = [c \in Clusters |-> None] /\ view = nsts
    /\ rev = [t \in Tiers |-> 0] /\ bindings = {}
    /\ queued = FALSE
    /\ pc = "idle" /\ obj = None /\ st = None /\ want = None /\ next = "None"
    /\ young = FALSE /\ busy = FALSE
    /\ count = [c \in Clusters |-> 0] /\ synced = FALSE
    /\ edits = 0 /\ faults = 0

-----------------------------------------------------------------------------
(***************************************************************************)
(* Calls the reconcile is built from                                       *)
(***************************************************************************)
Fault == faults < MaxFaults /\ faults' = faults + 1

\* A write of the host API is accepted only from the version it holds.
Write(o) == api = obj /\ api' = o /\ obj' = o

\* The write is refused: the copy is outdated, or the call fails.
Refused == (api # obj /\ UNCHANGED faults) \/ Fault

\* The reconcile continues with the call p, about to report the reason r.
Goto(p, r) == pc' = p /\ next' = r

\* The reconcile returns.
Done == /\ pc' = "idle" /\ next' = "None"
        /\ obj' = None /\ st' = None /\ want' = None

\* LastTransitionTime moves only when the status of the condition does.
Transition(from, to) ==
    young' = (young \/ from = "None" \/ (from = "Provisioned") # (to = "Provisioned"))

\* Mutant: only the condition is persisted.
UpdateCondition(r) ==
    IF obj.cond = r
    THEN UNCHANGED <<api, obj, young>>
    ELSE /\ Write([obj EXCEPT !.cond = r])
         /\ Transition(obj.cond, r)

\* updateStatus: the reason and the in-memory Status.TargetCluster are
\* written together, and nothing is written when the reason is there already.
UpdateStatus(r) ==
    IF obj.cond = r
    THEN UNCHANGED <<api, obj, young>>
    ELSE /\ Write([obj EXCEPT !.cond = r, !.st = st])
         /\ Transition(obj.cond, r)

\* Without MemberLag a change on a member is at once in the operator's cache,
\* and the watch on NSTemplateSets queues the Space of the same name.
SetNSTemplateSet(c, n) ==
    /\ nsts' = [nsts EXCEPT ![c] = n]
    /\ view' = IF MemberLag THEN view ELSE [view EXCEPT ![c] = n]

Live(n) == n # None /\ ~n.deleting

Terminating(n) == n # None /\ n.deleting

MemberEvent == queued' = (queued \/ ~MemberLag)

IncrementSpaceCount(c) == count' = [count EXCEPT ![c] = @ + 1]

\* Mutant: the floor is taken at one.
DecrementAboveOne(c) ==
    count' = IF c \in Clusters /\ count[c] > 1
             THEN [count EXCEPT ![c] = @ - 1]
             ELSE count

DecrementSpaceCount(c) ==
    count' = IF c \in Clusters /\ count[c] > 0
             THEN [count EXCEPT ![c] = @ - 1]
             ELSE count

-----------------------------------------------------------------------------
(***************************************************************************)
(* Reconcile                                                               *)
(***************************************************************************)
NeedsRetarget(o) == o.st # None /\ o.target # o.st

\* Mutant: the old cluster is forgotten before its NSTemplateSet is deleted.
AfterFinalizerForget(o) == IF NeedsRetarget(o) THEN "reset" ELSE "label"

AfterFinalizer(o) == IF NeedsRetarget(o) THEN "retarget" ELSE "label"

\* Mutant: the finalizer is not added.
FirstCallUnfinalized(o) == IF o.deleting THEN "delete" ELSE AfterFinalizer(o)

FirstCall(o) ==
    IF o.deleting THEN "delete"
    ELSE IF o.fin THEN AfterFinalizer(o) ELSE "finalizer"

Reconcile ==
    /\ pc = "idle" /\ queued
    /\ queued' = FALSE
    /\ IF cache = None
       THEN UNCHANGED workerVars
       ELSE /\ obj' = cache /\ st' = cache.st
            /\ pc' = FirstCall(cache)
            /\ UNCHANGED <<want, next>>
    /\ UNCHANGED <<spaceVars, memberVars, inputVars, clockVars, countVars, boundVars>>

AddFinalizer ==
    /\ pc = "finalizer"
    /\ Write([obj EXCEPT !.fin = TRUE])
    /\ pc' = AfterFinalizer(obj)
    /\ UNCHANGED <<cache, memberVars, inputVars, queued, st, want, next, clockVars,
                   countVars, boundVars>>

\* deleteNSTemplateSetFromCluster: gone is the call that follows when there is
\* nothing left, waiting the reason reported while the deletion is in progress;
\* an error is followed by the call failed with its reason.
DeleteFromCluster(c, gone, waiting, failed, reason) ==
    \/ /\ c \in Clusters => Terminating(view[c])  \* for over a minute
       /\ Goto(failed, reason)
       /\ UNCHANGED <<memberVars, count, faults, queued>>
    \/ /\ c \in Clusters
       /\ Fault /\ Goto(failed, reason)  \* the call fails, or is done and its answer is lost
       /\ \/ UNCHANGED <<memberVars, queued>>
          \/ /\ Live(view[c]) /\ nsts[c] # None
             /\ SetNSTemplateSet(c, [nsts[c] EXCEPT !.deleting = TRUE])
             /\ MemberEvent
       /\ UNCHANGED count
    \/ /\ c \in Clusters
       /\ \/ view[c] = None
          \/ Live(view[c]) /\ nsts[c] = None
       /\ Goto(gone, "None")
       /\ UNCHANGED <<memberVars, count, faults, queued>>
    \/ /\ c \in Clusters /\ Terminating(view[c])
       /\ Goto("status", waiting)
       /\ UNCHANGED <<memberVars, count, faults, queued>>
    \/ /\ c \in Clusters /\ Live(view[c]) /\ nsts[c] # None
       /\ SetNSTemplateSet(c, [nsts[c] EXCEPT !.deleting = TRUE])
       /\ MemberEvent
       /\ DecrementSpaceCount(st)
       /\ Goto("status", waiting)
       /\ UNCHANGED faults

\* The Space was retargeted: its NSTemplateSet leaves the old cluster first.
Retarget ==
    /\ pc = "retarget"
    /\ DeleteFromCluster(obj.st, "reset", "Retargeting", "fail", "RetargetingFailed")
    /\ UNCHANGED <<spaceVars, inputVars, obj, st, want, clockVars, synced, edits>>

ResetTargetCluster ==
    /\ pc = "reset"
    /\ Write([obj EXCEPT !.st = None]) /\ st' = None
    /\ pc' = "label"
    /\ UNCHANGED <<cache, memberVars, inputVars, queued, want, next, clockVars, countVars,
                   boundVars>>

StateLabel(o) == IF o.tier = None \/ o.target = None THEN "pending" ELSE "assigned"

SetStateLabel ==
    /\ pc = "label"
    /\ IF obj.label = StateLabel(obj)
       THEN UNCHANGED <<api, obj>>
       ELSE Write([obj EXCEPT !.label = StateLabel(obj)])
    /\ IF StateLabel(obj) = "pending" THEN Goto("status", "Pending") ELSE Goto("tier", "None")
    /\ UNCHANGED <<cache, memberVars, inputVars, queued, st, want, clockVars, countVars,
                   boundVars>>

\* Mutant: the templates of a revision that is not published yet.
NewSpecNextRevision(o, users) ==
    [tmpl |-> [tier |-> o.tier, rev |-> rev[o.tier] + 1], roles |-> users]

NewNSTemplateSetSpec(o, users) ==
    [tmpl |-> [tier |-> o.tier, rev |-> rev[o.tier]], roles |-> users]

\* The tier and the SpaceBindings are read from the cache.  A listing error is
\* only logged, and leaves the Space without roles; a tier whose revisions are
\* not published yet makes the reconcile return an error.
GetTier ==
    /\ pc = "tier"
    /\ \/ /\ obj.target \in Clusters
          /\ \/ want' = NewNSTemplateSetSpec(obj, bindings) /\ UNCHANGED faults
             \/ want' = NewNSTemplateSetSpec(obj, {}) /\ Fault
          /\ st' = obj.target
          /\ Goto("manage", "None")
          /\ UNCHANGED <<queued, obj>>
       \/ /\ (obj.target \in Unknown /\ UNCHANGED faults) \/ Fault
          /\ Goto("fail", "ProvisioningFailed")
          /\ UNCHANGED <<queued, obj, st, want>>
       \/ /\ obj.target \in Clusters /\ Fault
          /\ Done
          /\ queued' = TRUE
    /\ UNCHANGED <<spaceVars, memberVars, inputVars, clockVars, countVars, edits>>

\* The NSTemplateSet of the target cluster in the operator's cache.
Found == view[obj.target]

Outdated == Found # None /\ Found.phase # "created" /\ Found.spec # want

\* Only updates of a tier are postponed: those of a Space that is Ready and
\* already carries a hash label for its tier.
Postponable == /\ obj.hash # None /\ obj.hash.tier = obj.tier
               /\ obj.cond = "Provisioned"

\* manageNSTemplateSet when there is nothing to write on the member: the
\* NSTemplateSet is to be created or cannot be read, has no Ready condition
\* yet, or its update is postponed.
ManageNSTemplateSet ==
    /\ pc = "manage"
    /\ \/ /\ Found = None /\ UNCHANGED faults
          /\ Goto("provisioning", "None")
          /\ UNCHANGED <<queued, obj, st, want>>
       \/ /\ Fault
          /\ Goto("fail", "UnableToCreate")
          /\ UNCHANGED <<queued, obj, st, want>>
       \/ /\ \/ Found # None /\ Found.phase = "created"
             \/ Outdated /\ Postponable /\ busy
          /\ Done
          /\ queued' = TRUE
          /\ UNCHANGED faults
    /\ UNCHANGED <<spaceVars, memberVars, inputVars, clockVars, countVars, edits>>

UpdateNSTemplateSet ==
    /\ pc = "manage" /\ Outdated /\ (Postponable => ~busy)
    /\ busy' = (busy \/ Postponable)
    /\ \/ /\ Found = nsts[obj.target]
          /\ SetNSTemplateSet(obj.target, [Found EXCEPT !.spec = want])
          /\ Goto("status", "Updating")
          /\ UNCHANGED faults
       \/ /\ (Found # nsts[obj.target] /\ UNCHANGED faults) \/ Fault
          /\ Goto("fail", "UnableToUpdate")
          /\ UNCHANGED memberVars
    /\ queued' = TRUE
    /\ UNCHANGED <<spaceVars, inputVars, obj, st, want, young, countVars, edits>>

\* The NSTemplateSet is up to date: its Ready reason becomes the Space's.
ReplicateStatus ==
    /\ pc = "manage" /\ Found # None /\ Found.phase # "created" /\ ~Outdated
    /\ \/ /\ Found.phase \in {"Updating", "Provisioning"}
          /\ Goto("status", Found.phase)
          /\ UNCHANGED <<queued, obj, st, want>>
       \/ /\ Found.phase = "Provisioned"
          /\ IF obj.cond = "Updating" /\ young
             THEN Done /\ queued' = TRUE
             ELSE Goto("hash", "None") /\ UNCHANGED <<queued, obj, st, want>>
       \/ /\ Found.phase \in {"Failed", "Terminating"}
          /\ Goto("fail", "ProvisioningFailed")
          /\ UNCHANGED <<queued, obj, st, want>>
    /\ UNCHANGED <<spaceVars, memberVars, inputVars, clockVars, countVars, boundVars>>

\* Provisioning is reported, with the target cluster, before the creation.
SetStatusProvisioning ==
    /\ pc = "provisioning"
    /\ UpdateStatus("Provisioning")
    /\ Goto("create", "None")
    /\ UNCHANGED <<cache, memberVars, inputVars, queued, st, want, busy, countVars,
                   boundVars>>

CreatedWith(spec) == [spec |-> spec, applied |-> None, deleting |-> FALSE, phase |-> "created"]

CreateNSTemplateSet ==
    /\ pc = "create"
    /\ \/ /\ IF nsts[obj.target] = None
             THEN /\ SetNSTemplateSet(obj.target, CreatedWith(want))
                  /\ IncrementSpaceCount(obj.target)
             ELSE UNCHANGED <<memberVars, count>>  \* already exists
          /\ Done
          /\ queued' = TRUE
          /\ UNCHANGED faults
       \/ /\ Fault  \* the call fails, or is done and its answer is lost
          /\ \/ UNCHANGED <<memberVars, queued>>
             \/ /\ nsts[obj.target] = None
                /\ SetNSTemplateSet(obj.target, CreatedWith(want))
                /\ MemberEvent
          /\ Goto("fail", "UnableToCreate")
          /\ UNCHANGED <<obj, st, want, count>>
    /\ UNCHANGED <<spaceVars, inputVars, clockVars, synced, edits>>

\* The answer to an update of the object holds the status as it is stored: the
\* cluster that only the reconcile's copy named is forgotten again.
SetHashLabel ==
    /\ pc = "hash"
    /\ Write([obj EXCEPT !.hash = want.tmpl])
    /\ st' = obj.st
    /\ Goto("namespaces", "None")
    /\ UNCHANGED <<cache, memberVars, inputVars, queued, want, clockVars, countVars, boundVars>>

\* Status.ProvisionedNamespaces is written only when it changed.
SetProvisionedNamespaces ==
    /\ pc = "namespaces"
    /\ \/ UNCHANGED <<api, obj>>
       \/ Write([obj EXCEPT !.st = st])
    /\ Goto("status", "Provisioned")
    /\ UNCHANGED <<cache, memberVars, inputVars, queued, st, want, clockVars, countVars,
                   boundVars>>

\* A reason that is there already is written again only with another message,
\* and only errors come with messages of their own.
WriteStatus ==
    \/ obj.cond = next /\ UNCHANGED <<api, young>>
    \/ /\ obj.cond # next \/ pc = "fail"
       /\ api = obj
       /\ api' = [obj EXCEPT !.cond = next, !.st = st]
       /\ Transition(obj.cond, next)

\* The last call of a reconcile: the reason is reported; from "fail" the error
\* is returned as well, which puts the Space back into the queue.
SetStatus ==
    /\ pc \in {"status", "fail"}
    /\ WriteStatus
    /\ queued' = (queued \/ pc = "fail")
    /\ Done
    /\ UNCHANGED <<cache, memberVars, inputVars, busy, countVars, boundVars>>

\* Mutant: no fallback to the cluster recorded in the Status.
DeletionClusterOfSpec(o) == o.target

\* The cluster whose NSTemplateSet is removed before the Space is let go.
DeletionCluster(o) == IF o.target # None THEN o.target ELSE o.st

DeleteNSTemplateSet ==
    /\ pc = "delete"
    /\ IF DeletionCluster(obj) = None
       THEN Goto("unfinalize", "None") /\ UNCHANGED <<memberVars, count, faults, queued>>
       ELSE IF st # None
            THEN DeleteFromCluster(DeletionCluster(obj), "unfinalize", "Terminating",
                                   "fail", "TerminatingFailed")
            ELSE DeleteFromCluster(DeletionCluster(obj), "unfinalize", "Terminating",
                                   "unfinalize", "None")
    /\ UNCHANGED <<spaceVars, inputVars, obj, st, want, clockVars, synced, edits>>

RemoveFinalizer ==
    /\ pc = "unfinalize"
    /\ api = obj /\ api' = None  \* the last finalizer of a deleted object
    /\ Done
    /\ UNCHANGED <<cache, memberVars, inputVars, queued, clockVars, countVars, boundVars>>

\* Does the next call write the Space?
WritesSpace ==
    \/ pc \in {"finalizer", "reset", "hash", "namespaces", "unfinalize", "fail"}
    \/ pc = "label" /\ obj.label # StateLabel(obj)
    \/ pc = "provisioning" /\ obj.cond # "Provisioning"
    \/ pc = "status" /\ obj.cond # next

\* A refused write: some callers still try to report it, the others return it.
WriteRefused ==
    /\ WritesSpace /\ Refused
    /\ \/ /\ pc \in {"label", "provisioning", "hash", "unfinalize"}
          /\ Goto("fail", IF pc = "unfinalize" THEN "TerminatingFailed"
                                               ELSE "ProvisioningFailed")
          /\ UNCHANGED <<queued, obj, st, want>>
       \/ /\ pc \in {"finalizer", "reset", "namespaces", "status", "fail"}
          /\ Done
          /\ queued' = TRUE
    /\ UNCHANGED <<spaceVars, memberVars, inputVars, clockVars, countVars, edits>>

Worker ==
    \/ Reconcile \/ AddFinalizer \/ Retarget \/ ResetTargetCluster \/ SetStateLabel
    \/ GetTier \/ ManageNSTemplateSet \/ UpdateNSTemplateSet \/ ReplicateStatus
    \/ SetStatusProvisioning \/ CreateNSTemplateSet \/ SetHashLabel
    \/ SetProvisionedNamespaces \/ SetStatus \/ DeleteNSTemplateSet \/ RemoveFinalizer
    \/ WriteRefused

-----------------------------------------------------------------------------
(***************************************************************************)
(* The other actors                                                        *)
(***************************************************************************)
\* Mutant: the predicate hides deletions.
WakesNotOnDeletion(old, new) ==
    old = None \/ new = None \/ old.tier # new.tier \/ old.target # new.target

\* GenerationChangedPredicate lets creations, deletions and changes of the
\* Spec through; labels, finalizers and the Status do not wake the controller.
Wakes(old, new) ==
    \/ old = None \/ new = None
    \/ old.deleting # new.deleting \/ old.tier # new.tier \/ old.target # new.target

DeliverSpace ==
    /\ cache # api
    /\ cache' = api
    /\ queued' = (queued \/ Wakes(cache, api))
    /\ UNCHANGED <<api, memberVars, inputVars, workerVars, clockVars, countVars, boundVars>>

\* SpaceCompletion: a missing tier name first, then a missing target cluster;
\* its update of an outdated copy is refused.
CompleteSpace ==
    /\ cache # None /\ ~cache.deleting /\ api = cache
    /\ \/ /\ api.tier = None
          /\ api' = [api EXCEPT !.tier = DefaultTier]
       \/ /\ api.tier # None /\ api.target = None
          /\ \E c \in Clusters : api' = [api EXCEPT !.target = c]
    /\ UNCHANGED <<cache, memberVars, inputVars, queued, workerVars, clockVars, countVars,
                   boundVars>>

Edit == edits < MaxEdits /\ edits' = edits + 1 /\ UNCHANGED faults

CreateSpace ==
    /\ api = None /\ Edit
    /\ \E t \in Tiers \cup {None}, c \in ClusterNames \cup {None} :
          api' = [fin |-> FALSE, deleting |-> FALSE, tier |-> t, target |-> c,
                  st |-> None, cond |-> "None", label |-> "None", hash |-> None]
    /\ UNCHANGED <<cache, memberVars, inputVars, queued, workerVars, clockVars, countVars>>

\* The discipline: the target cluster changes only when the Space is neither on
\* its way to a cluster nor being deleted, and the Space is deleted only when it
\* is not between two clusters.
MayRetarget(o) ==
    Disciplined => /\ ~o.deleting
                   /\ \/ o.st = None
                      \/ o.st = o.target /\ o.cond # "Provisioning"

MayDelete(o) == Disciplined => o.st = None \/ o.st = o.target \/ o.target = None

SetTarget ==
    /\ api # None /\ Edit /\ MayRetarget(api)
    /\ \E c \in (ClusterNames \cup {None}) \ {api.target} : api' = [api EXCEPT !.target = c]
    /\ UNCHANGED <<cache, memberVars, inputVars, queued, workerVars, clockVars, countVars>>

SetTier ==
    /\ api # None /\ Edit
    /\ \E t \in Tiers \ {api.tier} : api' = [api EXCEPT !.tier = t]
    /\ UNCHANGED <<cache, memberVars, inputVars, queued, workerVars, clockVars, countVars>>

DeleteSpace ==
    /\ api # None /\ ~api.deleting /\ Edit /\ MayDelete(api)
    /\ api' = IF api.fin THEN [api EXCEPT !.deleting = TRUE] ELSE None
    /\ UNCHANGED <<cache, memberVars, inputVars, queued, workerVars, clockVars, countVars>>

\* Mutant: the Spaces that are up to date are queued.
CurrentHash(o, t, r) == o # None /\ o.hash # None /\ o.hash.tier = t /\ o.hash.rev = r

\* A new revision of a tier: only Spaces that carry an outdated hash label of
\* this tier are queued (MapNSTemplateTierToSpaces).
OutdatedHash(o, t, r) == o # None /\ o.hash # None /\ o.hash.tier = t /\ o.hash.rev # r

UpdateTier(t) ==
    /\ rev[t] < MaxRev /\ Edit
    /\ Labelled => cache # None /\ cache.hash # None /\ cache.hash.tier = t
    /\ rev' = [rev EXCEPT ![t] = @ + 1]
    /\ queued' = (queued \/ OutdatedHash(cache, t, rev[t] + 1))
    /\ UNCHANGED <<spaceVars, memberVars, bindings, workerVars, clockVars, countVars>>

ChangeBindings ==
    /\ Edit
    /\ \E b \in (SUBSET Users) \ {bindings} : bindings' = b
    /\ queued' = TRUE
    /\ UNCHANGED <<spaceVars, memberVars, rev, workerVars, clockVars, countVars>>

Environment ==
    \/ CreateSpace \/ SetTarget \/ SetTier \/ DeleteSpace \/ ChangeBindings
    \/ \E t \in Tiers : UpdateTier(t)

\* The NSTemplateSet controller of a member (another repository).
MemberStep(c) ==
    /\ \/ /\ Live(nsts[c])
          /\ \/ /\ nsts[c].applied # nsts[c].spec
                /\ SetNSTemplateSet(c, [nsts[c] EXCEPT !.applied = nsts[c].spec,
                       !.phase = IF @ = "created" THEN "Provisioning" ELSE "Updating"])
             \/ /\ nsts[c].applied = nsts[c].spec /\ nsts[c].phase # "Provisioned"
                /\ SetNSTemplateSet(c, [nsts[c] EXCEPT !.phase = "Provisioned"])
          /\ UNCHANGED faults
       \/ /\ Live(nsts[c]) /\ nsts[c].phase \in {"Provisioning", "Updating"} /\ Fault
          /\ SetNSTemplateSet(c, [nsts[c] EXCEPT !.phase = "Failed"])
       \/ /\ Terminating(nsts[c]) /\ nsts[c].phase # "Terminating" /\ UNCHANGED faults
          /\ SetNSTemplateSet(c, [nsts[c] EXCEPT !.phase = "Terminating"])
       \/ /\ Terminating(nsts[c]) /\ UNCHANGED faults
          /\ SetNSTemplateSet(c, None)
    /\ MemberEvent
    /\ UNCHANGED <<spaceVars, inputVars, workerVars, clockVars, countVars, edits>>

DeliverNSTemplateSet(c) ==
    /\ view[c] # nsts[c]
    /\ view' = [view EXCEPT ![c] = nsts[c]]
    /\ queued' = TRUE
    /\ UNCHANGED <<spaceVars, nsts, inputVars, workerVars, clockVars, countVars, boundVars>>

\* A second goes by, which is what the controller gives a member to notice a
\* change of its NSTemplateSet (requeueDelay).
SecondPasses ==
    /\ young
    /\ young' = FALSE
    /\ UNCHANGED <<spaceVars, memberVars, inputVars, queued, workerVars, busy, countVars,
                   boundVars>>

PostponeDelayPasses ==
    /\ busy
    /\ busy' = FALSE
    /\ UNCHANGED <<spaceVars, memberVars, inputVars, queued, workerVars, young, countVars,
                   boundVars>>

\* The operator stops between any two calls and starts with fresh caches, empty
\* counters and one event for each existing object.
Restart ==
    /\ Fault
    /\ Done
    /\ cache' = api /\ view' = nsts
    /\ queued' = TRUE
    /\ busy' = FALSE
    /\ count' = [c \in Clusters |-> 0] /\ synced' = FALSE
    /\ UNCHANGED <<api, nsts, inputVars, young, edits>>

\* metrics.Synchronize, started once the caches are filled, while the
\* controllers are already at work: it adds one for every Space.
Synchronize ==
    /\ ~synced
    /\ synced' = TRUE
    /\ count' = [c \in Clusters |-> count[c] + Others +
                     IF cache # None /\ cache.target = c THEN 1 ELSE 0]
    /\ UNCHANGED <<spaceVars, memberVars, inputVars, queued, workerVars, clockVars, boundVars>>

System ==
    \/ Worker \/ DeliverSpace \/ CompleteSpace \/ SecondPasses \/ PostponeDelayPasses
    \/ Synchronize
    \/ \E c \in Clusters : MemberStep(c) \/ DeliverNSTemplateSet(c)

Next == System \/ Environment \/ Restart

Spec == Init /\ [][Next]_vars

-----------------------------------------------------------------------------
(***************************************************************************)
(* Fairness: the work queue hands out what it holds, watches deliver,      *)
(* members make progress, time passes.  Users and administrators, faults   *)
(* and restarts are never assumed to happen.                               *)
(***************************************************************************)
Fairness ==
    /\ WF_vars(Worker) /\ WF_vars(DeliverSpace) /\ WF_vars(CompleteSpace)
    /\ WF_vars(SecondPasses) /\ WF_vars(PostponeDelayPasses)
    /\ \A c \in Clusters : WF_vars(MemberStep(c)) /\ WF_vars(DeliverNSTemplateSet(c))

FairSpec == Spec /\ Fairness

-----------------------------------------------------------------------------
(***************************************************************************)
(* Properties                                                              *)
(***************************************************************************)
\* Every NSTemplateSet belongs to a Space that still holds its finalizer and
\* whose persisted Status.TargetCluster names the cluster, so that a retargeting
\* and a deletion both know where to look (manageNSTemplateSet writes the status
\* before it creates, ensureNSTemplateSet resets it after the old one is gone).
Recorded ==
    \A c \in Clusters : nsts[c] # None => api # None /\ api.fin /\ api.st = c

\* Refinement: the controller keeps the promise of SpacePlacement.
SpaceStatus ==
    IF api = None THEN "absent" ELSE IF api.deleting THEN "terminating" ELSE "present"

Placement == INSTANCE SpacePlacement
    WITH space <- SpaceStatus, hosts <- {c \in Clusters : nsts[c] # None}

ImplementsPlacement == Placement!Spec

\* However stale the caches, and whatever administrators do, an NSTemplateSet
\* appears only on the member of a Space that exists and holds its finalizer.
CreatedForExisting ==
    [][\A c \in Clusters : nsts[c] = None /\ nsts'[c] # None =>
          api # None /\ api.fin /\ api' = api]_vars

\* Status.TargetCluster forgets a cluster only when nothing is left there.
ForgottenWhenGone ==
    [][\A c \in Clusters : api # None /\ api' # None /\ api.st = c /\ api'.st # c =>
          nsts[c] = None]_vars

\* As long as no answer is lost, the space counter of a cluster moves together
\* with the NSTemplateSets there that are not being deleted, whichever field
\* names the cluster by then.
LiveOn(c) == IF Live(nsts[c]) THEN 1 ELSE 0

CountFollows ==
    [][faults' = 0 /\ synced' = synced =>
         \A c \in Clusters : count'[c] - count[c] = LiveOn(c)' - LiveOn(c)]_vars

\* A Space that is being deleted disappears.
DeletionCompletes == (api # None /\ api.deleting) ~> (api = None)

\* Once users leave it alone, a Space with a known target cluster is provisioned
\* there as its tier and its SpaceBindings say, and the controller comes to rest.
\* The roles are those of the SpaceBindings unless these could not be listed once,
\* an error that manageNSTemplateSet logs and does not retry.
Provisioned(o) ==
    /\ o.cond = "Provisioned" /\ o.label = "assigned" /\ o.st = o.target
    /\ Live(nsts[o.target])
    /\ LET spec == NewNSTemplateSetSpec(o, bindings) IN
       /\ o.hash = spec.tmpl
       /\ nsts[o.target].spec.tmpl = spec.tmpl
       /\ faults = 0 => nsts[o.target].spec = spec

Settles ==
    <>[](api = None \/ api.target \in Unknown \/
         (api.target \in Clusters /\ Provisioned(api) /\ pc = "idle" /\ ~queued))

-----------------------------------------------------------------------------
(***************************************************************************)
(* What a comment of the code says and the code does not do: checked by a  *)
(* run that ends in a counterexample.                                      *)
(***************************************************************************)
\* "When deletion of the Space with space.Status.TargetCluster set is triggered,
\* we know that there might be a NSTemplateSet resource to clean up as well"
\* (space_controller.go:266): nothing is left when the Space is gone.
DeletedLeavesNothing == api = None => \A c \in Clusters : nsts[c] = None

=============================================================================
