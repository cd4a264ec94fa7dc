----------------------------- MODULE SpaceRequests -----------------------------
(***************************************************************************)
(* The SpaceRequest controller for one SpaceRequest in a namespace of a     *)
(* Space: the sub-space it asks for, the access to the namespace of the     *)
(* sub-space, the status and the finalizer, while the parent Space and its  *)
(* namespace may be deleted.  The request lives on a member, the Spaces on  *)
(* the host, each with a cache of its own.                                  *)
(***************************************************************************)
EXTENDS FiniteSets, Integers, Sequences

CONSTANTS
    MaxNames,   \* bound: names the sub-space can get, the n-th with the suffix n - 1
    Specs,      \* tiers and cluster roles that exist
    Unknown,    \* specs with a tier that does not exist
    Home,       \* the spec the request starts with
    Clusters,   \* member clusters a sub-space can be on
    First,      \* the one it is placed on
    None, Other,
    MaxLag,     \* bound: states of the Spaces the cache can be behind
    Scenarios   \* lag: may the cache of Spaces be behind?  taken: names other Spaces have at
                \* first.  Bounds: edits, changes by users and administrators, of these kinds;
                \* faults, failed calls, lost answers and restarts

Names == 1..MaxNames

Kinds == {"request", "removal", "secret", "parent", "space", "name"}

ASSUME RequestsAssumption ==
    /\ MaxNames \in Nat \ {0} /\ MaxLag \in Nat
    /\ Home \in Specs /\ Specs \cap Unknown = {} /\ IsFiniteSet(Clusters) /\ First \in Clusters
    /\ None \notin Clusters
    /\ Scenarios \subseteq [lag: BOOLEAN, taken: SUBSET Names, kinds: SUBSET Kinds, edits: Nat, faults: Nat]

VARIABLES
    sr, srC,           \* the SpaceRequest, and its copy in the cache of the member
    secret,            \* does the access secret named in the status exist?
    parent, namespace, \* the parent Space, its namespace with the request
    spaces, spacesC,   \* the Spaces with these names, and those in the cache of the host
    feed,              \* states of the Spaces the cache has not seen yet, oldest first
    queued,            \* is the request in the work queue?
    scenario,          \* what holds of this behaviour
    pc, obj,           \* next call of the reconcile, the request in hand
    at, sub,           \* name of the sub-space and the sub-space in hand
    edits, faults

requestVars == <<sr, srC, secret>>
spaceVars   == <<spaces, spacesC, feed>>
placeVars   == <<parent, namespace>>
workVars    == <<pc, obj, at, sub>>
boundVars   == <<edits, faults, scenario>>

vars == <<sr, srC, secret, parent, namespace, spaces, spacesC, feed, queued, pc, obj, at, sub, edits, faults, scenario>>

-----------------------------------------------------------------------------
AllSpecs == Specs \cup Unknown

\* Reason of the Ready condition of a sub-space: none at first.
SpaceReasons == {"None", "Provisioning", "Updating", "Provisioned"}

SubSpace == [deleting: BOOLEAN, spec: AllSpecs, ready: SpaceReasons,
             pending: BOOLEAN,               \* the spec is not worked on yet
             cluster: Clusters \cup {None}]  \* Status.TargetCluster

Reasons == SpaceReasons \cup {"Failed", "Terminating", "TerminatingFailed"}

Request == [phase: {"new", "live", "deleting"},  \* new: without finalizer
            spec: AllSpecs, ready: Reasons,
            access: BOOLEAN,                 \* does Status.NamespaceAccess name a secret?
            url: Clusters \cup {None}]       \* Status.TargetClusterURL

ASSUME NoneAssumption == None # Other /\ {None, Other} \cap (SubSpace \cup Request) = {}

TypeOK ==
    /\ sr \in Request \cup {None} /\ srC \in Request \cup {None} /\ secret \in BOOLEAN
    /\ parent \in {"live", "deleting", "gone"} /\ namespace \in {"live", "terminating", "gone"}
    /\ \A s \in {spaces, spacesC} : s \in [Names -> SubSpace \cup {None, Other}]
    /\ Len(feed) \in 0..MaxLag /\ (~scenario.lag => feed = <<>> /\ spacesC = spaces)
    /\ queued \in BOOLEAN
    /\ pc \in {"idle", "finalizer", "space", "create", "access", "grant", "mirror",
               "delete", "terminating", "finalize"}
    /\ pc # "idle" => obj \in Request
    /\ pc \in {"access", "grant", "mirror"} => at \in Names /\ sub \in SubSpace
    /\ edits \in 0..scenario.edits /\ faults \in 0..scenario.faults /\ scenario \in Scenarios

NewRequest == [phase |-> "new", spec |-> Home, ready |-> "None", access |-> FALSE, url |-> None]

Init ==
    /\ sr = NewRequest /\ srC = None /\ secret = FALSE
    /\ parent = "live" /\ namespace = "live"
    /\ scenario \in Scenarios
    /\ spaces = [n \in Names |-> IF n \in scenario.taken THEN Other ELSE None]
    /\ spacesC = spaces /\ feed = <<>>
    /\ queued = FALSE /\ pc = "idle" /\ obj = None /\ at = None /\ sub = None
    /\ edits = 0 /\ faults = 0

-----------------------------------------------------------------------------
Fault == faults < scenario.faults /\ faults' = faults + 1 /\ UNCHANGED <<edits, scenario>>

Edit(kind) ==
    /\ kind \in scenario.kinds /\ edits < scenario.edits /\ edits' = edits + 1
    /\ UNCHANGED <<faults, scenario>>

\* The sub-spaces of the request among the Spaces s, found by their labels.
SubSpaces(s) == {n \in Names : s[n] \notin {None, Other}}

\* Mutant: the event of a sub-space that is gone is not mapped to the request.
MapsExisting(old, new) == \E n \in SubSpaces(new) : old[n] # new[n]

\* MapSubSpaceToSpaceRequest: a change of a Space with the labels of the request.
MapSubSpaceToSpaceRequest(old, new) ==
    \E n \in SubSpaces(old) \cup SubSpaces(new) : old[n] # new[n]

\* A change of the Spaces on the API server; the cache follows in the same order.
SetSpaces(s) ==
    /\ spaces' = s
    /\ IF scenario.lag THEN Len(feed) < MaxLag /\ feed' = Append(feed, s) /\ UNCHANGED spacesC
       ELSE spacesC' = s /\ UNCHANGED feed

\* Is the request queued when the Spaces become s?
Wakes(s) == queued \/ (~scenario.lag /\ MapSubSpaceToSpaceRequest(spacesC, s))

Done == pc' = "idle" /\ obj' = None /\ at' = None /\ sub' = None

Requeue == queued' = TRUE /\ Done

\* updateStatus of o: nothing is written when the condition is there already, and the copy
\* in hand must be current.
Report(o, reason) ==
    \/ obj = sr /\ sr' = [o EXCEPT !.ready = reason]
    \/ (obj # sr \/ o.ready = reason) /\ UNCHANGED sr

\* setStatusFailedToCreateSubSpace, setStatusTerminatingFailed: the error is returned
\* whether or not it can be reported.
Fail(reason) ==
    /\ Requeue
    /\ (Report(obj, reason) /\ UNCHANGED boundVars) \/ (Fault /\ UNCHANGED sr)

\* A call fails that could have succeeded.
Break(reason) == Fault /\ Requeue /\ (Report(obj, reason) \/ UNCHANGED sr)

\* An error that is not reported in the status.
Retry == Requeue /\ UNCHANGED sr

-----------------------------------------------------------------------------
(* Reconcile *)

\* LookupMember finds the request on its member whatever happens to the other members.
Reconcile ==
    /\ pc = "idle" /\ queued /\ queued' = FALSE
    /\ at' = None /\ sub' = None
    /\ IF srC = None THEN pc' = "idle" /\ obj' = None
       ELSE /\ obj' = srC
            /\ pc' = CASE srC.phase = "new" -> "finalizer"
                       [] srC.phase = "live" -> "space"
                       [] srC.phase = "deleting" -> "delete"
    /\ UNCHANGED <<requestVars, placeVars, spaceVars, boundVars>>

addFinalizer ==
    /\ pc = "finalizer"
    /\ \/ obj = sr /\ sr' = [obj EXCEPT !.phase = "live"] /\ obj' = sr' /\ pc' = "space"
          /\ UNCHANGED <<queued, at, sub, boundVars>>
       \/ obj # sr /\ Retry /\ UNCHANGED boundVars
       \/ Fault /\ Retry
    /\ UNCHANGED <<srC, secret, placeVars, spaceVars>>

\* The parent Space and the tier must exist, and at most one sub-space that stays.
Ensurable ==
    /\ parent = "live" /\ obj.spec \in Specs
    /\ Cardinality(SubSpaces(spacesC)) <= 1
    /\ \A n \in SubSpaces(spacesC) : ~spacesC[n].deleting

CannotEnsure ==
    /\ pc = "space" /\ ((~Ensurable /\ UNCHANGED boundVars) \/ Fault) /\ Retry
    /\ UNCHANGED <<srC, secret, placeVars, spaceVars>>

\* setStatusProvisioning before the sub-space is created.
setStatusProvisioning ==
    /\ pc = "space" /\ Ensurable /\ SubSpaces(spacesC) = {}
    /\ \/ /\ Report(obj, "Provisioning") /\ (obj = sr \/ obj.ready = "Provisioning")
          /\ obj' = [obj EXCEPT !.ready = "Provisioning"] /\ pc' = "create"
          /\ UNCHANGED <<queued, at, sub, boundVars>>
       \/ obj # sr /\ obj.ready # "Provisioning" /\ Retry /\ UNCHANGED boundVars
       \/ Fault /\ Retry
    /\ UNCHANGED <<srC, secret, placeVars, spaceVars>>

\* Mutant: names with the labels of the request are passed over like those of others.
FirstFree == {n \in Names : spacesC[n] = None /\ \A k \in 1..(n - 1) : spacesC[k] # None}

\* resolveSubSpaceName: the first free name, unless a sub-space of the request comes before.
resolveSubSpaceName ==
    {n \in Names : spacesC[n] = None /\ \A k \in 1..(n - 1) : spacesC[k] = Other}

\* Mutant: the tier and the roles are left out.
BareSubSpace == [deleting |-> FALSE, spec |-> None, ready |-> "None", pending |-> FALSE, cluster |-> None]

NewSubSpace ==
    [deleting |-> FALSE, spec |-> obj.spec, ready |-> "None", pending |-> FALSE, cluster |-> None]

CreateSubSpace ==
    /\ pc = "create"
    /\ \/ \E n \in resolveSubSpaceName :
             /\ spaces[n] = None
             /\ LET made == [spaces EXCEPT ![n] = NewSubSpace]
                IN  /\ SetSpaces(made)
                    /\ \/ Done /\ queued' = Wakes(made) /\ UNCHANGED <<sr, boundVars>>
                       \/ Break("Failed")
       \/ /\ \A n \in resolveSubSpaceName : spaces[n] # None
          /\ Fail("Failed") /\ UNCHANGED spaceVars
       \/ Break("Failed") /\ UNCHANGED spaceVars
    /\ UNCHANGED <<srC, secret, placeVars>>

\* updateExistingSubSpace: the sub-space gets the tier and the roles of the request.
UpdateSubSpace(n) ==
    /\ pc = "space" /\ Ensurable /\ n \in SubSpaces(spacesC)
    /\ IF spacesC[n].spec = obj.spec
       THEN /\ pc' = "access" /\ at' = n /\ sub' = spacesC[n]
            /\ UNCHANGED <<sr, obj, queued, spaceVars, boundVars>>
       ELSE \/ /\ spaces[n] = spacesC[n]
               /\ LET updated == [spaces EXCEPT ![n].spec = obj.spec, ![n].pending = TRUE]
                  IN  /\ SetSpaces(updated)
                      /\ \/ Done /\ queued' = Wakes(updated) /\ UNCHANGED <<sr, boundVars>>
                         \/ Fault /\ Retry
            \/ spaces[n] # spacesC[n] /\ Retry /\ UNCHANGED <<spaceVars, boundVars>>
            \/ Fault /\ Retry /\ UNCHANGED spaceVars
    /\ UNCHANGED <<srC, secret, placeVars>>

\* Status.ProvisionedNamespaces of a sub-space.
HasNamespaces(s) == s.ready \in {"Updating", "Provisioned"}

\* ensureNamespaceAccess: a secret named in the status is kept, or made again under its name.
EnsureSecret ==
    /\ pc = "access"
    /\ IF HasNamespaces(sub)
       THEN \/ /\ pc' = "grant" /\ secret' = (secret \/ (obj.access /\ sr # None /\ sr.access))
               /\ UNCHANGED <<sr, obj, at, sub, queued, boundVars>>
            \/ Break("Failed") /\ UNCHANGED secret
       ELSE pc' = "mirror" /\ UNCHANGED <<sr, secret, obj, at, sub, queued, boundVars>>
    /\ UNCHANGED <<srC, placeVars, spaceVars>>

\* The status names the secret; a new secret that is not on record is never found again.
GrantAccess ==
    LET granted == [obj EXCEPT !.access = TRUE]
        Named   == secret' = (secret \/ ~obj.access)
    IN  /\ pc = "grant"
        /\ \/ /\ obj = sr /\ sr' = granted /\ obj' = granted /\ Named
              /\ pc' = "mirror" /\ UNCHANGED <<queued, at, sub, boundVars>>
           \/ obj # sr /\ Retry /\ UNCHANGED <<secret, boundVars>>
           \/ /\ Fault /\ Requeue
              /\ \/ UNCHANGED <<sr, secret>>
                 \/ obj = sr /\ sr' \in {granted, [granted EXCEPT !.ready = "Failed"]} /\ Named
        /\ UNCHANGED <<srC, placeVars, spaceVars>>

\* updateSpaceRequest: the Ready condition of the sub-space is taken over, and with a new
\* condition the URL of its cluster.
updateSpaceRequest ==
    /\ pc = "mirror"
    /\ \/ sub.cluster = None /\ Retry /\ UNCHANGED boundVars
       \/ sub.cluster # None /\ obj.ready = sub.ready /\ Done /\ UNCHANGED <<sr, queued, boundVars>>
       \/ /\ sub.cluster # None /\ obj.ready # sub.ready
          /\ \/ /\ obj = sr /\ sr' = [obj EXCEPT !.ready = sub.ready, !.url = sub.cluster]
                /\ Done /\ UNCHANGED <<queued, boundVars>>
             \/ obj # sr /\ Retry /\ UNCHANGED boundVars
             \/ Fault /\ Retry
    /\ UNCHANGED <<srC, secret, placeVars, spaceVars>>

-----------------------------------------------------------------------------
(* ensureSpaceDeletion *)

\* A Space goes at once as long as the Space controller has not given it a finalizer.
Deleted(s) == IF s.ready = "None" THEN None ELSE [s EXCEPT !.deleting = TRUE]

\* Mutant: the finalizer goes as soon as the deletion of the sub-space has begun.
StillThere(s) == {n \in SubSpaces(s) : ~s[n].deleting}

Remaining(s) == SubSpaces(s)

DeleteSubSpace(n) ==
    /\ pc = "delete" /\ Remaining(spacesC) = {n} /\ ~spacesC[n].deleting
    /\ \/ /\ n \in SubSpaces(spaces)
          /\ LET left == [spaces EXCEPT ![n] = Deleted(@)]
             IN  /\ SetSpaces(left)
                 /\ \/ /\ pc' = "terminating" /\ queued' = Wakes(left)
                       /\ UNCHANGED <<sr, obj, at, sub, boundVars>>
                    \/ Break("TerminatingFailed")
       \/ /\ n \notin SubSpaces(spaces)
          /\ pc' = "finalize" /\ UNCHANGED <<sr, obj, at, sub, queued, spaceVars, boundVars>>
       \/ Break("TerminatingFailed") /\ UNCHANGED spaceVars
    /\ UNCHANGED <<srC, secret, placeVars>>

\* The sub-space is on its way out; two minutes of that are an error.
AwaitSubSpace ==
    /\ pc = "delete" /\ \E n \in Remaining(spacesC) : Remaining(spacesC) = {n} /\ spacesC[n].deleting
    /\ \/ pc' = "terminating" /\ UNCHANGED <<sr, obj, at, sub, queued, boundVars>>
       \/ Fail("TerminatingFailed")
    /\ UNCHANGED <<srC, secret, placeVars, spaceVars>>

TooManySubSpaces ==
    /\ pc = "delete" /\ Cardinality(Remaining(spacesC)) > 1
    /\ Fail("TerminatingFailed")
    /\ UNCHANGED <<srC, secret, placeVars, spaceVars>>

setStatusTerminating ==
    /\ pc = "terminating"
    /\ \/ Report(obj, "Terminating") /\ (obj = sr \/ obj.ready = "Terminating")
          /\ Done /\ UNCHANGED <<queued, boundVars>>
       \/ obj # sr /\ obj.ready # "Terminating" /\ Retry /\ UNCHANGED boundVars
       \/ Fault /\ Retry
    /\ UNCHANGED <<srC, secret, placeVars, spaceVars>>

\* Without sub-space the finalizer goes, and with the request the secrets it owns.
RemoveFinalizer ==
    /\ \/ pc = "delete" /\ Remaining(spacesC) = {}
       \/ pc = "finalize"
    /\ \/ obj = sr /\ sr' = None /\ secret' = FALSE /\ Done /\ UNCHANGED <<queued, boundVars>>
       \/ ((obj # sr /\ Fail("TerminatingFailed")) \/ Break("TerminatingFailed")) /\ UNCHANGED secret
    /\ UNCHANGED <<srC, placeVars, spaceVars>>

Restart ==
    /\ pc # "idle" /\ Fault /\ Retry
    /\ UNCHANGED <<srC, secret, placeVars, spaceVars>>

-----------------------------------------------------------------------------
(* Caches, the Space controller, the namespace *)

\* Mutant: the events of a request with new tier or roles are ignored.
DeletionOnly(o) == IF o = None THEN None ELSE <<o.phase = "deleting">>

Generation(o) == IF o = None THEN None ELSE <<o.spec, o.phase = "deleting">>

\* The watch on the member, with GenerationChangedPredicate.
DeliverRequest ==
    /\ srC # sr /\ srC' = sr
    /\ queued' = (queued \/ Generation(sr) # Generation(srC))
    /\ UNCHANGED <<sr, secret, placeVars, spaceVars, workVars, boundVars>>

DeliverSpaces ==
    /\ feed # <<>> /\ spacesC' = Head(feed) /\ feed' = Tail(feed)
    /\ queued' = (queued \/ MapSubSpaceToSpaceRequest(spacesC, spacesC'))
    /\ UNCHANGED <<requestVars, placeVars, spaces, workVars, boundVars>>

ChangeSpace(n, s) ==
    /\ LET changed == [spaces EXCEPT ![n] = s] IN SetSpaces(changed) /\ queued' = Wakes(changed)
    /\ UNCHANGED <<requestVars, placeVars, workVars>>

Alive(n) == n \in SubSpaces(spaces) /\ ~spaces[n].deleting

\* The Space controller takes the sub-space up, works on a new spec, and is done with it.
SpaceStarts(n) ==
    /\ Alive(n) /\ spaces[n].ready = "None"
    /\ ChangeSpace(n, [spaces[n] EXCEPT !.ready = "Provisioning", !.cluster = First]) /\ UNCHANGED boundVars

SpaceUpdates(n) ==
    /\ Alive(n) /\ spaces[n].ready = "Provisioned" /\ spaces[n].pending
    /\ ChangeSpace(n, [spaces[n] EXCEPT !.ready = "Updating"]) /\ UNCHANGED boundVars

SpaceSettles(n) ==
    /\ Alive(n) /\ spaces[n].ready \in {"Provisioning", "Updating"}
    /\ ChangeSpace(n, [spaces[n] EXCEPT !.ready = "Provisioned", !.pending = FALSE]) /\ UNCHANGED boundVars

SpaceGoes(n) ==
    /\ n \in SubSpaces(spaces) /\ spaces[n].deleting
    /\ ChangeSpace(n, None) /\ UNCHANGED boundVars

\* A request without finalizer is gone when it is deleted.
DeletedRequest == IF sr = None \/ sr.phase = "new" THEN None ELSE [sr EXCEPT !.phase = "deleting"]

\* With the parent Space its namespace goes, and before that what is in it.
NamespaceTerminates ==
    /\ parent = "deleting" /\ namespace = "live" /\ namespace' = "terminating"
    /\ sr' = DeletedRequest
    /\ UNCHANGED <<srC, secret, parent, spaceVars, queued, workVars, boundVars>>

NamespaceGoes ==
    /\ namespace = "terminating" /\ sr = None /\ namespace' = "gone" /\ parent' = "gone"
    /\ UNCHANGED <<requestVars, spaceVars, queued, workVars, boundVars>>

-----------------------------------------------------------------------------
(* Users and administrators *)

CreateRequest ==
    /\ sr = None /\ namespace = "live" /\ Edit("request") /\ sr' = NewRequest
    /\ UNCHANGED <<srC, secret, placeVars, spaceVars, queued, workVars>>

DeleteRequest ==
    /\ sr # None /\ sr.phase # "deleting" /\ Edit("removal") /\ sr' = DeletedRequest
    /\ UNCHANGED <<srC, secret, placeVars, spaceVars, queued, workVars>>

EditRequest(spec) ==
    /\ sr # None /\ sr.spec # spec /\ Edit("request") /\ sr' = [sr EXCEPT !.spec = spec]
    /\ UNCHANGED <<srC, secret, placeVars, spaceVars, queued, workVars>>

DeleteSecret ==
    /\ secret /\ Edit("secret") /\ secret' = FALSE
    /\ UNCHANGED <<sr, srC, placeVars, spaceVars, queued, workVars>>

DeleteParent ==
    /\ parent = "live" /\ Edit("parent") /\ parent' = "deleting"
    /\ UNCHANGED <<requestVars, namespace, spaceVars, queued, workVars>>

RetargetSubSpace(n, c) ==
    /\ Alive(n) /\ spaces[n].cluster \notin {None, c} /\ Edit("space")
    /\ ChangeSpace(n, [spaces[n] EXCEPT !.cluster = c, !.ready = "Provisioning"])

DeleteSubSpaceByHand(n) == Alive(n) /\ Edit("space") /\ ChangeSpace(n, Deleted(spaces[n]))

FreeName(n) == spaces[n] = Other /\ Edit("name") /\ ChangeSpace(n, None)

-----------------------------------------------------------------------------
Controller ==
    \/ Reconcile \/ addFinalizer \/ CannotEnsure \/ setStatusProvisioning \/ CreateSubSpace
    \/ EnsureSecret \/ GrantAccess \/ updateSpaceRequest
    \/ AwaitSubSpace \/ TooManySubSpaces \/ setStatusTerminating \/ RemoveFinalizer
    \/ \E n \in Names : UpdateSubSpace(n) \/ DeleteSubSpace(n)

Users ==
    \/ CreateRequest \/ DeleteRequest \/ DeleteSecret \/ DeleteParent
    \/ \E spec \in AllSpecs : EditRequest(spec)
    \/ \E n \in Names :
          DeleteSubSpaceByHand(n) \/ FreeName(n) \/ \E c \in Clusters : RetargetSubSpace(n, c)

Environment ==
    \/ Restart \/ DeliverRequest \/ DeliverSpaces \/ NamespaceTerminates \/ NamespaceGoes
    \/ \E n \in Names : SpaceStarts(n) \/ SpaceUpdates(n) \/ SpaceSettles(n) \/ SpaceGoes(n)

Next == Controller \/ Environment \/ Users

Spec == Init /\ [][Next]_vars

\* The worker runs, caches catch up, the Space controller and the cluster do their part;
\* nobody has to edit anything and no call has to fail.
Fairness ==
    /\ WF_vars(Controller) /\ WF_vars(DeliverRequest) /\ WF_vars(DeliverSpaces)
    /\ WF_vars(NamespaceTerminates) /\ WF_vars(NamespaceGoes)
    /\ \A n \in Names :
         WF_vars(SpaceStarts(n)) /\ WF_vars(SpaceUpdates(n)) /\ WF_vars(SpaceSettles(n)) /\ WF_vars(SpaceGoes(n))

FairSpec == Spec /\ Fairness

-----------------------------------------------------------------------------
(* Properties *)

\* The controller implements ResourceOwnership with at most one sub-space, when the cache of
\* Spaces is current: none is created without a request that holds the finalizer, none beside
\* another one, and the finalizer stays until the sub-space is gone.
Ownership == INSTANCE ResourceOwnership WITH
    Places <- Names, Single <- TRUE,
    owner <- sr # None /\ sr.phase # "new",
    owned <- IF scenario.lag THEN {} ELSE SubSpaces(spaces)

ImplementsOwnership == Ownership!Spec

\* After edits, failed calls, sub-spaces deleted or moved by administrators: a request that
\* stays in a Space that stays has one sub-space with its tier and roles, says that it is
\* provisioned, and gives access to it, as long as there is a name left for the sub-space.  Two
\* sub-spaces would be an error for ever (getSubSpace).
Provisioned ==
    sr # None /\ sr.phase = "live" /\ parent = "live" /\ sr.spec \in Specs =>
        \/ \E n \in Names : /\ SubSpaces(spaces) = {n}
                            /\ spaces[n].spec = sr.spec /\ spaces[n].ready = "Provisioned"
                            /\ sr.ready = "Provisioned" /\ sr.access
        \/ \A n \in Names : spaces[n] = Other

AlwaysSingle == [](Cardinality(SubSpaces(spaces)) <= 1)

RequestSettles == AlwaysSingle => <>[]Provisioned

\* Whatever is going on when a request is deleted, by its user or with the namespace of the
\* parent Space, it goes away, so that the parent Space can, unless it had two sub-spaces.
RequestDeletionCompletes ==
    AlwaysSingle => (sr # None /\ sr.phase = "deleting" ~> sr = None \/ sr.phase # "deleting")

\* Even when the cache of Spaces is behind, the request gets one sub-space: while it is not in
\* the list its name is in the cache, or not free on the API server.  Only a name that other
\* Spaces had, and left, can break this.
OneSubSpace == scenario.taken = {} => Cardinality(SubSpaces(spaces)) <= 1

=============================================================================
