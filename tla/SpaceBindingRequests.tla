-------------------------- MODULE SpaceBindingRequests --------------------------
(***************************************************************************)
(* The SpaceBinding of one user for one Space: the SpaceBindingRequests in  *)
(* the namespace of the Space that ask for it, with their controller, and   *)
(* the SpaceBindingCleanup controller that takes it away when the user or   *)
(* the Space is gone.  Administrators and the UserSignup controller make    *)
(* SpaceBindings too.                                                       *)
(***************************************************************************)
EXTENDS FiniteSets, Integers, Sequences

CONSTANTS
    Requests,   \* names of SpaceBindingRequests
    First,      \* the one that is there at first
    FirstRole,  \* and what it asks for
    Roles,      \* roles of the tier of the Space
    Admin,      \* role of a new SpaceBinding
    Unknown,    \* roles the tier does not have
    None,
    MaxLag,     \* bound: states of the SpaceBinding the cache can be behind
    Scenarios   \* lag: may the caches of the host be behind?  Bounds: edits, changes by users
                \* and administrators; faults, failed calls, lost answers and restarts

ASSUME BindingsAssumption ==
    /\ First \in Requests /\ None \notin Requests /\ {Admin, FirstRole} \subseteq Roles
    /\ Roles \cap Unknown = {}
    /\ Scenarios \subseteq [lag: BOOLEAN, edits: Nat, faults: Nat] /\ MaxLag \in Nat

VARIABLES
    req, reqC,      \* the SpaceBindingRequests, and their copies in the cache of the member
    sb, sbC,        \* the SpaceBinding, and its copy in the cache of the host
    feed,           \* states of it the cache has not seen yet, oldest first
    mur, murC,      \* the MasterUserRecord
    space, spaceC,  \* the Space
    terminating,    \* is the namespace being deleted?
    unbound,        \* was the user or the Space away since the SpaceBinding was made, or
                    \* since the clean-up began to look at it?
    queued,         \* requests in the work queue of the controller
    pc, cur, obj,   \* its next call, name and copy of the request in hand
    queuedB,        \* is the SpaceBinding in the work queue of the clean-up?
    pcB, victim,    \* its next call, the request to delete
    scenario,       \* lag and bounds of this behaviour
    edits, faults

hostVars    == <<sb, sbC, feed, mur, murC, space, spaceC, unbound>>
requestVars == <<req, reqC, terminating>>
workVars    == <<pc, cur, obj>>
cleanVars   == <<queuedB, pcB, victim>>
boundVars   == <<edits, faults, scenario>>

vars == <<req, reqC, sb, sbC, feed, mur, murC, space, spaceC, terminating, unbound, queued, pc, cur, obj,
          queuedB, pcB, victim, scenario, edits, faults>>

-----------------------------------------------------------------------------
AllRoles == Roles \cup Unknown

Reasons == {"None", "Provisioning", "Provisioned", "Failed", "Terminating", "TerminatingFailed"}

Request == [phase: {"new", "live", "deleting"}, role: AllRoles, ready: Reasons]

Binding == [owner: Requests \cup {None},  \* labels of the request it was made for
            role: AllRoles, deleting: BOOLEAN,
            old: BOOLEAN]                 \* older than deletionDelay

ASSUME NoneAssumption == None \notin Request \cup Binding

TypeOK ==
    /\ req \in [Requests -> Request \cup {None}] /\ reqC \in [Requests -> Request \cup {None}]
    /\ sb \in Binding \cup {None} /\ sbC \in Binding \cup {None}
    /\ {mur, murC, space, spaceC} \subseteq {"live", "deleting", "gone"}
    /\ {terminating, unbound, queuedB} \subseteq BOOLEAN
    /\ ~scenario.lag => feed = <<>> /\ sbC = sb /\ murC = mur /\ spaceC = space
    /\ queued \in SUBSET Requests
    /\ pc \in {"idle", "finalizer", "ensure", "create", "ready", "fail", "delete", "terminating", "finalize"}
    /\ pc # "idle" => cur \in Requests /\ obj \in Request
    /\ pcB \in {"idle", "request", "binding"} /\ victim \in Requests \cup {None}
    /\ scenario \in Scenarios /\ edits \in 0..scenario.edits /\ faults \in 0..scenario.faults

NewRequest(role) == [phase |-> "new", role |-> role, ready |-> "None"]

Init ==
    /\ req = [r \in Requests |-> IF r = First THEN NewRequest(FirstRole) ELSE None]
    /\ reqC = [r \in Requests |-> None]
    /\ sb = None /\ sbC = None /\ feed = <<>> /\ unbound = FALSE
    /\ mur = "live" /\ murC = mur /\ space = "live" /\ spaceC = space /\ terminating = FALSE
    /\ queued = {} /\ pc = "idle" /\ cur = None /\ obj = None
    /\ queuedB = FALSE /\ pcB = "idle" /\ victim = None
    /\ scenario \in Scenarios /\ edits = 0 /\ faults = 0

-----------------------------------------------------------------------------
Fault == faults < scenario.faults /\ faults' = faults + 1 /\ UNCHANGED <<edits, scenario>>

Edit == edits < scenario.edits /\ edits' = edits + 1 /\ UNCHANGED <<faults, scenario>>

\* Mutant: the events of a SpaceBinding that is being deleted are not mapped.
MapsLive(bindings) == {b.owner : b \in {c \in bindings \ {None} : ~c.deleting}} \ {None}

\* MapSpaceBindingToSpaceBindingRequest: the requests named by the labels of the SpaceBindings.
MapSpaceBindingToSpaceBindingRequest(bindings) == {b.owner : b \in bindings \ {None}} \ {None}

\* The SpaceBinding becomes b; its event queues its request and the clean-up.  `more` are
\* other requests to queue.
SetBinding(b, more) ==
    /\ sb' = b
    /\ unbound' = IF sb = None /\ pcB = "idle" THEN mur = "gone" \/ space = "gone" ELSE unbound
    /\ IF scenario.lag
       THEN /\ Len(feed) < MaxLag /\ feed' = Append(feed, b)
            /\ queued' = queued \cup more /\ UNCHANGED <<sbC, queuedB>>
       ELSE /\ sbC' = b /\ queuedB' = TRUE /\ UNCHANGED feed
            /\ queued' = queued \cup more \cup MapSpaceBindingToSpaceBindingRequest({sbC, b})

SameBinding == UNCHANGED <<sb, sbC, feed, unbound, queuedB>>

Done == pc' = "idle" /\ cur' = None /\ obj' = None

\* updateStatus: nothing is written when the condition is there, an outdated copy is refused.
Report(reason) ==
    \/ obj = req[cur] /\ req' = [req EXCEPT ![cur].ready = reason]
    \/ (obj # req[cur] \/ obj.ready = reason) /\ UNCHANGED req

Written(reason) == Report(reason) /\ (obj = req[cur] \/ obj.ready = reason)

Refused(reason) == obj # req[cur] /\ obj.ready # reason /\ UNCHANGED req

-----------------------------------------------------------------------------
(* The SpaceBindingRequest controller: one request at a time *)

Reconcile(r) ==
    /\ pc = "idle" /\ r \in queued /\ queued' = queued \ {r}
    /\ IF reqC[r] = None THEN Done
       ELSE /\ cur' = r /\ obj' = reqC[r]
            /\ pc' = CASE reqC[r].phase = "new" -> "finalizer"
                       [] reqC[r].phase = "live" -> "ensure"
                       [] reqC[r].phase = "deleting" -> "delete"
    /\ UNCHANGED <<requestVars, hostVars, cleanVars, boundVars>>

\* An error of Reconcile without anything written.
Retry == queued' = queued \cup {cur} /\ Done /\ UNCHANGED req

addFinalizer ==
    /\ pc = "finalizer"
    /\ \/ /\ obj = req[cur] /\ req' = [req EXCEPT ![cur].phase = "live"] /\ obj' = req'[cur]
          /\ pc' = "ensure" /\ UNCHANGED <<cur, queued, boundVars>>
       \/ obj # req[cur] /\ Retry /\ UNCHANGED boundVars
       \/ Fault /\ Retry
    /\ UNCHANGED <<reqC, terminating, hostVars, cleanVars>>

\* Mutant: a SpaceBinding that is being deleted counts as gone.
OwnsLive(b, r) == b # None /\ b.owner = r /\ ~b.deleting

sbrOwnsSpaceBinding(b, r) == b # None /\ b.owner = r

\* The SpaceBinding must be the request's own and stay; the Space, the user and the role must
\* be there.
Allowed ==
    /\ spaceC = "live" /\ murC = "live" /\ obj.role \in Roles
    /\ sbC # None => sbrOwnsSpaceBinding(sbC, cur) /\ ~sbC.deleting

Go(next) == pc' = next /\ UNCHANGED <<req, cur, obj>>

CannotEnsure ==
    /\ pc = "ensure" /\ ((~Allowed /\ UNCHANGED boundVars) \/ Fault)
    /\ Go("fail") /\ UNCHANGED <<queued, reqC, terminating, hostVars, cleanVars>>

\* setStatusProvisioning, before the SpaceBinding is created.
setStatusProvisioning ==
    /\ pc = "ensure" /\ Allowed /\ sbC = None
    /\ \/ /\ Written("Provisioning") /\ pc' = "create" /\ obj' = [obj EXCEPT !.ready = "Provisioning"]
          /\ UNCHANGED <<cur, queued, boundVars>>
       \/ Refused("Provisioning") /\ Go("fail") /\ UNCHANGED <<queued, boundVars>>
       \/ Fault /\ Go("fail") /\ UNCHANGED queued
    /\ UNCHANGED <<reqC, terminating, hostVars, cleanVars>>

\* Mutant: the role is left out.
WithoutRole(owner) == [owner |-> owner, role |-> None, deleting |-> FALSE, old |-> FALSE]

\* NewSpaceBinding: the name is made of user and Space, the role is that of an administrator.
NewSpaceBinding(owner) == [owner |-> owner, role |-> Admin, deleting |-> FALSE, old |-> FALSE]

CreateSpaceBinding ==
    /\ pc = "create"
    /\ \/ /\ sb = None /\ SetBinding(NewSpaceBinding(cur), {})
          /\ (Go("ready") /\ UNCHANGED boundVars) \/ (Fault /\ Go("fail"))
       \/ sb # None /\ Go("fail") /\ SameBinding /\ UNCHANGED <<queued, boundVars>>
       \/ Fault /\ Go("fail") /\ SameBinding /\ UNCHANGED queued
    /\ UNCHANGED <<reqC, terminating, mur, murC, space, spaceC, pcB, victim>>

\* updateSpaceBinding: the role is the only thing that is updated.
UpdateSpaceBinding ==
    /\ pc = "ensure" /\ Allowed /\ sbC # None
    /\ IF sbC.role = obj.role THEN Go("ready") /\ SameBinding /\ UNCHANGED <<queued, boundVars>>
       ELSE \/ /\ sb = sbC /\ SetBinding([sb EXCEPT !.role = obj.role], {})
               /\ Go("ready") /\ UNCHANGED boundVars
            \/ sb # sbC /\ Go("fail") /\ SameBinding /\ UNCHANGED <<queued, boundVars>>
    /\ UNCHANGED <<reqC, terminating, mur, murC, space, spaceC, pcB, victim>>

SetReady ==
    /\ pc = "ready"
    /\ \/ Written("Provisioned") /\ Done /\ UNCHANGED <<queued, boundVars>>
       \/ Refused("Provisioned") /\ Retry /\ UNCHANGED boundVars
       \/ Fault /\ Retry
    /\ UNCHANGED <<reqC, terminating, hostVars, cleanVars>>

\* setStatusFailedToCreateSpaceBinding, setStatusTerminatingFailed: the error is returned
\* whether or not it can be reported.
ReportFailure(reason) ==
    /\ queued' = queued \cup {cur} /\ Done
    /\ (Report(reason) /\ UNCHANGED boundVars) \/ (Fault /\ UNCHANGED req)

SetFailed ==
    /\ pc = "fail" /\ ReportFailure("Failed")
    /\ UNCHANGED <<reqC, terminating, hostVars, cleanVars>>

-----------------------------------------------------------------------------
(* ensureSpaceBindingDeletion *)

\* Without the Space nobody can tell which SpaceBinding it is, and the finalizer stays.
SpaceMissing ==
    /\ pc = "delete" /\ spaceC = "gone" /\ Retry
    /\ UNCHANGED <<reqC, terminating, hostVars, cleanVars, boundVars>>

\* Without finalizers a SpaceBinding is gone at once.
Deleted(b) == {None, [b EXCEPT !.deleting = TRUE]}

DeleteSpaceBinding ==
    /\ pc = "delete" /\ spaceC # "gone" /\ sbrOwnsSpaceBinding(sbC, cur) /\ ~sbC.deleting
    /\ \/ /\ sb # None /\ \E b \in Deleted(sb) : SetBinding(b, {})
          /\ Go("terminating") /\ UNCHANGED boundVars
       \/ sb = None /\ Go("finalize") /\ SameBinding /\ UNCHANGED <<queued, boundVars>>
       \/ /\ Fault /\ (Report("TerminatingFailed") \/ UNCHANGED req) /\ Done
          /\ \/ sb # None /\ \E b \in Deleted(sb) : SetBinding(b, {cur})
             \/ SameBinding /\ queued' = queued \cup {cur}
    /\ UNCHANGED <<reqC, terminating, mur, murC, space, spaceC, pcB, victim>>

\* The SpaceBinding is on its way out; two minutes of that are an error.
AwaitSpaceBinding ==
    /\ pc = "delete" /\ spaceC # "gone" /\ sbrOwnsSpaceBinding(sbC, cur) /\ sbC.deleting
    /\ \/ Go("terminating") /\ UNCHANGED <<queued, boundVars>>
       \/ ReportFailure("TerminatingFailed")
    /\ UNCHANGED <<reqC, terminating, hostVars, cleanVars>>

setStatusTerminating ==
    /\ pc = "terminating"
    /\ \/ Written("Terminating") /\ Done /\ UNCHANGED <<queued, boundVars>>
       \/ Refused("Terminating") /\ Retry /\ UNCHANGED boundVars
       \/ Fault /\ Retry
    /\ UNCHANGED <<reqC, terminating, hostVars, cleanVars>>

\* The SpaceBinding of somebody else stays.
RemoveFinalizer ==
    /\ \/ pc = "finalize"
       \/ pc = "delete" /\ spaceC # "gone" /\ ~sbrOwnsSpaceBinding(sbC, cur)
    /\ \/ /\ obj = req[cur] /\ req' = [req EXCEPT ![cur] = None]
          /\ Done /\ UNCHANGED <<queued, boundVars>>
       \/ obj # req[cur] /\ Retry /\ UNCHANGED boundVars
       \/ Fault /\ ((Report("TerminatingFailed") /\ queued' = queued \cup {cur} /\ Done) \/ Retry)
    /\ UNCHANGED <<reqC, terminating, hostVars, cleanVars>>

-----------------------------------------------------------------------------
(* The SpaceBindingCleanup controller *)

\* Mutant: a user that is being deleted counts as gone.
UserLost == murC # "live" \/ spaceC = "gone"

\* Mutant: the SpaceBinding stays until both are gone.
BothLost == murC = "gone" /\ spaceC = "gone"

\* The Space or the user the SpaceBinding is for is not in the cache.
Lost == murC = "gone" \/ spaceC = "gone"

\* A SpaceBinding that is not old enough is looked at again when it is.
CleanUp ==
    /\ pcB = "idle" /\ queuedB /\ (sbC # None /\ Lost => sbC.old \/ sbC.deleting)
    /\ IF sbC = None \/ sbC.deleting \/ ~Lost
       THEN queuedB' = FALSE /\ UNCHANGED <<pcB, victim>>
       ELSE /\ queuedB' = FALSE /\ victim' = sbC.owner
            /\ pcB' = IF sbC.owner # None /\ reqC[sbC.owner] # None THEN "request" ELSE "binding"
    /\ UNCHANGED <<requestVars, hostVars, queued, workVars, boundVars>>

\* A request without finalizer is gone when it is deleted.
DeletedRequest(o) == IF o = None \/ o.phase = "new" THEN None ELSE [o EXCEPT !.phase = "deleting"]

CleanUpDone == pcB' = "idle" /\ victim' = None

\* deleteSpaceBindingRequest: its controller deletes the SpaceBinding, the clean-up comes back.
DeleteRequestOfBinding ==
    /\ pcB = "request" /\ CleanUpDone /\ queuedB' = TRUE
    /\ \/ req' = [req EXCEPT ![victim] = DeletedRequest(@)] /\ UNCHANGED boundVars
       \/ Fault /\ UNCHANGED req
    /\ UNCHANGED <<reqC, terminating, hostVars, queued, workVars>>

\* deleteSpaceBindingResource.  Whatever has the name is deleted.
DeleteBindingItself ==
    /\ pcB = "binding" /\ CleanUpDone
    /\ \/ /\ sb # None /\ \E b \in Deleted(sb) : SetBinding(b, {})
          /\ (scenario.lag => UNCHANGED queuedB) /\ UNCHANGED boundVars
       \/ sb = None /\ queuedB' = TRUE /\ UNCHANGED <<sb, sbC, feed, unbound, queued, boundVars>>
       \/ Fault /\ queuedB' = TRUE /\ UNCHANGED <<sb, sbC, feed, unbound, queued>>
    /\ UNCHANGED <<requestVars, mur, murC, space, spaceC, workVars>>

\* The operator starts again: everything is queued.
Restart ==
    /\ Fault /\ (pc # "idle" \/ pcB # "idle")
    /\ Done /\ CleanUpDone /\ queuedB' = TRUE /\ queued' = {r \in Requests : reqC[r] # None}
    /\ UNCHANGED <<requestVars, hostVars>>

-----------------------------------------------------------------------------
(* Caches and time *)

\* Mutant: the events of a request that changes its role are ignored.
DeletionOnly(o) == IF o = None THEN None ELSE <<o.phase = "deleting">>

Generation(o) == IF o = None THEN None ELSE <<o.role, o.phase = "deleting">>

DeliverRequest(r) ==
    /\ reqC[r] # req[r] /\ reqC' = [reqC EXCEPT ![r] = req[r]]
    /\ queued' = IF Generation(req[r]) # Generation(reqC[r]) THEN queued \cup {r} ELSE queued
    /\ UNCHANGED <<req, terminating, hostVars, workVars, cleanVars, boundVars>>

DeliverBinding ==
    /\ feed # <<>> /\ sbC' = Head(feed) /\ feed' = Tail(feed) /\ queuedB' = TRUE
    /\ queued' = queued \cup MapSpaceBindingToSpaceBindingRequest({sbC, sbC'})
    /\ UNCHANGED <<requestVars, sb, mur, murC, space, spaceC, unbound, workVars, pcB, victim, boundVars>>

\* MapToSpaceBindingByBoundObjectName, OnlyDeleteAndGenericPredicate.
GoneEvent(old, new) == queuedB' = (queuedB \/ (old # "gone" /\ new = "gone" /\ sbC # None))

DeliverMur ==
    /\ murC # mur /\ murC' = mur /\ GoneEvent(murC, mur)
    /\ UNCHANGED <<requestVars, sb, sbC, feed, mur, space, spaceC, unbound, queued, workVars, pcB, victim, boundVars>>

DeliverSpace ==
    /\ spaceC # space /\ spaceC' = space /\ GoneEvent(spaceC, space)
    /\ UNCHANGED <<requestVars, sb, sbC, feed, mur, murC, space, unbound, queued, workVars, pcB, victim, boundVars>>

\* Caches are not behind for as long as deletionDelay.
Age ==
    /\ sb # None /\ ~sb.old /\ feed = <<>> /\ murC = mur /\ spaceC = space
    /\ sb' = [sb EXCEPT !.old = TRUE] /\ sbC' = sb'
    /\ UNCHANGED <<requestVars, feed, mur, murC, space, spaceC, unbound, queued, workVars, cleanVars, boundVars>>

-----------------------------------------------------------------------------
(* The user, the Space, the namespace, administrators *)

SetMur(m) ==
    /\ mur' = m /\ unbound' = (unbound \/ m = "gone")
    /\ IF scenario.lag THEN UNCHANGED <<murC, queuedB>> ELSE murC' = m /\ GoneEvent(murC, m)
    /\ UNCHANGED <<requestVars, sb, sbC, feed, space, spaceC, queued, workVars, pcB, victim>>

DeleteMur == mur = "live" /\ Edit /\ SetMur("deleting")
MurGoes   == mur = "deleting" /\ SetMur("gone") /\ UNCHANGED boundVars
CreateMur == mur = "gone" /\ Edit /\ SetMur("live")

SetSpace(s) ==
    /\ space' = s /\ unbound' = (unbound \/ s = "gone")
    /\ IF scenario.lag THEN UNCHANGED <<spaceC, queuedB>> ELSE spaceC' = s /\ GoneEvent(spaceC, s)
    /\ UNCHANGED <<reqC, sb, sbC, feed, mur, murC, queued, workVars, pcB, victim>>

DeleteSpace == space = "live" /\ Edit /\ SetSpace("deleting") /\ UNCHANGED <<req, terminating>>

NamespaceTerminates ==
    /\ space = "deleting" /\ ~terminating /\ terminating' = TRUE
    /\ req' = [r \in Requests |-> DeletedRequest(req[r])]
    /\ UNCHANGED <<reqC, hostVars, queued, workVars, cleanVars, boundVars>>

SpaceGoes ==
    /\ space = "deleting" /\ terminating /\ \A r \in Requests : req[r] = None
    /\ SetSpace("gone") /\ UNCHANGED <<req, terminating, boundVars>>

BindingGoes ==
    /\ sb # None /\ sb.deleting /\ SetBinding(None, {})
    /\ UNCHANGED <<requestVars, mur, murC, space, spaceC, workVars, pcB, victim, boundVars>>

EditRequests(o) ==
    /\ Edit /\ req' = o
    /\ UNCHANGED <<reqC, terminating, hostVars, queued, workVars, cleanVars>>

CreateRequest(r) == req[r] = None /\ ~terminating /\ EditRequests([req EXCEPT ![r] = NewRequest(FirstRole)])

DeleteRequest(r) ==
    req[r] # None /\ req[r].phase # "deleting" /\ EditRequests([req EXCEPT ![r] = DeletedRequest(@)])

EditRole(r, role) ==
    req[r] # None /\ req[r].role # role /\ EditRequests([req EXCEPT ![r].role = role])

\* For a user who exists, by an administrator or the UserSignup controller.
CreateBinding ==
    /\ sb = None /\ mur = "live" /\ space = "live" /\ Edit /\ SetBinding(NewSpaceBinding(None), {})
    /\ UNCHANGED <<requestVars, mur, murC, space, spaceC, workVars, pcB, victim>>

DeleteBindingByHand ==
    /\ sb # None /\ ~sb.deleting /\ Edit /\ \E b \in Deleted(sb) : SetBinding(b, {})
    /\ UNCHANGED <<requestVars, mur, murC, space, spaceC, workVars, pcB, victim>>

-----------------------------------------------------------------------------
Controller ==
    \/ \E r \in Requests : Reconcile(r)
    \/ addFinalizer \/ CannotEnsure \/ setStatusProvisioning \/ CreateSpaceBinding \/ UpdateSpaceBinding
    \/ SetReady \/ SetFailed
    \/ SpaceMissing \/ DeleteSpaceBinding \/ AwaitSpaceBinding \/ setStatusTerminating \/ RemoveFinalizer

Cleanup == CleanUp \/ DeleteRequestOfBinding \/ DeleteBindingItself

Environment ==
    \/ Restart \/ DeliverBinding \/ DeliverMur \/ DeliverSpace \/ Age
    \/ MurGoes \/ NamespaceTerminates \/ SpaceGoes \/ BindingGoes
    \/ \E r \in Requests : DeliverRequest(r)

Users ==
    \/ DeleteMur \/ CreateMur \/ DeleteSpace \/ CreateBinding \/ DeleteBindingByHand
    \/ \E r \in Requests :
          DeleteRequest(r) \/ CreateRequest(r) \/ \E role \in AllRoles : EditRole(r, role)

Next == Controller \/ Cleanup \/ Environment \/ Users

Spec == Init /\ [][Next]_vars

\* Workers run (the queue hands requests out in turn), caches catch up, what is being deleted
\* goes; nobody has to edit anything and no call has to fail.
Fairness ==
    /\ WF_vars(Controller) /\ WF_vars(Cleanup)
    /\ \A r \in Requests : SF_vars(Reconcile(r)) /\ WF_vars(DeliverRequest(r))
    /\ WF_vars(DeliverBinding) /\ WF_vars(DeliverMur) /\ WF_vars(DeliverSpace) /\ WF_vars(Age)
    /\ WF_vars(MurGoes) /\ WF_vars(NamespaceTerminates) /\ WF_vars(SpaceGoes) /\ WF_vars(BindingGoes)

FairSpec == Spec /\ Fairness

-----------------------------------------------------------------------------
(* Properties *)

\* As long as the cache of SpaceBindings is current the controller implements
\* ResourceOwnership for each request (they are alike): a SpaceBinding with its labels exists only while it
\* holds the finalizer, so the access ends with the request.
Ownership == INSTANCE ResourceOwnership WITH
    Places <- {First}, Single <- TRUE,
    owner <- req[First] # None /\ req[First].phase # "new",
    owned <- IF ~scenario.lag /\ sb # None /\ sb.owner = First THEN {First} ELSE {}

ImplementsOwnership == Ownership!Spec

\* A user and a Space that stay: every request is served by its own SpaceBinding with its
\* role, or says that it failed because the role is not allowed or somebody else's SpaceBinding
\* is there.
Served(r) ==
    req[r] # None /\ req[r].phase = "live" =>
        IF req[r].role \in Roles /\ sb # None /\ sb.owner = r
        THEN sb.role = req[r].role
        ELSE req[r].ready = "Failed" /\ (req[r].role \in Roles => sb # None)

RequestsServed == <>[](mur = "live" /\ space = "live" => \A r \in Requests : Served(r))

\* Without the user or without the Space there is no SpaceBinding in the end, whoever made it,
\* even if the event of the deletion came before the SpaceBinding was in the cache, and even
\* if its request was taken away meanwhile.
AccessEnds == <>[](mur = "gone" \/ space = "gone" => sb = None)

\* While the caches are current the clean-up takes nothing away from a user and a Space that
\* have been there all the time.  It deletes by name: with a cache that is behind, a
\* SpaceBinding made for the user who came back is taken for the one of before.
KeepsBound ==
    [][~scenario.lag /\ pcB # "idle" /\ pcB' = "idle" /\ (sb' # sb \/ req' # req) => unbound \/ sb = None]_vars

\* A request that is being deleted goes away, with its Space or without.
RequestDeletionCompletes ==
    \A r \in Requests : req[r] # None /\ req[r].phase = "deleting" ~> req[r] = None \/ req[r].phase # "deleting"

=============================================================================
