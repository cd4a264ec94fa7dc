# TLA+ models of host-operator

The operator runs on the host cluster of a Kubernetes fleet. It turns sign-ups of users into
accounts and Spaces and keeps the resources of those on member clusters. It consists of
controllers that share nothing but the objects of the host API, a few caches in memory and the
members. This directory models those controllers in TLA+, checks the models with TLC and proves
theorems about them with TLAPS.

## Inventory

Each controller has a work queue of names, one worker, and reads a cache of the API filled by
watches. Writes go to the API and are refused when the object has changed since the version
read. A reconcile that returns an error or a delay is queued again.

| Component | State it keeps | Operations | Interacts with | Correct when |
|---|---|---|---|---|
| Space controller (`controllers/space`) | finalizer, `Status` and labels of a Space; NSTemplateSet on a member; time of the last tier update | add finalizer; create, update, delete the NSTemplateSet; retarget; copy its status; label with the tier's hash | members, tiers, SpaceBindings, counters, SpaceCompletion | at most one NSTemplateSet per Space, always on record; retargeting and deletion leave nothing; settles on the current templates and roles |
| SpaceCompletion | `Spec.tierName`, `Spec.targetCluster` | fill in one missing field | ClusterManager, pending cache | no Space waits for ever while a cluster could take it |
| ClusterManager (`pkg/capacity`) | last used cluster, one instance for each of two controllers | `GetOptimalTargetCluster` | counters, SpaceProvisionerConfigs | ready clusters below the limit, least used first, in batches |
| SpaceProvisionerConfig controller | Ready condition | refresh on ToolchainStatus, ToolchainCluster or spec changes | ToolchainStatus, counters | agrees with members and counters in the end |
| Pending cache (`pkg/pending`) | names of waiting objects, oldest first | oldest pending object | ToolchainStatus events, SpaceCompletion, UserSignup | every waiting object gets its turn |
| Counters (`pkg/metrics`) | Spaces per cluster in memory | increment, decrement, snapshot, `Synchronize` | Space controller, ClusterManager, main | equal to the provisioned Spaces |
| UserSignup controller | state label, conditions, annotations; creates MasterUserRecord, Space, SpaceBinding, Notification | approve, ban, deactivate, verify, provision | ClusterManager, pending cache, metrics | never two records; activations counted; an approved user is served, access ends with the approval |
| UserSignupCleanup | - | delete or reset old UserSignups | UserSignup | nothing of a deleted user stays |
| Deactivation | deactivating state, scheduled time | deactivate inactive users, notify first | UserSignup, MasterUserRecord | a user whose time is over is deactivated, after an announcement |
| MasterUserRecord controller | finalizer, status per account; UserAccounts on members | create, update, delete UserAccounts | members, Space and SpaceBinding of the user | no UserAccount outlives its record |
| SpaceCleanup, SpaceBindingCleanup | - | delete Spaces without SpaceBinding, SpaceBindings without Space or user | UserSignup, SpaceBindingRequest | nothing in use is deleted |
| SpaceRequest, SpaceBindingRequest | objects on members; sub-Space, SpaceBinding, Secret | create and delete with a finalizer | Space controller, members | one sub-Space per request; roles as requested; deletion completes |
| NSTemplateTier, TierTemplate, revision clean-up | `Status.revisions`, TierTemplateRevisions, finalizers | create revisions, publish them, delete unused ones | Space controller | what is published exists; a revision in use is never deleted; unused ones go |
| Notification | Notification status | send, record, delete after a while | delivery service | every mail is sent, at most once without failures |
| SocialEvent | status | validate tiers, count activations | UserSignup | - |
| ToolchainConfig | configuration on members, registration service | copy | members | - |
| ToolchainStatus | ToolchainStatus | aggregate every few seconds | wakes SpaceProvisionerConfigs and the oldest pending objects | changes at every refresh |
| Generators, segment, main | - | templates at start, tracking, wiring | - | - |

Hard to test in this code: edits, cache deliveries, member progress and crashes between any two
calls of a reconcile; calls that are executed although their answer is lost; events that a
predicate or a label selector filters out; decisions taken from counters and conditions that
other controllers change meanwhile. `PROJECT.json` lists every hazard at its line with the
properties that cover it.

## Modules

| Module | Models | State | Actions |
|---|---|---|---|
| `SpaceController` | the Space controller for one Space, with SpaceCompletion and the counter | the Space in the API and in the cache, NSTemplateSets and the operator's view of them, the reconcile in progress (`pc`, `obj`, `st`, `want`), work queue, counters | one per API call of the reconcile, one per actor around it |
| `SpacePlacement` | what the controller promises: a Space is on at most one cluster, leaves one before it takes another, is not placed while terminating, and goes only when it is placed nowhere | `space`, `hosts` | `Request`, `Terminate`, `Release`, `Place`, `Vacate` |
| `ClusterManager` | `GetOptimalTargetCluster` as operators over readiness and counts | - | - |
| `Capacity` | many Spaces, two choosing controllers, counters, readiness, pending cache; `EXTENDS ClusterManager` | Spaces, MasterUserRecords without Space, choices not yet written, counters, Ready conditions, queues | one per controller step |
| `TierRevisions` | NSTemplateTier, TierTemplate and clean-up controllers with one Space of the tier | tier, templates, revisions, the caches of tiers and revisions, queue with its delay | one per call of the tier's reconcile, one per reconcile of the other two |
| `ResourceOwnership` | what a controller with a finalizer promises: resources exist only while their owner holds the finalizer, one at a time where that is meant | `owner`, `owned` | `Take`, `Open`, `Close`, `Release` |
| `MasterUserRecords` | the MasterUserRecord controller for one user | the record, the UserAccounts, caches of host and members, reconcile in progress | one per call, the members' controllers, administrators |
| `SpaceRequests` | the SpaceRequest controller for one request | the request, its secret, parent Space and namespace, Spaces by name, their cache and what it has not seen | one per call, the Space controller in five steps |
| `SpaceBindingRequests` | the SpaceBindingRequest and SpaceBindingCleanup controllers for one user and Space | requests, the SpaceBinding, user, Space, caches, two reconciles in progress | one per call |
| `UserSignups` | the UserSignup controller for one user | UserSignup, MasterUserRecords, Spaces and SpaceBindings by name, caches, reconcile in progress | one per call |
| `UserLifecycle` | `EXTENDS UserSignups`: Deactivation, UserSignupCleanup and SpaceCleanup beside it, time, administrators | versions about to be written, verdict of the clean-up, Space about to be deleted | one per call |
| `MCSpace`, `MCCapacity`, `MCTiers`, `MCAccounts`, `MCRequests`, `MCBindings`, `MCUsers` | values of the constants for TLC | | |
| `SpaceController_proofs`, `SpaceRecorded_proofs`, `Capacity_proofs`, `MasterUserRecords_proofs`, `SpaceRequests_proofs`, `SpaceBindingRequests_proofs`, `TierRevisions_proofs`, `UserLifecycle_proofs` | theorems | | |

The modules meet at the objects they share. `SpaceController` knows a published revision of a tier
and a SpaceBinding only as inputs that change; `TierRevisions` and `SpaceBindingRequests` say how
they come about. `MasterUserRecords` starts from a MasterUserRecord that `UserLifecycle` creates
and deletes, and `UserLifecycle` and `SpaceRequests` reduce the MasterUserRecord and Space
controllers to what their own models show: they provision, and they let go in the end.

### SpaceController

`pc` names the next call of `Reconcile`, so that a step of the model is one call to the host or
to a member with the local computation around it. `obj` is the copy of the Space in the hands of
the reconcile; `Write` succeeds only while it is the version in the API. `st` is
`Status.TargetCluster` in that copy, which the code sets in memory and persists with the next
status update: `manageNSTemplateSet` sets it before anything is created, `updateStatus` skips
the write when the condition is the same, and the answer to `Update` of the object overwrites
it. These three together decide whether an NSTemplateSet is on record, and `Recorded` is
about exactly that. A failed call returns an error in one of two ways: it is executed or it is
not (`Fault` with and without the effect).

The Ready condition is reduced to its reason. `young` says that the status of the condition
flipped within the last second, which is what `LastTransitionTime` measures, and `busy` that a
tier update ran in the last two seconds. Tiers are revisions; a hash label is a tier with a revision.
`MemberLag` separates the operator's cache of a member from the member. Without it the two
agree, which is the case the code reckons with (`requeueDelay`).

`Disciplined` restricts administrators: the target changes only when the Space is not on its way
to a cluster and not being deleted, and a Space is deleted only when it is not between two clusters. The
code does not enforce this. Without it `Recorded` is false, as the run `retarget_race` shows; with
it, it is proved.

### Capacity

A placement runs through a choice (`chosen`), the write of a MasterUserRecord (`mur`) or of the
Space's target, the state label, and the creation of the NSTemplateSet, at which it is counted.
`InFlightTo` collects the stages before the count. The SpaceProvisionerConfig controller computes
`ready` from the counters and from `reported`, the copy of `memory` in ToolchainStatus;
each refresh of ToolchainStatus queues all configs and the oldest pending Space. Reads of objects
a controller owns itself are not separated from the API, since `reported`, `ready`, `chosen` and
`pending` already hold what is out of date. `seen` makes the refused update of SpaceCompletion
explicit. A user whose UserSignup names the target cluster is not modelled: that choice bypasses
ClusterManager and its limits altogether.

`Optimal` returns the set of possible answers. The comparison divides by the limit, and with a
limit of 0 the result is NaN or infinite; `LessUsed` says what Go's comparison gives in each
case, and `FirstOf` what insertion sort, which `sort.Slice` uses for up to 12 elements, puts in
front for the order in which the configs are listed.

### TierRevisions

`tier.rev` is `Status.Revisions`: for each template nothing, the template itself when it does not
support revisions, or the name of a TierTemplateRevision. A Space provisions itself from what it
finds published (`uses`), and gets a label with the hash only when it is provisioned. The
clean-up looks at age, publication and outdated Spaces with a label, and deletes. A requeue after
a second comes when the caches are current (`ASecondPasses`), and a revision becomes old enough
for the clean-up (`Age`, 30 seconds) when they are and its tier is not being worked on. The caches of
TierTemplates and Spaces are taken as current. `Disciplined` keeps administrators from deleting a
tier that has a Space. `DependsOn` is what a labelled Space must not lose: the revisions behind its label, and those
it is being updated to as long as the cached tier differs from the label.

### MasterUserRecords

`obj` is the record in hand and `at`, `acc` the cluster and the account the reconcile looks at;
`todo` are the members that must not have one. `target` is the cluster of the default Space as the
cache tells. A write with an outdated copy is refused. The Ready condition is its reason, with
`provisioned` for whether the record was ever Provisioned, `notified` for the condition and the variable `notified`
for the Notification itself.

### SpaceRequests and SpaceBindingRequests

A sub-space gets the first free one of its possible names; `feed` holds the states of the Spaces that the host's
cache has not seen yet, at most `MaxLag` of them. `Scenarios` are what one behaviour may have: a
lagging cache, a name that another Space has, edits and faults. With a lagging cache and a name that becomes free there can be two sub-spaces,
and `TooManySubSpaces` ends every deletion; liveness is stated for behaviours that never have two. Access to a namespace is one secret,
named in the status (`access`).

A SpaceBinding carries the labels of the request it was made for, its `owner`. The clean-up starts
from the SpaceBinding, reads user and Space from the cache, and deletes the request, if there is
one, or the SpaceBinding, in both cases by name. `unbound` remembers for `KeepsBound` whether there was a
reason.

### UserSignups and UserLifecycle

The UserSignup carries its states, its label, the activation counter, the reason of the Complete
condition and how old its status is (`since`), the notification conditions, the compliant name and
the home Space. A step is one write, with the reads before it; `seen` is what the reconcile has
read of the records and Spaces. Approval by domain, by limits and by captcha score is a property of the submission.
Times are compared only with thresholds, so age is a flag that turns: the record is `aged` when its tier's time is
over, a warning is `due` when the waiting time is over, a Space is `old` after 30 seconds.
Time passes only while the controllers have nothing to do (`AtRest`), which assumes that a
reconcile is faster than the shortest threshold, those 30 seconds. Deletion of a UserSignup is in the
foreground: the record it owns goes first. What the MasterUserRecord and Space controllers do is
`RecordProvisioned`, `RecordGoes`, `SpaceProvisioned` and `SpaceGoes`.

## Runs

All constants are small; edits, faults, restarts and deletions are bounded by guards. Runs without
ToolchainStatus, which is refreshed for ever, switch the deadlock check off, because behaviours end
when these bounds are used up and everything is settled.

| Run | Shows |
|---|---|
| `disciplined` | `Recorded`, that `SpaceController` implements `SpacePlacement`, and `CountFollows`; two clusters with one other Space each, three edits, one fault anywhere |
| `settles` | `Settles` and `DeletionCompletes` after a retargeting, a new tier revision, a change of roles or a deletion, in spite of a fault |
| `deletion` | `DeletionCompletes`, `CreatedForExisting` and `ForgottenWhenGone` with a stale member cache and an unknown cluster, three edits |
| `batches` | `ChosenLeastUsed` and `OverCommitmentBounded`: six Spaces on clusters of size 2 and 4, one after the other, through two managers |
| `converges` | `ReadinessConverges`, `PendingServed` with a change, a deletion and a restart |
| `revisions` | `PublishedExists`, `UsedByLabelledKept`, `TierSettles`, `UnusedCollected`: a template with two contents, three revisions, a Space, one edit, one fault |
| `accounts` | `ImplementsOwnership`, `AccountsConverge` for two members and an unknown one, two edits, one fault |
| `accounts_lag` | `AccountsConverge`, `RecordDeletionCompletes` when the members' caches are behind, two edits |
| `requests` | `OneSubSpace`, `ImplementsOwnership`, `RequestSettles`, `RequestDeletionCompletes`: two names, one taken or both free with a lagging host cache; two edits, one fault; with both only the name is freed and the request deleted |
| `bindings` | `ImplementsOwnership`, `RequestsServed`, `AccessEnds`, `KeepsBound`, `RequestDeletionCompletes`: two requests, two roles and one that does not exist; two edits, or one with a fault and lagging host caches |
| `signups` | `OneRecord`, `ActivationCounted`, `ApprovedServed`, `AccessRevoked`, `DeactivatedInTime` for the combinations of edits, time, faults and lag in `MCUsers` |

The run `retarget_race` ends in a counterexample to what a comment of the code says; `PROJECT.json` quotes
the comment under "findings": a Space retargeted and then deleted leaves an NSTemplateSet on the
old cluster, because the deletion looks at `Spec.TargetCluster` alone whenever it is set.

### Observations without a run

Other places where the models show the code to differ from its comments or to depend on timing, found as
counterexamples to stronger properties than those of the runs. Space controller, placement, counters:

- The status that records the new cluster is not written when its reason is Provisioning already,
  so a retargeting before the next status update forgets the first NSTemplateSet
  (`space_controller.go:309`; the comment at 264 says that the status remembers it).
- A Space without hash label misses the update of its tier, although it has read the old tier
  already, and stays outdated (`nstemplatetier_spaces_mapper.go:26`).
- A Space provisioned between the start of the controllers and `Synchronize` is counted twice
  (`main.go:425`).
- A cluster without limit is the divisor zero of the comparison and counts as full
  (`capacity/manager.go:165`).
- The Ready condition keeps its `LastTransitionTime` while its status stays False, so a Space that
  has not been Ready for over a second gets no delay before an NSTemplateSet's old status is
  copied (`space_controller.go:217`). `Settles` shows that the right status follows.
- `ChosenLeastUsed` needs placements one at a time (`MaxInFlight = 1` in `batches`); with two
  choices in flight it is false.
- With a stale member cache `Settles` is false for a Space that is deleted and created again under
  its name within the lag: it takes the NSTemplateSet of its predecessor for its own and
  `Status.TargetCluster` is never set.
- Without the discipline `DeletionCompletes` is false for a Space that is retargeted to an unknown
  cluster and deleted before it has left the old one: the deletion fails at the unknown
  cluster until somebody corrects the target.

Tiers:

- The clean-up asks for outdated Spaces with a label; the comment at
  `nstemplatetier_revision_cleanup_controller.go:106` says "returns true if it's NOT used". A Space that
  is being provisioned for the first time has no label and can lose the revision it uses. Likewise a tier can be
  deleted while an unlabelled Space uses it.
- A labelled Space that is being updated loses its protection when the tier goes back to the revisions of
  the label in between: the Space is not "outdated" then, and the clean-up takes a revision that it uses once
  that is old enough. Two templates and two edits are needed: a template is added, the Space
  updated while its label is still that of before, the template removed again.
- A tier that refers to a missing TierTemplate makes a new revision for each of its other
  templates at every retry, all but the last of them orphans for the clean-up.
- A revision that was replaced wakes the clean-up only by the periodic resync.

Accounts:

- An error of a disabled user stays in the record: `alignReadiness` (`sync.go:133`, "cleanup outdated errors")
  has nothing to do for a disabled account and `alignDisabled` is not called again.
- If the cache of a member is behind, the finalizer can go while an account is still there.
- A reconcile that fails in the middle may leave a record Provisioned without status of its account.

Requests:

- With a lagging cache a second sub-space is created when a name that another Space had becomes
  free between the two (`spacerequest_controller.go:293`, "to avoid creating another subSpace for the same spaceRequest"). `getSubSpace`
  then fails, for the request, its deletion, its namespace and so the parent Space.
- A sub-space that was just created can be orphaned when its request is deleted before the host's cache shows it.
- The URL in the status of a SpaceRequest is written only when a condition changes with it (129). Secrets
  are generated anew when the status update after their creation failed, and the former ones stay until
  the request goes; a deleted secret is made again only with another event.
- A SpaceBindingRequest can stay Failed although it is served, when Ready is written from a copy that says so
  already (`spacebindingrequest_controller.go:104`), and a request for another role gets "admin" first.
- With a lagging host cache a SpaceBinding can outlive its request, or the clean-up delete the new
  SpaceBinding of a user who came back.

Users:

- With a lagging cache and two changes a user can get two MasterUserRecords, which
  `checkIfMurAlreadyExists` only reports ("If we found more than one MasterUserRecord, then die").
- `usersignup_cleanup_controller.go:170` compares the transition time of the Complete condition,
  which stays True through an automatic deactivation: a user who was active for longer than the
  retention is deleted at once. And the deletion has no precondition: a user who was approved between
  the decision and the call is deleted.
- A user who is deactivated by hand and approved again directly, before the record is gone, keeps
  the label and the condition: nothing is counted, and Complete is reported before the new record is there.
- A rejected user, or one set to no provisioning, who has a record keeps it.
- After a reactivation the Notification of the last 24 hours suppresses a new one, so that a second deactivation can come
  unannounced.

### Why the bounds are enough

Two clusters are what a retargeting needs, and three edits are a creation, a retargeting and a
deletion or another change in any order. One fault is enough to separate a call from its answer
or to restart between any two calls; `Recorded`, `ImplementsPlacement` and `CreatedForExisting` are
proved for any number of each. Of the liveness runs, `settles` has a creation, one more edit of any
kind and a fault, `deletion` a creation and two more edits, such as a retargeting before the
deletion, and stale reads in place of the fault. `Others = 1` lets the counter of a cluster differ
from the Space's own, so that a decrement of the wrong counter is seen.

In `Capacity` the choices interact at the limit: a limit of 1 or 2 with one Space more than fits and
two placements in flight has every such case, and the bound is proved for all values. `Batch = 2`
stands for 50, so that several batches fit. `batches` checks the bound with one placement in flight,
where it says that no limit is exceeded; the theorem is for any number. Symmetry is used only there, for safety:
Spaces of the same origin are interchangeable.

`TierRevisions` needs a published revision, its successor and a third one that a crash leaves over.
For accounts two members let an account move, and the target may also be unknown or absent. A
SpaceRequest needs two names to collide; the cache may be two states behind, enough to miss a
creation and a deletion. Two requests for bindings, and bindings of others, compete for the one
SpaceBinding of a user and a Space. For users `MaxName` is 3 because two changes can use
up two names, and `MaxCount` tells one activation from several. `Scenarios` of
`MCUsers` pair two changes with each other, a change with time, with a fault, or with lag; all of them together are too many
states, so a hazard that needs three of these at once is not covered.

### Fairness

Liveness assumes weak fairness of what the code's runtime drives: the worker and its queue,
watches, the members' controllers, the passing of time, the refresh of ToolchainStatus and the
single `Synchronize`. Users, administrators, faults and restarts are never assumed to act. There
is strong fairness in one place, the work queue of SpaceBindingRequests, which serves every request in its turn
while reconciles of the other come and go (`Reconcile(r)`); members may fail a template once per fault and are assumed to go on with it
afterwards, as retries of their controller do.

A failed listing of SpaceBindings is logged and not retried, so `Settles` asks for the right roles
only in behaviours without faults. `Settles` is checked with `Labelled`, that is, tiers are updated only while the Space carries
their label; without it the lost wake-up described above leaves the Space outdated. `PendingServed` holds
because all Spaces ask for the same roles; a Space whose roles no cluster has would stay in
front of the pending cache for ever and starve those behind it (`pkg/pending/cache.go:65`).

In `UserLifecycle` each controller, the set of caches, the objects that are being deleted or provisioned, and time are one
group each with weak fairness. Within a group no two steps compete for ever, as each of them uses up
what enables it.

## Proofs

| Theorem | Statement | Argument |
|---|---|---|
| `TypeCorrect` | `Spec => []TypeOK` | one lemma per group of actions |
| `CreatesForExisting` | `Spec => CreatedForExisting` | the reconcile that creates holds a version with finalizer, which no step takes away before `RemoveFinalizer` in the same worker |
| `RecordsWhereItProvisions` | `Disciplined` and no `MemberLag`: `Spec => []Recorded` | invariant below |
| `PlacementImplemented` | same assumptions: `Spec => ImplementsPlacement` | every step maps to a step of `SpacePlacement` or a stutter, from the same invariant |
| `ForgottenOnlyWhenGone` | same assumptions: `Spec => ForgottenWhenGone` | `Recorded` before and after a step that changes the Space or the members, never both |
| `CountsFollow` | same assumptions: `Spec => CountFollows` | `DepartInv` and `CountInv` below |
| `OverCommitmentIsBounded` | `Spec => []OverCommitmentBounded` | invariant below |
| `TypeCorrect` of the other modules | `Spec => []TypeOK`, `Spec => []LifecycleTypeOK` | one lemma per group of actions |
| `RecordsImplementOwnership` | no `MemberLag`: `Spec => ImplementsOwnership` | invariant below; every step maps to a step of `ResourceOwnership` or a stutter |
| `RequestsImplementOwnership`, `BindingRequestsImplementOwnership` | `Spec => ImplementsOwnership`, which says nothing of behaviours with a lagging cache | the same argument, with many names or many requests |
| `OneSubSpaceAlways` | `Spec => []OneSubSpace`, for any lag | all states of the Spaces, those on their way to the cache included, hold only the first name (`OnlyFirst`) |
| `KeepsBoundAlways` | `Spec => KeepsBound` | `UnboundInv`: with current caches the clean-up is at work only after user or Space was gone |
| `PublishedExistsAlways` | `Spec => []PublishedExists` | `KeptInv` below |
| `UsedByLabelledKeptAlways` | `Spec => UsedByLabelledKept` | `KeptInv` and `Served` below |
| `ActivationCountedAlways` | `Spec => []ActivationCounted`, for any lag, faults and edits | `CountOK` of every copy, below |
| `OneRecordWithoutLag` | `Spec => [](~scenario.lag => OneRecord)` | `AloneInv` below |

`Recorded` is not inductive. Its strengthening (`SpaceRecorded_proofs`) says at which `pc` the
cached and the held copy still determine the persisted status: that between recording and
creating the API holds the version with the target in its status, that the copy held by a
reconcile is not older than what it relies on, and where the finalizer is still present. The
discipline enters where an administrator's change is shown not to fall between the two.

`OverCommitmentBounded` follows from three facts: each counted Space is on its cluster, so the
counter is at least the number of hosted Spaces (`Counted`; a decrement always belongs to a
hosted Space); the Spaces in flight to a cluster are at most `MaxInFlight`; and at the choice that
adds one the counter is below the limit, so hosted Spaces are at most the limit minus one and those in flight
`MaxInFlight` with the new one. All later steps only move a Space from in flight to hosted or remove it
(`NothingGained`). Restarts are excluded because the counters start from zero then, and
until `Synchronize` has run the choices have nothing to go by although the Ready conditions of
before are still published.

`ImplementsOwnership` of the accounts needs that an account is created only while the record in the API
holds the finalizer, although the controller knows a copy. `AccountInv` is that fact; it follows from
`HandInv`: a live copy in hand means that the record still has the finalizer, since
only this worker removes it and it does so with a deleted copy in hand; and a copy that is being deleted means that the
record is so too, or gone, so that on the clusters it has looked at (`Clusters \ todo`) there is nothing
and nothing can come. `CacheInv` says the same of the copies a reconcile may start with, and
`uaC = ua` is the absence of lag. At the removal of the finalizer `todo` is empty, so the last account is gone. TLC checked
the invariant on the instance of `accounts` before it was proved.

`CountFollows` depends on the cluster that the decrement names, which is the in-memory status and
not the cluster the deletion was sent to. For a retargeting `CopyOK` says that the two agree. For a deletion the
cluster is that of the Spec, if there is one, and a copy without status is the case to exclude: `DepartInv` says that a
copy of a Space on its way out has the status on record, since no reconcile that holds a live
copy can write after the deletion. And the floor at zero does not bite: without a fault the counter is at least the
number of live NSTemplateSets (`CountInv`).

For the requests `HandInv` and `CacheInv` say what they say for accounts. The sub-space is looked for by its owner, not by
name, so that `OneSubSpace` needs another argument with a cache that is behind: as long as no other Space
had one of the names, the cache and everything still on its way to it has at most the first name
taken, so a reconcile that does not see the sub-space resolves the first name again, and the API
server refuses it.

`KeptInv` collects what the three controllers of the tiers know about each other. A revision that is old
exists (`AgedExist`), and if it is published, the cached tier publishes it too (`AgedKnown`): a
revision grows old only while the caches are current, and a reconcile publishes, besides what the
tier had, only revisions it has just created, which are not old (`FoundKept`). The clean-up deletes what is old
and not in the cached tier, so nothing published. `GoneKnown` covers a tier that was
deleted. `Served`, that a tier being deleted has no Space, is the discipline. The proof of `UsedByLabelledKept` did
not go through for what the property said at first, that a labelled Space loses nothing it uses: the step of the
clean-up was missing a fact, and that fact is false, as the trace under "Observations" shows. The run has one template, with which
that cannot happen.

In `UserLifecycle` every copy of the UserSignup, in the cache, in hand, and those about to be written by the other
controllers, satisfies `CountOK`: approved means counted. Counters never decrease (`Newer`), and the record is created
right after a successful write of the annotations (`Annotate`), which shows that the copy in hand is the UserSignup.
So the count of the UserSignup is positive when the record appears, and stays so. For `OneRecord` without lag the
invariant `AloneInv` says that a reconcile on the way to a record (`Awaiting`) has found none and
that none has come since, because only this worker creates them.

TLC finds each of these invariants to hold on the instance of the run of its module, too.

Only model-checked:

- Everything with liveness, convergence (`ReadinessConverges`) included: fairness and `ENABLED` are out of the prover's reach.
- `ChosenLeastUsed`. It is a property of the instance: placements one at a time, equal roles, no preferred cluster and no
  Space that goes. The choice folds over the order of the configs, and what a fold computes for every list needs
  induction over data.
- `ForgottenWhenGone` with lagging caches of the members, as the run `deletion` has it, without faults. With faults it is
  false there: a failed creation allows a retargeting that does not see the NSTemplateSet yet.
- `OneRecord` with a lagging cache and one change: with two it is false.

## Not modelled, and the plan

Left out of the modelled components:

- Spaces: the feature toggle annotation, sub-Spaces in the mapping of SpaceBindings, errors of cached reads where the
  code only retries, several SpaceProvisionerConfigs for one cluster, a target cluster named by the UserSignup.
- Users: the decision to approve automatically, the hash of the email address, the migration of old records, tiers of social
  events, a lagging cache of BannedUsers, signing up again after a deletion, metrics of durations, Segment.
- Accounts and requests: a Notification that exists already, cluster details and URLs in the status, the exception for the
  public viewer, more than one namespace per sub-space.

Not modelled: generators, Segment, configuration accessors and the aggregation of ToolchainStatus,
which are sequential or text; SocialEvent, which checks tiers and counts in one call.

Planned, most important first:

1. Theorems: sharper conditions for what is proved without lag of the members' caches (`Recorded` with lag but
   without faults), and the lemmas about the order of `ClusterManager` that `ChosenLeastUsed` rests on.
2. `Notifications`: sending, recording and deleting with failures between.
3. The tree of sub-Spaces that a change of a SpaceBinding has to reach.
