----------------------------- MODULE TierRevisions -----------------------------
(***************************************************************************)
(* The revisions of an NSTemplateTier.  The NSTemplateTier controller keeps *)
(* one TierTemplateRevision for each TierTemplate of the tier and publishes *)
(* their names in Status.Revisions; the Spaces of the tier are provisioned  *)
(* from what is published.  The clean-up controller deletes revisions       *)
(* nobody uses, the TierTemplate controller keeps a template while a tier   *)
(* refers to it.  All of them read the caches of one client and write to    *)
(* the API server, which refuses the update of an outdated copy.            *)
(***************************************************************************)
EXTENDS FiniteSets, Integers

CONSTANTS
    Templates,    \* names of TierTemplates
    MaxRevs,      \* bound: TierTemplateRevisions at a time
    Contents,     \* templateObjects a TierTemplate may have
    First,        \* those it has in the beginning
    None,
    Disciplined,  \* do administrators delete a tier only when it has no Space?
    MaxEdits,     \* bound: changes by administrators and users
    MaxFaults     \* bound: failed calls and restarts

ASSUME RevisionsAssumption ==
    /\ IsFiniteSet(Templates) /\ Templates \cap Nat = {}
    /\ None \notin Templates \cup Nat \cup Contents /\ MaxRevs \in Nat \ {0}
    /\ First \in Contents
    /\ Disciplined \in BOOLEAN /\ {MaxEdits, MaxFaults} \subseteq Nat

\* Names of revisions, used again when nothing refers to one any more.
Revs == 1..MaxRevs

\* Spec.TemplateObjects is nil: the template does not support revisions.
Plain == "plain"

VARIABLES
    tier, tierC,      \* the NSTemplateTier, and its copy in the cache
    tmpl,             \* the TierTemplates
    ttr, ttrC, aged,  \* the TierTemplateRevisions, and those older than minTTRAge
    space,            \* a Space of the tier
    queued, delayed,  \* is the tier in the work queue, now or in a second?
    pc, obj,          \* next API call of its reconcile, the tier in hand
    todo, found,      \* TierTemplates still to look at, revisions found
    created,          \* was a revision created?
    edits, faults

tierVars  == <<tier, tierC>>
revVars   == <<ttr, ttrC, aged>>
workVars  == <<pc, obj, todo, found, created>>
tierQueue == <<queued, delayed>>
boundVars == <<edits, faults>>

vars == <<tier, tierC, tmpl, ttr, ttrC, aged, space, queued, delayed, pc, obj,
          todo, found, created, edits, faults>>

-----------------------------------------------------------------------------
\* A template without revisions stands for itself.
Revisions == [Templates -> Revs \cup Templates \cup {None}]

NoRevisions == [t \in Templates |-> None]

Tier == [phase: {"new", "live", "deleting"},    \* new: without finalizer
         refs: SUBSET Templates, params: 0..1, rev: Revisions]

Template == [phase: {"new", "live", "deleting"}, content: Contents \cup {Plain}]

Revision == [tmpl: Templates, content: Contents, params: 0..1]

\* uses is in the spec of the NSTemplateSet, label the tier hash of the Space.
Space == [uses: Revisions, label: Revisions \cup {None}]

TypeOK ==
    /\ tier \in Tier \cup {None} /\ tierC \in Tier \cup {None}
    /\ tmpl \in [Templates -> Template \cup {None}]
    /\ ttr \in [Revs -> Revision \cup {None}] /\ ttrC \in [Revs -> Revision \cup {None}]
    /\ aged \in SUBSET Revs
    /\ space \in Space \cup {None}
    /\ queued \in BOOLEAN /\ delayed \in BOOLEAN
    /\ pc \in {"idle", "templates", "failed"}
    /\ obj \in Tier \cup {None} /\ todo \in SUBSET Templates
    /\ found \in Revisions /\ created \in BOOLEAN
    /\ edits \in 0..MaxEdits /\ faults \in 0..MaxFaults

ASSUME NoneAssumption == None \notin Tier \cup Revision \cup Space

NewSpace == [uses |-> NoRevisions, label |-> None]

\* A tier has just been created; its templates are there, still missing or
\* about to go, and a Space may have been created with it.
Init ==
    /\ \E refs \in (SUBSET Templates) \ {{}} :
          tier = [phase |-> "new", refs |-> refs, params |-> 0, rev |-> NoRevisions]
    /\ tmpl \in [Templates -> {None} \cup
                    {[phase |-> "live", content |-> c] : c \in {First, Plain}} \cup
                    {[phase |-> "deleting", content |-> First]}]
    /\ tierC = tier
    /\ ttr = [r \in Revs |-> None] /\ ttrC = ttr /\ aged = {}
    /\ space \in {None, NewSpace}
    /\ queued = TRUE /\ delayed = FALSE /\ pc = "idle" /\ obj = None
    /\ todo = {} /\ found = NoRevisions /\ created = FALSE
    /\ edits = 0 /\ faults = 0

RevisionsIn(rev) == {rev[t] : t \in Templates} \ {None}

-----------------------------------------------------------------------------
(***************************************************************************)
(* The NSTemplateTier controller                                           *)
(***************************************************************************)
Idle == pc' = "idle" /\ obj' = None /\ todo' = {} /\ found' = NoRevisions /\ created' = FALSE

Done == Idle /\ UNCHANGED tierQueue

Retry == Idle /\ queued' = TRUE /\ UNCHANGED delayed

\* The update of an outdated copy is refused, and the reconcile is repeated.
Written(o) == tier = obj /\ tier' = o

\* ensureRevision begins with the tier in hand.
LookAtTemplates(o) ==
    /\ pc' = "templates" /\ obj' = o /\ todo' = o.refs /\ found' = NoRevisions
    /\ created' = FALSE /\ queued' = FALSE /\ UNCHANGED delayed

\* Reconcile begins: the tier is read from the cache, and a new one gets the
\* finalizer first.
Reconcile ==
    /\ queued /\ pc = "idle"
    /\ \/ tierC = None /\ Idle /\ queued' = FALSE /\ UNCHANGED <<tier, delayed>>
       \/ /\ tierC # None /\ tierC.phase = "live" /\ LookAtTemplates(tierC)
          /\ UNCHANGED tier
       \/ /\ tierC # None /\ tierC.phase = "new" /\ tier = tierC
          /\ tier' = [tier EXCEPT !.phase = "live"]
          /\ LookAtTemplates(tier')
    /\ UNCHANGED <<tierC, tmpl, revVars, space, boundVars>>

\* Spaces in the cache that carry the hash label of the tier.
StillUsed == space # None /\ space.label # None

\* handleDeletion: an error brings it back while the tier is used.
HandleDeletion ==
    /\ queued /\ pc = "idle" /\ tierC # None /\ tierC.phase = "deleting"
    /\ ~StillUsed /\ tier = tierC
    /\ tier' = None /\ Idle /\ queued' = FALSE
    /\ UNCHANGED <<tierC, delayed, tmpl, revVars, space, boundVars>>

\* Mutant: changed parameters do not ask for a new revision.
SameContent(r, t) == r.content = tmpl[t].content

UpToDate(r, t) == r.content = tmpl[t].content /\ r.params = obj.params

\* Mutant: a template without revisions gets one as well.
FitsRevision(t) ==
    obj.rev[t] \in Revs /\ ttrC[obj.rev[t]] # None /\ UpToDate(ttrC[obj.rev[t]], t)

\* ensureTTRforTemplate: what is published for the template can stay.
Fits(t) ==
    \/ tmpl[t].content = Plain
    \/ obj.rev[t] \in Revs /\ ttrC[obj.rev[t]] # None /\ UpToDate(ttrC[obj.rev[t]], t)

\* The name of a plain template counts as created when nothing was published.
KeepRevision(t) ==
    /\ pc = "templates" /\ t \in todo /\ tmpl[t] # None /\ Fits(t)
    /\ found' = [found EXCEPT ![t] = IF tmpl[t].content = Plain THEN t ELSE obj.rev[t]]
    /\ created' = (created \/ (tmpl[t].content = Plain /\ obj.rev[t] = None))
    /\ todo' = todo \ {t}
    /\ UNCHANGED <<tierVars, tmpl, revVars, space, tierQueue, pc, obj, boundVars>>

\* A name nothing refers to any more; the API server generates one, here it is
\* the least.
Free(r) ==
    /\ ttr[r] = None /\ ttrC[r] = None /\ r \notin RevisionsIn(found)
    /\ \A o \in {tier, tierC, obj} \ {None} : r \notin RevisionsIn(o.rev)
    /\ space # None => r \notin RevisionsIn(space.uses)
    /\ space # None /\ space.label # None => r \notin RevisionsIn(space.label)

\* createNewTierTemplateRevision: nothing is published for the template, or it
\* is not in the cache or outdated.
CreateRevision(t) ==
    /\ pc = "templates" /\ t \in todo /\ tmpl[t] # None /\ ~Fits(t)
    /\ \E r \in Revs :
          /\ Free(r) /\ \A q \in 1..(r - 1) : ~Free(q)
          /\ ttr' = [ttr EXCEPT ![r] = [tmpl |-> t, content |-> tmpl[t].content,
                                        params |-> obj.params]]
          /\ found' = [found EXCEPT ![t] = r]
    /\ created' = TRUE /\ todo' = todo \ {t}
    /\ UNCHANGED <<tierVars, tmpl, ttrC, aged, space, tierQueue, pc, obj, boundVars>>

\* A template that is missing; revisions created for others stay behind.
MissingTemplate ==
    /\ pc = "templates" /\ \E t \in todo : tmpl[t] = None
    /\ pc' = "failed"
    /\ UNCHANGED <<tierVars, tmpl, revVars, space, tierQueue, obj, todo, found, created,
                   boundVars>>

\* RequeueAfter a second when something was created.
ComeBack(c) == c

\* The Ready condition, which is set at the end, is left out: nothing reads it.
AfterRevisions == Idle /\ delayed' = (delayed \/ ComeBack(created)) /\ UNCHANGED queued

\* The status is written when the revisions differ.
Publish ==
    /\ pc = "templates" /\ todo = {}
    /\ \/ found = obj.rev /\ AfterRevisions /\ UNCHANGED tier
       \/ found # obj.rev /\ Written([obj EXCEPT !.rev = found]) /\ AfterRevisions
       \/ found # obj.rev /\ tier # obj /\ Retry /\ UNCHANGED tier
    /\ UNCHANGED <<tierC, tmpl, revVars, space, boundVars>>

\* setStatusFailed writes the whole status, with the revisions in it when it was
\* their publication that failed.
SetStatusFailed ==
    /\ pc = "failed"
    /\ LET rev == IF todo = {} THEN found ELSE obj.rev IN
       \/ Written([obj EXCEPT !.rev = rev])
       \/ tier # obj /\ UNCHANGED tier
    /\ Retry
    /\ UNCHANGED <<tierC, tmpl, revVars, space, boundVars>>

-----------------------------------------------------------------------------
(***************************************************************************)
(* The TierTemplate controller.  It watches without predicates: the resync *)
(* of the cache queues every template again and again.                     *)
(***************************************************************************)
\* MapTierTemplateToNSTemplateTier looks at what the cached tier has published.
TemplateEvent(t) == queued' = (queued \/ (tierC # None /\ tierC.rev[t] # None))

\* isUsed lists the tiers, those that are being deleted as well.
IsUsed(t) == tierC # None /\ t \in tierC.refs

AddTemplateFinalizer(t) ==
    /\ tmpl[t] # None /\ tmpl[t].phase = "new"
    /\ tmpl' = [tmpl EXCEPT ![t].phase = "live"]
    /\ TemplateEvent(t)
    /\ UNCHANGED <<tierVars, revVars, space, delayed, workVars, boundVars>>

\* The error keeps a template that is used in the queue.
HandleTemplateDeletion(t) ==
    /\ tmpl[t] # None /\ tmpl[t].phase = "deleting"
    /\ ~IsUsed(t)
    /\ tmpl' = [tmpl EXCEPT ![t] = None]
    /\ TemplateEvent(t)
    /\ UNCHANGED <<tierVars, revVars, space, delayed, workVars, boundVars>>

-----------------------------------------------------------------------------
(***************************************************************************)
(* The clean-up of revisions                                               *)
(***************************************************************************)
\* Mutant: no Space counts as outdated.
NeverOutdated(s) == FALSE

\* Mutant: a Space without hash label counts as outdated.
DiffersFromHash(s) == s.label # tierC.rev

\* OutdatedTierSelector: labelled, with another hash than that of the tier.
Outdated(s) == s.label # None /\ s.label # tierC.rev

\* verifyUnusedTTR
Unused(r) == r \notin RevisionsIn(tierC.rev) /\ ~(space # None /\ Outdated(space))

\* Mutant: the age of a revision is not looked at.
AnyAge(r) == TRUE

OldEnough(r) == r \in aged

\* A revision that is too young comes back when it has the age.  One that is still
\* used is left alone; the periodic resync of the cache queues it again and again.
CleanUp(r) ==
    /\ ttrC[r] # None /\ OldEnough(r)
    /\ tierC # None => Unused(r)
    /\ ttr[r] # None
    /\ ttr' = [ttr EXCEPT ![r] = None] /\ aged' = aged \ {r}
    /\ UNCHANGED <<tierVars, tmpl, ttrC, space, tierQueue, workVars, boundVars>>

-----------------------------------------------------------------------------
(***************************************************************************)
(* The Space controller, as far as revisions see it                        *)
(***************************************************************************)
\* validateRevisions, then the NSTemplateSet is created or updated.
ProvisionSpace ==
    /\ space # None /\ tierC # None
    /\ \A t \in tierC.refs : tierC.rev[t] # None
    /\ space.uses # tierC.rev
    /\ space' = [space EXCEPT !.uses = tierC.rev]
    /\ UNCHANGED <<tierVars, tmpl, revVars, tierQueue, workVars, boundVars>>

UpdateSpace == ProvisionSpace /\ space.label # None

\* The NSTemplateSet is provisioned: the Space gets the hash of the tier it was
\* provisioned from.
LabelSpace ==
    /\ space # None /\ space.uses # NoRevisions /\ space.label # space.uses
    /\ space' = [space EXCEPT !.label = space.uses]
    /\ UNCHANGED <<tierVars, tmpl, revVars, tierQueue, workVars, boundVars>>

-----------------------------------------------------------------------------
(***************************************************************************)
(* Caches and their events                                                 *)
(***************************************************************************)
\* Generation changes: the spec, or the beginning of the deletion.
GenerationChanged(old, new) ==
    \/ old = None \/ new = None
    \/ old.refs # new.refs \/ old.params # new.params
    \/ new.phase = "deleting" /\ old.phase # "deleting"

DeliverTier ==
    /\ tierC # tier /\ tierC' = tier
    /\ queued' = (queued \/ GenerationChanged(tierC, tier))
    /\ UNCHANGED <<tier, delayed, tmpl, revVars, space, workVars, boundVars>>

DeliverRevision(r) ==
    /\ ttrC[r] # ttr[r] /\ ttrC' = [ttrC EXCEPT ![r] = ttr[r]]
    /\ UNCHANGED <<tierVars, tmpl, ttr, aged, space, tierQueue, workVars, boundVars>>

\* RequeueAfter: by then the cache has what the reconcile wrote.
ASecondPasses ==
    /\ delayed /\ tierC = tier /\ ttrC = ttr
    /\ delayed' = FALSE /\ queued' = TRUE
    /\ UNCHANGED <<tierVars, tmpl, revVars, space, workVars, boundVars>>

\* Half a minute passes since the creation.  No cache is behind for that long and
\* the reconcile that created the revision has published it or given up.
Age(r) ==
    /\ ttr[r] # None /\ r \notin aged
    /\ r \notin RevisionsIn(found) /\ ttrC[r] = ttr[r] /\ tierC = tier
    /\ aged' = aged \cup {r}
    /\ UNCHANGED <<tierVars, tmpl, ttr, ttrC, space, tierQueue, workVars, boundVars>>

-----------------------------------------------------------------------------
(***************************************************************************)
(* Environment                                                             *)
(***************************************************************************)
Fault == faults < MaxFaults /\ faults' = faults + 1 /\ UNCHANGED edits

\* A call of the reconcile fails.
CallFails ==
    /\ Fault
    /\ \/ /\ pc = "templates" /\ (todo = {} => found # obj.rev)
          /\ pc' = "failed" /\ UNCHANGED <<tierQueue, obj, todo, found, created>>
       \/ pc = "failed" /\ Retry
    /\ UNCHANGED <<tierVars, tmpl, revVars, space>>

Restart ==
    /\ Fault /\ Idle /\ queued' = TRUE /\ delayed' = FALSE
    /\ UNCHANGED <<tierVars, tmpl, revVars, space>>

Edit == edits < MaxEdits /\ edits' = edits + 1 /\ UNCHANGED faults

EditTier ==
    /\ Edit /\ tier # None /\ tier.phase # "deleting"
    /\ \E refs \in (SUBSET Templates) \ {{}}, p \in 0..1 :
          /\ refs # tier.refs \/ p # tier.params
          /\ tier' = [tier EXCEPT !.refs = refs, !.params = p]
    /\ UNCHANGED <<tierC, tmpl, revVars, space, tierQueue, workVars>>

\* Whether a template supports revisions at all is not changed.
EditTemplate(t) ==
    /\ Edit /\ tmpl[t] # None /\ tmpl[t].phase # "deleting" /\ tmpl[t].content # Plain
    /\ \E c \in Contents \ {tmpl[t].content} : tmpl' = [tmpl EXCEPT ![t].content = c]
    /\ TemplateEvent(t)
    /\ UNCHANGED <<tierVars, revVars, space, delayed, workVars>>

\* An object without finalizer is gone at once.
DeleteTier ==
    /\ Edit /\ tier # None /\ tier.phase # "deleting"
    /\ Disciplined => space = None
    /\ tier' = IF tier.phase = "new" THEN None ELSE [tier EXCEPT !.phase = "deleting"]
    /\ UNCHANGED <<tierC, tmpl, revVars, space, tierQueue, workVars>>

DeleteTemplate(t) ==
    /\ Edit /\ tmpl[t] # None /\ tmpl[t].phase # "deleting"
    /\ tmpl' = [tmpl EXCEPT ![t] = IF @.phase = "new" THEN None ELSE [@ EXCEPT !.phase = "deleting"]]
    /\ TemplateEvent(t)
    /\ UNCHANGED <<tierVars, revVars, space, delayed, workVars>>

CreateTemplate(t) ==
    /\ Edit /\ tmpl[t] = None
    /\ \E c \in Contents : tmpl' = [tmpl EXCEPT ![t] = [phase |-> "new", content |-> c]]
    /\ TemplateEvent(t)
    /\ UNCHANGED <<tierVars, revVars, space, delayed, workVars>>

\* A user gets a Space of the tier.
CreateSpace ==
    /\ Edit /\ space = None /\ tier # None /\ tier.phase # "deleting"
    /\ space' = NewSpace
    /\ UNCHANGED <<tierVars, tmpl, revVars, tierQueue, workVars>>

DeleteSpace ==
    /\ Edit /\ space # None
    /\ space' = None
    /\ UNCHANGED <<tierVars, tmpl, revVars, tierQueue, workVars>>

Administer ==
    \/ EditTier \/ DeleteTier
    \/ \E t \in Templates : EditTemplate(t) \/ DeleteTemplate(t) \/ CreateTemplate(t)

Next ==
    \/ Reconcile \/ HandleDeletion \/ MissingTemplate \/ Publish \/ SetStatusFailed
    \/ \E t \in Templates : \/ KeepRevision(t) \/ CreateRevision(t)
                            \/ AddTemplateFinalizer(t) \/ HandleTemplateDeletion(t)
    \/ \E r \in Revs : CleanUp(r) \/ DeliverRevision(r) \/ Age(r)
    \/ ProvisionSpace \/ LabelSpace \/ DeliverTier \/ ASecondPasses
    \/ CallFails \/ Restart \/ Administer \/ CreateSpace \/ DeleteSpace

Spec == Init /\ [][Next]_vars

(***************************************************************************)
(* Fairness: work queues and informers deliver, a reconcile goes on, the   *)
(* resync comes again.  A Space is brought up to date once it has a label: *)
(* nothing wakes the Space controller for a new revision before.           *)
(***************************************************************************)
Fairness ==
    /\ WF_vars(Reconcile) /\ WF_vars(HandleDeletion) /\ WF_vars(MissingTemplate)
    /\ WF_vars(Publish) /\ WF_vars(SetStatusFailed)
    /\ \A t \in Templates :
          /\ WF_vars(KeepRevision(t)) /\ WF_vars(CreateRevision(t))
          /\ WF_vars(AddTemplateFinalizer(t)) /\ WF_vars(HandleTemplateDeletion(t))
    /\ \A r \in Revs : WF_vars(CleanUp(r)) /\ WF_vars(DeliverRevision(r)) /\ WF_vars(Age(r))
    /\ WF_vars(UpdateSpace) /\ WF_vars(LabelSpace)
    /\ WF_vars(DeliverTier)
    /\ WF_vars(ASecondPasses)

FairSpec == Spec /\ Fairness

-----------------------------------------------------------------------------
(***************************************************************************)
(* Properties                                                              *)
(***************************************************************************)
\* What a tier has published exists, or is a template without revisions: the
\* clean-up, which sees old copies, takes away nothing that Spaces are about to
\* be provisioned from.
PublishedExists ==
    tier # None => \A t \in Templates : tier.rev[t] \in Revs => ttr[tier.rev[t]] # None

\* What a labelled Space depends on: the revisions it got its label for, and those
\* it is being updated to.  When the tier has gone back to the former meanwhile the
\* clean-up takes the Space for up to date: nothing protects the latter then.
DependsOn(s) ==
    RevisionsIn(s.label) \cup
    IF tierC # None /\ tierC.rev = s.label THEN {} ELSE RevisionsIn(s.uses)

\* No revision that a labelled Space depends on is deleted, whatever the order in
\* which tier, Space, their copies and the clean-up move, as long as the tier itself
\* is deleted only when it has no Space.
UsedByLabelledKept ==
    [][Disciplined =>
        \A r \in Revs : ttr[r] # None /\ ttr'[r] = None =>
            ~(space # None /\ space.label # None /\ r \in DependsOn(space))]_vars

Current(t) ==
    IF tmpl[t].content = Plain THEN tier.rev[t] = t
    ELSE /\ tier.rev[t] \in Revs /\ ttr[tier.rev[t]] # None
         /\ ttr[tier.rev[t]].content = tmpl[t].content
         /\ ttr[tier.rev[t]].params = tier.params

\* After any edits a tier whose templates exist ends with exactly one
\* revision of the current content and parameters for each of its templates.
TierSettles ==
    <>[](tier # None /\ (\A t \in tier.refs : tmpl[t] # None) =>
            \A t \in Templates : IF t \in tier.refs THEN Current(t) ELSE tier.rev[t] = None)

\* A revision does not stay for ever unless its tier publishes it.
UnusedCollected ==
    \A r \in Revs : []<>(ttr[r] # None => tier # None /\ r \in RevisionsIn(tier.rev))

=============================================================================
