-------------------------- MODULE TierRevisions_proofs --------------------------
(***************************************************************************)
(* What a tier has published exists, and what a labelled Space depends on   *)
(* is kept, for any number of templates, revisions, contents, changes and   *)
(* failures.                                                               *)
(***************************************************************************)
EXTENDS TierRevisions, TLAPS

-----------------------------------------------------------------------------
(***************************************************************************)
(* Types                                                                   *)
(***************************************************************************)
TierOK == tier \in Tier \cup {None} /\ tierC \in Tier \cup {None}

TemplateOK == tmpl \in [Templates -> Template \cup {None}]

RevisionOK ==
    /\ ttr \in [Revs -> Revision \cup {None}] /\ ttrC \in [Revs -> Revision \cup {None}]
    /\ aged \in SUBSET Revs

SpaceOK == space \in Space \cup {None}

QueueOK == queued \in BOOLEAN /\ delayed \in BOOLEAN

WorkOK ==
    /\ pc \in {"idle", "templates", "failed"} /\ obj \in Tier \cup {None}
    /\ todo \in SUBSET Templates /\ found \in Revisions /\ created \in BOOLEAN
    /\ pc # "idle" => obj \in Tier

BoundOK == edits \in 0..MaxEdits /\ faults \in 0..MaxFaults

TypeInv == TierOK /\ TemplateOK /\ RevisionOK /\ SpaceOK /\ QueueOK /\ WorkOK /\ BoundOK

LEMMA Types == TypeInv => TypeOK
  BY DEF TypeInv, TypeOK, TierOK, TemplateOK, RevisionOK, SpaceOK, QueueOK, WorkOK, BoundOK

LEMMA NoneDiffers ==
    None \notin Tier /\ None \notin Revision /\ None \notin Space /\ None \notin Revs /\ None \notin Templates
  BY NoneAssumption, RevisionsAssumption DEF RevisionsAssumption, Revs

LEMMA NamesDiffer == \A t \in Templates : t \notin Revs
  BY RevisionsAssumption DEF RevisionsAssumption, Revs

LEMMA TierFields ==
    ASSUME NEW o \in Tier
    PROVE  /\ o.phase \in {"new", "live", "deleting"} /\ o.refs \in SUBSET Templates
           /\ o.params \in 0..1 /\ o.rev \in Revisions
  BY DEF Tier

LEMMA WithPhase ==
    ASSUME NEW o \in Tier, NEW f \in {"new", "live", "deleting"}
    PROVE  /\ [o EXCEPT !.phase = f] \in Tier
           /\ [o EXCEPT !.phase = f].phase = f /\ [o EXCEPT !.phase = f].rev = o.rev
  BY DEF Tier

LEMMA WithRev ==
    ASSUME NEW o \in Tier, NEW rev \in Revisions
    PROVE  /\ [o EXCEPT !.rev = rev] \in Tier
           /\ [o EXCEPT !.rev = rev].phase = o.phase /\ [o EXCEPT !.rev = rev].rev = rev
  BY DEF Tier

LEMMA WithSpec ==
    ASSUME NEW o \in Tier, NEW refs \in SUBSET Templates, NEW p \in 0..1
    PROVE  /\ [o EXCEPT !.refs = refs, !.params = p] \in Tier
           /\ [o EXCEPT !.refs = refs, !.params = p].phase = o.phase
           /\ [o EXCEPT !.refs = refs, !.params = p].rev = o.rev
  BY DEF Tier

LEMMA TemplateType ==
    ASSUME NEW o \in Template
    PROVE  /\ o.content \in Contents \cup {Plain}
           /\ \A f \in {"new", "live", "deleting"} : [o EXCEPT !.phase = f] \in Template
           /\ \A c \in Contents : [o EXCEPT !.content = c] \in Template
  BY DEF Template

LEMMA NoRevisionsType == NoRevisions \in Revisions
  BY DEF NoRevisions, Revisions

LEMMA FoundType ==
    ASSUME NEW f \in Revisions, NEW t \in Templates, NEW v \in Revs \cup Templates \cup {None}
    PROVE  [f EXCEPT ![t] = v] \in Revisions
  BY DEF Revisions

LEMMA SpaceType ==
    /\ NewSpace \in Space
    /\ \A s \in Space : \A rev \in Revisions :
          [s EXCEPT !.uses = rev] \in Space /\ [s EXCEPT !.label = rev] \in Space
    /\ \A s \in Space : s.uses \in Revisions /\ s.label \in Revisions \cup {None}
  BY NoRevisionsType DEF NewSpace, Space

LEMMA BoundStep ==
    ASSUME BoundOK, Edit \/ Fault \/ UNCHANGED boundVars
    PROVE  BoundOK'
  BY RevisionsAssumption DEF BoundOK, Edit, Fault, boundVars, RevisionsAssumption

LEMMA IdleType == Idle => WorkOK'
  BY NoRevisionsType, Zenon DEF Idle, WorkOK

LEMMA TypeInit == Init => TypeInv
<1> SUFFICES ASSUME Init PROVE TypeInv
  OBVIOUS
<1>1. TierOK
  BY NoRevisionsType DEF Init, TierOK, Tier
<1>2. TemplateOK
  <2> DEFINE Start == {None} \cup {[phase |-> "live", content |-> c] : c \in {First, Plain}} \cup
                        {[phase |-> "deleting", content |-> First]}
  <2>1. Start \subseteq Template \cup {None}
    BY RevisionsAssumption DEF Template, RevisionsAssumption
  <2>2. tmpl \in [Templates -> Start]
    BY DEF Init
  <2> QED
    BY <2>1, <2>2 DEF TemplateOK
<1>3. RevisionOK /\ QueueOK
  BY DEF Init, RevisionOK, QueueOK
<1>4. SpaceOK
  BY SpaceType DEF Init, SpaceOK
<1>5. WorkOK
  BY NoRevisionsType DEF Init, WorkOK
<1>6. BoundOK
  BY RevisionsAssumption DEF Init, BoundOK, RevisionsAssumption
<1> QED
  BY <1>1, <1>2, <1>3, <1>4, <1>5, <1>6 DEF TypeInv

-----------------------------------------------------------------------------
(***************************************************************************)
(* Each step keeps the types: the tier and its reconcile, its templates,    *)
(* revisions, the Space.                                                   *)
(***************************************************************************)
\* The parts of TypeInv that a step leaves alone.
LEMMA Kept ==
    ASSUME TypeInv
    PROVE  /\ UNCHANGED tierVars => TierOK' /\ (UNCHANGED tmpl => TemplateOK')
           /\ UNCHANGED tmpl => TemplateOK'
           /\ UNCHANGED revVars => RevisionOK'
           /\ UNCHANGED space => SpaceOK'
           /\ UNCHANGED tierQueue => QueueOK'
           /\ UNCHANGED workVars => WorkOK'
           /\ UNCHANGED boundVars => BoundOK'
  BY DEF TypeInv, TierOK, TemplateOK, RevisionOK, SpaceOK, QueueOK, WorkOK, BoundOK,
         tierVars, revVars, workVars, tierQueue, boundVars

TierSteps ==
    \/ Reconcile \/ HandleDeletion \/ Publish \/ SetStatusFailed \/ EditTier \/ DeleteTier

LEMMA TierTypes == ASSUME TypeInv, TierSteps PROVE TypeInv'
<1> USE DEF TypeInv
<1>1. CASE Reconcile
  <2>1. TemplateOK' /\ RevisionOK' /\ SpaceOK' /\ BoundOK'
    BY <1>1, Kept DEF Reconcile
  <2>2. CASE Idle /\ queued' = FALSE /\ UNCHANGED <<tier, delayed>>
    BY <1>1, <2>1, <2>2, IdleType, Kept DEF Reconcile, TierOK, QueueOK
  <2>3. ASSUME NEW o \in Tier, LookAtTemplates(o) PROVE WorkOK' /\ QueueOK'
    BY <2>3, TierFields, NoRevisionsType DEF LookAtTemplates, WorkOK, QueueOK
  <2>4. CASE tierC # None /\ LookAtTemplates(tierC) /\ UNCHANGED tier
    BY <1>1, <2>1, <2>3, <2>4 DEF Reconcile, TierOK
  <2>5. CASE tierC # None /\ tier = tierC /\ tier' = [tier EXCEPT !.phase = "live"] /\ LookAtTemplates(tier')
    <3>1. tier' \in Tier
      BY <2>5, WithPhase DEF TierOK
    <3> QED
      BY <1>1, <2>1, <2>3, <2>5, <3>1 DEF Reconcile, TierOK
  <2> QED
    BY <1>1, <2>2, <2>4, <2>5 DEF Reconcile
<1>2. CASE HandleDeletion
  BY <1>2, IdleType, Kept DEF HandleDeletion, TierOK, QueueOK
<1>3. ASSUME pc # "idle", NEW rev \in Revisions, Written([obj EXCEPT !.rev = rev]), UNCHANGED tierC
      PROVE  TierOK'
  BY <1>3, WithRev DEF Written, TierOK, WorkOK
<1>4. CASE Publish
  <2>1. WorkOK' /\ TemplateOK' /\ RevisionOK' /\ SpaceOK' /\ BoundOK'
    BY <1>4, IdleType, Kept DEF Publish, AfterRevisions, Retry
  <2>2. QueueOK'
    BY <1>4 DEF Publish, AfterRevisions, Retry, ComeBack, QueueOK, WorkOK
  <2>3. TierOK'
    <3>1. pc # "idle" /\ found \in Revisions
      BY <1>4 DEF Publish, WorkOK
    <3> QED
      BY <1>4, <1>3, <3>1 DEF Publish, TierOK
  <2> QED
    BY <2>1, <2>2, <2>3
<1>5. CASE SetStatusFailed
  <2>1. WorkOK' /\ TemplateOK' /\ RevisionOK' /\ SpaceOK' /\ BoundOK' /\ QueueOK'
    BY <1>5, IdleType, Kept DEF SetStatusFailed, Retry, QueueOK
  <2>2. TierOK'
    <3> DEFINE rev == IF todo = {} THEN found ELSE obj.rev
    <3>1. pc # "idle" /\ rev \in Revisions
      BY <1>5, TierFields DEF SetStatusFailed, WorkOK
    <3>2. CASE Written([obj EXCEPT !.rev = rev])
      <4> HIDE DEF rev
      <4> QED
        BY <1>5, <1>3, <3>1, <3>2 DEF SetStatusFailed
    <3>3. CASE UNCHANGED tier
      BY <1>5, <3>3 DEF SetStatusFailed, TierOK
    <3> QED
      BY <1>5, <3>2, <3>3 DEF SetStatusFailed
  <2> QED
    BY <2>1, <2>2
<1>6. CASE EditTier
  <2>1. TierOK'
    <3>1. PICK refs \in (SUBSET Templates) \ {{}}, p \in 0..1 :
             tier' = [tier EXCEPT !.refs = refs, !.params = p]
      BY <1>6 DEF EditTier
    <3> QED
      BY <1>6, <3>1, WithSpec DEF EditTier, TierOK
  <2> QED
    BY <1>6, <2>1, Kept, BoundStep DEF EditTier
<1>7. CASE DeleteTier
  <2>1. TierOK'
    BY <1>7, WithPhase DEF DeleteTier, TierOK
  <2> QED
    BY <1>7, <2>1, Kept, BoundStep DEF DeleteTier
<1> QED
  BY <1>1, <1>2, <1>4, <1>5, <1>6, <1>7 DEF TierSteps

RevisionSteps ==
    \/ \E t \in Templates : KeepRevision(t) \/ CreateRevision(t)
    \/ MissingTemplate
    \/ \E r \in Revs : CleanUp(r) \/ DeliverRevision(r) \/ Age(r)

LEMMA RevisionTypes == ASSUME TypeInv, RevisionSteps PROVE TypeInv'
<1> USE DEF TypeInv
<1>1. ASSUME NEW t \in Templates, KeepRevision(t) PROVE TypeInv'
  <2> DEFINE v == IF tmpl[t].content = Plain THEN t ELSE obj.rev[t]
  <2>1. obj \in Tier /\ obj.rev \in Revisions
    BY <1>1, TierFields DEF KeepRevision, WorkOK
  <2>2. v \in Revs \cup Templates \cup {None}
    BY <2>1 DEF Revisions
  <2>3. found' = [found EXCEPT ![t] = v]
    BY <1>1 DEF KeepRevision
  <2>4. found' \in Revisions
    <3> HIDE DEF v
    <3> QED
      BY <2>2, <2>3, FoundType DEF WorkOK
  <2>5. created' \in BOOLEAN /\ todo' \in SUBSET Templates /\ UNCHANGED <<pc, obj>>
    BY <1>1 DEF KeepRevision, WorkOK
  <2>6. WorkOK'
    BY <2>4, <2>5 DEF WorkOK
  <2> QED
    BY <1>1, <2>6, Kept DEF KeepRevision
<1>2. ASSUME NEW t \in Templates, CreateRevision(t) PROVE TypeInv'
  <2> DEFINE new == [tmpl |-> t, content |-> tmpl[t].content, params |-> obj.params]
  <2>1. PICK r \in Revs : ttr' = [ttr EXCEPT ![r] = new] /\ found' = [found EXCEPT ![t] = r]
    BY <1>2 DEF CreateRevision
  <2>2. obj \in Tier /\ obj.params \in 0..1
    BY <1>2, TierFields DEF CreateRevision, WorkOK
  <2>3. tmpl[t].content \in Contents
    <3>1. tmpl[t] \in Template
      BY <1>2 DEF CreateRevision, TemplateOK
    <3> QED
      BY <1>2, <3>1, TemplateType DEF CreateRevision, Fits
  <2>4. new \in Revision
    BY <2>2, <2>3 DEF Revision
  <2>5. RevisionOK'
    <3> HIDE DEF new
    <3> QED
      BY <1>2, <2>1, <2>4 DEF CreateRevision, RevisionOK
  <2>6. WorkOK'
    BY <1>2, <2>1, FoundType DEF CreateRevision, WorkOK
  <2> QED
    BY <1>2, <2>5, <2>6, Kept DEF CreateRevision
<1>3. CASE MissingTemplate
  BY <1>3, Kept DEF MissingTemplate, WorkOK
<1>4. ASSUME NEW r \in Revs, CleanUp(r) PROVE TypeInv'
  BY <1>4, Kept DEF CleanUp, RevisionOK
<1>5. ASSUME NEW r \in Revs, DeliverRevision(r) PROVE TypeInv'
  BY <1>5, Kept DEF DeliverRevision, RevisionOK
<1>6. ASSUME NEW r \in Revs, Age(r) PROVE TypeInv'
  BY <1>6, Kept DEF Age, RevisionOK
<1> QED
  BY <1>1, <1>2, <1>3, <1>4, <1>5, <1>6 DEF RevisionSteps

TemplateSteps ==
    \E t \in Templates :
        \/ AddTemplateFinalizer(t) \/ HandleTemplateDeletion(t)
        \/ EditTemplate(t) \/ DeleteTemplate(t) \/ CreateTemplate(t)

LEMMA TemplateTypes == ASSUME TypeInv, TemplateSteps PROVE TypeInv'
<1> USE DEF TypeInv
<1>1. ASSUME NEW t \in Templates, TemplateEvent(t), UNCHANGED delayed PROVE QueueOK'
  BY <1>1 DEF TemplateEvent, QueueOK
<1>2. ASSUME NEW t \in Templates, NEW o \in Template \cup {None}, tmpl' = [tmpl EXCEPT ![t] = o]
      PROVE  TemplateOK'
  BY <1>2 DEF TemplateOK
<1>3. ASSUME NEW t \in Templates, AddTemplateFinalizer(t) PROVE TypeInv'
  <2>1. tmpl[t] \in Template /\ tmpl' = [tmpl EXCEPT ![t] = [tmpl[t] EXCEPT !.phase = "live"]]
    BY <1>3 DEF AddTemplateFinalizer, TemplateOK
  <2>2. TemplateOK'
    BY <1>2, <2>1, TemplateType
  <2> QED
    BY <1>1, <1>3, <2>2, Kept DEF AddTemplateFinalizer
<1>4. ASSUME NEW t \in Templates, HandleTemplateDeletion(t) PROVE TypeInv'
  BY <1>1, <1>2, <1>4, Kept DEF HandleTemplateDeletion
<1>5. ASSUME NEW t \in Templates, EditTemplate(t) PROVE TypeInv'
  <2>1. PICK c \in Contents : tmpl' = [tmpl EXCEPT ![t] = [tmpl[t] EXCEPT !.content = c]]
    BY <1>5 DEF EditTemplate, TemplateOK
  <2>2. tmpl[t] \in Template
    BY <1>5 DEF EditTemplate, TemplateOK
  <2>3. TemplateOK'
    BY <1>2, <2>1, <2>2, TemplateType
  <2> QED
    BY <1>1, <1>5, <2>3, Kept, BoundStep DEF EditTemplate
<1>6. ASSUME NEW t \in Templates, DeleteTemplate(t) PROVE TypeInv'
  <2>1. tmpl[t] \in Template
    BY <1>6 DEF DeleteTemplate, TemplateOK
  <2>2. [tmpl[t] EXCEPT !.phase = "deleting"] \in Template
    BY <2>1, TemplateType
  <2>3. TemplateOK'
    BY <1>6, <2>2 DEF DeleteTemplate, TemplateOK
  <2> QED
    BY <1>1, <1>6, <2>3, Kept, BoundStep DEF DeleteTemplate
<1>7. ASSUME NEW t \in Templates, CreateTemplate(t) PROVE TypeInv'
  <2>1. PICK c \in Contents : tmpl' = [tmpl EXCEPT ![t] = [phase |-> "new", content |-> c]]
    BY <1>7 DEF CreateTemplate
  <2>2. [phase |-> "new", content |-> c] \in Template
    BY DEF Template
  <2>3. TemplateOK'
    BY <1>2, <2>1, <2>2
  <2> QED
    BY <1>1, <1>7, <2>3, Kept, BoundStep DEF CreateTemplate
<1> QED
  BY <1>3, <1>4, <1>5, <1>6, <1>7 DEF TemplateSteps

SpaceSteps == ProvisionSpace \/ LabelSpace \/ CreateSpace \/ DeleteSpace

LEMMA SpaceTypes == ASSUME TypeInv, SpaceSteps PROVE TypeInv'
<1> USE DEF TypeInv
<1>1. CASE ProvisionSpace
  <2>1. tierC.rev \in Revisions /\ space \in Space /\ space' = [space EXCEPT !.uses = tierC.rev]
    BY <1>1, TierFields DEF ProvisionSpace, TierOK, SpaceOK
  <2>2. SpaceOK'
    BY <2>1, SpaceType DEF SpaceOK
  <2> QED
    BY <1>1, <2>2, Kept DEF ProvisionSpace
<1>2. CASE LabelSpace
  <2>1. space \in Space /\ space' = [space EXCEPT !.label = space.uses]
    BY <1>2 DEF LabelSpace, SpaceOK
  <2>2. SpaceOK'
    BY <2>1, SpaceType DEF SpaceOK
  <2> QED
    BY <1>2, <2>2, Kept DEF LabelSpace
<1>3. CASE CreateSpace
  BY <1>3, SpaceType, Kept, BoundStep DEF CreateSpace, SpaceOK
<1>4. CASE DeleteSpace
  BY <1>4, Kept, BoundStep DEF DeleteSpace, SpaceOK
<1> QED
  BY <1>1, <1>2, <1>3, <1>4 DEF SpaceSteps

OtherSteps == DeliverTier \/ ASecondPasses \/ CallFails \/ Restart

LEMMA OtherTypes == ASSUME TypeInv, OtherSteps PROVE TypeInv'
<1> USE DEF TypeInv
<1>1. CASE DeliverTier
  BY <1>1, Kept DEF DeliverTier, TierOK, QueueOK, GenerationChanged
<1>2. CASE ASecondPasses
  BY <1>2, Kept DEF ASecondPasses, QueueOK
<1>3. CASE CallFails
  <2>1. TierOK' /\ TemplateOK' /\ RevisionOK' /\ SpaceOK' /\ BoundOK'
    BY <1>3, Kept, BoundStep DEF CallFails
  <2>2. CASE pc = "failed" /\ Retry
    BY <2>1, <2>2, IdleType DEF Retry, QueueOK
  <2>3. CASE pc = "templates" /\ pc' = "failed" /\ UNCHANGED <<tierQueue, obj, todo, found, created>>
    BY <2>1, <2>3, Kept DEF WorkOK
  <2> QED
    BY <1>3, <2>2, <2>3 DEF CallFails
<1>4. CASE Restart
  BY <1>4, Kept, IdleType, BoundStep DEF Restart, QueueOK
<1> QED
  BY <1>1, <1>2, <1>3, <1>4 DEF OtherSteps

LEMMA Steps == Next => TierSteps \/ RevisionSteps \/ TemplateSteps \/ SpaceSteps \/ OtherSteps
  BY DEF Next, Administer, TierSteps, RevisionSteps, TemplateSteps, SpaceSteps, OtherSteps

LEMMA TypeNext == ASSUME TypeInv, [Next]_vars PROVE TypeInv'
<1>1. CASE Next
  BY <1>1, Steps, TierTypes, RevisionTypes, TemplateTypes, SpaceTypes, OtherTypes
<1>2. CASE UNCHANGED vars
  BY <1>2, Kept DEF vars, TypeInv, tierVars, revVars, workVars, tierQueue, boundVars
<1> QED
  BY <1>1, <1>2

LEMMA TypesHold == Spec => []TypeInv
  BY TypeInit, TypeNext, PTL DEF Spec

\* Types: tiers, templates, revisions, Spaces and the reconcile in progress keep
\* their types, whatever the API server, the caches and administrators do.
THEOREM TypeCorrect == Spec => []TypeOK
  BY TypesHold, Types, PTL


-----------------------------------------------------------------------------
(***************************************************************************)
(* What is published exists.  The clean-up sees an old copy of the tier, so *)
(* what it may take away has to be kept apart from what is being published: *)
(* a revision old enough to go was published in the copy already, and one   *)
(* that a reconcile has just created is not old enough.                     *)
(***************************************************************************)
AgedExist == \A r \in aged : ttr[r] # None

\* The cache knows what is old and published.
AgedKnown ==
    \A r \in aged : tier # None /\ (\E t \in Templates : tier.rev[t] = r) =>
        tierC # None /\ \E t \in Templates : tierC.rev[t] = r

\* A tier that was deleted does not come back.
GoneKnown == tierC = None => tier = None

\* What a reconcile has found was published in the tier in hand, or it is new.
FoundKept ==
    pc # "idle" => \A t \in Templates : found[t] \in Revs =>
        found[t] = obj.rev[t] \/ (ttr[found[t]] # None /\ found[t] \notin aged)

KeptInv == TypeInv /\ PublishedExists /\ AgedExist /\ AgedKnown /\ GoneKnown /\ FoundKept

LEMMA InRevisions ==
    ASSUME NEW rev \in Revisions, NEW r \in Revs
    PROVE  r \in RevisionsIn(rev) <=> \E t \in Templates : rev[t] = r
  BY NoneDiffers DEF RevisionsIn

LEMMA KeptInit == Init => KeptInv
<1> SUFFICES ASSUME Init PROVE KeptInv
  OBVIOUS
<1>1. TypeInv
  BY TypeInit
<1>2. PublishedExists
  BY NoneDiffers DEF Init, PublishedExists, NoRevisions
<1>3. AgedExist /\ AgedKnown /\ GoneKnown /\ FoundKept
  BY DEF Init, AgedExist, AgedKnown, GoneKnown, FoundKept
<1> QED
  BY <1>1, <1>2, <1>3 DEF KeptInv

\* A tier with the same name and the revisions it had.
SameRevisions == tier # None /\ tier' # None /\ tier'.rev = tier.rev

LEMMA TierSame ==
    ASSUME KeptInv, tier' = tier \/ tier' = None \/ SameRevisions, UNCHANGED revVars, UNCHANGED tierC
    PROVE  PublishedExists' /\ AgedExist' /\ AgedKnown' /\ GoneKnown'
  BY DEF KeptInv, PublishedExists, AgedExist, AgedKnown, GoneKnown, SameRevisions, revVars

LEMMA WorkIdle == Idle => FoundKept'
  BY DEF Idle, FoundKept

\* The reconcile begins again with nothing found.
LEMMA WorkBegins == ASSUME NEW o, LookAtTemplates(o) PROVE FoundKept'
  BY NoneDiffers DEF LookAtTemplates, FoundKept, NoRevisions

\* The revisions found are published: the write succeeds only when the tier is
\* still the one in hand.
LEMMA WrittenKeeps ==
    ASSUME KeptInv, pc # "idle", NEW rev \in Revisions, rev = found \/ rev = obj.rev,
           Written([obj EXCEPT !.rev = rev]), UNCHANGED revVars, UNCHANGED tierC
    PROVE  PublishedExists' /\ AgedExist' /\ AgedKnown' /\ GoneKnown'
<1>1. tier \in Tier /\ tier # None /\ obj = tier
  BY NoneDiffers DEF Written, KeptInv, TypeInv, WorkOK
<1>2. tier' \in Tier /\ tier'.rev = rev /\ tier' # None
  BY <1>1, WithRev, NoneDiffers DEF Written
<1>3. \A t \in Templates : rev[t] \in Revs =>
         rev[t] = tier.rev[t] \/ (ttr[rev[t]] # None /\ rev[t] \notin aged)
  BY <1>1 DEF KeptInv, FoundKept
<1>4. PublishedExists'
  BY <1>1, <1>2, <1>3 DEF KeptInv, PublishedExists, revVars
<1>5. AgedKnown'
  <2> SUFFICES ASSUME NEW r \in aged, NEW t \in Templates, rev[t] = r
               PROVE  tierC # None /\ \E u \in Templates : tierC.rev[u] = r
    BY <1>2 DEF AgedKnown, revVars
  <2>1. r \in Revs
    BY DEF KeptInv, TypeInv, RevisionOK
  <2>2. tier.rev[t] = r
    BY <1>3, <2>1
  <2> QED
    BY <1>1, <2>2 DEF KeptInv, AgedKnown
<1>6. GoneKnown'
  BY <1>1 DEF KeptInv, GoneKnown
<1> QED
  BY <1>4, <1>5, <1>6 DEF KeptInv, AgedExist, revVars

LEMMA TierKeeps == ASSUME KeptInv, TierSteps PROVE KeptInv'
<1>0. TypeInv' /\ TypeInv
  BY TierTypes DEF KeptInv
<1>1. CASE Reconcile
  <2>1. FoundKept'
    BY <1>1, WorkIdle, WorkBegins DEF Reconcile
  <2>2. tier' = tier \/ SameRevisions
    <3>1. CASE UNCHANGED tier
      BY <3>1
    <3>2. CASE tierC # None /\ tier = tierC /\ tier' = [tier EXCEPT !.phase = "live"]
      BY <1>0, <3>2, WithPhase, NoneDiffers DEF SameRevisions, TypeInv, TierOK
    <3> QED
      BY <1>1, <3>1, <3>2 DEF Reconcile
  <2> QED
    BY <1>0, <1>1, <2>1, <2>2, TierSame DEF Reconcile, KeptInv
<1>2. CASE HandleDeletion
  BY <1>0, <1>2, WorkIdle, TierSame DEF HandleDeletion, KeptInv
<1>3. CASE Publish
  <2>1. FoundKept'
    BY <1>3, WorkIdle DEF Publish, AfterRevisions, Retry
  <2>2. pc # "idle" /\ found \in Revisions
    BY <1>0, <1>3 DEF Publish, TypeInv, WorkOK
  <2>3. UNCHANGED revVars /\ UNCHANGED tierC /\ (UNCHANGED tier \/ Written([obj EXCEPT !.rev = found]))
    BY <1>3 DEF Publish
  <2> QED
    BY <1>0, <2>1, <2>2, <2>3, TierSame, WrittenKeeps DEF KeptInv
<1>4. CASE SetStatusFailed
  <2> DEFINE rev == IF todo = {} THEN found ELSE obj.rev
  <2>1. FoundKept'
    BY <1>4, WorkIdle DEF SetStatusFailed, Retry
  <2>2. pc # "idle" /\ rev \in Revisions /\ (rev = found \/ rev = obj.rev)
    BY <1>0, <1>4, TierFields DEF SetStatusFailed, TypeInv, WorkOK
  <2>3. UNCHANGED revVars /\ UNCHANGED tierC /\ (UNCHANGED tier \/ Written([obj EXCEPT !.rev = rev]))
    BY <1>4 DEF SetStatusFailed
  <2> HIDE DEF rev
  <2> QED
    BY <1>0, <2>1, <2>2, <2>3, TierSame, WrittenKeeps DEF KeptInv
<1>5. CASE EditTier
  <2>1. PICK refs \in (SUBSET Templates) \ {{}}, p \in 0..1 :
           tier' = [tier EXCEPT !.refs = refs, !.params = p]
    BY <1>5 DEF EditTier
  <2>2. SameRevisions
    <3>1. tier \in Tier
      BY <1>0, <1>5 DEF EditTier, TypeInv, TierOK
    <3>2. tier' \in Tier /\ tier'.rev = tier.rev
      BY <2>1, <3>1, WithSpec
    <3> QED
      BY <3>1, <3>2, NoneDiffers DEF SameRevisions
  <2> QED
    BY <1>0, <1>5, <2>2, TierSame DEF EditTier, KeptInv, FoundKept, workVars, revVars
<1>6. CASE DeleteTier
  <2>1. tier' = None \/ SameRevisions
    BY <1>0, <1>6, WithPhase, NoneDiffers DEF DeleteTier, SameRevisions, TypeInv, TierOK
  <2> QED
    BY <1>0, <1>6, <2>1, TierSame DEF DeleteTier, KeptInv, FoundKept, workVars, revVars
<1> QED
  BY <1>1, <1>2, <1>3, <1>4, <1>5, <1>6 DEF TierSteps

LEMMA RevisionKeeps == ASSUME KeptInv, RevisionSteps PROVE KeptInv'
<1>0. TypeInv' /\ TypeInv
  BY RevisionTypes DEF KeptInv
<1>1. ASSUME NEW t \in Templates, KeepRevision(t) PROVE KeptInv'
  <2>1. FoundKept'
    <3>1. found' = [found EXCEPT ![t] = IF tmpl[t].content = Plain THEN t ELSE obj.rev[t]]
      BY <1>1 DEF KeepRevision
    <3>2. found \in [Templates -> Revs \cup Templates \cup {None}] /\ t \notin Revs
      BY <1>0, NamesDiffer DEF TypeInv, WorkOK, Revisions
    <3>3. UNCHANGED <<pc, obj, ttr, aged>>
      BY <1>1 DEF KeepRevision, revVars
    <3> QED
      BY <3>1, <3>2, <3>3 DEF KeptInv, FoundKept
  <2>2. UNCHANGED <<tierVars, revVars>>
    BY <1>1 DEF KeepRevision
  <2> QED
    BY <1>0, <2>1, <2>2, TierSame DEF KeptInv, tierVars
<1>2. ASSUME NEW t \in Templates, CreateRevision(t) PROVE KeptInv'
  <2> DEFINE new == [tmpl |-> t, content |-> tmpl[t].content, params |-> obj.params]
  <2>1. PICK r \in Revs : ttr[r] = None /\ ttr' = [ttr EXCEPT ![r] = new] /\ found' = [found EXCEPT ![t] = r]
    BY <1>2 DEF CreateRevision, Free
  <2>2. ttr' \in [Revs -> Revision \cup {None}] /\ new \notin {None}
    <3>1. new = ttr'[r]
      BY <1>0, <2>1 DEF TypeInv, RevisionOK
    <3>2. new \in [tmpl : {t}, content : {tmpl[t].content}, params : {obj.params}]
      OBVIOUS
    <3>3. obj.params \in 0..1
      BY <1>0, <1>2, TierFields DEF CreateRevision, TypeInv, WorkOK
    <3>4. tmpl[t].content \in Contents
      BY <1>0, <1>2, TemplateType DEF CreateRevision, TypeInv, TemplateOK, Fits
    <3>5. new \in Revision
      BY <3>3, <3>4 DEF Revision
    <3> QED
      BY <1>0, <3>5, NoneDiffers DEF TypeInv, RevisionOK
  <2> HIDE DEF new
  <2>3. ttr'[r] # None /\ \A q \in Revs : ttr[q] # None => ttr'[q] # None
    BY <1>0, <2>1, <2>2 DEF TypeInv, RevisionOK
  <2>4. r \notin aged
    BY <2>1 DEF KeptInv, AgedExist
  <2>5. UNCHANGED <<tier, tierC, aged, pc, obj>>
    BY <1>2 DEF CreateRevision, tierVars
  <2>6. FoundKept'
    BY <1>0, <2>1, <2>3, <2>4, <2>5 DEF KeptInv, FoundKept, TypeInv, WorkOK, Revisions
  <2>7. PublishedExists' /\ AgedExist'
    BY <1>0, <2>3, <2>5 DEF KeptInv, PublishedExists, AgedExist, TypeInv, RevisionOK
  <2>8. AgedKnown' /\ GoneKnown'
    BY <2>5 DEF KeptInv, AgedKnown, GoneKnown
  <2> QED
    BY <1>0, <2>6, <2>7, <2>8 DEF KeptInv
<1>3. CASE MissingTemplate
  <2>1. UNCHANGED <<tierVars, revVars, obj, found>> /\ pc # "idle"
    BY <1>3 DEF MissingTemplate
  <2> QED
    BY <1>0, <2>1, TierSame DEF KeptInv, FoundKept, tierVars, revVars
<1>4. ASSUME NEW r \in Revs, CleanUp(r) PROVE KeptInv'
  <2>1. r \in aged /\ ttr' = [ttr EXCEPT ![r] = None] /\ aged' = aged \ {r}
    BY <1>4 DEF CleanUp, OldEnough
  <2>2. UNCHANGED <<tier, tierC, pc, obj, found>>
    BY <1>4 DEF CleanUp, tierVars, workVars
  <2>3. \A q \in Revs : q # r => ttr'[q] = ttr[q]
    BY <1>0, <2>1 DEF TypeInv, RevisionOK
  <2>4. tier # None => \A t \in Templates : tier.rev[t] # r
    <3> SUFFICES ASSUME tier # None, NEW t \in Templates, tier.rev[t] = r PROVE FALSE
      OBVIOUS
    <3>1. tierC # None /\ \E u \in Templates : tierC.rev[u] = r
      BY <2>1 DEF KeptInv, AgedKnown
    <3>2. tierC.rev \in Revisions
      BY <1>0, <3>1, TierFields DEF TypeInv, TierOK
    <3>3. r \notin RevisionsIn(tierC.rev)
      BY <1>4, <3>1 DEF CleanUp, Unused
    <3> QED
      BY <3>1, <3>2, <3>3, InRevisions
  <2>5. PublishedExists'
    BY <2>2, <2>3, <2>4 DEF KeptInv, PublishedExists
  <2>6. AgedExist' /\ AgedKnown' /\ GoneKnown'
    BY <1>0, <2>1, <2>2, <2>3 DEF KeptInv, AgedExist, AgedKnown, GoneKnown, TypeInv, RevisionOK
  <2>7. FoundKept'
    BY <2>1, <2>2, <2>3 DEF KeptInv, FoundKept
  <2> QED
    BY <1>0, <2>5, <2>6, <2>7 DEF KeptInv
<1>5. ASSUME NEW r \in Revs, DeliverRevision(r) PROVE KeptInv'
  <2>1. UNCHANGED <<tier, tierC, ttr, aged, pc, obj, found>>
    BY <1>5 DEF DeliverRevision, tierVars, workVars
  <2> QED
    BY <1>0, <2>1 DEF KeptInv, PublishedExists, AgedExist, AgedKnown, GoneKnown, FoundKept
<1>6. ASSUME NEW r \in Revs, Age(r) PROVE KeptInv'
  <2>1. UNCHANGED <<tier, tierC, ttr, pc, obj, found>> /\ tierC = tier
    BY <1>6 DEF Age, tierVars, workVars
  <2>2. ttr[r] # None /\ aged' = aged \cup {r} /\ r \notin RevisionsIn(found)
    BY <1>6 DEF Age
  <2>3. \A t \in Templates : found[t] # r
    BY <1>0, <2>2, InRevisions DEF TypeInv, WorkOK
  <2> QED
    BY <1>0, <2>1, <2>2, <2>3 DEF KeptInv, PublishedExists, AgedExist, AgedKnown, GoneKnown, FoundKept
<1> QED
  BY <1>1, <1>2, <1>3, <1>4, <1>5, <1>6 DEF RevisionSteps

LEMMA OtherKeeps ==
    ASSUME KeptInv, TemplateSteps \/ SpaceSteps \/ OtherSteps \/ UNCHANGED vars
    PROVE  KeptInv'
<1>0. TypeInv' /\ TypeInv
  BY TemplateTypes, SpaceTypes, OtherTypes, TypeNext DEF KeptInv
<1>1. CASE TemplateSteps \/ SpaceSteps \/ ASecondPasses \/ UNCHANGED vars
  <2>1. UNCHANGED <<tier, tierC, ttr, aged, pc, obj, found>> /\ UNCHANGED revVars
    BY <1>1 DEF TemplateSteps, SpaceSteps, AddTemplateFinalizer, HandleTemplateDeletion, EditTemplate,
                DeleteTemplate, CreateTemplate, ProvisionSpace, LabelSpace, CreateSpace, DeleteSpace,
                ASecondPasses, vars, tierVars, revVars, workVars
  <2> QED
    BY <1>0, <2>1, TierSame DEF KeptInv, FoundKept
<1>2. CASE DeliverTier
  <2>1. UNCHANGED <<tier, ttr, aged, pc, obj, found>> /\ tierC' = tier
    BY <1>2 DEF DeliverTier, revVars, workVars
  <2> QED
    BY <1>0, <2>1 DEF KeptInv, PublishedExists, AgedExist, AgedKnown, GoneKnown, FoundKept
<1>3. CASE CallFails
  <2>1. UNCHANGED <<tier, tierC, revVars>>
    BY <1>3 DEF CallFails, tierVars
  <2>2. FoundKept'
    BY <1>3, WorkIdle DEF CallFails, Retry, KeptInv, FoundKept, revVars
  <2> QED
    BY <1>0, <2>1, <2>2, TierSame DEF KeptInv
<1>4. CASE Restart
  BY <1>0, <1>4, WorkIdle, TierSame DEF Restart, KeptInv, tierVars
<1> QED
  BY <1>1, <1>2, <1>3, <1>4 DEF OtherSteps

LEMMA KeptNext == ASSUME KeptInv, [Next]_vars PROVE KeptInv'
  BY Steps, TierKeeps, RevisionKeeps, OtherKeeps

LEMMA KeptHolds == Spec => []KeptInv
  BY KeptInit, KeptNext, PTL DEF Spec

\* A published revision exists: the clean-up takes away nothing that Spaces are
\* about to be provisioned from, however old its copy of the tier is and whenever
\* the reconcile that publishes fails or is cut short.
THEOREM PublishedExistsAlways == Spec => []PublishedExists
<1>1. KeptInv => PublishedExists
  BY DEF KeptInv
<1> QED
  BY <1>1, KeptHolds, PTL


-----------------------------------------------------------------------------
(***************************************************************************)
(* What a labelled Space depends on is kept.  A step that takes a revision  *)
(* away is a clean-up, which looks at the cached tier; without a cached     *)
(* tier there is no Space, because no tier is deleted under one.            *)
(***************************************************************************)
Served == Disciplined => (tier = None \/ tier.phase = "deleting" => space = None)

SamePhase == tier # None /\ tier' # None /\ (tier'.phase = "deleting" => tier.phase = "deleting")

LEMMA ServedKept ==
    ASSUME Served, tier' = tier \/ SamePhase, UNCHANGED space
    PROVE  Served'
  BY DEF Served, SamePhase

LEMMA ServedInit == Init => Served
<1> SUFFICES ASSUME Init PROVE Served
  OBVIOUS
<1>1. PICK refs \in (SUBSET Templates) \ {{}} :
         tier = [phase |-> "new", refs |-> refs, params |-> 0, rev |-> NoRevisions]
  BY DEF Init
<1>2. tier \in Tier
  BY <1>1, NoRevisionsType DEF Tier
<1> QED
  BY <1>1, <1>2, NoneDiffers DEF Served

LEMMA ServedNext == ASSUME TypeInv, Served, [Next]_vars PROVE Served'
<1>1. CASE Reconcile
  <2>1. UNCHANGED space
    BY <1>1 DEF Reconcile
  <2>2. CASE UNCHANGED tier
    BY <2>1, <2>2, ServedKept
  <2>3. CASE tierC # None /\ tier = tierC /\ tier' = [tier EXCEPT !.phase = "live"]
    <3>1. SamePhase
      BY <2>3, WithPhase, NoneDiffers DEF SamePhase, TypeInv, TierOK
    <3> QED
      BY <2>1, <3>1, ServedKept
  <2> QED
    BY <1>1, <2>2, <2>3 DEF Reconcile
<1>2. CASE HandleDeletion
  <2>1. tier # None /\ tier.phase = "deleting" /\ UNCHANGED space
    BY <1>2 DEF HandleDeletion
  <2> QED
    BY <2>1 DEF Served
<1>3. ASSUME pc # "idle", NEW rev \in Revisions, Written([obj EXCEPT !.rev = rev]) PROVE SamePhase
  BY <1>3, WithRev, NoneDiffers DEF Written, SamePhase, TypeInv, WorkOK
<1>4. CASE Publish
  <2>1. pc # "idle" /\ found \in Revisions /\ UNCHANGED space
    BY <1>4 DEF Publish, TypeInv, WorkOK
  <2>2. UNCHANGED tier \/ Written([obj EXCEPT !.rev = found])
    BY <1>4 DEF Publish
  <2> QED
    BY <1>3, <2>1, <2>2, ServedKept
<1>5. CASE SetStatusFailed
  <2> DEFINE rev == IF todo = {} THEN found ELSE obj.rev
  <2>1. pc # "idle" /\ rev \in Revisions /\ UNCHANGED space
    BY <1>5, TierFields DEF SetStatusFailed, TypeInv, WorkOK
  <2>2. UNCHANGED tier \/ Written([obj EXCEPT !.rev = rev])
    BY <1>5 DEF SetStatusFailed
  <2> HIDE DEF rev
  <2> QED
    BY <1>3, <2>1, <2>2, ServedKept
<1>6. CASE EditTier
  <2>1. PICK refs \in (SUBSET Templates) \ {{}}, p \in 0..1 :
           tier' = [tier EXCEPT !.refs = refs, !.params = p]
    BY <1>6 DEF EditTier
  <2>2. tier \in Tier /\ UNCHANGED space
    BY <1>6 DEF EditTier, TypeInv, TierOK
  <2>3. tier' \in Tier /\ tier'.phase = tier.phase
    BY <2>1, <2>2, WithSpec
  <2> QED
    BY <2>2, <2>3, ServedKept, NoneDiffers DEF SamePhase
<1>7. CASE DeleteTier
  BY <1>7 DEF DeleteTier, Served
<1>8. CASE CreateSpace
  BY <1>8 DEF CreateSpace, Served, tierVars
<1>9. CASE DeleteSpace
  BY <1>9 DEF DeleteSpace, Served, tierVars
<1>10. CASE ProvisionSpace \/ LabelSpace
  <2>1. space # None /\ UNCHANGED tier
    BY <1>10 DEF ProvisionSpace, LabelSpace, tierVars
  <2> QED
    BY <2>1 DEF Served
<1>11. CASE RevisionSteps \/ TemplateSteps \/ OtherSteps \/ UNCHANGED vars
  <2>1. UNCHANGED <<tier, space>>
    BY <1>11 DEF RevisionSteps, TemplateSteps, OtherSteps, KeepRevision, CreateRevision, MissingTemplate,
                 CleanUp, DeliverRevision, Age, AddTemplateFinalizer, HandleTemplateDeletion, EditTemplate,
                 DeleteTemplate, CreateTemplate, DeliverTier, ASecondPasses, CallFails, Restart, vars, tierVars
  <2> QED
    BY <2>1, ServedKept
<1> QED
  BY <1>1, <1>2, <1>4, <1>5, <1>6, <1>7, <1>8, <1>9, <1>10, <1>11, Steps DEF TierSteps, SpaceSteps

LEMMA ServedHolds == Spec => []Served
  BY ServedInit, ServedNext, TypesHold, PTL DEF Spec

\* Only the clean-up takes a revision away.
LEMMA OnlyCleanUpDeletes ==
    ASSUME TypeInv, TypeInv', [Next]_vars, NEW r \in Revs, ttr[r] # None, ttr'[r] = None
    PROVE  CleanUp(r)
<1>1. CASE \E t \in Templates : CreateRevision(t)
  <2>1. PICK t \in Templates : CreateRevision(t)
    BY <1>1
  <2>2. PICK q \in Revs : ttr[q] = None /\ ttr' = [ttr EXCEPT ![q] = [tmpl |-> t, content |-> tmpl[t].content,
                                                                      params |-> obj.params]]
    BY <2>1 DEF CreateRevision, Free
  <2>3. ttr'[r] = ttr[r]
    BY <2>2 DEF TypeInv, RevisionOK
  <2> QED
    BY <2>3
<1>2. CASE \E q \in Revs : CleanUp(q)
  <2>1. PICK q \in Revs : CleanUp(q)
    BY <1>2
  <2>2. ttr' = [ttr EXCEPT ![q] = None]
    BY <2>1 DEF CleanUp
  <2>3. q = r
    BY <2>2 DEF TypeInv, RevisionOK
  <2> QED
    BY <2>1, <2>3
<1>3. CASE UNCHANGED ttr
  BY <1>3
<1>4. CASE TierSteps \/ TemplateSteps \/ SpaceSteps \/ OtherSteps \/ UNCHANGED vars
  <2>1. UNCHANGED ttr
    BY <1>4 DEF TierSteps, TemplateSteps, SpaceSteps, OtherSteps, Reconcile, HandleDeletion, Publish,
                SetStatusFailed, EditTier, DeleteTier, AddTemplateFinalizer, HandleTemplateDeletion,
                EditTemplate, DeleteTemplate, CreateTemplate, ProvisionSpace, LabelSpace, CreateSpace,
                DeleteSpace, DeliverTier, ASecondPasses, CallFails, Restart, vars, revVars
  <2> QED
    BY <2>1
<1>5. CASE RevisionSteps
  <2>1. \/ UNCHANGED ttr
        \/ \E t \in Templates : CreateRevision(t)
        \/ \E q \in Revs : CleanUp(q)
    BY <1>5 DEF RevisionSteps, KeepRevision, MissingTemplate, DeliverRevision, Age, revVars
  <2> QED
    BY <1>1, <1>2, <2>1
<1> QED
  BY <1>4, <1>5, Steps

LEMMA LabelledKeeps ==
    ASSUME KeptInv, TypeInv', Served, [Next]_vars, Disciplined, NEW r \in Revs,
           ttr[r] # None, ttr'[r] = None, space # None, space.label # None
    PROVE  r \notin DependsOn(space)
<1>1. CleanUp(r)
  BY OnlyCleanUpDeletes DEF KeptInv
<1>2. tierC # None
  BY DEF Served, KeptInv, GoneKnown
<1>3. r \notin RevisionsIn(tierC.rev) /\ ~Outdated(space)
  BY <1>1, <1>2 DEF CleanUp, Unused
<1>4. space.label = tierC.rev
  BY <1>3 DEF Outdated
<1> QED
  BY <1>2, <1>3, <1>4 DEF DependsOn

\* A revision that a labelled Space depends on is not deleted, for any number of
\* templates, edits and failures: neither what it got its label for nor what it is
\* being updated to, unless the tier went back to the former in between.
THEOREM UsedByLabelledKeptAlways == Spec => UsedByLabelledKept
<1>1. ASSUME KeptInv, TypeInv', Served, [Next]_vars
      PROVE  [Disciplined =>
                 \A r \in Revs : ttr[r] # None /\ ttr'[r] = None =>
                     ~(space # None /\ space.label # None /\ r \in DependsOn(space))]_vars
  BY <1>1, LabelledKeeps
<1> QED
  BY <1>1, KeptHolds, TypesHold, ServedHolds, PTL DEF Spec, UsedByLabelledKept

=============================================================================
