----------------------------- MODULE UserLifecycle -----------------------------
(***************************************************************************)
(* One user from signup to removal: the UserSignup controller of            *)
(* UserSignups together with the controllers that act on the same objects   *)
(* behind its back - Deactivation, UserSignupCleanup, SpaceCleanup - and   *)
(* with what administrators and time do.                                   *)
(***************************************************************************)
EXTENDS UserSignups, Sequences

VARIABLES
    plan, held,       \* Deactivation: the versions of the UserSignup it is about to write, and
                      \* the copy in its hand
    sentence, heldK,  \* UserSignupCleanup: what it is about to do, and its copy
    spare             \* SpaceCleanup: the Space it is about to delete

lifecycleVars == <<plan, held, sentence, heldK, spare>>

vars == <<signupVars, lifecycleVars>>

Init ==
    /\ SignupInit
    /\ plan = <<>> /\ held = None /\ sentence = "none" /\ heldK = None /\ spare = 0

LifecycleTypeOK ==
    /\ TypeOK
    /\ Len(plan) \in 0..2 /\ (plan # <<>> => held \in Signup)
    /\ held \in Signup \cup {None} /\ heldK \in Signup \cup {None}
    /\ sentence \in {"none", "delete", "deactivate"} /\ spare \in {0} \cup Names

-----------------------------------------------------------------------------
(* The Deactivation controller *)

\* states.SetDeactivated takes the other two away.
SetDeactivated(o) == [o EXCEPT !.states = (@ \ {"approved", "deactivating"}) \cup {"deactivated"}]

Scheduled(o, b) == [o EXCEPT !.scheduled = b]

SetDeactivating(o, b) ==
    [o EXCEPT !.states = IF b THEN @ \cup {"deactivating"} ELSE @ \ {"deactivating"}]

\* Mutant: the wait after the notification never ends.
NeverDue(o, m) ==
    CASE "deactivated" \in o.states \/ m \notin Provisioned -> <<>>
      [] m = "aged" /\ "deactivating" \notin o.states ->
            <<Scheduled(o, TRUE), SetDeactivating(Scheduled(o, TRUE), TRUE)>>
      [] OTHER -> <<Scheduled(o, m # "exempt")>>

\* The updates of the UserSignup o for a record in state m: a provisioned user is warned when it
\* is time, and deactivated a while after the warning.
Plan(o, m) ==
    CASE "deactivated" \in o.states \/ m \notin Provisioned -> <<>>
      [] "deactivated" \notin o.states /\ m \in {"provisioned", "exempt"} ->
            IF "deactivating" \in o.states
            THEN <<SetDeactivating(o, FALSE)>>
            ELSE <<Scheduled(o, m = "provisioned")>>
      [] "deactivated" \notin o.states /\ m = "aged" ->
            CASE "deactivating" \notin o.states ->
                    <<Scheduled(o, TRUE), SetDeactivating(Scheduled(o, TRUE), TRUE)>>
              [] "deactivating" \in o.states /\ ~o.warned -> <<Scheduled(o, FALSE)>>
              [] "deactivating" \in o.states /\ o.warned /\ ~o.due -> <<Scheduled(o, TRUE)>>
              [] "deactivating" \in o.states /\ o.warned /\ o.due -> <<SetDeactivated(o)>>

\* The first update is left out when it would change nothing; a second one always does.
Changes(updates, o) ==
    IF updates # <<>> /\ Head(updates) = o THEN Tail(updates) ELSE updates

ReconcileDeactivation(n) ==
    /\ plan = <<>> /\ n \in queuedD /\ queuedD' = queuedD \ {n}
    /\ IF usC = None \/ murC[n] = "none" THEN UNCHANGED <<plan, held>>
       ELSE /\ plan' = Changes(Plan(usC, murC[n]), usC)
            /\ held' = IF plan' = <<>> THEN None ELSE usC
    /\ UNCHANGED <<us, usC, banned, mur, murC, space, spaceC, sb, sbC, queued,
                   workVars, boundVars, sentence, heldK, spare>>

\* The record comes back into the queue with the error.
DeactivationFails ==
    /\ plan' = <<>> /\ held' = None
    /\ queuedD' = queuedD \cup {n \in Names : murC[n] # "none"} /\ UNCHANGED <<us, usC, queued>>

WriteDeactivation ==
    /\ plan # <<>>
    /\ \/ /\ held = us /\ SetUs(Head(plan))
          /\ queued' = (queued \/ (Now /\ Changed(us, Head(plan))))
          /\ plan' = Tail(plan) /\ held' = (IF plan' = <<>> THEN None ELSE Head(plan))
          /\ UNCHANGED boundVars
       \/ held # us /\ DeactivationFails /\ UNCHANGED boundVars
       \/ Fault /\ DeactivationFails
    /\ UNCHANGED <<banned, mur, murC, space, spaceC, sb, sbC, workVars, sentence, heldK, spare>>

-----------------------------------------------------------------------------
(* The UserSignupCleanup controller *)

Unverified(o) == "verification" \in o.states /\ o.count = 0 /\ o.old

\* A user who came back and has not been verified in time.
Overdue(o) ==
    "verification" \in o.states /\ o.count > 0 /\ o.complete = "Verification" /\ o.since > 0

\* Whatever the Complete condition says.
Unused(o) ==
    /\ o.states \cap {"deactivated", "noprovisioning"} # {} /\ o.complete # "none" /\ o.since = 2
    /\ o.count <= 1 /\ ~banned /\ ~("verification" \in o.states /\ o.count = 0)

Verdict(o) ==
    CASE Overdue(o) -> "deactivate"
      [] ~Overdue(o) /\ (Unverified(o) \/ Unused(o)) -> "delete"
      [] OTHER -> "none"

\* Every change of the UserSignup brings an event, every passing of time the request again.
ReconcileCleanup ==
    /\ sentence = "none" /\ usC # None /\ usC.phase = "live" /\ Verdict(usC) # "none"
    /\ sentence' = Verdict(usC) /\ heldK' = usC
    /\ UNCHANGED <<signupVars, plan, held, spare>>

CleanupDone == sentence' = "none" /\ heldK' = None

ResetToDeactivated(o) == [SetDeactivated(o) EXCEPT !.states = @ \ {"verification"}]

\* The deletion is in the foreground: the UserSignup stays until its record is gone.
SetDeleted == SetUs([us EXCEPT !.phase = "deleting"])

ExecuteCleanup ==
    /\ sentence # "none" /\ CleanupDone
    /\ \/ /\ sentence = "delete" /\ us # None /\ us.phase = "live" /\ SetDeleted
          /\ queued' = (queued \/ Now) /\ UNCHANGED boundVars
       \/ /\ sentence = "deactivate" /\ heldK = us /\ SetUs(ResetToDeactivated(us))
          /\ queued' = (queued \/ Now) /\ UNCHANGED boundVars
       \/ /\ IF sentence = "deactivate" THEN heldK # us
             ELSE IF us = None THEN TRUE ELSE us.phase = "deleting"
          /\ UNCHANGED <<us, usC, queued, queuedD, boundVars>>
       \/ Fault /\ UNCHANGED <<us, usC, queued, queuedD>>
    /\ UNCHANGED <<banned, mur, murC, space, spaceC, sb, sbC, workVars, plan, held, spare>>

-----------------------------------------------------------------------------
(* SpaceCleanup, SpaceBindingCleanup, garbage collection *)

\* Mutant: Spaces are kept whatever becomes of their SpaceBindings.
KeepsSpaces(s, b) == FALSE

\* An old Space without SpaceBinding.
Unbound(s, b) == s # None /\ "deleting" \notin s /\ "old" \in s /\ ~b

\* Every way for this to become true brings an event or the request again.
ReconcileSpaceCleanup(n) ==
    /\ spare = 0 /\ Unbound(spaceC[n], sbC[n]) /\ spare' = n
    /\ UNCHANGED <<signupVars, plan, held, sentence, heldK>>

\* The Space controller has given it a finalizer.
DeleteSpare ==
    /\ spare # 0 /\ spare' = 0
    /\ \/ /\ space[spare] # None /\ SetSpaces([space EXCEPT ![spare] = @ \cup {"deleting"}])
          /\ queued' = (queued \/ Now) /\ UNCHANGED boundVars
       \/ space[spare] = None /\ UNCHANGED <<space, spaceC, queued, boundVars>>
       \/ Fault /\ UNCHANGED <<space, spaceC, queued>>
    /\ UNCHANGED <<us, usC, banned, mur, murC, sb, sbC, queuedD, workVars, plan, held, sentence, heldK>>

\* The SpaceBindingCleanup controller (SpaceBindingRequests).
BindingGoes(n) ==
    /\ sb[n] /\ (mur[n] = "none" \/ space[n] = None)
    /\ SetBindings([sb EXCEPT ![n] = FALSE]) /\ queued' = (queued \/ Now)
    /\ UNCHANGED <<us, usC, banned, mur, murC, space, spaceC, queuedD, workVars, boundVars, lifecycleVars>>

ChangeRecord(n, m) ==
    /\ SetMur([mur EXCEPT ![n] = m]) /\ queued' = (queued \/ Now)
    /\ UNCHANGED <<us, usC, banned, space, spaceC, sb, sbC, workVars, lifecycleVars>>

\* The MasterUserRecord controller (MasterUserRecords).
RecordProvisioned(n) == mur[n] = "new" /\ ChangeRecord(n, "provisioned") /\ UNCHANGED boundVars

RecordGoes(n) == mur[n] = "deleting" /\ ChangeRecord(n, "none") /\ UNCHANGED boundVars

\* A record whose owner goes or is gone.
CollectRecord(n) ==
    /\ (us # None => us.phase = "deleting") /\ mur[n] \notin {"none", "deleting"}
    /\ ChangeRecord(n, Deleted(mur[n])) /\ UNCHANGED boundVars

SignupGoes ==
    /\ us # None /\ us.phase = "deleting" /\ \A n \in Names : mur[n] = "none"
    /\ SetUs(None) /\ queued' = (queued \/ Now)
    /\ UNCHANGED <<banned, mur, murC, space, spaceC, sb, sbC, workVars, boundVars, lifecycleVars>>

ChangeSpace(n, s) ==
    /\ SetSpaces([space EXCEPT ![n] = s]) /\ queued' = (queued \/ Now)
    /\ UNCHANGED <<us, usC, banned, mur, murC, sb, sbC, queuedD, workVars, lifecycleVars>>

\* The Space controller (SpaceController).
SpaceProvisioned(n) ==
    /\ space[n] # None /\ space[n] \cap {"ready", "deleting"} = {}
    /\ ChangeSpace(n, space[n] \cup {"ready"}) /\ UNCHANGED boundVars

SpaceGoes(n) ==
    /\ space[n] # None /\ "deleting" \in space[n] /\ ChangeSpace(n, None) /\ UNCHANGED boundVars

Restart ==
    /\ Fault /\ (pc # "idle" \/ plan # <<>> \/ sentence # "none" \/ spare # 0)
    /\ Done /\ plan' = <<>> /\ held' = None /\ CleanupDone /\ spare' = 0
    /\ queued' = TRUE /\ queuedD' = Updated([n \in Names |-> "none"], murC)
    /\ UNCHANGED <<us, usC, banned, mur, murC, space, spaceC, sb, sbC>>

-----------------------------------------------------------------------------
(* Caches and time *)

DeliverSignup ==
    /\ usC # us /\ usC' = us /\ queued' = (queued \/ Changed(usC, us)) /\ queuedD' = queuedD \cup Mapped(us)
    /\ UNCHANGED <<us, banned, mur, murC, space, spaceC, sb, sbC, workVars, boundVars, lifecycleVars>>

DeliverRecords ==
    /\ murC # mur /\ murC' = mur /\ queued' = TRUE
    /\ queuedD' = queuedD \cup Updated(murC, mur)
    /\ UNCHANGED <<us, usC, banned, mur, space, spaceC, sb, sbC, workVars, boundVars, lifecycleVars>>

DeliverSpaces ==
    /\ spaceC # space /\ spaceC' = space /\ queued' = TRUE
    /\ UNCHANGED <<us, usC, banned, mur, murC, space, sb, sbC, queuedD, workVars, boundVars, lifecycleVars>>

DeliverBindings ==
    /\ sbC # sb /\ sbC' = sb /\ queued' = TRUE
    /\ UNCHANGED <<us, usC, banned, mur, murC, space, spaceC, sb, queuedD, workVars, boundVars, lifecycleVars>>

Age(o) ==
    /\ us' = o /\ usC' = o /\ queuedD' = queuedD \cup Mapped(o)
    /\ UNCHANGED <<banned, mur, murC, space, spaceC, sb, sbC, queued, workVars, boundVars, lifecycleVars>>

\* Time passes, for one object at a time, when the controllers have nothing to do.
AtRest == pc = "idle" /\ ~queued /\ plan = <<>> /\ queuedD = {} /\ sentence = "none" /\ spare = 0

\* Ages that nobody can tell apart are left out: that of a user who was active, and one
\* between the two retentions of a Complete condition that is True.
AgeSignup ==
    /\ scenario.time /\ Current /\ AtRest /\ us # None /\ us.count = 0 /\ ~us.old
    /\ Age([us EXCEPT !.old = TRUE])

AgeStatus ==
    /\ scenario.time /\ Current /\ AtRest /\ us # None /\ us.complete # "none" /\ us.since < 2
    /\ Age([us EXCEPT !.since = IF IsTrue(us.complete) THEN 2 ELSE @ + 1])

AgeWarning ==
    /\ scenario.time /\ Current /\ AtRest /\ us # None /\ us.warned /\ ~us.due
    /\ Age([us EXCEPT !.due = TRUE])

AgeRecord(n) ==
    /\ scenario.time /\ Current /\ AtRest /\ mur[n] = "provisioned"
    /\ mur' = [mur EXCEPT ![n] = "aged"] /\ murC' = mur' /\ queuedD' = queuedD \cup {n}
    /\ UNCHANGED <<us, usC, banned, space, spaceC, sb, sbC, queued, workVars, boundVars, lifecycleVars>>

\* With a SpaceBinding its age does not matter.
AgeSpace(n) ==
    /\ Current /\ AtRest /\ space[n] # None /\ "old" \notin space[n] /\ ~sb[n]
    /\ space' = [space EXCEPT ![n] = @ \cup {"old"}] /\ spaceC' = space'
    /\ UNCHANGED <<us, usC, banned, mur, murC, sb, sbC, queued, queuedD, workVars, boundVars, lifecycleVars>>

-----------------------------------------------------------------------------
(* Users and administrators *)

\* Approval, deactivation, a signup of a deactivated user, rejection, no provisioning.
Submissions == {"approved", "deactivated", "verification", "rejected", "noprovisioning"}

EditSignup(s) ==
    /\ us # None /\ us.phase = "live" /\ us.states # {s} /\ Edit(s)
    /\ SetUs([us EXCEPT !.states = {s}]) /\ queued' = (queued \/ Now)
    /\ UNCHANGED <<banned, mur, murC, space, spaceC, sb, sbC, workVars, lifecycleVars>>

DeleteSignup ==
    /\ us # None /\ us.phase = "live" /\ Edit("removal") /\ SetDeleted /\ queued' = (queued \/ Now)
    /\ UNCHANGED <<banned, mur, murC, space, spaceC, sb, sbC, workVars, lifecycleVars>>

\* A BannedUser comes or goes (MapBannedUserToUserSignup).
Ban ==
    /\ Edit("ban") /\ banned' = ~banned /\ queued' = TRUE
    /\ UNCHANGED <<objectVars, workVars, lifecycleVars>>

DeleteRecordByHand(n) ==
    mur[n] \notin {"none", "deleting"} /\ Edit("record") /\ ChangeRecord(n, Deleted(mur[n]))

DeleteSpaceByHand(n) ==
    /\ space[n] # None /\ "deleting" \notin space[n] /\ Edit("space")
    /\ ChangeSpace(n, space[n] \cup {"deleting"})

\* The record gets a user tier with a longer timeout or with none.
Promote(n) ==
    /\ scenario.time /\ mur[n] \in {"provisioned", "aged"} /\ Edit("tier")
    /\ \E m \in {"provisioned", "exempt"} \ {mur[n]} : ChangeRecord(n, m)

-----------------------------------------------------------------------------
Deactivation == WriteDeactivation \/ \E n \in Names : ReconcileDeactivation(n)

Cleanup == ReconcileCleanup \/ ExecuteCleanup

SpaceCleanup == DeleteSpare \/ \E n \in Names : ReconcileSpaceCleanup(n)

Objects ==
    \/ SignupGoes
    \/ \E n \in Names :
          \/ BindingGoes(n) \/ RecordProvisioned(n) \/ RecordGoes(n) \/ CollectRecord(n)
          \/ SpaceProvisioned(n) \/ SpaceGoes(n)

Deliver == DeliverSignup \/ DeliverRecords \/ DeliverSpaces \/ DeliverBindings

Time ==
    \/ AgeSignup \/ AgeStatus \/ AgeWarning
    \/ \E n \in Names : AgeRecord(n) \/ AgeSpace(n)

Users ==
    \/ DeleteSignup \/ Ban
    \/ \E s \in Submissions : EditSignup(s)
    \/ \E n \in Names : DeleteRecordByHand(n) \/ DeleteSpaceByHand(n) \/ Promote(n)

Next ==
    \/ SignupController /\ UNCHANGED lifecycleVars
    \/ Deactivation \/ Cleanup \/ SpaceCleanup \/ Objects \/ Deliver \/ Time \/ Users \/ Restart

Spec == Init /\ [][Next]_vars

\* Every controller has workers of its own that run, caches catch up, what is being deleted
\* goes, time passes; nobody has to edit anything and no call has to fail.
Fairness ==
    /\ WF_vars(SignupController /\ UNCHANGED lifecycleVars)
    /\ WF_vars(Deactivation) /\ WF_vars(Cleanup) /\ WF_vars(SpaceCleanup)
    /\ WF_vars(Objects) /\ WF_vars(Deliver) /\ WF_vars(Time)

FairSpec == Spec /\ Fairness

-----------------------------------------------------------------------------
(* Properties *)

\* The user never has two MasterUserRecords, even when approval and deactivation cross and a
\* record, a Space of an earlier activation or a failed call is in the way: the UserSignup
\* controller could not go on with either (checkIfMurAlreadyExists).
OneRecord == Cardinality({n \in Names : mur[n] # "none"}) <= 1

\* No record is there without an activation having been counted: the clean-up spares returning
\* users by the counter.
ActivationCounted == \A n \in Names : us # None /\ mur[n] # "none" => us.count > 0

\* Whatever happened before, an approved user who is not banned ends with one record that is
\* provisioned and a Space and a SpaceBinding of the same name, and is told so in the status.
Served ==
    \E n \in Names :
        /\ {k \in Names : mur[k] # "none"} = {n} /\ mur[n] \in Provisioned
        /\ {k \in Names : space[k] # None} = {n} /\ "ready" \in space[n] /\ "deleting" \notin space[n]
        /\ {k \in Names : sb[k]} = {n}
        /\ us.complete = "Complete" /\ us.name = n /\ us.home = n /\ us.label = "approved"

Active == us # None /\ us.phase = "live" /\ "approved" \in us.states /\ ~banned

ApprovedServed == <>[](Active => Served)

\* A user who is banned, deactivated or gone keeps no record, no Space and no SpaceBinding.
AccessRevoked ==
    <>[]((us = None \/ banned \/ "deactivated" \in us.states)
            => \A n \in Names : mur[n] = "none" /\ space[n] = None /\ ~sb[n])

\* A user whose time is over does not stay active for ever: warning, notification, waiting and
\* deactivation take turns between the two controllers until the user is out.
DeactivatedInTime ==
    <>[](Active => \A n \in Names : mur[n] # "aged")

=============================================================================
