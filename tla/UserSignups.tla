------------------------------ MODULE UserSignups ------------------------------
(***************************************************************************)
(* The UserSignup controller working on one user: it gives an approved user *)
(* a MasterUserRecord, a Space and a SpaceBinding, takes the record away    *)
(* from a banned or deactivated one, and has the user notified.  The other  *)
(* controllers of a user are in UserLifecycle.                              *)
(***************************************************************************)
EXTENDS FiniteSets, Integers

CONSTANTS
    MaxName,    \* bound: names (with suffix) to choose from
    MaxCount,   \* bound: activations that are told apart
    None,
    Scenarios   \* lag: may a cache be behind, by one change?  time: does anything but a Space get
                \* old, and may the user be deactivated (or is the domain of the email address
                \* excluded)?  Bounds: edits by users and administrators, of these kinds; faults,
                \* failed calls, lost answers and restarts

Names == 1..MaxName

Kinds == {"approved", "deactivated", "verification", "rejected", "noprovisioning", "removal", "ban", "record", "space", "tier"}

ASSUME SignupsAssumption ==
    /\ MaxName \in Nat \ {0} /\ MaxCount \in Nat \ {0} /\ None \notin Names
    /\ Scenarios \subseteq [lag: BOOLEAN, time: BOOLEAN, kinds: SUBSET Kinds, edits: Nat, faults: Nat]

VARIABLES
    us, usC,        \* the UserSignup, and its copy in the cache of the host
    banned,         \* is there a BannedUser with its email address?
    mur, murC,      \* MasterUserRecords of the user by name
    space, spaceC,  \* Spaces made for the user by name
    sb, sbC,        \* is there a SpaceBinding of the record and the Space of this name?
    queued,         \* is the UserSignup in the work queue of its controller?
    queuedD,        \* records in the work queue of the Deactivation controller
    pc, obj,        \* next call of the reconcile, its copy of the UserSignup
    seen,           \* what else it has read
    goal,           \* the state label it is about to set
    scenario, edits, faults

objectVars == <<us, usC, mur, murC, space, spaceC, sb, sbC, queuedD>>
workVars   == <<pc, obj, seen, goal>>
boundVars  == <<scenario, edits, faults>>

signupVars == <<us, usC, banned, mur, murC, space, spaceC, sb, sbC, queued, queuedD,
                pc, obj, seen, goal, scenario, edits, faults>>

-----------------------------------------------------------------------------
States == {"approved", "deactivating", "deactivated", "verification", "rejected", "noprovisioning"}

Labels == {"none", "not-ready", "pending", "approved", "banned", "rejected", "deactivated", "no-provisioning"}

\* Reasons of the Complete condition with status True and False.
True  == {"Complete", "Banned", "Rejected", "Deactivated", "NoProvisioning"}
False == {"Pending", "Verification", "Provisioning", "Banning", "Deactivating", "Failed"}

Signup ==
    [phase: {"live", "deleting"}, states: SUBSET States, label: Labels,
     count: 0..MaxCount,               \* activation counter annotation
     complete: True \cup False \cup {"none"},
     since: 0..2,                      \* 1: its status is older than unverified users are
                                       \* kept, 2: than deactivated ones are
     told: BOOLEAN,                    \* is DeactivatedNotificationCreated True?
     warned: BOOLEAN, due: BOOLEAN,    \* is DeactivatingNotificationCreated True, and since long enough?
     scheduled: BOOLEAN,               \* Status.ScheduledDeactivationTimestamp
     name: {0} \cup Names,             \* Status.CompliantUsername
     home: {0} \cup Names,             \* Status.HomeSpace
     old: BOOLEAN]                     \* created before unverified users are kept

ASSUME NoneAssumption == None \notin Signup

\* new: not provisioned; aged: the user is to be warned; exempt: a tier without timeout.
Provisioned == {"provisioned", "aged", "exempt"}

Record == Provisioned \cup {"none", "new", "deleting"}

Flags == {"ready", "old", "deleting"}  \* of a Space; old: than deletionTimeThreshold

TypeOK ==
    /\ us \in Signup \cup {None} /\ usC \in Signup \cup {None} /\ banned \in BOOLEAN
    /\ \A m \in {mur, murC} : m \in [Names -> Record]
    /\ \A s \in {space, spaceC} : s \in [Names -> (SUBSET Flags) \cup {None}]
    /\ \A b \in {sb, sbC} : b \in [Names -> BOOLEAN]
    /\ ~scenario.lag => usC = us /\ murC = mur /\ spaceC = space /\ sbC = sb
    /\ queued \in BOOLEAN /\ queuedD \in SUBSET Names
    /\ pc \in {"idle", "label", "active", "calm", "warn", "warned", "record", "tell", "told", "status",
               "stop", "delete", "annotate", "create", "space", "home", "binding", "ready"}
    /\ pc # "idle" => obj \in Signup
    /\ seen \in [banned: BOOLEAN, name: {0} \cup Names, ready: BOOLEAN, created: BOOLEAN]
    /\ goal \in Labels
    /\ scenario \in Scenarios /\ edits \in 0..scenario.edits /\ faults \in 0..scenario.faults

NewSignup == [phase |-> "live", states |-> {"approved"}, label |-> "none", count |-> 0,
              complete |-> "none", since |-> 0, told |-> FALSE, warned |-> FALSE, due |-> FALSE,
              scheduled |-> FALSE, name |-> 0, home |-> 0, old |-> FALSE]

Nothing == [banned |-> FALSE, name |-> 0, ready |-> FALSE, created |-> FALSE]

SignupInit ==
    /\ us = NewSignup /\ usC = us /\ banned = FALSE
    /\ mur = [n \in Names |-> "none"] /\ murC = mur
    /\ space = [n \in Names |-> None] /\ spaceC = space
    /\ sb = [n \in Names |-> FALSE] /\ sbC = sb
    /\ queued = TRUE /\ queuedD = {}
    /\ pc = "idle" /\ obj = None /\ seen = Nothing /\ goal = "none"
    /\ scenario \in Scenarios /\ edits = 0 /\ faults = 0

-----------------------------------------------------------------------------
Fault == faults < scenario.faults /\ faults' = faults + 1 /\ UNCHANGED <<edits, scenario>>

Edit(kind) == kind \in scenario.kinds /\ edits < scenario.edits /\ edits' = edits + 1 /\ UNCHANGED <<faults, scenario>>

\* UserSignupChangedPredicate.
Changed(old, new) ==
    old = None \/ new = None \/ old.states # new.states \/ old.phase # new.phase \/ old.label # new.label

\* MapUserSignupToMasterUserRecord.
Mapped(o) == IF ~scenario.time \/ o = None \/ o.name = 0 THEN {} ELSE {o.name}

\* CreateAndUpdateOnlyPredicate: only the end of a record is no event for the Deactivation controller.
Updated(old, new) ==
    IF scenario.time THEN {n \in Names : new[n] \notin {"none", old[n]}} ELSE {}

Current == usC = us /\ murC = mur /\ spaceC = space /\ sbC = sb

\* A cache follows its object at once or later; one of them is behind by one change.
Follow(copy, now) == IF scenario.lag THEN Current /\ copy' = copy ELSE copy' = now

\* Does a change bring an event at once?
Now == ~scenario.lag

SetUs(o) ==
    /\ us' = o /\ Follow(usC, o)
    /\ queuedD' = IF Now THEN queuedD \cup Mapped(o) ELSE queuedD

SetMur(m) ==
    /\ mur' = m /\ Follow(murC, m)
    /\ queuedD' = IF Now THEN queuedD \cup Updated(mur, m) ELSE queuedD

SetSpaces(s) == space' = s /\ Follow(spaceC, s)

SetBindings(b) == sb' = b /\ Follow(sbC, b)

signupObjects  == <<us, usC>>
recordObjects  == <<mur, murC>>
spaceObjects   == <<space, spaceC>>
bindingObjects == <<sb, sbC>>

-----------------------------------------------------------------------------
IsTrue(reason) == reason \in True

\* AddOrUpdateStatusConditions: the transition time moves when the status changes.
Complete(o, reason) ==
    [o EXCEPT !.complete = reason,
              !.since = IF @ > 0 /\ IsTrue(reason) = IsTrue(o.complete) THEN @ ELSE 0]

Go(next) == pc' = next /\ UNCHANGED <<obj, seen, goal>>

Done == pc' = "idle" /\ obj' = None /\ seen' = Nothing /\ goal' = "none"

\* An error, with a status that can be written or not.
Retry == queued' = TRUE /\ Done /\ UNCHANGED <<us, usC, queuedD>>

ReportFailed ==
    /\ queued' = TRUE /\ Done
    /\ IF obj = us THEN SetUs(Complete(obj, "Failed")) ELSE UNCHANGED <<us, usC, queuedD>>

\* wrapErrorWithStatusUpdate.
Fail == ReportFailed /\ UNCHANGED boundVars

Break == Fault /\ (ReportFailed \/ Retry)

\* The UserSignup is written as o if it is another than the copy in hand; an outdated copy is
\* refused.  `Next` is what comes then, `Refused` what comes of an error.
Store(o, Next, Refused) ==
    \/ o = obj /\ Next /\ UNCHANGED <<us, usC, queued, queuedD, boundVars>>
    \/ /\ o # obj /\ obj = us /\ SetUs(o) /\ queued' = (queued \/ (Now /\ Changed(us, o)))
       /\ Next /\ UNCHANGED boundVars
    \/ o # obj /\ obj # us /\ Refused /\ UNCHANGED boundVars
    \/ o # obj /\ Fault /\ (Refused \/ Retry)

Continue(o, next) == obj' = o /\ pc' = next /\ UNCHANGED <<seen, goal>>

\* updateStatus, and then the next call.
Update(o, next) == Store(o, Continue(o, next), Retry)

\* The last update of a reconcile.
Finish(o) == Store(o, Done, Retry)

-----------------------------------------------------------------------------
(* Reconcile *)

\* A user who is not deactivated is not one who has been told so.
UserIsActive(o, b) ==
    IF ~b /\ "deactivated" \notin o.states THEN [o EXCEPT !.told = FALSE] ELSE o

NotInPreDeactivation(o, b) ==
    IF ~b /\ o.states \cap {"deactivated", "deactivating"} = {}
    THEN [o EXCEPT !.warned = FALSE, !.due = FALSE] ELSE o

\* The next call: an update that would change nothing is none.
AfterCalm(o) == IF "deactivating" \in o.states /\ ~o.warned THEN "warn" ELSE "record"

AfterActive(o, b) == IF NotInPreDeactivation(o, b) # o THEN "calm" ELSE AfterCalm(o)

First(o, b) == IF UserIsActive(o, b) # o THEN "active" ELSE AfterActive(o, b)

\* isUserBanned comes after the first state label.
Reconcile ==
    /\ pc = "idle" /\ queued /\ queued' = FALSE
    /\ IF usC = None \/ usC.phase = "deleting" THEN Done
       ELSE /\ obj' = usC
            /\ IF usC.label = "none"
               THEN pc' = "label" /\ goal' = "not-ready" /\ seen' = Nothing
               ELSE /\ pc' = First(usC, banned) /\ goal' = "none"
                    /\ seen' = [Nothing EXCEPT !.banned = banned]
    /\ UNCHANGED <<objectVars, banned, boundVars>>

SetUserIsActive ==
    LET o == UserIsActive(obj, seen.banned)
    IN  /\ pc = "active" /\ Update(o, AfterActive(o, seen.banned))
        /\ UNCHANGED <<banned, recordObjects, spaceObjects, bindingObjects>>

SetNotInPreDeactivation ==
    LET o == NotInPreDeactivation(obj, seen.banned)
    IN  /\ pc = "calm" /\ Update(o, AfterCalm(o))
        /\ UNCHANGED <<banned, recordObjects, spaceObjects, bindingObjects>>

\* sendDeactivatingNotification, sendDeactivatedNotification: the Notification is created unless
\* there is one.
Notify(next) ==
    /\ \/ Go(next) /\ UNCHANGED <<us, usC, queued, queuedD, boundVars>>
       \/ Fault /\ Retry
    /\ UNCHANGED <<banned, recordObjects, spaceObjects, bindingObjects>>

Warn == pc = "warn" /\ Notify("warned")

SetWarned ==
    /\ pc = "warned" /\ Update([obj EXCEPT !.warned = TRUE, !.due = FALSE], "record")
    /\ UNCHANGED <<banned, recordObjects, spaceObjects, bindingObjects>>

\* Mutant: a record that is being deleted counts as gone.
LiveRecords == {n \in Names : murC[n] \notin {"none", "deleting"}}

\* The MasterUserRecords with the UserSignup as their owner.
OwnRecords == {n \in Names : murC[n] # "none"}

\* Mutant: no Space is managed for anyone.
Unmanaged(label, name) ==
    CASE label = "banned" /\ name # 0 -> "stop"
      [] label = "approved" -> IF name # 0 THEN "ready" ELSE "annotate"
      [] OTHER -> "status"

\* After the label: on with the state `label` for a user with (name) or without (0) record.
AfterLabel(label, name) ==
    CASE label = "banned" /\ name # 0 -> "stop"
      [] label = "approved" -> IF name # 0 THEN "space" ELSE "annotate"
      [] OTHER -> "status"

SetGoal(label, name) ==
    /\ goal' = label
    /\ pc' = IF obj.label = label THEN AfterLabel(label, name) ELSE "label"

\* checkIfMurAlreadyExists.  Two records are an error; a rejected user keeps the record.
FindRecord ==
    /\ pc = "record" /\ OwnRecords # {}
    /\ IF Cardinality(OwnRecords) > 1 THEN Fail
       ELSE /\ \E n \in OwnRecords :
                  /\ seen' = [seen EXCEPT !.name = n, !.ready = murC[n] \in Provisioned]
                  /\ CASE seen.banned -> SetGoal("banned", n)
                       [] ~seen.banned /\ "deactivated" \in obj.states -> pc' = "stop" /\ UNCHANGED goal
                       [] OTHER -> SetGoal("approved", n)
            /\ UNCHANGED <<obj, queued, us, usC, queuedD, boundVars>>
    /\ UNCHANGED <<banned, recordObjects, spaceObjects, bindingObjects>>

\* What becomes of a user without record.
State(o) ==
    CASE "rejected" \in o.states -> "rejected"
      [] "deactivated" \in o.states -> "deactivated"
      [] "verification" \in o.states -> "none"
      [] "noprovisioning" \in o.states -> "no-provisioning"
      [] "approved" \in o.states -> "approved"
      [] OTHER -> "pending"

\* A user who was active is told of the deactivation; one who has to verify keeps the label.
NoRecord ==
    LET state == IF seen.banned THEN "banned" ELSE State(obj)
    IN  /\ pc = "record" /\ OwnRecords = {}
        /\ CASE state = "deactivated" /\ obj.label = "approved" /\ ~obj.told ->
                   pc' = "tell" /\ goal' = state
             [] state = "none" -> pc' = "status" /\ goal' = state
             [] OTHER -> SetGoal(state, 0)
        /\ UNCHANGED <<obj, seen, queued, objectVars, banned, boundVars>>

Tell == pc = "tell" /\ Notify("told")

SetTold ==
    /\ pc = "told" /\ Update([obj EXCEPT !.told = TRUE], "label")
    /\ UNCHANGED <<banned, recordObjects, spaceObjects, bindingObjects>>

\* Mutant: the activation is not counted.
Uncounted(o) == [o EXCEPT !.label = goal]

\* Mutant: a label that stands for no state.
AnyLabel(o) == [o EXCEPT !.label = "unknown"]

\* The label, and with approval the activation counter.
Labelled(o) ==
    [o EXCEPT !.label = goal, !.count = IF goal = "approved" /\ @ < MaxCount THEN @ + 1 ELSE @]

\* setStateLabel (for an approved user after the Approved condition, which is refused when this
\* is).
setStateLabel ==
    LET o == Labelled(obj)
    IN  /\ pc = "label"
        /\ Store(o,
                 /\ obj' = o /\ UNCHANGED goal
                 /\ IF goal = "not-ready"
                    THEN pc' = First(o, banned) /\ seen' = [seen EXCEPT !.banned = banned]
                    ELSE pc' = AfterLabel(goal, seen.name) /\ UNCHANGED seen,
                 ReportFailed)
        /\ UNCHANGED <<banned, recordObjects, spaceObjects, bindingObjects>>

Reason ==
    CASE goal = "banned" -> "Banned" [] goal = "rejected" -> "Rejected"
      [] goal = "deactivated" -> "Deactivated" [] goal = "none" -> "Verification"
      [] goal = "no-provisioning" -> "NoProvisioning" [] goal = "pending" -> "Pending"

SetStatus ==
    /\ pc = "status" /\ Finish(Complete(obj, Reason))
    /\ UNCHANGED <<banned, recordObjects, spaceObjects, bindingObjects>>

-----------------------------------------------------------------------------
(* deleteMasterUserRecord *)

SetStopping ==
    /\ pc = "stop"
    /\ Update(Complete(obj, IF seen.banned THEN "Banning" ELSE "Deactivating"), "delete")
    /\ UNCHANGED <<banned, recordObjects, spaceObjects, bindingObjects>>

\* A record that its controller has not taken up is gone at once.
Deleted(m) == IF m \in {"none", "new"} THEN "none" ELSE "deleting"

DeleteRecord ==
    /\ pc = "delete"
    /\ \/ /\ SetMur([mur EXCEPT ![seen.name] = Deleted(@)])
          /\ \/ Done /\ queued' = (queued \/ (Now /\ mur' # mur)) /\ UNCHANGED boundVars
             \/ Done /\ queued' = TRUE /\ Fault
          /\ UNCHANGED signupObjects
       \/ Break /\ UNCHANGED recordObjects
    /\ UNCHANGED <<banned, spaceObjects, bindingObjects>>

-----------------------------------------------------------------------------
(* ensureNewMurIfApproved, for a user with a cluster to go to *)

\* provisionMasterUserRecord writes the cluster into an annotation.
Annotate ==
    /\ pc = "annotate"
    /\ \/ obj = us /\ Go("create") /\ UNCHANGED <<us, usC, queued, queuedD, boundVars>>
       \/ obj # us /\ Fail
       \/ Break
    /\ UNCHANGED <<banned, recordObjects, spaceObjects, bindingObjects>>

\* generateCompliantUsername: the first name without record and Space, unless the user's own
\* record comes before.
CompliantUsername ==
    {n \in Names : /\ murC[n] = "none" /\ spaceC[n] = None
                   /\ \A k \in 1..(n - 1) : murC[k] = "none" /\ spaceC[k] # None}

CreateRecord ==
    /\ pc = "create"
    /\ \/ \E n \in CompliantUsername :
             /\ mur[n] = "none" /\ SetMur([mur EXCEPT ![n] = "new"]) /\ UNCHANGED signupObjects
             /\ \/ Done /\ queued' = (queued \/ Now) /\ UNCHANGED boundVars
                \/ Done /\ queued' = TRUE /\ Fault
       \/ (\A n \in CompliantUsername : mur[n] # "none") /\ Fail /\ UNCHANGED recordObjects
       \/ Break /\ UNCHANGED recordObjects
    /\ UNCHANGED <<banned, spaceObjects, bindingObjects>>

-----------------------------------------------------------------------------
(* ensureSpace, ensureSpaceBinding, the last status *)

EnsureSpace ==
    LET s == spaceC[seen.name]
    IN  /\ pc = "space"
        /\ \/ /\ s # None /\ "deleting" \notin s
              /\ pc' = IF obj.home = seen.name THEN "binding" ELSE "home"
              /\ seen' = [seen EXCEPT !.ready = @ /\ "ready" \in s]
              /\ UNCHANGED <<us, usC, obj, goal, queued, queuedD, spaceObjects, boundVars>>
           \/ /\ s = None /\ space[seen.name] = None
              /\ SetSpaces([space EXCEPT ![seen.name] = {}]) /\ UNCHANGED <<us, usC, queuedD>>
              /\ pc' = "home" /\ seen' = [seen EXCEPT !.created = TRUE]
              /\ queued' = (queued \/ Now) /\ UNCHANGED <<obj, goal, boundVars>>
        /\ UNCHANGED <<banned, recordObjects, bindingObjects>>

\* The Space is on its way out, has been made behind the cache, or a call fails.
CannotEnsureSpace ==
    LET s == spaceC[seen.name]
    IN  /\ pc = "space"
        /\ \/ s # None /\ "deleting" \in s /\ Fail /\ UNCHANGED spaceObjects
           \/ s = None /\ space[seen.name] # None /\ Fail /\ UNCHANGED spaceObjects
           \/ Break /\ UNCHANGED spaceObjects
           \/ /\ s = None /\ space[seen.name] = None /\ SetSpaces([space EXCEPT ![seen.name] = {}])
              /\ Fault /\ Retry
        /\ UNCHANGED <<banned, recordObjects, bindingObjects>>

\* updateStatusHomeSpace; after a Space that has just been made another event comes.
SetHomeSpace ==
    LET o == [obj EXCEPT !.home = seen.name]
    IN  /\ pc = "home" /\ ((seen.created /\ Finish(o)) \/ (~seen.created /\ Update(o, "binding")))
        /\ UNCHANGED <<banned, recordObjects, spaceObjects, bindingObjects>>

EnsureSpaceBinding ==
    /\ pc = "binding"
    /\ \/ sbC[seen.name] /\ Go("ready") /\ UNCHANGED <<us, usC, queued, queuedD, bindingObjects, boundVars>>
       \/ /\ ~sbC[seen.name] /\ ~sb[seen.name]
          /\ SetBindings([sb EXCEPT ![seen.name] = TRUE]) /\ UNCHANGED <<us, usC, queuedD>>
          /\ \/ Go("ready") /\ queued' = (queued \/ Now) /\ UNCHANGED boundVars
             \/ Done /\ queued' = TRUE /\ Fault
       \/ ~sbC[seen.name] /\ sb[seen.name] /\ Fail /\ UNCHANGED bindingObjects
       \/ Break /\ UNCHANGED bindingObjects
    /\ UNCHANGED <<banned, recordObjects, spaceObjects>>

\* updateIncompleteStatus or updateCompleteStatus.
SetComplete ==
    /\ pc = "ready"
    /\ Finish(IF ~seen.ready /\ ~IsTrue(obj.complete)
              THEN Complete(obj, "Provisioning")
              ELSE [Complete(obj, "Complete") EXCEPT !.name = seen.name])
    /\ UNCHANGED <<banned, recordObjects, spaceObjects, bindingObjects>>

-----------------------------------------------------------------------------
SignupController ==
    \/ Reconcile \/ SetUserIsActive \/ SetNotInPreDeactivation \/ Warn \/ SetWarned
    \/ FindRecord \/ NoRecord \/ Tell \/ SetTold \/ setStateLabel \/ SetStatus
    \/ SetStopping \/ DeleteRecord \/ Annotate \/ CreateRecord
    \/ EnsureSpace \/ CannotEnsureSpace \/ SetHomeSpace \/ EnsureSpaceBinding \/ SetComplete

=============================================================================
