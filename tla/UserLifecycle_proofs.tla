-------------------------- MODULE UserLifecycle_proofs --------------------------
(***************************************************************************)
(* No account without a counted activation, for any names, edits, failures  *)
(* and caches that lag; and one MasterUserRecord at a time when they do     *)
(* not.                                                                    *)
(***************************************************************************)
EXTENDS UserLifecycle, FiniteSetTheorems, TLAPS

-----------------------------------------------------------------------------
(***************************************************************************)
(* Types, with what the reconcile in progress knows about its next call.    *)
(***************************************************************************)
Copies == us \in Signup \cup {None} /\ usC \in Signup \cup {None} /\ (~scenario.lag => usC = us)

Records == mur \in [Names -> Record] /\ murC \in [Names -> Record] /\ (~scenario.lag => murC = mur)

Spaces ==
    /\ space \in [Names -> (SUBSET Flags) \cup {None}] /\ spaceC \in [Names -> (SUBSET Flags) \cup {None}]
    /\ ~scenario.lag => spaceC = space

Bindings ==
    /\ sb \in [Names -> BOOLEAN] /\ sbC \in [Names -> BOOLEAN]
    /\ ~scenario.lag => sbC = sb

Queues == queued \in BOOLEAN /\ queuedD \in SUBSET Names

Phases ==
    {"idle", "label", "active", "calm", "warn", "warned", "record", "tell", "told", "status",
     "stop", "delete", "annotate", "create", "space", "home", "binding", "ready"}

\* Calls about the record that was found.
WithRecord == {"stop", "delete", "space", "home", "binding", "ready"}

\* What may become of a user without record who is not approved.
Without == {"banned", "rejected", "deactivated", "none", "no-provisioning", "pending"}

Work ==
    /\ pc \in Phases /\ (pc # "idle" => obj \in Signup)
    /\ seen \in [banned: BOOLEAN, name: {0} \cup Names, ready: BOOLEAN, created: BOOLEAN]
    /\ goal \in Labels
    /\ pc \in WithRecord => seen.name \in Names
    /\ pc = "label" => goal # "none"
    /\ pc = "status" => goal \in Without
    /\ pc \in {"tell", "told"} => goal = "deactivated"

Bounds == scenario \in Scenarios /\ edits \in 0..scenario.edits /\ faults \in 0..scenario.faults

\* p is as old and as approved as o.
Alike(p, o) == p \in Signup /\ p.count = o.count /\ p.label = o.label

\* One update or two.
Updates(updates, o) ==
    \/ \E p \in Signup : updates = <<p>> /\ Alike(p, o)
    \/ \E p, q \in Signup : updates = <<p, q>> /\ Alike(p, o) /\ Alike(q, o)

Plans ==
    /\ held \in Signup \cup {None}
    /\ plan = <<>> \/ (held \in Signup /\ Updates(plan, held))

Sentences ==
    /\ sentence \in {"none", "delete", "deactivate"} /\ heldK \in Signup \cup {None}
    /\ sentence # "none" => heldK \in Signup

Spares == spare \in {0} \cup Names

TypeInv ==
    /\ Copies /\ banned \in BOOLEAN /\ Records /\ Spaces /\ Bindings /\ Queues /\ Work /\ Bounds
    /\ Plans /\ Sentences /\ Spares

LEMMA Types == TypeInv => LifecycleTypeOK
<1> SUFFICES ASSUME TypeInv PROVE LifecycleTypeOK
  OBVIOUS
<1>1. TypeOK
  BY DEF TypeInv, Copies, Records, Spaces, Bindings, Queues, Work, Bounds, Phases, TypeOK
<1>2. Len(plan) \in 0..2 /\ (plan # <<>> => held \in Signup)
  BY DEF TypeInv, Plans, Updates
<1> QED
  BY <1>1, <1>2 DEF TypeInv, Plans, Sentences, Spares, LifecycleTypeOK

LEMMA NamesAreNumbers == 0 \notin Names /\ None \notin Names /\ None \notin Signup
  BY SignupsAssumption, NoneAssumption DEF SignupsAssumption, Names

LEMMA ScenarioType ==
    ASSUME NEW s \in Scenarios
    PROVE  s.lag \in BOOLEAN /\ s.edits \in Nat /\ s.faults \in Nat
  BY SignupsAssumption DEF SignupsAssumption

-----------------------------------------------------------------------------
(***************************************************************************)
(* The forms in which a UserSignup is written.                             *)
(***************************************************************************)
LEMMA SignupFields ==
    ASSUME NEW o \in Signup
    PROVE  /\ o.states \in SUBSET States /\ o.label \in Labels /\ o.count \in 0..MaxCount
           /\ o.complete \in True \cup False \cup {"none"} /\ o.since \in 0..2
           /\ o.told \in BOOLEAN /\ o.warned \in BOOLEAN /\ o.name \in {0} \cup Names
           /\ o.home \in {0} \cup Names /\ o.phase \in {"live", "deleting"}
  BY DEF Signup

LEMMA WithStates == ASSUME NEW o \in Signup, NEW s \in SUBSET States PROVE Alike([o EXCEPT !.states = s], o)
  BY DEF Signup, Alike

LEMMA WithTold == ASSUME NEW o \in Signup, NEW b \in BOOLEAN PROVE Alike([o EXCEPT !.told = b], o)
  BY DEF Signup, Alike

LEMMA WithWarned ==
    ASSUME NEW o \in Signup, NEW b \in BOOLEAN
    PROVE  Alike([o EXCEPT !.warned = b, !.due = FALSE], o)
  BY DEF Signup, Alike

LEMMA WithScheduled == ASSUME NEW o \in Signup, NEW b \in BOOLEAN PROVE Alike([o EXCEPT !.scheduled = b], o)
  BY DEF Signup, Alike

LEMMA WithNames ==
    ASSUME NEW o \in Signup, NEW n \in {0} \cup Names
    PROVE  Alike([o EXCEPT !.home = n], o) /\ Alike([o EXCEPT !.name = n], o)
  BY DEF Signup, Alike

LEMMA WithAge ==
    ASSUME NEW o \in Signup
    PROVE  /\ Alike([o EXCEPT !.old = TRUE], o) /\ Alike([o EXCEPT !.due = TRUE], o)
           /\ Alike([o EXCEPT !.phase = "deleting"], o)
           /\ \A s \in 0..2 : Alike([o EXCEPT !.since = s], o)
  BY DEF Signup, Alike

LEMMA WithComplete ==
    ASSUME NEW o \in Signup, NEW r \in True \cup False
    PROVE  Alike(Complete(o, r), o)
<1>1. ASSUME NEW s \in 0..2 PROVE Alike([o EXCEPT !.complete = r, !.since = s], o)
  BY DEF Signup, Alike
<1> DEFINE s == IF o.since > 0 /\ IsTrue(r) = IsTrue(o.complete) THEN o.since ELSE 0
<1>2. s \in 0..2
  BY SignupFields
<1>3. Complete(o, r) = [o EXCEPT !.complete = r, !.since = s]
  BY DEF Complete
<1> HIDE DEF s
<1> QED
  BY <1>1, <1>2, <1>3

LEMMA AlikeTrans == ASSUME NEW o, NEW p, NEW q, Alike(q, p), Alike(p, o) PROVE Alike(q, o)
  BY DEF Alike

LEMMA AlikeSelf == ASSUME NEW o \in Signup PROVE Alike(o, o)
  BY DEF Alike

LEMMA ActiveForms ==
    ASSUME NEW o \in Signup, NEW b \in BOOLEAN
    PROVE  Alike(UserIsActive(o, b), o) /\ Alike(NotInPreDeactivation(o, b), o)
  BY WithTold, WithWarned, AlikeSelf DEF UserIsActive, NotInPreDeactivation

LEMMA DeactivationForms ==
    ASSUME NEW o \in Signup, NEW b \in BOOLEAN
    PROVE  /\ Alike(SetDeactivated(o), o) /\ Alike(Scheduled(o, b), o)
           /\ Alike(SetDeactivating(o, b), o) /\ Alike(ResetToDeactivated(o), o)
<1>1. Alike(SetDeactivated(o), o)
  BY SignupFields, WithStates DEF SetDeactivated, States
<1>2. Alike(SetDeactivating(o, b), o)
  BY SignupFields, WithStates DEF SetDeactivating, States
<1>3. Alike(ResetToDeactivated(o), o)
  <2>1. SetDeactivated(o) \in Signup
    BY <1>1 DEF Alike
  <2>2. Alike(ResetToDeactivated(o), SetDeactivated(o))
    BY <2>1, SignupFields, WithStates DEF ResetToDeactivated
  <2> QED
    BY <1>1, <2>2, AlikeTrans
<1> QED
  BY <1>1, <1>2, <1>3, WithScheduled DEF Scheduled

\* Approved users have been counted.
CountOK(o) == o.label = "approved" => o.count > 0

LEMMA LabelledCounts ==
    ASSUME obj \in Signup, goal \in Labels, CountOK(obj)
    PROVE  /\ Labelled(obj) \in Signup /\ Labelled(obj).label = goal
           /\ Labelled(obj).count >= obj.count /\ CountOK(Labelled(obj))
<1> DEFINE c == IF goal = "approved" /\ obj.count < MaxCount THEN obj.count + 1 ELSE obj.count
<1>1. obj.count \in 0..MaxCount /\ MaxCount \in Nat \ {0}
  BY SignupsAssumption, SignupFields DEF SignupsAssumption
<1>2. c \in 0..MaxCount /\ c >= obj.count /\ (goal = "approved" => c > 0)
  BY <1>1
<1>3. Labelled(obj) = [obj EXCEPT !.label = goal, !.count = c]
  BY DEF Labelled
<1> HIDE DEF c
<1>4. Labelled(obj) \in Signup /\ Labelled(obj).label = goal /\ Labelled(obj).count = c
  BY <1>2, <1>3 DEF Signup
<1> QED
  BY <1>2, <1>4 DEF CountOK

LEMMA AlikeCounts ==
    ASSUME NEW o \in Signup, NEW p, Alike(p, o), CountOK(o)
    PROVE  p \in Signup /\ p.count >= o.count /\ CountOK(p)
<1>1. o.count \in Int
  BY SignupFields, SignupsAssumption DEF SignupsAssumption
<1> QED
  BY <1>1 DEF Alike, CountOK

-----------------------------------------------------------------------------
(***************************************************************************)
(* What a step may do to the UserSignup and to the records.                *)
(***************************************************************************)
\* p is written over o: it counts at least as many activations.
Newer(o, p) == o # None /\ p \in Signup /\ p.count >= o.count /\ CountOK(p)

CopiesStep ==
    /\ us' = us \/ us' = None \/ Newer(us, us')
    /\ usC' = usC \/ usC' = us'
    /\ ~scenario.lag => usC' = us'

\* No new record.
RecordsStep ==
    /\ mur' \in [Names -> Record] /\ (murC' = murC \/ murC' = mur')
    /\ ~scenario.lag => murC' = mur'
    /\ \A n \in Names : mur[n] = "none" => mur'[n] = "none"

LEMMA CopiesKept == ASSUME Copies, UNCHANGED <<us, usC>> PROVE CopiesStep
  BY DEF Copies, CopiesStep

LEMMA RecordsKept == ASSUME Records, UNCHANGED recordObjects PROVE RecordsStep
  BY DEF Records, RecordsStep, recordObjects

LEMMA CopiesTyped == ASSUME Copies, CopiesStep, UNCHANGED scenario PROVE Copies'
  BY DEF Copies, CopiesStep, Newer

LEMMA RecordsTyped == ASSUME Records, RecordsStep, UNCHANGED scenario PROVE Records'
  BY DEF Records, RecordsStep

LEMMA MappedType == ASSUME NEW o \in Signup \cup {None} PROVE Mapped(o) \in SUBSET Names
  BY SignupFields DEF Mapped

LEMMA UpdatedType == ASSUME NEW old, NEW new PROVE Updated(old, new) \in SUBSET Names
  BY DEF Updated

LEMMA SetUsStep ==
    ASSUME Copies, Queues, NEW o, o = None \/ Newer(us, o), SetUs(o)
    PROVE  CopiesStep /\ queuedD' \in SUBSET Names
<1>1. o \in Signup \cup {None}
  BY DEF Newer
<1>2. queuedD' \in SUBSET Names
  BY <1>1, MappedType DEF SetUs, Queues
<1>3. CopiesStep
  BY DEF SetUs, Follow, CopiesStep
<1> QED
  BY <1>2, <1>3

LEMMA SetMurStep ==
    ASSUME Records, Queues, NEW m \in [Names -> Record], SetMur(m)
    PROVE  /\ mur' = m /\ queuedD' \in SUBSET Names /\ (murC' = murC \/ murC' = m)
           /\ ~scenario.lag => murC' = m
           /\ (\A n \in Names : mur[n] = "none" => m[n] = "none") => RecordsStep
<1>1. queuedD' \in SUBSET Names
  BY UpdatedType DEF SetMur, Queues
<1>2. mur' = m /\ (murC' = murC \/ murC' = m) /\ (~scenario.lag => murC' = m)
  BY DEF SetMur, Follow
<1> QED
  BY <1>1, <1>2 DEF RecordsStep

LEMMA SetSpacesStep ==
    ASSUME Spaces, NEW s \in [Names -> (SUBSET Flags) \cup {None}], SetSpaces(s), UNCHANGED scenario
    PROVE  Spaces'
  BY DEF SetSpaces, Follow, Spaces

LEMMA SetBindingsStep ==
    ASSUME Bindings, NEW b \in [Names -> BOOLEAN], SetBindings(b), UNCHANGED scenario
    PROVE  Bindings'
  BY DEF SetBindings, Follow, Bindings

BoundsStep == UNCHANGED boundVars \/ Fault \/ \E k \in Kinds : Edit(k)

LEMMA BoundStep == ASSUME Bounds, BoundsStep PROVE Bounds' /\ UNCHANGED scenario
<1>1. scenario.edits \in Nat /\ scenario.faults \in Nat
  BY ScenarioType DEF Bounds
<1> QED
  BY <1>1 DEF Bounds, BoundsStep, Fault, Edit, boundVars

-----------------------------------------------------------------------------
(***************************************************************************)
(* The reconcile of the UserSignup controller: how its calls succeed each   *)
(* other, and what it writes.                                              *)
(***************************************************************************)
\* The user is on the way to a record.
Awaiting ==
    \/ pc \in {"annotate", "create"}
    \/ pc = "label" /\ goal = "approved" /\ seen.name = 0

WorkInv ==
    /\ Work /\ (pc # "idle" => CountOK(obj))
    /\ pc = "annotate" => obj.label = "approved"

WorkStep ==
    /\ WorkInv'
    /\ pc' = "create" => pc = "create" \/ (pc = "annotate" /\ obj = us)
    /\ Awaiting' => Awaiting \/ \A n \in Names : murC[n] = "none"

ControlStep == CopiesStep /\ Queues' /\ BoundsStep /\ WorkStep

\* The calls that may come next, but for those on the way to a record.
Allowed(next) ==
    /\ next \in Phases \ {"idle", "annotate", "create"}
    /\ next \in WithRecord => seen.name \in Names
    /\ next = "label" => goal \notin {"none", "approved"}
    /\ next = "status" => goal \in Without
    /\ next \in {"tell", "told"} => goal = "deactivated"

LEMMA DoneStep == Done => WorkStep
  BY DEF Done, WorkStep, WorkInv, Work, Awaiting, Nothing, Labels, Phases, WithRecord

LEMMA GoStep == ASSUME WorkInv, NEW next, Allowed(next), Go(next), pc # "idle" PROVE WorkStep
  BY DEF Go, Allowed, WorkStep, WorkInv, Work, Awaiting

LEMMA ContinueStep ==
    ASSUME WorkInv, NEW o \in Signup, CountOK(o), NEW next, Allowed(next), Continue(o, next)
    PROVE  WorkStep
  BY DEF Continue, Allowed, WorkStep, WorkInv, Work, Awaiting

\* The UserSignup is left alone, or o is written over the copy in hand.
Writes(o) == UNCHANGED <<us, usC, queuedD>> \/ (obj = us /\ SetUs(o))

LEMMA WritesStep ==
    ASSUME Copies, Queues, obj \in Signup, NEW o \in Signup, o.count >= obj.count, CountOK(o), Writes(o)
    PROVE  CopiesStep /\ queuedD' \in SUBSET Names
<1>1. CASE UNCHANGED <<us, usC, queuedD>>
  BY <1>1, CopiesKept DEF Queues
<1>2. CASE obj = us /\ SetUs(o)
  <2>1. Newer(us, o)
    BY <1>2, NamesAreNumbers DEF Newer
  <2> QED
    BY <1>2, <2>1, SetUsStep
<1> QED
  BY <1>1, <1>2 DEF Writes

LEMMA FailedWrites ==
    ASSUME Copies, Queues, obj \in Signup, CountOK(obj), ReportFailed \/ Retry
    PROVE  CopiesStep /\ Queues' /\ WorkStep
<1>1. PICK o \in Signup : o = Complete(obj, "Failed") /\ o.count >= obj.count /\ CountOK(o)
  BY WithComplete, AlikeCounts DEF False
<1>2. Writes(o)
  BY <1>1 DEF ReportFailed, Retry, Writes, SetUs, Follow
<1>3. queued' = TRUE /\ Done
  BY DEF ReportFailed, Retry
<1>4. CopiesStep /\ queuedD' \in SUBSET Names
  BY <1>1, <1>2, WritesStep
<1>5. Queues'
  BY <1>3, <1>4 DEF Queues
<1> QED
  BY <1>3, <1>4, <1>5, DoneStep

LEMMA FailStep ==
    ASSUME TypeInv, WorkInv, pc # "idle", Fail \/ Break
    PROVE  ControlStep
  BY FailedWrites DEF Fail, Break, TypeInv, WorkInv, Work, ControlStep, BoundsStep

LEMMA StoreStep ==
    ASSUME TypeInv, WorkInv, pc # "idle", NEW o \in Signup, o.count >= obj.count, CountOK(o),
           Writes(o), queued' \in BOOLEAN, BoundsStep, WorkStep
    PROVE  ControlStep
  BY WritesStep DEF TypeInv, WorkInv, Work, ControlStep, Queues

LEMMA UpdateStep ==
    ASSUME TypeInv, WorkInv, pc # "idle", NEW o, Alike(o, obj), NEW next, Allowed(next), Update(o, next)
    PROVE  ControlStep
<1>1. obj \in Signup /\ o \in Signup /\ o.count >= obj.count /\ CountOK(o)
  BY AlikeCounts DEF WorkInv, Work
<1>2. \/ /\ Continue(o, next) /\ Writes(o) /\ UNCHANGED boundVars
         /\ UNCHANGED queued \/ queued' = (queued \/ (Now /\ Changed(us, o)))
      \/ Retry /\ BoundsStep
  BY DEF Update, Store, Writes, BoundsStep
<1>3. CASE Retry /\ BoundsStep
  BY <1>1, <1>3, FailedWrites DEF TypeInv, WorkInv, ControlStep
<1>4. CASE /\ Continue(o, next) /\ Writes(o) /\ UNCHANGED boundVars
           /\ UNCHANGED queued \/ queued' = (queued \/ (Now /\ Changed(us, o)))
  <2>1. queued' \in BOOLEAN
    BY <1>4 DEF TypeInv, Queues
  <2> QED
    BY <1>1, <1>4, <2>1, ContinueStep, StoreStep DEF BoundsStep
<1> QED
  BY <1>2, <1>3, <1>4

LEMMA FinishStep ==
    ASSUME TypeInv, WorkInv, pc # "idle", NEW o, Alike(o, obj), Finish(o)
    PROVE  ControlStep
<1>1. obj \in Signup /\ o \in Signup /\ o.count >= obj.count /\ CountOK(o)
  BY AlikeCounts DEF WorkInv, Work
<1>2. \/ /\ Done /\ Writes(o) /\ UNCHANGED boundVars
         /\ UNCHANGED queued \/ queued' = (queued \/ (Now /\ Changed(us, o)))
      \/ Retry /\ BoundsStep
  BY DEF Finish, Store, Writes, BoundsStep
<1>3. CASE Retry /\ BoundsStep
  BY <1>1, <1>3, FailedWrites DEF TypeInv, WorkInv, ControlStep
<1>4. CASE /\ Done /\ Writes(o) /\ UNCHANGED boundVars
           /\ UNCHANGED queued \/ queued' = (queued \/ (Now /\ Changed(us, o)))
  <2>1. queued' \in BOOLEAN
    BY <1>4 DEF TypeInv, Queues
  <2> QED
    BY <1>1, <1>4, <2>1, DoneStep, StoreStep DEF BoundsStep
<1> QED
  BY <1>2, <1>3, <1>4


LEMMA ActiveControl == ASSUME TypeInv, WorkInv, SetUserIsActive \/ SetNotInPreDeactivation PROVE ControlStep
<1>0. obj \in Signup /\ seen.banned \in BOOLEAN
  BY DEF SetUserIsActive, SetNotInPreDeactivation, WorkInv, Work
<1>1. CASE SetUserIsActive
  <2>1. PICK o : o = UserIsActive(obj, seen.banned)
    OBVIOUS
  <2>2. PICK next : next = AfterActive(o, seen.banned)
    OBVIOUS
  <2>3. Update(o, next) /\ pc # "idle"
    BY <1>1, <2>1, <2>2 DEF SetUserIsActive, Update, Store, Continue, SetUs, Follow
  <2>4. Allowed(next)
    BY <2>2 DEF AfterActive, AfterCalm, Allowed, Phases, WithRecord
  <2> QED
    BY <1>0, <2>1, <2>3, <2>4, ActiveForms, UpdateStep
<1>2. CASE SetNotInPreDeactivation
  <2>1. PICK o : o = NotInPreDeactivation(obj, seen.banned)
    OBVIOUS
  <2>2. PICK next : next = AfterCalm(o)
    OBVIOUS
  <2>3. Update(o, next) /\ pc # "idle"
    BY <1>2, <2>1, <2>2 DEF SetNotInPreDeactivation, Update, Store, Continue, SetUs, Follow
  <2>4. Allowed(next)
    BY <2>2 DEF AfterCalm, Allowed, Phases, WithRecord
  <2> QED
    BY <1>0, <2>1, <2>3, <2>4, ActiveForms, UpdateStep
<1> QED
  BY <1>1, <1>2


LEMMA StatusControl ==
    ASSUME TypeInv, WorkInv, SetWarned \/ SetTold \/ SetStatus \/ SetStopping \/ SetHomeSpace \/ SetComplete
    PROVE  ControlStep
<1>0. obj \in Signup /\ seen.name \in {0} \cup Names
  BY DEF SetWarned, SetTold, SetStatus, SetStopping, SetHomeSpace, SetComplete, WorkInv, Work
<1>1. CASE SetWarned
  <2>1. PICK o : o = [obj EXCEPT !.warned = TRUE, !.due = FALSE]
    OBVIOUS
  <2>2. Update(o, "record") /\ pc # "idle"
    BY <1>1, <2>1 DEF SetWarned, Update, Store, Continue, SetUs, Follow
  <2>3. Allowed("record")
    BY DEF Allowed, Phases, WithRecord
  <2> QED
    BY <1>0, <2>1, <2>2, <2>3, WithWarned, UpdateStep
<1>2. CASE SetTold
  <2>1. PICK o : o = [obj EXCEPT !.told = TRUE]
    OBVIOUS
  <2>2. Update(o, "label") /\ pc # "idle"
    BY <1>2, <2>1 DEF SetTold, Update, Store, Continue, SetUs, Follow
  <2>3. Allowed("label")
    BY <1>2 DEF SetTold, WorkInv, Work, Allowed, Phases, WithRecord
  <2> QED
    BY <1>0, <2>1, <2>2, <2>3, WithTold, UpdateStep
<1>3. CASE SetStatus
  <2>1. PICK o : o = Complete(obj, Reason)
    OBVIOUS
  <2>2. Finish(o) /\ pc # "idle"
    BY <1>3, <2>1 DEF SetStatus, Finish, Store, SetUs, Follow
  <2>3. Reason \in True \cup False
    BY <1>3 DEF SetStatus, WorkInv, Work, Without, Reason, True, False
  <2> QED
    BY <1>0, <2>1, <2>2, <2>3, WithComplete, FinishStep
<1>4. CASE SetStopping
  <2>1. PICK r \in True \cup False : r = IF seen.banned THEN "Banning" ELSE "Deactivating"
    BY DEF False
  <2>2. PICK o : o = Complete(obj, r)
    OBVIOUS
  <2>3. Update(o, "delete") /\ pc # "idle"
    BY <1>4, <2>1, <2>2 DEF SetStopping, Update, Store, Continue, SetUs, Follow
  <2>4. Allowed("delete")
    BY <1>4 DEF SetStopping, WorkInv, Work, Allowed, Phases, WithRecord
  <2> QED
    BY <1>0, <2>2, <2>3, <2>4, WithComplete, UpdateStep
<1>5. CASE SetHomeSpace
  <2>1. PICK o : o = [obj EXCEPT !.home = seen.name]
    OBVIOUS
  <2>2. Finish(o) \/ Update(o, "binding")
    BY <1>5, <2>1 DEF SetHomeSpace, Finish, Update, Store, Continue, SetUs, Follow
  <2>3. Allowed("binding") /\ pc # "idle"
    BY <1>5 DEF SetHomeSpace, WorkInv, Work, Allowed, Phases, WithRecord
  <2> QED
    BY <1>0, <2>1, <2>2, <2>3, WithNames, UpdateStep, FinishStep
<1>6. CASE SetComplete
  <2>1. PICK o : o = IF ~seen.ready /\ ~IsTrue(obj.complete)
                     THEN Complete(obj, "Provisioning")
                     ELSE [Complete(obj, "Complete") EXCEPT !.name = seen.name]
    OBVIOUS
  <2>2. Finish(o) /\ pc # "idle"
    BY <1>6, <2>1 DEF SetComplete, Finish, Store, SetUs, Follow
  <2>3. Alike(Complete(obj, "Provisioning"), obj) /\ Alike(Complete(obj, "Complete"), obj)
    BY <1>0, WithComplete DEF True, False
  <2>4. Alike([Complete(obj, "Complete") EXCEPT !.name = seen.name], obj)
    <3>1. Complete(obj, "Complete") \in Signup
      BY <2>3 DEF Alike
    <3>2. Alike([Complete(obj, "Complete") EXCEPT !.name = seen.name], Complete(obj, "Complete"))
      BY <1>0, <3>1, WithNames
    <3> QED
      BY <2>3, <3>2, AlikeTrans
  <2> QED
    BY <2>1, <2>2, <2>3, <2>4, FinishStep
<1> QED
  BY <1>1, <1>2, <1>3, <1>4, <1>5, <1>6

LEMMA NotifyControl == ASSUME TypeInv, WorkInv, Warn \/ Tell PROVE ControlStep
<1>1. ASSUME NEW next, Notify(next), Allowed(next), pc # "idle" PROVE ControlStep
  <2>1. CASE Go(next) /\ UNCHANGED <<us, usC, queued, queuedD, boundVars>>
    BY <1>1, <2>1, GoStep, CopiesKept DEF ControlStep, TypeInv, Queues, BoundsStep
  <2>2. CASE Fault /\ Retry
    BY <1>1, <2>2, FailStep DEF Break
  <2> QED
    BY <1>1, <2>1, <2>2 DEF Notify
<1>2. CASE Warn
  <2>1. Notify("warned") /\ pc # "idle"
    BY <1>2 DEF Warn
  <2>2. Allowed("warned")
    BY DEF Allowed, Phases, WithRecord
  <2> QED
    BY <1>1, <2>1, <2>2
<1>3. CASE Tell
  <2>1. Notify("told") /\ pc # "idle"
    BY <1>3 DEF Tell
  <2>2. Allowed("told")
    BY <1>3 DEF Tell, WorkInv, Work, Allowed, Phases, WithRecord
  <2> QED
    BY <1>1, <2>1, <2>2
<1> QED
  BY <1>2, <1>3

CopiesCounted == (us # None => CountOK(us)) /\ (usC # None => CountOK(usC))

Seen == [banned: BOOLEAN, name: {0} \cup Names, ready: BOOLEAN, created: BOOLEAN]

LEMMA NothingSeen == Nothing \in Seen
  BY DEF Seen, Nothing

LEMMA SeenForms ==
    ASSUME NEW s \in Seen, NEW b \in BOOLEAN
    PROVE  /\ [s EXCEPT !.banned = b] \in Seen
           /\ [s EXCEPT !.ready = b] \in Seen /\ [s EXCEPT !.ready = b].name = s.name
           /\ [s EXCEPT !.created = b] \in Seen /\ [s EXCEPT !.created = b].name = s.name
           /\ \A n \in Names : /\ [s EXCEPT !.name = n, !.ready = b] \in Seen
                              /\ [s EXCEPT !.name = n, !.ready = b].name = n
  BY DEF Seen

LEMMA ReconcileControl ==
    ASSUME TypeInv, WorkInv, CopiesCounted, Reconcile
    PROVE  ControlStep
<1>1. CopiesStep /\ Queues' /\ BoundsStep
  BY CopiesKept DEF Reconcile, TypeInv, Queues, BoundsStep, objectVars
<1>2. CASE Done
  BY <1>1, <1>2, DoneStep DEF ControlStep
<1>3. CASE ~(usC = None \/ usC.phase = "deleting")
  <2>1. usC \in Signup /\ CountOK(usC) /\ obj' = usC
    BY <1>3 DEF Reconcile, TypeInv, Copies, CopiesCounted
  <2>2. pc' \in {"label", "active", "calm", "warn", "record"} /\ goal' \in {"not-ready", "none"}
        /\ (pc' = "label" => goal' = "not-ready")
    BY <1>3 DEF Reconcile, First, AfterActive, AfterCalm
  <2>3. seen' \in [banned: BOOLEAN, name: {0} \cup Names, ready: BOOLEAN, created: BOOLEAN]
    <3>1. Nothing \in Seen /\ [Nothing EXCEPT !.banned = banned] \in Seen
      BY NothingSeen, SeenForms DEF TypeInv
    <3>2. seen' = Nothing \/ seen' = [Nothing EXCEPT !.banned = banned]
      BY <1>3 DEF Reconcile
    <3> QED
      BY <3>1, <3>2 DEF Seen
  <2>4. WorkStep
    BY <2>1, <2>2, <2>3 DEF WorkStep, WorkInv, Work, Awaiting, Phases, WithRecord, Labels
  <2> QED
    BY <1>1, <2>4 DEF ControlStep
<1> QED
  BY <1>2, <1>3 DEF Reconcile

LEMMA FindControl == ASSUME TypeInv, WorkInv, FindRecord PROVE ControlStep
<1>1. CASE Fail
  BY <1>1, FailStep DEF FindRecord
<1>2. CASE ~Fail
  <2>1. PICK n \in OwnRecords :
           /\ seen' = [seen EXCEPT !.name = n, !.ready = murC[n] \in Provisioned]
           /\ \/ SetGoal("banned", n) \/ SetGoal("approved", n)
              \/ pc' = "stop" /\ UNCHANGED goal
    BY <1>2 DEF FindRecord
  <2>2. UNCHANGED <<obj, queued, us, usC, queuedD, boundVars>> /\ pc = "record"
    BY <1>2 DEF FindRecord
  <2>3. n \in Names /\ n # 0
    BY NamesAreNumbers DEF OwnRecords
  <2>4. seen' \in [banned: BOOLEAN, name: {0} \cup Names, ready: BOOLEAN, created: BOOLEAN] /\ seen'.name = n
    <3>1. PICK b \in BOOLEAN : b = (murC[n] \in Provisioned)
      <4>1. CASE murC[n] \in Provisioned
        BY <4>1, Zenon
      <4>2. CASE murC[n] \notin Provisioned
        <5>1. FALSE = (murC[n] \in Provisioned)
          BY <4>2
        <5> QED
          BY <5>1, Zenon
      <4> QED
        BY <4>1, <4>2
    <3>2. seen \in Seen
      BY DEF WorkInv, Work, Seen
    <3>3. seen' = [seen EXCEPT !.name = n, !.ready = b]
      BY <2>1, <3>1, Zenon
    <3> QED
      BY <2>3, <3>2, <3>3, SeenForms DEF Seen
  <2>5. /\ pc' \in {"stop", "space", "label"} /\ goal' \in {"banned", "approved", goal}
        /\ pc' = "label" => goal' # "none"
    BY <2>1, <2>3 DEF SetGoal, AfterLabel
  <2>6. WorkStep
    BY <2>2, <2>3, <2>4, <2>5 DEF WorkStep, WorkInv, Work, Awaiting, Phases, WithRecord, Labels
  <2> QED
    BY <2>2, <2>6, CopiesKept DEF ControlStep, TypeInv, Queues, BoundsStep
<1> QED
  BY <1>1, <1>2

LEMMA NoRecordControl == ASSUME TypeInv, WorkInv, NoRecord PROVE ControlStep
<1>1. UNCHANGED <<obj, seen, queued, us, usC, queuedD, boundVars>> /\ pc = "record"
  BY DEF NoRecord, objectVars
<1>2. \A n \in Names : murC[n] = "none"
  BY DEF NoRecord, OwnRecords
<1>3. PICK state : state = IF seen.banned THEN "banned" ELSE State(obj)
  OBVIOUS
<1>4. state \in Without \cup {"approved"}
  BY <1>3 DEF State, Without
<1>5. \/ pc' = "tell" /\ goal' = state /\ state = "deactivated"
      \/ pc' = "status" /\ goal' = state /\ state = "none"
      \/ SetGoal(state, 0) /\ state # "none"
  BY <1>3 DEF NoRecord, SetGoal
<1>6. /\ pc' \in {"tell", "status", "label", "annotate"} /\ goal' = state
      /\ (pc' = "tell" => state = "deactivated") /\ (pc' = "label" => state # "none")
      /\ (pc' = "status" => state # "approved")
      /\ (pc' = "annotate" => obj.label = "approved")
  BY <1>4, <1>5 DEF SetGoal, AfterLabel
<1>7. WorkStep
  BY <1>1, <1>2, <1>4, <1>6 DEF WorkStep, WorkInv, Work, Awaiting, Phases, WithRecord, Without, Labels
<1> QED
  BY <1>1, <1>7, CopiesKept DEF ControlStep, TypeInv, Queues, BoundsStep

LEMMA LabelControl == ASSUME TypeInv, WorkInv, setStateLabel PROVE ControlStep
<1>1. PICK o : o = Labelled(obj)
  OBVIOUS
<1>2. obj \in Signup /\ goal \in Labels /\ goal # "none" /\ CountOK(obj) /\ pc = "label"
  BY DEF setStateLabel, WorkInv, Work
<1>3. o \in Signup /\ o.label = goal /\ o.count >= obj.count /\ CountOK(o)
  BY <1>1, <1>2, LabelledCounts
<1> DEFINE Next1 == /\ obj' = o /\ UNCHANGED goal
                    /\ \/ goal = "not-ready" /\ pc' = First(o, banned) /\ seen' = [seen EXCEPT !.banned = banned]
                       \/ goal # "not-ready" /\ pc' = AfterLabel(goal, seen.name) /\ UNCHANGED seen
<1>4. \/ /\ Next1 /\ Writes(o) /\ UNCHANGED boundVars
         /\ UNCHANGED queued \/ queued' = (queued \/ (Now /\ Changed(us, o)))
      \/ (ReportFailed \/ Retry) /\ BoundsStep
  BY <1>1 DEF setStateLabel, Store, Writes, SetUs, Follow, BoundsStep
<1>5. CASE (ReportFailed \/ Retry) /\ BoundsStep
  BY <1>2, <1>5, FailedWrites DEF TypeInv, ControlStep
<1>6. CASE /\ Next1 /\ Writes(o) /\ UNCHANGED boundVars
           /\ UNCHANGED queued \/ queued' = (queued \/ (Now /\ Changed(us, o)))
  <2>1. queued' \in BOOLEAN
    BY <1>6 DEF TypeInv, Queues
  <2>2. CASE goal = "not-ready"
    <3>1. pc' \in {"active", "calm", "warn", "record"}
      BY <1>6, <2>2 DEF First, AfterActive, AfterCalm
    <3>2. seen' \in [banned: BOOLEAN, name: {0} \cup Names, ready: BOOLEAN, created: BOOLEAN]
      BY <1>6, <2>2 DEF WorkInv, Work, TypeInv
    <3>3. WorkStep
      BY <1>2, <1>3, <1>6, <3>1, <3>2 DEF WorkStep, WorkInv, Work, Awaiting, Phases, WithRecord
    <3> QED
      BY <1>2, <1>3, <1>6, <2>1, <3>3, StoreStep DEF BoundsStep
  <2>3. CASE goal # "not-ready"
    <3>1. /\ pc' \in {"stop", "space", "annotate", "status"}
          /\ (pc' \in {"stop", "space"} => seen.name # 0)
          /\ (pc' = "annotate" => goal = "approved" /\ seen.name = 0)
          /\ (pc' = "status" => goal \in Without)
      BY <1>2, <1>6, <2>3 DEF AfterLabel, Without, Labels
    <3>2. WorkStep
      BY <1>2, <1>3, <1>6, <2>3, <3>1 DEF WorkStep, WorkInv, Work, Awaiting, Phases, WithRecord
    <3> QED
      BY <1>2, <1>3, <1>6, <2>1, <3>2, StoreStep DEF BoundsStep
  <2> QED
    BY <2>2, <2>3
<1> QED
  BY <1>4, <1>5, <1>6

LEMMA AnnotateControl == ASSUME TypeInv, WorkInv, Annotate PROVE ControlStep
<1>1. pc = "annotate"
  BY DEF Annotate
<1>2. CASE obj = us /\ Go("create") /\ UNCHANGED <<us, usC, queued, queuedD, boundVars>>
  <2>1. WorkStep
    BY <1>1, <1>2 DEF Go, WorkStep, WorkInv, Work, Awaiting, Phases, WithRecord
  <2> QED
    BY <1>2, <2>1, CopiesKept DEF ControlStep, TypeInv, Queues, BoundsStep
<1>3. CASE Fail \/ Break
  BY <1>1, <1>3, FailStep
<1> QED
  BY <1>2, <1>3 DEF Annotate


-----------------------------------------------------------------------------
(***************************************************************************)
(* What the reconcile does to the other objects.                           *)
(***************************************************************************)
\* A record is created where there is none, and where the cache knows of none.
RecordCreated ==
    /\ pc = "create" /\ pc' = "idle" /\ us' = us /\ (~scenario.lag => murC' = mur')
    /\ Records' /\ \E n \in Names : mur[n] = "none" /\ mur' = [mur EXCEPT ![n] = "new"]

ObjectsStep == (RecordsStep \/ RecordCreated) /\ Spaces' /\ Bindings'

SignupStep == ControlStep /\ ObjectsStep

LEMMA RestKept ==
    ASSUME TypeInv, ControlStep, UNCHANGED <<recordObjects, spaceObjects, bindingObjects>>
    PROVE  SignupStep
<1>1. UNCHANGED scenario
  BY BoundStep DEF TypeInv, ControlStep
<1>2. RecordsStep
  BY RecordsKept DEF TypeInv
<1> QED
  BY <1>1, <1>2 DEF TypeInv, Spaces, Bindings, spaceObjects, bindingObjects, SignupStep, ObjectsStep

LEMMA DeletedType == ASSUME NEW m \in Record PROVE Deleted(m) \in Record /\ (m = "none" => Deleted(m) = "none")
  BY DEF Record, Deleted

LEMMA DeleteControl == ASSUME TypeInv, WorkInv, DeleteRecord PROVE SignupStep
<1>1. pc = "delete" /\ seen.name \in Names /\ UNCHANGED <<spaceObjects, bindingObjects>>
  BY DEF DeleteRecord, WorkInv, Work, WithRecord
<1>2. CASE Break /\ UNCHANGED recordObjects
  BY <1>1, <1>2, FailStep, RestKept
<1>3. CASE /\ SetMur([mur EXCEPT ![seen.name] = Deleted(@)]) /\ Done /\ UNCHANGED signupObjects
           /\ \/ queued' = (queued \/ (Now /\ mur' # mur)) /\ UNCHANGED boundVars
              \/ queued' = TRUE /\ Fault
  <2>1. PICK m : m = [mur EXCEPT ![seen.name] = Deleted(@)]
    OBVIOUS
  <2>2. m \in [Names -> Record] /\ \A n \in Names : mur[n] = "none" => m[n] = "none"
    BY <1>1, <2>1, DeletedType DEF TypeInv, Records
  <2>3. SetMur(m)
    BY <1>3, <2>1 DEF SetMur, Follow
  <2>4. RecordsStep /\ queuedD' \in SUBSET Names
    BY <2>2, <2>3, SetMurStep DEF TypeInv
  <2>5. queued' \in BOOLEAN
    BY <1>3 DEF TypeInv, Queues
  <2>6. CopiesStep /\ WorkStep /\ BoundsStep
    BY <1>3, DoneStep, CopiesKept DEF TypeInv, signupObjects, BoundsStep
  <2>7. ControlStep
    BY <2>4, <2>5, <2>6 DEF ControlStep, Queues
  <2>8. UNCHANGED scenario
    BY <2>6, BoundStep DEF TypeInv
  <2>9. Spaces' /\ Bindings'
    BY <1>1, <2>8 DEF TypeInv, Spaces, Bindings, spaceObjects, bindingObjects
  <2> QED
    BY <2>4, <2>7, <2>9 DEF SignupStep, ObjectsStep
<1> QED
  BY <1>2, <1>3 DEF DeleteRecord

LEMMA CreateControl == ASSUME TypeInv, WorkInv, CreateRecord PROVE SignupStep
<1>1. pc = "create" /\ UNCHANGED <<spaceObjects, bindingObjects>>
  BY DEF CreateRecord
<1>2. CASE (Fail \/ Break) /\ UNCHANGED recordObjects
  BY <1>1, <1>2, FailStep, RestKept
<1>3. ASSUME NEW n \in Names, mur[n] = "none", SetMur([mur EXCEPT ![n] = "new"]),
             Done, UNCHANGED signupObjects,
             (queued' = (queued \/ Now) /\ UNCHANGED boundVars) \/ (queued' = TRUE /\ Fault)
      PROVE  SignupStep
  <2>1. PICK m : m = [mur EXCEPT ![n] = "new"]
    OBVIOUS
  <2>2. m \in [Names -> Record]
    BY <2>1 DEF TypeInv, Records, Record
  <2>3. SetMur(m)
    BY <1>3, <2>1 DEF SetMur, Follow
  <2>4. mur' = m /\ queuedD' \in SUBSET Names /\ (murC' = murC \/ murC' = m) /\ (~scenario.lag => murC' = m)
    BY <2>2, <2>3, SetMurStep DEF TypeInv
  <2>5. queued' \in BOOLEAN
    BY <1>3 DEF TypeInv, Queues, Now
  <2>6. CopiesStep /\ WorkStep /\ BoundsStep
    BY <1>3, DoneStep, CopiesKept DEF TypeInv, signupObjects, BoundsStep
  <2>7. ControlStep
    BY <2>4, <2>5, <2>6 DEF ControlStep, Queues
  <2>8. UNCHANGED scenario
    BY <2>6, BoundStep DEF TypeInv
  <2>9. Spaces' /\ Bindings'
    BY <1>1, <2>8 DEF TypeInv, Spaces, Bindings, spaceObjects, bindingObjects
  <2>10. Records'
    BY <2>2, <2>4, <2>8 DEF TypeInv, Records
  <2>11. us' = us /\ pc' = "idle"
    BY <1>3 DEF signupObjects, Done
  <2>12. RecordCreated
    BY <1>1, <1>3, <2>1, <2>4, <2>10, <2>11 DEF RecordCreated
  <2> QED
    BY <2>7, <2>9, <2>12 DEF SignupStep, ObjectsStep
<1>4. CompliantUsername \subseteq Names
  BY DEF CompliantUsername
<1>5. CASE ~((Fail \/ Break) /\ UNCHANGED recordObjects)
  <2>1. PICK n \in CompliantUsername :
           /\ mur[n] = "none" /\ SetMur([mur EXCEPT ![n] = "new"]) /\ UNCHANGED signupObjects /\ Done
           /\ (queued' = (queued \/ Now) /\ UNCHANGED boundVars) \/ (queued' = TRUE /\ Fault)
    BY <1>5, Zenon DEF CreateRecord
  <2>2. n \in Names
    BY <1>4
  <2> QED
    BY <1>3, <2>1, <2>2, Zenon
<1> QED
  BY <1>2, <1>5


LEMMA SpaceForms ==
    ASSUME TypeInv, NEW n \in Names, NEW f \in (SUBSET Flags) \cup {None}
    PROVE  [space EXCEPT ![n] = f] \in [Names -> (SUBSET Flags) \cup {None}]
  BY DEF TypeInv, Spaces

\* A Space is made, which is followed by what another step needs.
LEMMA MakeSpace ==
    ASSUME TypeInv, WorkInv, pc = "space", SetSpaces([space EXCEPT ![seen.name] = {}]), WorkStep,
           UNCHANGED <<us, usC, queuedD, recordObjects, bindingObjects>>, queued' \in BOOLEAN, BoundsStep
    PROVE  SignupStep
<1>1. seen.name \in Names /\ [space EXCEPT ![seen.name] = {}] \in [Names -> (SUBSET Flags) \cup {None}]
  BY SpaceForms DEF WorkInv, Work, WithRecord
<1>2. UNCHANGED scenario
  BY BoundStep DEF TypeInv
<1>3. PICK s : s = [space EXCEPT ![seen.name] = {}]
  OBVIOUS
<1>4. SetSpaces(s)
  BY <1>3 DEF SetSpaces, Follow
<1>5. Spaces'
  BY <1>1, <1>2, <1>3, <1>4, SetSpacesStep DEF TypeInv
<1>6. RecordsStep /\ CopiesStep /\ Queues'
  BY RecordsKept, CopiesKept DEF TypeInv, Queues
<1>7. Bindings'
  BY <1>2 DEF TypeInv, Bindings, bindingObjects
<1> QED
  BY <1>5, <1>6, <1>7 DEF SignupStep, ControlStep, ObjectsStep

LEMMA SpaceControl == ASSUME TypeInv, WorkInv, EnsureSpace PROVE SignupStep
<1>1. /\ pc = "space" /\ seen.name \in Names /\ seen \in Seen /\ seen.ready \in BOOLEAN /\ obj \in Signup
      /\ UNCHANGED <<banned, recordObjects, bindingObjects>>
  BY DEF EnsureSpace, WorkInv, Work, WithRecord, Seen
<1>2. CASE /\ pc' = IF obj.home = seen.name THEN "binding" ELSE "home"
           /\ seen' = [seen EXCEPT !.ready = @ /\ "ready" \in spaceC[seen.name]]
           /\ UNCHANGED <<us, usC, obj, goal, queued, queuedD, spaceObjects, boundVars>>
  <2>1. PICK b \in BOOLEAN : b = (seen.ready /\ "ready" \in spaceC[seen.name])
    <3>1. CASE seen.ready /\ "ready" \in spaceC[seen.name]
      BY <3>1, Zenon
    <3>2. CASE ~(seen.ready /\ "ready" \in spaceC[seen.name])
      <4>1. FALSE = (seen.ready /\ "ready" \in spaceC[seen.name])
        BY <3>2
      <4> QED
        BY <4>1, Zenon
    <3> QED
      BY <3>1, <3>2
  <2>2. seen' = [seen EXCEPT !.ready = b]
    BY <1>2, <2>1, Zenon
  <2>3. seen' \in Seen /\ seen'.name = seen.name
    BY <1>1, <2>2, SeenForms
  <2>4. pc' \in {"binding", "home"}
    BY <1>2
  <2>5. WorkStep
    BY <1>1, <1>2, <2>3, <2>4 DEF WorkStep, WorkInv, Work, Awaiting, Phases, WithRecord, Seen
  <2>6. CopiesStep /\ Queues' /\ BoundsStep
    BY <1>2, CopiesKept DEF TypeInv, Queues, BoundsStep
  <2> QED
    BY <1>1, <1>2, <2>5, <2>6, RestKept DEF ControlStep
<1>3. CASE /\ SetSpaces([space EXCEPT ![seen.name] = {}]) /\ UNCHANGED <<us, usC, queuedD>>
           /\ pc' = "home" /\ seen' = [seen EXCEPT !.created = TRUE]
           /\ queued' = (queued \/ Now) /\ UNCHANGED <<obj, goal, boundVars>>
  <2>1. seen' \in Seen /\ seen'.name = seen.name
    BY <1>1, <1>3, SeenForms
  <2>2. WorkStep
    BY <1>1, <1>3, <2>1 DEF WorkStep, WorkInv, Work, Awaiting, Phases, WithRecord, Seen
  <2>3. queued' \in BOOLEAN /\ BoundsStep
    BY <1>3 DEF TypeInv, Queues, BoundsStep
  <2> QED
    BY <1>1, <1>3, <2>2, <2>3, MakeSpace
<1> QED
  BY <1>2, <1>3 DEF EnsureSpace

LEMMA NoSpaceControl == ASSUME TypeInv, WorkInv, CannotEnsureSpace PROVE SignupStep
<1>1. pc = "space" /\ UNCHANGED <<banned, recordObjects, bindingObjects>>
  BY DEF CannotEnsureSpace
<1>2. CASE (Fail \/ Break) /\ UNCHANGED spaceObjects
  BY <1>1, <1>2, FailStep, RestKept
<1>3. CASE SetSpaces([space EXCEPT ![seen.name] = {}]) /\ Fault /\ Retry
  BY <1>1, <1>3, DoneStep, MakeSpace DEF Retry, BoundsStep
<1> QED
  BY <1>2, <1>3 DEF CannotEnsureSpace

LEMMA BindingControl == ASSUME TypeInv, WorkInv, EnsureSpaceBinding PROVE SignupStep
<1>1. pc = "binding" /\ seen.name \in Names /\ UNCHANGED <<banned, recordObjects, spaceObjects>>
  BY DEF EnsureSpaceBinding, WorkInv, Work, WithRecord
<1>2. CASE (Fail \/ Break) /\ UNCHANGED bindingObjects
  BY <1>1, <1>2, FailStep, RestKept
<1>3. Allowed("ready")
  BY <1>1 DEF Allowed, Phases, WithRecord
<1>4. CASE Go("ready") /\ UNCHANGED <<us, usC, queued, queuedD, bindingObjects, boundVars>>
  <2>1. CopiesStep /\ Queues' /\ BoundsStep /\ WorkStep
    BY <1>1, <1>3, <1>4, GoStep, CopiesKept DEF TypeInv, Queues, BoundsStep
  <2> QED
    BY <1>1, <1>4, <2>1, RestKept DEF ControlStep
<1>5. CASE /\ SetBindings([sb EXCEPT ![seen.name] = TRUE]) /\ UNCHANGED <<us, usC, queuedD>>
           /\ \/ Go("ready") /\ queued' = (queued \/ Now) /\ UNCHANGED boundVars
              \/ Done /\ queued' = TRUE /\ Fault
  <2>1. PICK b : b = [sb EXCEPT ![seen.name] = TRUE]
    OBVIOUS
  <2>2. b \in [Names -> BOOLEAN]
    BY <1>1, <2>1 DEF TypeInv, Bindings
  <2>3. SetBindings(b)
    BY <1>5, <2>1 DEF SetBindings, Follow
  <2>4. WorkStep /\ BoundsStep /\ queued' \in BOOLEAN
    BY <1>1, <1>3, <1>5, GoStep, DoneStep DEF TypeInv, Queues, BoundsStep
  <2>5. UNCHANGED scenario
    BY <2>4, BoundStep DEF TypeInv
  <2>6. Bindings' /\ Spaces'
    BY <1>1, <2>2, <2>3, <2>5, SetBindingsStep DEF TypeInv, Spaces, spaceObjects
  <2>7. CopiesStep /\ RecordsStep /\ Queues'
    BY <1>1, <1>5, <2>4, CopiesKept, RecordsKept DEF TypeInv, Queues
  <2> QED
    BY <2>4, <2>6, <2>7 DEF SignupStep, ControlStep, ObjectsStep
<1> QED
  BY <1>2, <1>4, <1>5 DEF EnsureSpaceBinding

LEMMA ControllerStep ==
    ASSUME TypeInv, WorkInv, CopiesCounted, SignupController
    PROVE  SignupStep
<1>1. CASE SetUserIsActive \/ SetNotInPreDeactivation
  BY <1>1, ActiveControl, RestKept DEF SetUserIsActive, SetNotInPreDeactivation
<1>2. CASE SetWarned \/ SetTold \/ SetStatus \/ SetStopping \/ SetHomeSpace \/ SetComplete
  BY <1>2, StatusControl, RestKept DEF SetWarned, SetTold, SetStatus, SetStopping, SetHomeSpace, SetComplete
<1>3. CASE Warn \/ Tell
  BY <1>3, NotifyControl, RestKept DEF Warn, Tell, Notify
<1>4. CASE Reconcile
  BY <1>4, ReconcileControl, RestKept DEF Reconcile, objectVars, recordObjects, spaceObjects, bindingObjects
<1>5. CASE FindRecord
  BY <1>5, FindControl, RestKept DEF FindRecord
<1>6. CASE NoRecord
  BY <1>6, NoRecordControl, RestKept DEF NoRecord, objectVars, recordObjects, spaceObjects, bindingObjects
<1>7. CASE setStateLabel
  BY <1>7, LabelControl, RestKept DEF setStateLabel
<1>8. CASE Annotate
  BY <1>8, AnnotateControl, RestKept DEF Annotate
<1> QED
  BY <1>1, <1>2, <1>3, <1>4, <1>5, <1>6, <1>7, <1>8, DeleteControl, CreateControl, SpaceControl,
     NoSpaceControl, BindingControl DEF SignupController


-----------------------------------------------------------------------------
(***************************************************************************)
(* The other controllers, administrators and time: none of them creates a  *)
(* record or takes a counted activation back.                              *)
(***************************************************************************)
LifecycleStep ==
    /\ CopiesStep /\ RecordsStep /\ Spaces' /\ Bindings' /\ Queues' /\ BoundsStep
    /\ Plans' /\ Sentences' /\ Spares' /\ banned' \in BOOLEAN
    /\ UNCHANGED workVars \/ Done

LEMMA Kept ==
    ASSUME TypeInv, BoundsStep
    PROVE  /\ UNCHANGED <<us, usC>> => CopiesStep
           /\ UNCHANGED <<mur, murC>> => RecordsStep
           /\ UNCHANGED <<space, spaceC>> => Spaces'
           /\ UNCHANGED <<sb, sbC>> => Bindings'
           /\ UNCHANGED <<plan, held>> => Plans'
           /\ UNCHANGED <<sentence, heldK>> => Sentences'
           /\ UNCHANGED spare => Spares'
           /\ UNCHANGED banned => banned' \in BOOLEAN
<1>1. UNCHANGED scenario
  BY BoundStep DEF TypeInv
<1>2. UNCHANGED <<us, usC>> => CopiesStep
  BY CopiesKept DEF TypeInv
<1>3. UNCHANGED <<mur, murC>> => RecordsStep
  BY RecordsKept DEF TypeInv, recordObjects
<1>4. /\ UNCHANGED <<space, spaceC>> => Spaces'
      /\ UNCHANGED <<sb, sbC>> => Bindings'
  BY <1>1 DEF TypeInv, Spaces, Bindings
<1>5. UNCHANGED <<plan, held>> => Plans'
  BY DEF TypeInv, Plans
<1> QED
  BY <1>2, <1>3, <1>4, <1>5 DEF TypeInv, Sentences, Spares

LEMMA PlanForms ==
    ASSUME NEW o \in Signup, NEW m \in Record
    PROVE  Plan(o, m) = <<>> \/ Updates(Plan(o, m), o)
<1>1. \A b \in BOOLEAN : Updates(<<Scheduled(o, b)>>, o)
  BY DeactivationForms DEF Updates, Alike
<1>2. Updates(<<SetDeactivating(o, FALSE)>>, o) /\ Updates(<<SetDeactivated(o)>>, o)
  BY DeactivationForms DEF Updates, Alike
<1>3. Updates(<<Scheduled(o, TRUE), SetDeactivating(Scheduled(o, TRUE), TRUE)>>, o)
  <2>1. Alike(Scheduled(o, TRUE), o) /\ Scheduled(o, TRUE) \in Signup
    BY DeactivationForms DEF Alike
  <2>2. Alike(SetDeactivating(Scheduled(o, TRUE), TRUE), Scheduled(o, TRUE))
    BY <2>1, DeactivationForms
  <2>3. Alike(SetDeactivating(Scheduled(o, TRUE), TRUE), o)
    BY <2>1, <2>2, AlikeTrans
  <2> QED
    BY <2>1, <2>3 DEF Updates, Alike
<1>4. (m = "provisioned") \in BOOLEAN
  OBVIOUS
<1>5. Updates(<<Scheduled(o, m = "provisioned")>>, o)
  BY <1>1, <1>4, Zenon
<1> QED
  BY <1>1, <1>2, <1>3, <1>5 DEF Plan, Provisioned

LEMMA ChangesForms ==
    ASSUME NEW o, NEW updates, updates = <<>> \/ Updates(updates, o)
    PROVE  Changes(updates, o) = <<>> \/ Updates(Changes(updates, o), o)
<1>1. CASE updates = <<>>
  BY <1>1 DEF Changes
<1>2. ASSUME NEW p \in Signup, updates = <<p>>, Alike(p, o)
      PROVE  Changes(updates, o) = <<>> \/ Updates(Changes(updates, o), o)
  BY <1>2 DEF Changes, Updates
<1>3. ASSUME NEW p \in Signup, NEW q \in Signup, updates = <<p, q>>, Alike(p, o), Alike(q, o)
      PROVE  Changes(updates, o) = <<>> \/ Updates(Changes(updates, o), o)
  <2>1. Changes(updates, o) = <<q>> \/ Changes(updates, o) = <<p, q>>
    BY <1>3 DEF Changes
  <2> QED
    BY <1>3, <2>1 DEF Updates
<1> QED
  BY <1>1, <1>2, <1>3 DEF Updates

LEMMA HeadForms ==
    ASSUME NEW o, NEW updates, Updates(updates, o)
    PROVE  /\ Head(updates) \in Signup /\ Alike(Head(updates), o)
           /\ \/ Tail(updates) = <<>>
              \/ \E q \in Signup : Tail(updates) = <<q>> /\ Alike(q, Head(updates))
<1>1. ASSUME NEW p \in Signup, updates = <<p>>, Alike(p, o)
      PROVE  Head(updates) \in Signup /\ Alike(Head(updates), o) /\ Tail(updates) = <<>>
  BY <1>1
<1>2. ASSUME NEW p \in Signup, NEW q \in Signup, updates = <<p, q>>, Alike(p, o), Alike(q, o)
      PROVE  /\ Head(updates) \in Signup /\ Alike(Head(updates), o)
             /\ Tail(updates) = <<q>> /\ Alike(q, Head(updates))
  <2>1. Head(updates) = p /\ Tail(updates) = <<q>>
    BY <1>2
  <2>2. Alike(q, p)
    BY <1>2 DEF Alike
  <2> QED
    BY <1>2, <2>1, <2>2
<1> QED
  BY <1>1, <1>2 DEF Updates

\* The UserSignup as it is now is written as another that is as old and as approved.
LEMMA WriteUs ==
    ASSUME TypeInv, CopiesCounted, us # None, NEW o, Alike(o, us), SetUs(o)
    PROVE  CopiesStep /\ queuedD' \in SUBSET Names
<1>1. us \in Signup /\ CountOK(us)
  BY DEF TypeInv, Copies, CopiesCounted
<1>2. Newer(us, o)
  BY <1>1, AlikeCounts DEF Newer
<1> QED
  BY <1>2, SetUsStep DEF TypeInv

LEMMA DeactivationStep ==
    ASSUME TypeInv, CopiesCounted, Deactivation
    PROVE  LifecycleStep
<1>1. ASSUME NEW n \in Names, ReconcileDeactivation(n)
      PROVE  LifecycleStep
  <2>1. BoundsStep /\ UNCHANGED workVars /\ Queues'
    BY <1>1 DEF ReconcileDeactivation, BoundsStep, TypeInv, Queues
  <2>2. CASE UNCHANGED <<plan, held>>
    BY <1>1, <2>1, <2>2, Kept DEF ReconcileDeactivation, LifecycleStep
  <2>3. CASE /\ usC # None /\ plan' = Changes(Plan(usC, murC[n]), usC)
             /\ held' = IF plan' = <<>> THEN None ELSE usC
    <3>1. usC \in Signup /\ murC[n] \in Record
      BY <2>3 DEF TypeInv, Copies, Records
    <3>2. plan' = <<>> \/ Updates(plan', usC)
      BY <2>3, <3>1, PlanForms, ChangesForms
    <3>3. Plans'
      BY <2>3, <3>1, <3>2 DEF Plans
    <3> QED
      BY <1>1, <2>1, <3>3, Kept DEF ReconcileDeactivation, LifecycleStep
  <2> QED
    BY <1>1, <2>2, <2>3 DEF ReconcileDeactivation
<1>2. CASE WriteDeactivation
  <2>0. /\ UNCHANGED <<banned, mur, murC, space, spaceC, sb, sbC, workVars, sentence, heldK, spare>>
        /\ plan # <<>>
    BY <1>2 DEF WriteDeactivation
  <2>1. CASE DeactivationFails /\ BoundsStep
    <3>1. Queues' /\ Plans' /\ UNCHANGED <<us, usC>>
      BY <2>1 DEF DeactivationFails, TypeInv, Queues, Plans
    <3> QED
      BY <2>0, <2>1, <3>1, Kept DEF LifecycleStep
  <2>2. CASE /\ held = us /\ SetUs(Head(plan))
             /\ queued' = (queued \/ (Now /\ Changed(us, Head(plan))))
             /\ plan' = Tail(plan) /\ held' = (IF plan' = <<>> THEN None ELSE Head(plan))
             /\ UNCHANGED boundVars
    <3>1. PICK o : o = Head(plan)
      OBVIOUS
    <3>2. held \in Signup /\ Updates(plan, held)
      BY <2>0 DEF TypeInv, Plans
    <3>3. /\ o \in Signup /\ Alike(o, held)
          /\ Tail(plan) = <<>> \/ \E q \in Signup : Tail(plan) = <<q>> /\ Alike(q, o)
      BY <3>1, <3>2, HeadForms
    <3>4. SetUs(o)
      BY <2>2, <3>1 DEF SetUs, Follow
    <3>5. us # None /\ Alike(o, us)
      BY <2>2, <3>2, <3>3, NamesAreNumbers
    <3>6. CopiesStep /\ queuedD' \in SUBSET Names
      BY <3>4, <3>5, WriteUs
    <3>7. Plans'
      BY <2>2, <3>1, <3>3 DEF Plans, Updates
    <3>8. Queues'
      BY <2>2, <3>6 DEF TypeInv, Queues
    <3> QED
      BY <2>0, <2>2, <3>6, <3>7, <3>8, Kept DEF LifecycleStep, BoundsStep
  <2> QED
    BY <1>2, <2>1, <2>2 DEF WriteDeactivation, BoundsStep
<1> QED
  BY <1>1, <1>2 DEF Deactivation

LEMMA CleanupStep ==
    ASSUME TypeInv, CopiesCounted, Cleanup
    PROVE  LifecycleStep
<1>1. CASE ReconcileCleanup
  <2>1. UNCHANGED <<us, usC, banned, mur, murC, space, spaceC, sb, sbC, queued, queuedD, workVars,
                    boundVars, plan, held, spare>>
    BY <1>1 DEF ReconcileCleanup, signupVars, workVars, boundVars
  <2>2. Sentences'
    BY <1>1 DEF ReconcileCleanup, Sentences, Verdict, TypeInv, Copies
  <2> QED
    BY <2>1, <2>2, Kept DEF LifecycleStep, BoundsStep, TypeInv, Queues
<1>2. CASE ExecuteCleanup
  <2>1. /\ UNCHANGED <<banned, mur, murC, space, spaceC, sb, sbC, workVars, plan, held, spare>>
        /\ Sentences'
    BY <1>2 DEF ExecuteCleanup, CleanupDone, Sentences
  <2>2. CASE UNCHANGED <<us, usC, queued, queuedD>> /\ BoundsStep
    BY <2>1, <2>2, Kept DEF LifecycleStep, TypeInv, Queues
  <2>3. CASE us # None /\ SetDeleted /\ queued' = (queued \/ Now) /\ UNCHANGED boundVars
    <3>1. PICK o : o = [us EXCEPT !.phase = "deleting"]
      OBVIOUS
    <3>0. us \in Signup
      BY <2>3 DEF TypeInv, Copies
    <3>2. SetUs(o) /\ Alike(o, us)
      BY <2>3, <3>0, <3>1, WithAge DEF SetDeleted, SetUs, Follow
    <3>3. CopiesStep /\ queuedD' \in SUBSET Names
      BY <2>3, <3>2, WriteUs
    <3>4. Queues'
      BY <2>3, <3>3 DEF TypeInv, Queues, Now
    <3> QED
      BY <2>1, <2>3, <3>3, <3>4, Kept DEF LifecycleStep, BoundsStep
  <2>4. CASE /\ sentence = "deactivate" /\ heldK = us /\ SetUs(ResetToDeactivated(us))
             /\ queued' = (queued \/ Now) /\ UNCHANGED boundVars
    <3>1. us \in Signup /\ us # None
      BY <2>4, NamesAreNumbers DEF TypeInv, Sentences
    <3>2. PICK o : o = ResetToDeactivated(us)
      OBVIOUS
    <3>3. SetUs(o) /\ Alike(o, us)
      BY <2>4, <3>1, <3>2, DeactivationForms DEF SetUs, Follow
    <3>4. CopiesStep /\ queuedD' \in SUBSET Names
      BY <3>1, <3>3, WriteUs
    <3>5. Queues'
      BY <2>4, <3>4 DEF TypeInv, Queues, Now
    <3> QED
      BY <2>1, <2>4, <3>4, <3>5, Kept DEF LifecycleStep, BoundsStep
  <2> QED
    BY <1>2, <2>2, <2>3, <2>4 DEF ExecuteCleanup, BoundsStep
<1> QED
  BY <1>1, <1>2 DEF Cleanup


LEMMA SpaceCleanupStep ==
    ASSUME TypeInv, SpaceCleanup
    PROVE  LifecycleStep
<1>1. ASSUME NEW n \in Names, ReconcileSpaceCleanup(n)
      PROVE  LifecycleStep
  <2>1. UNCHANGED <<us, usC, banned, mur, murC, space, spaceC, sb, sbC, queued, queuedD, workVars,
                    boundVars, plan, held, sentence, heldK>>
    BY <1>1 DEF ReconcileSpaceCleanup, signupVars, workVars, boundVars
  <2>2. Spares'
    BY <1>1 DEF ReconcileSpaceCleanup, Spares
  <2> QED
    BY <2>1, <2>2, Kept DEF LifecycleStep, BoundsStep, TypeInv, Queues
<1>2. CASE DeleteSpare
  <2>1. /\ UNCHANGED <<us, usC, banned, mur, murC, sb, sbC, queuedD, workVars, plan, held, sentence, heldK>>
        /\ spare \in Names /\ Spares' /\ BoundsStep
    BY <1>2 DEF DeleteSpare, TypeInv, Spares, BoundsStep
  <2>2. CASE UNCHANGED <<space, spaceC, queued>>
    BY <2>1, <2>2, Kept DEF LifecycleStep, TypeInv, Queues
  <2>3. CASE /\ space[spare] # None /\ SetSpaces([space EXCEPT ![spare] = @ \cup {"deleting"}])
             /\ queued' = (queued \/ Now)
    <3>1. PICK s : s = [space EXCEPT ![spare] = @ \cup {"deleting"}]
      OBVIOUS
    <3>2. space[spare] \cup {"deleting"} \in SUBSET Flags
      BY <2>1, <2>3 DEF TypeInv, Spaces, Flags
    <3>3. s \in [Names -> (SUBSET Flags) \cup {None}]
      BY <2>1, <3>1, <3>2, SpaceForms
    <3>4. SetSpaces(s)
      BY <2>3, <3>1 DEF SetSpaces, Follow
    <3>5. UNCHANGED scenario /\ Queues'
      BY <2>1, <2>3, BoundStep DEF TypeInv, Queues, Now
    <3>6. Spaces'
      BY <3>3, <3>4, <3>5, SetSpacesStep DEF TypeInv
    <3> QED
      BY <2>1, <3>5, <3>6, Kept DEF LifecycleStep
  <2> QED
    BY <1>2, <2>2, <2>3 DEF DeleteSpare
<1> QED
  BY <1>1, <1>2 DEF SpaceCleanup

\* A record that exists or is to be none changes.
LEMMA ChangeRecordStep ==
    ASSUME TypeInv, BoundsStep, NEW n \in Names, NEW m \in Record, mur[n] = "none" => m = "none",
           ChangeRecord(n, m)
    PROVE  LifecycleStep
<1>1. PICK f : f = [mur EXCEPT ![n] = m]
  OBVIOUS
<1>2. f \in [Names -> Record] /\ \A k \in Names : mur[k] = "none" => f[k] = "none"
  BY <1>1 DEF TypeInv, Records
<1>3. SetMur(f) /\ queued' = (queued \/ Now)
      /\ UNCHANGED <<us, usC, banned, space, spaceC, sb, sbC, workVars, lifecycleVars>>
  BY <1>1 DEF ChangeRecord, SetMur, Follow
<1>4. RecordsStep /\ queuedD' \in SUBSET Names
  BY <1>2, <1>3, SetMurStep DEF TypeInv
<1>5. Queues'
  BY <1>3, <1>4 DEF TypeInv, Queues, Now
<1> QED
  BY <1>3, <1>4, <1>5, Kept DEF LifecycleStep, lifecycleVars

LEMMA ChangeSpaceStep ==
    ASSUME TypeInv, BoundsStep, NEW n \in Names, NEW f \in (SUBSET Flags) \cup {None}, ChangeSpace(n, f)
    PROVE  LifecycleStep
<1>1. PICK s : s = [space EXCEPT ![n] = f]
  OBVIOUS
<1>2. s \in [Names -> (SUBSET Flags) \cup {None}]
  BY <1>1, SpaceForms
<1>3. SetSpaces(s) /\ queued' = (queued \/ Now)
      /\ UNCHANGED <<us, usC, banned, mur, murC, sb, sbC, queuedD, workVars, lifecycleVars>>
  BY <1>1 DEF ChangeSpace, SetSpaces, Follow
<1>4. UNCHANGED scenario /\ Queues'
  BY <1>3, BoundStep DEF TypeInv, Queues, Now
<1>5. Spaces'
  BY <1>2, <1>3, <1>4, SetSpacesStep DEF TypeInv
<1> QED
  BY <1>3, <1>4, <1>5, Kept DEF LifecycleStep, lifecycleVars

LEMMA ObjectsSteps ==
    ASSUME TypeInv, Objects
    PROVE  LifecycleStep
<1>1. CASE SignupGoes
  <2>1. PICK o : o = None
    OBVIOUS
  <2>2. SetUs(o)
    BY <1>1, <2>1 DEF SignupGoes, SetUs, Follow
  <2>3. CopiesStep /\ queuedD' \in SUBSET Names
    BY <2>1, <2>2, SetUsStep DEF TypeInv
  <2>4. Queues' /\ BoundsStep
    BY <1>1, <2>3 DEF SignupGoes, TypeInv, Queues, Now, BoundsStep
  <2> QED
    BY <1>1, <2>3, <2>4, Kept DEF SignupGoes, LifecycleStep, lifecycleVars
<1>2. ASSUME NEW n \in Names, BindingGoes(n)
      PROVE  LifecycleStep
  <2>1. PICK b : b = [sb EXCEPT ![n] = FALSE]
    OBVIOUS
  <2>2. b \in [Names -> BOOLEAN]
    BY <2>1 DEF TypeInv, Bindings
  <2>3. SetBindings(b)
    BY <1>2, <2>1 DEF BindingGoes, SetBindings, Follow
  <2>4. BoundsStep /\ Queues'
    BY <1>2 DEF BindingGoes, BoundsStep, TypeInv, Queues, Now
  <2>5. UNCHANGED scenario
    BY <2>4, BoundStep DEF TypeInv
  <2>6. Bindings'
    BY <2>2, <2>3, <2>5, SetBindingsStep DEF TypeInv
  <2> QED
    BY <1>2, <2>4, <2>6, Kept DEF BindingGoes, LifecycleStep, lifecycleVars
<1>3. ASSUME NEW n \in Names, RecordProvisioned(n)
      PROVE  LifecycleStep
  BY <1>3, ChangeRecordStep DEF RecordProvisioned, BoundsStep, Record, Provisioned
<1>4. ASSUME NEW n \in Names, RecordGoes(n)
      PROVE  LifecycleStep
  BY <1>4, ChangeRecordStep DEF RecordGoes, BoundsStep, Record
<1>5. ASSUME NEW n \in Names, CollectRecord(n)
      PROVE  LifecycleStep
  <2>1. PICK m \in Record : m = Deleted(mur[n])
    BY DeletedType DEF TypeInv, Records
  <2>2. ChangeRecord(n, m) /\ mur[n] # "none" /\ UNCHANGED boundVars
    BY <1>5, <2>1 DEF CollectRecord, ChangeRecord, SetMur, Follow
  <2> QED
    BY <2>1, <2>2, ChangeRecordStep DEF BoundsStep
<1>6. ASSUME NEW n \in Names, SpaceProvisioned(n)
      PROVE  LifecycleStep
  <2>1. PICK f \in SUBSET Flags : f = space[n] \cup {"ready"}
    BY <1>6 DEF SpaceProvisioned, TypeInv, Spaces, Flags
  <2>2. ChangeSpace(n, f) /\ UNCHANGED boundVars
    BY <1>6, <2>1 DEF SpaceProvisioned, ChangeSpace, SetSpaces, Follow
  <2> QED
    BY <2>1, <2>2, ChangeSpaceStep DEF BoundsStep
<1>7. ASSUME NEW n \in Names, SpaceGoes(n)
      PROVE  LifecycleStep
  BY <1>7, ChangeSpaceStep DEF SpaceGoes, BoundsStep
<1> QED
  BY <1>1, <1>2, <1>3, <1>4, <1>5, <1>6, <1>7 DEF Objects


LEMMA DeliverStep ==
    ASSUME TypeInv, Deliver
    PROVE  LifecycleStep
<1>1. BoundsStep /\ UNCHANGED <<us, banned, mur, space, sb, workVars, plan, held, sentence, heldK, spare, scenario>>
  BY DEF Deliver, DeliverSignup, DeliverRecords, DeliverSpaces, DeliverBindings, BoundsStep, lifecycleVars,
         boundVars
<1>2. Queues'
  <2>1. queuedD' \in SUBSET Names
    <3>1. us \in Signup \cup {None}
      BY DEF TypeInv, Copies
    <3>2. Mapped(us) \in SUBSET Names /\ Updated(murC, mur) \in SUBSET Names
      BY <3>1, MappedType, UpdatedType
    <3> QED
      BY <3>2 DEF Deliver, DeliverSignup, DeliverRecords, DeliverSpaces, DeliverBindings, TypeInv, Queues
  <2>2. queued' \in BOOLEAN
    BY DEF Deliver, DeliverSignup, DeliverRecords, DeliverSpaces, DeliverBindings, TypeInv, Queues, Changed
  <2> QED
    BY <2>1, <2>2 DEF Queues
<1>3. CopiesStep
  BY <1>1 DEF Deliver, DeliverSignup, DeliverRecords, DeliverSpaces, DeliverBindings, TypeInv, Copies, CopiesStep
<1>4. RecordsStep
  BY <1>1 DEF Deliver, DeliverSignup, DeliverRecords, DeliverSpaces, DeliverBindings, TypeInv, Records,
              RecordsStep
<1>5. Spaces' /\ Bindings'
  BY <1>1 DEF Deliver, DeliverSignup, DeliverRecords, DeliverSpaces, DeliverBindings, TypeInv, Spaces, Bindings
<1> QED
  BY <1>1, <1>2, <1>3, <1>4, <1>5, Kept DEF LifecycleStep

LEMMA AgeStep ==
    ASSUME TypeInv, CopiesCounted, us # None, NEW o, Alike(o, us), Age(o)
    PROVE  LifecycleStep
<1>1. us \in Signup /\ o \in Signup /\ Newer(us, o)
  BY AlikeCounts DEF TypeInv, Copies, CopiesCounted, Newer
<1>2. CopiesStep /\ Queues' /\ BoundsStep
  BY <1>1, MappedType DEF Age, CopiesStep, TypeInv, Queues, BoundsStep
<1> QED
  BY <1>2, Kept DEF Age, LifecycleStep, lifecycleVars

LEMMA TimeStep ==
    ASSUME TypeInv, CopiesCounted, Time
    PROVE  LifecycleStep
<1>1. us # None => us \in Signup
  BY DEF TypeInv, Copies
<1>2. CASE AgeSignup
  <2>1. PICK o : o = [us EXCEPT !.old = TRUE]
    OBVIOUS
  <2>2. Age(o) /\ us # None /\ Alike(o, us)
    BY <1>1, <1>2, <2>1, WithAge DEF AgeSignup, Age
  <2> QED
    BY <2>2, AgeStep
<1>3. CASE AgeStatus
  <2>1. PICK s : s = IF IsTrue(us.complete) THEN 2 ELSE us.since + 1
    OBVIOUS
  <2>2. PICK o : o = [us EXCEPT !.since = s]
    OBVIOUS
  <2>3. s \in 0..2 /\ us \in Signup
    BY <1>1, <1>3, <2>1, SignupFields DEF AgeStatus
  <2>4. Age(o) /\ us # None
    BY <1>3, <2>1, <2>2 DEF AgeStatus, Age
  <2> QED
    BY <2>2, <2>3, <2>4, WithAge, AgeStep
<1>4. CASE AgeWarning
  <2>1. PICK o : o = [us EXCEPT !.due = TRUE]
    OBVIOUS
  <2>2. Age(o) /\ us # None /\ Alike(o, us)
    BY <1>1, <1>4, <2>1, WithAge DEF AgeWarning, Age
  <2> QED
    BY <2>2, AgeStep
<1>5. ASSUME NEW n \in Names, AgeRecord(n)
      PROVE  LifecycleStep
  <2>1. RecordsStep /\ Queues' /\ BoundsStep
    BY <1>5 DEF AgeRecord, TypeInv, Records, Record, Provisioned, RecordsStep, Queues, BoundsStep
  <2> QED
    BY <1>5, <2>1, Kept DEF AgeRecord, LifecycleStep, lifecycleVars
<1>6. ASSUME NEW n \in Names, AgeSpace(n)
      PROVE  LifecycleStep
  <2>1. space[n] \cup {"old"} \in SUBSET Flags
    BY <1>6 DEF AgeSpace, TypeInv, Spaces, Flags
  <2>2. space' \in [Names -> (SUBSET Flags) \cup {None}] /\ spaceC' = space'
    BY <1>6, <2>1, SpaceForms DEF AgeSpace
  <2>3. Spaces'
    BY <2>2 DEF Spaces
  <2> QED
    BY <1>6, <2>3, Kept DEF AgeSpace, LifecycleStep, lifecycleVars, TypeInv, Queues, BoundsStep
<1> QED
  BY <1>2, <1>3, <1>4, <1>5, <1>6 DEF Time

LEMMA UsersStep ==
    ASSUME TypeInv, CopiesCounted, Users
    PROVE  LifecycleStep
<1>1. us # None => us \in Signup
  BY DEF TypeInv, Copies
<1>2. ASSUME NEW o, us # None, Alike(o, us), SetUs(o), queued' = (queued \/ Now), BoundsStep,
             UNCHANGED <<banned, mur, murC, space, spaceC, sb, sbC, workVars, lifecycleVars>>
      PROVE  LifecycleStep
  <2>1. CopiesStep /\ queuedD' \in SUBSET Names
    BY <1>2, WriteUs
  <2>2. Queues'
    BY <1>2, <2>1 DEF TypeInv, Queues, Now
  <2> QED
    BY <1>2, <2>1, <2>2, Kept DEF LifecycleStep, lifecycleVars
<1>3. CASE DeleteSignup
  <2>1. PICK o : o = [us EXCEPT !.phase = "deleting"]
    OBVIOUS
  <2>2. /\ SetUs(o) /\ us # None /\ queued' = (queued \/ Now) /\ BoundsStep
        /\ UNCHANGED <<banned, mur, murC, space, spaceC, sb, sbC, workVars, lifecycleVars>>
    BY <1>3, <2>1 DEF DeleteSignup, SetDeleted, SetUs, Follow, BoundsStep, Edit, Kinds
  <2> QED
    BY <1>1, <1>2, <2>1, <2>2, WithAge
<1>4. ASSUME NEW s \in Submissions, EditSignup(s)
      PROVE  LifecycleStep
  <2>1. PICK o : o = [us EXCEPT !.states = {s}]
    OBVIOUS
  <2>2. /\ SetUs(o) /\ us # None /\ queued' = (queued \/ Now) /\ BoundsStep
        /\ UNCHANGED <<banned, mur, murC, space, spaceC, sb, sbC, workVars, lifecycleVars>>
    BY <1>4, <2>1 DEF EditSignup, SetUs, Follow, BoundsStep, Edit, Kinds, Submissions
  <2>3. {s} \in SUBSET States
    BY DEF Submissions, States
  <2> QED
    BY <1>1, <1>2, <2>1, <2>2, <2>3, WithStates
<1>5. CASE Ban
  <2>1. BoundsStep /\ Queues' /\ banned' \in BOOLEAN
    BY <1>5 DEF Ban, BoundsStep, Kinds, TypeInv, Queues, objectVars
  <2> QED
    BY <1>5, <2>1, Kept DEF Ban, LifecycleStep, objectVars, lifecycleVars
<1>6. ASSUME NEW n \in Names, DeleteRecordByHand(n)
      PROVE  LifecycleStep
  <2>1. PICK m \in Record : m = Deleted(mur[n])
    BY DeletedType DEF TypeInv, Records
  <2>2. ChangeRecord(n, m) /\ mur[n] # "none" /\ BoundsStep
    BY <1>6, <2>1 DEF DeleteRecordByHand, ChangeRecord, SetMur, Follow, BoundsStep, Kinds
  <2> QED
    BY <2>1, <2>2, ChangeRecordStep
<1>7. ASSUME NEW n \in Names, DeleteSpaceByHand(n)
      PROVE  LifecycleStep
  <2>1. PICK f \in SUBSET Flags : f = space[n] \cup {"deleting"}
    BY <1>7 DEF DeleteSpaceByHand, TypeInv, Spaces, Flags
  <2>2. ChangeSpace(n, f) /\ BoundsStep
    BY <1>7, <2>1 DEF DeleteSpaceByHand, ChangeSpace, SetSpaces, Follow, BoundsStep, Kinds
  <2> QED
    BY <2>1, <2>2, ChangeSpaceStep
<1>8. ASSUME NEW n \in Names, Promote(n)
      PROVE  LifecycleStep
  <2>1. PICK m \in {"provisioned", "exempt"} : ChangeRecord(n, m)
    BY <1>8 DEF Promote
  <2>2. m \in Record /\ mur[n] # "none" /\ BoundsStep
    BY <1>8 DEF Promote, Record, Provisioned, BoundsStep, Kinds
  <2> QED
    BY <2>1, <2>2, ChangeRecordStep
<1> QED
  BY <1>3, <1>4, <1>5, <1>6, <1>7, <1>8 DEF Users

LEMMA RestartStep ==
    ASSUME TypeInv, Restart
    PROVE  LifecycleStep
<1>1. Queues' /\ BoundsStep
  BY UpdatedType DEF Restart, Queues, BoundsStep
<1>2. Plans' /\ Sentences' /\ Spares'
  BY DEF Restart, CleanupDone, Plans, Sentences, Spares
<1> QED
  BY <1>1, <1>2, Kept DEF Restart, LifecycleStep

LEMMA OthersStep ==
    ASSUME TypeInv, CopiesCounted,
           Deactivation \/ Cleanup \/ SpaceCleanup \/ Objects \/ Deliver \/ Time \/ Users \/ Restart
    PROVE  LifecycleStep
  BY DeactivationStep, CleanupStep, SpaceCleanupStep, ObjectsSteps, DeliverStep, TimeStep, UsersStep, RestartStep


-----------------------------------------------------------------------------
(***************************************************************************)
(* Every step, and what follows.                                           *)
(***************************************************************************)
\* Approved copies have been counted, and so has the activation a record is created for.
CountInv ==
    /\ CopiesCounted /\ ActivationCounted
    /\ pc = "create" /\ us # None => us.count > 0

IInv == TypeInv /\ WorkInv /\ CountInv

AnyStep ==
    /\ CopiesStep /\ WorkStep /\ (RecordsStep \/ RecordCreated)
    /\ UNCHANGED scenario /\ TypeInv'

LEMMA SignupSteps ==
    ASSUME TypeInv, WorkInv, CopiesCounted, SignupController, UNCHANGED lifecycleVars
    PROVE  AnyStep
<1>1. CopiesStep /\ WorkStep /\ (RecordsStep \/ RecordCreated) /\ Spaces' /\ Bindings' /\ Queues' /\ BoundsStep
  BY ControllerStep DEF SignupStep, ControlStep, ObjectsStep
<1>2. UNCHANGED scenario /\ Bounds'
  BY <1>1, BoundStep DEF TypeInv
<1>3. Copies' /\ Records'
  BY <1>1, <1>2, CopiesTyped, RecordsTyped DEF TypeInv, RecordCreated
<1>4. UNCHANGED banned
  BY DEF SignupController, Reconcile, SetUserIsActive, SetNotInPreDeactivation, Warn, SetWarned, FindRecord,
         NoRecord, Tell, SetTold, Notify, setStateLabel, SetStatus, SetStopping, DeleteRecord, Annotate,
         CreateRecord, EnsureSpace, CannotEnsureSpace, SetHomeSpace, EnsureSpaceBinding, SetComplete
<1>5. Plans' /\ Sentences' /\ Spares'
  BY DEF TypeInv, Plans, Sentences, Spares, lifecycleVars
<1>6. Work'
  BY <1>1 DEF WorkStep, WorkInv
<1> QED
  BY <1>1, <1>2, <1>3, <1>4, <1>5, <1>6 DEF AnyStep, TypeInv

LEMMA WorkKept ==
    ASSUME WorkInv, UNCHANGED workVars \/ Done
    PROVE  WorkStep
<1>1. CASE Done
  BY <1>1, DoneStep
<1>2. CASE UNCHANGED workVars
  BY <1>2 DEF workVars, WorkStep, WorkInv, Work, Awaiting
<1> QED
  BY <1>1, <1>2

LEMMA OtherSteps ==
    ASSUME TypeInv, WorkInv, LifecycleStep
    PROVE  AnyStep
<1>1. UNCHANGED scenario /\ Bounds'
  BY BoundStep DEF LifecycleStep, TypeInv
<1>2. Copies' /\ Records'
  BY <1>1, CopiesTyped, RecordsTyped DEF LifecycleStep, TypeInv
<1>3. WorkStep /\ Work'
  BY WorkKept DEF LifecycleStep, WorkStep, WorkInv
<1> QED
  BY <1>1, <1>2, <1>3 DEF LifecycleStep, AnyStep, TypeInv

LEMMA EveryStep ==
    ASSUME IInv, [Next]_vars
    PROVE  AnyStep
<1>1. CASE SignupController /\ UNCHANGED lifecycleVars
  BY <1>1, SignupSteps DEF IInv, CountInv
<1>2. CASE Deactivation \/ Cleanup \/ SpaceCleanup \/ Objects \/ Deliver \/ Time \/ Users \/ Restart
  BY <1>2, OthersStep, OtherSteps DEF IInv, CountInv
<1>3. CASE UNCHANGED vars
  <2>1. BoundsStep /\ UNCHANGED <<us, usC, banned, mur, murC, space, spaceC, sb, sbC, queued, queuedD,
                                  workVars, plan, held, sentence, heldK, spare>>
    BY <1>3 DEF vars, signupVars, lifecycleVars, workVars, boundVars, BoundsStep
  <2>2. LifecycleStep
    BY <2>1, Kept DEF IInv, LifecycleStep, TypeInv, Queues
  <2> QED
    BY <2>2, OtherSteps DEF IInv
<1> QED
  BY <1>1, <1>2, <1>3 DEF Next

LEMMA IInvInit == Init => IInv
<1> SUFFICES ASSUME Init PROVE IInv
  OBVIOUS
<1>1. NewSignup \in Signup
  BY SignupsAssumption DEF SignupsAssumption, NewSignup, Signup, States, Labels
<1>2. Copies /\ banned \in BOOLEAN /\ Records /\ Spaces /\ Bindings /\ Queues
  BY <1>1 DEF Init, SignupInit, Copies, Records, Record, Spaces, Bindings, Queues
<1>3. Work /\ pc = "idle"
  BY DEF Init, SignupInit, Work, Phases, Labels, WithRecord, Nothing
<1>4. Bounds
  <2>1. scenario.edits \in Nat /\ scenario.faults \in Nat
    BY ScenarioType DEF Init, SignupInit
  <2> QED
    BY <2>1 DEF Init, SignupInit, Bounds
<1>5. Plans /\ Sentences /\ Spares
  BY DEF Init, Plans, Sentences, Spares
<1>6. CountOK(us) /\ us = usC /\ \A n \in Names : mur[n] = "none"
  BY DEF Init, SignupInit, NewSignup, CountOK
<1> QED
  BY <1>2, <1>3, <1>4, <1>5, <1>6 DEF IInv, TypeInv, WorkInv, CountInv, CopiesCounted, ActivationCounted

LEMMA IInvNext == IInv /\ [Next]_vars => IInv'
<1> SUFFICES ASSUME IInv, [Next]_vars PROVE IInv'
  OBVIOUS
<1>1. CopiesStep /\ WorkStep /\ (RecordsStep \/ RecordCreated) /\ TypeInv'
  BY EveryStep DEF AnyStep
<1>2. CopiesCounted'
  BY <1>1 DEF IInv, CountInv, CopiesCounted, CopiesStep, Newer, CountOK
<1>3. us # None => us.count \in Nat
  BY SignupFields, SignupsAssumption DEF SignupsAssumption, IInv, TypeInv, Copies
<1>4. us' # None => us # None /\ us'.count \in Nat /\ us'.count >= us.count
  <2>1. us' \in Signup \cup {None}
    BY <1>1 DEF TypeInv, Copies
  <2>2. us' # None => us'.count \in Nat
    BY <2>1, SignupFields, SignupsAssumption DEF SignupsAssumption
  <2> QED
    BY <1>1, <1>3, <2>2 DEF CopiesStep, Newer
<1>5. pc = "create" \/ (pc = "annotate" /\ obj = us) => (us # None => us.count > 0)
  <2>1. CASE pc = "annotate" /\ obj = us
    BY <2>1 DEF IInv, WorkInv, CountOK
  <2> QED
    BY <2>1 DEF IInv, CountInv
<1>6. pc' = "create" /\ us' # None => us'.count > 0
  BY <1>1, <1>3, <1>4, <1>5 DEF WorkStep
<1>7. ActivationCounted'
  <2> SUFFICES ASSUME NEW n \in Names, us' # None, mur'[n] # "none" PROVE us'.count > 0
    BY DEF ActivationCounted
  <2>1. CASE RecordsStep
    BY <1>3, <1>4, <2>1 DEF RecordsStep, IInv, CountInv, ActivationCounted
  <2>2. CASE RecordCreated
    BY <1>3, <1>4, <1>5, <2>2 DEF RecordCreated
  <2> QED
    BY <1>1, <2>1, <2>2
<1> QED
  BY <1>1, <1>2, <1>6, <1>7 DEF IInv, WorkStep, CountInv

\* All variables of the lifecycle keep their types, the plans of the Deactivation controller
\* their length and copy, under any interleaving of the controllers of a user.
THEOREM TypeCorrect == Spec => []LifecycleTypeOK
<1>1. IInv => LifecycleTypeOK
  BY Types DEF IInv
<1> QED
  BY IInvInit, IInvNext, <1>1, PTL DEF Spec

\* No record without a counted activation, whatever the caches, failures and edits: setStateLabel
\* writes the label and the counter in one update, and provisionMasterUserRecord is refused with
\* a copy that is not the UserSignup.
THEOREM ActivationCountedAlways == Spec => []ActivationCounted
<1>1. IInv => ActivationCounted
  BY DEF IInv, CountInv
<1> QED
  BY IInvInit, IInvNext, <1>1, PTL DEF Spec

\* With a cache that is up to date a user on the way to a record has none.
AloneInv ==
    ~scenario.lag =>
        /\ Awaiting => \A n \in Names : mur[n] = "none"
        /\ \A n, k \in Names : mur[n] # "none" /\ mur[k] # "none" => n = k

LEMMA AloneNext == IInv /\ AloneInv /\ [Next]_vars => AloneInv'
<1> SUFFICES ASSUME IInv, AloneInv, [Next]_vars, ~scenario.lag
             PROVE  /\ Awaiting' => \A n \in Names : mur'[n] = "none"
                    /\ \A n, k \in Names : mur'[n] # "none" /\ mur'[k] # "none" => n = k
  <2>1. UNCHANGED scenario \/ ~(IInv /\ [Next]_vars)
    BY EveryStep DEF AnyStep
  <2> QED
    BY <2>1 DEF AloneInv
<1>1. WorkStep /\ (RecordsStep \/ RecordCreated)
  BY EveryStep DEF AnyStep
<1>2. murC = mur
  BY DEF IInv, TypeInv, Records
<1>3. CASE RecordsStep
  <2>1. Awaiting' => \A n \in Names : mur[n] = "none"
    BY <1>1, <1>2 DEF WorkStep, AloneInv
  <2> QED
    BY <1>3, <2>1 DEF RecordsStep, AloneInv
<1>4. CASE RecordCreated
  <2>1. ~Awaiting'
    BY <1>4 DEF RecordCreated, Awaiting
  <2>2. \A n \in Names : mur[n] = "none"
    BY <1>4 DEF RecordCreated, Awaiting, AloneInv
  <2>3. PICK n \in Names : mur' = [mur EXCEPT ![n] = "new"]
    BY <1>4 DEF RecordCreated
  <2>4. \A k \in Names : mur'[k] # "none" => k = n
    BY <2>2, <2>3 DEF IInv, TypeInv, Records
  <2> QED
    BY <2>1, <2>4
<1> QED
  BY <1>1, <1>3, <1>4

\* The user never has two records as long as the cache shows the controller what it has done:
\* for any number of edits, failures and names.  (With a cache that is behind it is not so.)
THEOREM OneRecordWithoutLag == Spec => [](~scenario.lag => OneRecord)
<1>1. Init => AloneInv
  BY DEF Init, SignupInit, AloneInv, Awaiting
<1>2. AloneInv => (~scenario.lag => OneRecord)
  <2> SUFFICES ASSUME AloneInv, ~scenario.lag PROVE OneRecord
    OBVIOUS
  <2> DEFINE S == {n \in Names : mur[n] # "none"}
  <2>1. S = {} \/ \E n \in Names : S = {n}
    BY DEF AloneInv
  <2>2. Cardinality(S) = 0 \/ Cardinality(S) = 1
    BY <2>1, FS_EmptySet, FS_Singleton
  <2> QED
    BY <2>2 DEF OneRecord
<1> QED
  BY IInvInit, IInvNext, AloneNext, <1>1, <1>2, PTL DEF Spec

=============================================================================
