-------------------------- MODULE SpaceRequests_proofs --------------------------
(***************************************************************************)
(* The SpaceRequest controller implements ResourceOwnership for any number  *)
(* of names, specs, clusters, edits and failures when the cache of Spaces   *)
(* is current, and makes one sub-space at most, however far that cache is   *)
(* behind, when no other Space has had a name the sub-space can get.        *)
(***************************************************************************)
EXTENDS SpaceRequests, FiniteSetTheorems, SequenceTheorems, TLAPS

-----------------------------------------------------------------------------
(***************************************************************************)
(* The Spaces, those in the cache and those on their way to it: when no     *)
(* other Space had one of the names, there never is a Space but the first.  *)
(***************************************************************************)
SpaceMaps == [Names -> SubSpace \cup {None, Other}]

OnlyFirst(s) == \A n \in Names : s[n] # Other /\ (n # 1 => s[n] = None)

Lists == {s \in SpaceMaps : scenario.taken = {} => OnlyFirst(s)}

ListsOK ==
    /\ spaces \in Lists /\ spacesC \in Lists /\ feed \in Seq(Lists)
    /\ Len(feed) \in 0..MaxLag /\ (~scenario.lag => feed = <<>> /\ spacesC = spaces)

TypeInv == TypeOK /\ ListsOK

LEMMA Bounds == MaxLag \in Nat /\ 1 \in Names /\ Names \subseteq Nat
  BY RequestsAssumption DEF RequestsAssumption, Names

LEMMA Special == None # Other /\ None \notin SubSpace /\ Other \notin SubSpace /\ None \notin Request
  BY NoneAssumption

LEMMA MapChanged ==
    ASSUME NEW s \in Lists, NEW n \in Names, NEW v \in SubSpace \cup {None},
           v = None \/ s[n] \in SubSpace \/ n = 1
    PROVE  [s EXCEPT ![n] = v] \in Lists
  BY Special DEF Lists, SpaceMaps, OnlyFirst

\* What a step may do to the Spaces: a cache that is behind catches up, or one Space goes or
\* is replaced by another state of it.
Shrinks ==
    \E n \in Names, v \in SubSpace \cup {None} :
        SetSpaces([spaces EXCEPT ![n] = v]) /\ (v = None \/ spaces[n] \in SubSpace)

CatchesUp == feed # <<>> /\ spacesC' = Head(feed) /\ feed' = Tail(feed) /\ UNCHANGED spaces

LEMMA SetStep ==
    ASSUME ListsOK, UNCHANGED scenario, NEW s \in Lists, SetSpaces(s)
    PROVE  ListsOK'
<1>1. Lists' = Lists
  BY DEF Lists
<1>2. CASE scenario.lag
  <2>1. /\ spaces' = s /\ Len(feed) < MaxLag /\ feed' = Append(feed, s) /\ spacesC' = spacesC
        /\ feed \in Seq(Lists) /\ Len(feed) \in Nat /\ MaxLag \in Nat
    BY <1>2, Bounds DEF SetSpaces, ListsOK
  <2>2. feed' \in Seq(Lists) /\ Len(feed') = Len(feed) + 1
    BY <2>1
  <2>3. Len(feed') \in 0..MaxLag
    BY <2>1, <2>2
  <2> QED
    BY <1>1, <1>2, <2>1, <2>2, <2>3 DEF ListsOK
<1>3. CASE ~scenario.lag
  BY <1>1, <1>3 DEF SetSpaces, ListsOK
<1> QED
  BY <1>2, <1>3

LEMMA ShrinkStep == ASSUME ListsOK, UNCHANGED scenario, Shrinks PROVE ListsOK'
  BY MapChanged, SetStep DEF Shrinks, ListsOK

LEMMA CatchUpStep == ASSUME ListsOK, UNCHANGED scenario, CatchesUp PROVE ListsOK'
<1>1. Lists' = Lists
  BY DEF Lists
<1>2. feed \in Seq(Lists) /\ feed # <<>> /\ Len(feed) \in 0..MaxLag /\ MaxLag \in Nat
  BY Bounds DEF CatchesUp, ListsOK
<1>3. Head(feed) \in Lists /\ Tail(feed) \in Seq(Lists) /\ Len(Tail(feed)) = Len(feed) - 1 /\ Len(feed) # 0
  BY <1>2
<1>4. Len(Tail(feed)) \in 0..MaxLag
  BY <1>2, <1>3
<1> QED
  BY <1>1, <1>3, <1>4 DEF CatchesUp, ListsOK

\* The name that resolveSubSpaceName finds is the first one, when no other Space had it.
LEMMA ResolvedStep ==
    ASSUME ListsOK, NEW n \in resolveSubSpaceName, NEW v \in SubSpace
    PROVE  n \in Names /\ [spaces EXCEPT ![n] = v] \in Lists
<1>1. n \in Names /\ spaces \in Lists /\ spacesC \in Lists
  BY DEF ListsOK, resolveSubSpaceName
<1>2. CASE n = 1
  BY <1>1, <1>2, MapChanged
<1>3. CASE n # 1
  <2>1. 1 \in 1..(n - 1)
    BY <1>1, <1>3, Bounds DEF Names
  <2>2. spacesC[1] = Other
    BY <2>1 DEF resolveSubSpaceName
  <2>3. scenario.taken # {}
    BY <1>1, <2>2, Bounds DEF Lists, OnlyFirst
  <2> QED
    BY <1>1, <2>3 DEF Lists, SpaceMaps
<1> QED
  BY <1>1, <1>2, <1>3

LEMMA ListsInit == Init => ListsOK
<1> SUFFICES ASSUME Init PROVE ListsOK
  OBVIOUS
<1>1. spaces \in Lists
  BY Special DEF Init, Lists, SpaceMaps, OnlyFirst
<1>2. <<>> \in Seq(Lists) /\ Len(<<>>) = 0 /\ 0 \in 0..MaxLag
  BY Bounds
<1> QED
  BY <1>1, <1>2 DEF Init, ListsOK

-----------------------------------------------------------------------------
(***************************************************************************)
(* Types                                                                   *)
(***************************************************************************)
LEMMA RequestFields ==
    ASSUME NEW o \in Request
    PROVE  /\ o.phase \in {"new", "live", "deleting"} /\ o.spec \in AllSpecs /\ o.ready \in Reasons
           /\ o.access \in BOOLEAN
  BY DEF Request

LEMMA WithReady ==
    ASSUME NEW o \in Request, NEW r \in Reasons
    PROVE  [o EXCEPT !.ready = r] \in Request /\ [o EXCEPT !.ready = r].phase = o.phase
  BY DEF Request

LEMMA WithAccess ==
    ASSUME NEW o \in Request
    PROVE  [o EXCEPT !.access = TRUE] \in Request /\ [o EXCEPT !.access = TRUE].phase = o.phase
  BY DEF Request

LEMMA WithSpec ==
    ASSUME NEW o \in Request, NEW t \in AllSpecs
    PROVE  [o EXCEPT !.spec = t] \in Request /\ [o EXCEPT !.spec = t].phase = o.phase
  BY DEF Request

LEMMA WithPhase ==
    ASSUME NEW o \in Request, NEW f \in {"new", "live", "deleting"}
    PROVE  [o EXCEPT !.phase = f] \in Request /\ [o EXCEPT !.phase = f].phase = f
  BY DEF Request

LEMMA Mirrored ==
    ASSUME NEW o \in Request, NEW r \in Reasons, NEW u \in Clusters
    PROVE  /\ [o EXCEPT !.ready = r, !.url = u] \in Request
           /\ [o EXCEPT !.ready = r, !.url = u].phase = o.phase
  BY DEF Request

LEMMA SubSpaceFields ==
    ASSUME NEW s \in SubSpace
    PROVE  s.ready \in SpaceReasons /\ (s.cluster # None => s.cluster \in Clusters)
  BY DEF SubSpace

LEMMA Respecified ==
    ASSUME NEW s \in SubSpace, NEW t \in AllSpecs
    PROVE  [s EXCEPT !.spec = t, !.pending = TRUE] \in SubSpace
  BY DEF SubSpace

LEMMA DeletedType == ASSUME NEW s \in SubSpace PROVE Deleted(s) \in SubSpace \cup {None}
  BY DEF SubSpace, Deleted

LEMMA Worked ==
    ASSUME NEW s \in SubSpace, NEW c \in Clusters
    PROVE  /\ [s EXCEPT !.ready = "Provisioning", !.cluster = c] \in SubSpace
           /\ [s EXCEPT !.cluster = c, !.ready = "Provisioning"] \in SubSpace
           /\ [s EXCEPT !.ready = "Updating"] \in SubSpace
           /\ [s EXCEPT !.ready = "Provisioned", !.pending = FALSE] \in SubSpace
  BY DEF SubSpace, SpaceReasons

LEMMA NewRequestType == NewRequest \in Request /\ NewRequest.phase = "new"
  BY RequestsAssumption DEF RequestsAssumption, NewRequest, Request, AllSpecs, Reasons, SpaceReasons

LEMMA NewSubSpaceType == ASSUME obj \in Request PROVE NewSubSpace \in SubSpace
  BY RequestFields DEF NewSubSpace, SubSpace, SpaceReasons

LEMMA ReasonNames ==
    /\ SpaceReasons \subseteq Reasons /\ Specs \subseteq AllSpecs
    /\ {"Provisioning", "Updating", "Provisioned"} \subseteq SpaceReasons
    /\ {"Failed", "Terminating", "TerminatingFailed"} \subseteq Reasons
  BY DEF SpaceReasons, Reasons, AllSpecs

RequestOK == sr \in Request \cup {None} /\ srC \in Request \cup {None} /\ secret \in BOOLEAN

PlacesOK == parent \in {"live", "deleting", "gone"} /\ namespace \in {"live", "terminating", "gone"}

WorkOK ==
    /\ pc \in {"idle", "finalizer", "space", "create", "access", "grant", "mirror",
               "delete", "terminating", "finalize"}
    /\ pc # "idle" => obj \in Request
    /\ pc \in {"access", "grant", "mirror"} => at \in Names /\ sub \in SubSpace

BoundOK == edits \in 0..scenario.edits /\ faults \in 0..scenario.faults /\ scenario \in Scenarios

LEMMA Split == TypeInv <=> RequestOK /\ PlacesOK /\ ListsOK /\ queued \in BOOLEAN /\ WorkOK /\ BoundOK
<1>1. ListsOK => /\ \A s \in {spaces, spacesC} : s \in [Names -> SubSpace \cup {None, Other}]
                 /\ Len(feed) \in 0..MaxLag /\ (~scenario.lag => feed = <<>> /\ spacesC = spaces)
  BY DEF ListsOK, Lists, SpaceMaps
<1> QED
  BY <1>1 DEF TypeInv, TypeOK, RequestOK, PlacesOK, WorkOK, BoundOK

LEMMA BoundStep ==
    ASSUME BoundOK, (\E k \in Kinds : Edit(k)) \/ Fault \/ UNCHANGED boundVars
    PROVE  BoundOK' /\ UNCHANGED scenario
<1>1. scenario.edits \in Nat /\ scenario.faults \in Nat
  BY RequestsAssumption DEF BoundOK, RequestsAssumption
<1> QED
  BY <1>1 DEF BoundOK, Edit, Fault, boundVars

LEMMA IdleStep == ASSUME Done PROVE WorkOK' /\ pc' = "idle"
  BY DEF Done, WorkOK

\* Most steps leave the request and its phase as they are.
Keeps ==
    \/ sr = None /\ sr' = None
    \/ sr \in Request /\ sr' \in Request /\ sr'.phase = sr.phase

LEMMA KeepsSame == ASSUME RequestOK, UNCHANGED sr PROVE Keeps
  BY DEF Keeps, RequestOK

LEMMA ReportStep ==
    ASSUME RequestOK, obj \in Request, NEW r \in Reasons, Report(obj, r)
    PROVE  Keeps
<1>1. CASE UNCHANGED sr
  BY <1>1, KeepsSame
<1>2. CASE obj = sr /\ sr' = [obj EXCEPT !.ready = r]
  BY <1>2, WithReady DEF Keeps
<1> QED
  BY <1>1, <1>2 DEF Report

\* A reconcile that ends without having done anything but to report.
Ends == Keeps /\ WorkOK' /\ pc' = "idle" /\ queued' \in BOOLEAN /\ BoundOK' /\ UNCHANGED scenario

LEMMA FailStep ==
    ASSUME RequestOK, obj \in Request, BoundOK, NEW r \in Reasons, Fail(r) \/ Break(r)
    PROVE  Ends
<1>1. Requeue /\ (Report(obj, r) \/ UNCHANGED sr) /\ (UNCHANGED boundVars \/ Fault)
  BY DEF Fail, Break
<1> QED
  BY <1>1, IdleStep, BoundStep, KeepsSame, ReportStep DEF Ends, Requeue

LEMMA RetryStep ==
    ASSUME RequestOK, BoundOK, Retry, UNCHANGED boundVars \/ Fault
    PROVE  Ends
  BY IdleStep, BoundStep, KeepsSame DEF Ends, Retry, Requeue

LEMMA DoneStep ==
    ASSUME Keeps, BoundOK, queued \in BOOLEAN, Done, UNCHANGED <<queued, boundVars>>
    PROVE  Ends
  BY IdleStep, BoundStep DEF Ends

LEMMA WakesType == ASSUME queued \in BOOLEAN, NEW s PROVE Wakes(s) \in BOOLEAN
  BY DEF Wakes, MapSubSpaceToSpaceRequest

\* What a step of the controller does to the types, when it neither adds nor removes the
\* finalizer nor creates the sub-space.
Typed ==
    /\ Keeps /\ secret' \in BOOLEAN /\ queued' \in BOOLEAN /\ WorkOK' /\ BoundOK' /\ UNCHANGED scenario
    /\ UNCHANGED spaceVars \/ Shrinks

LEMMA StatusTypes ==
    ASSUME TypeInv,
           \/ Reconcile \/ CannotEnsure \/ setStatusProvisioning \/ EnsureSecret
           \/ GrantAccess \/ updateSpaceRequest \/ AwaitSubSpace \/ TooManySubSpaces
           \/ setStatusTerminating \/ Restart
    PROVE  Typed /\ UNCHANGED spaceVars
<1> USE Split DEF Typed
<1>1. UNCHANGED spaceVars
  BY DEF Reconcile, CannotEnsure, setStatusProvisioning, EnsureSecret, GrantAccess, updateSpaceRequest,
         AwaitSubSpace, TooManySubSpaces, setStatusTerminating, Restart
<1>2. RequestOK /\ BoundOK /\ queued \in BOOLEAN /\ WorkOK /\ secret \in BOOLEAN
  BY DEF RequestOK
<1>3. ASSUME Ends, UNCHANGED secret PROVE Typed /\ UNCHANGED spaceVars
  BY <1>1, <1>2, <1>3 DEF Ends
<1>4. CASE Reconcile
  <2>1. WorkOK'
    BY <1>2, <1>4, RequestFields DEF Reconcile, RequestOK, WorkOK
  <2> QED
    BY <1>1, <1>2, <1>4, <2>1, KeepsSame, BoundStep DEF Reconcile, requestVars
<1>5. CASE CannotEnsure
  BY <1>2, <1>3, <1>5, RetryStep DEF CannotEnsure
<1>6. CASE setStatusProvisioning
  <2>1. obj \in Request /\ "Provisioning" \in Reasons /\ UNCHANGED secret
    BY <1>2, <1>6, ReasonNames DEF setStatusProvisioning, WorkOK
  <2>2. CASE Retry /\ (UNCHANGED boundVars \/ Fault)
    BY <1>2, <1>3, <2>1, <2>2, RetryStep
  <2>3. CASE /\ Report(obj, "Provisioning") /\ obj' = [obj EXCEPT !.ready = "Provisioning"] /\ pc' = "create"
             /\ UNCHANGED <<queued, boundVars>>
    <3>1. WorkOK'
      BY <2>1, <2>3, WithReady DEF WorkOK
    <3> QED
      BY <1>1, <1>2, <2>1, <2>3, <3>1, ReportStep, BoundStep
  <2> QED
    BY <1>6, <2>2, <2>3 DEF setStatusProvisioning
<1>7. CASE EnsureSecret
  <2>1. obj \in Request /\ "Failed" \in Reasons /\ pc = "access"
    BY <1>2, <1>7, ReasonNames DEF EnsureSecret, WorkOK
  <2>2. CASE Break("Failed") /\ UNCHANGED secret
    BY <1>2, <1>3, <2>1, <2>2, FailStep
  <2>3. CASE UNCHANGED <<sr, obj, at, sub, queued, boundVars>> /\ pc' \in {"grant", "mirror"}
    <3>1. WorkOK'
      BY <1>2, <2>1, <2>3 DEF WorkOK
    <3>2. secret' = secret \/ secret' = (secret \/ (obj.access /\ sr # None /\ sr.access))
      BY <1>7 DEF EnsureSecret
    <3>3. obj.access \in BOOLEAN /\ (sr # None => sr.access \in BOOLEAN)
      BY <1>2, <2>1, RequestFields DEF RequestOK
    <3>4. secret' \in BOOLEAN
      BY <1>2, <3>2, <3>3
    <3> QED
      BY <1>1, <1>2, <2>3, <3>1, <3>4, KeepsSame, BoundStep
  <2> QED
    BY <1>7, <2>2, <2>3 DEF EnsureSecret
<1>8. CASE GrantAccess
  <2> DEFINE granted == [obj EXCEPT !.access = TRUE]
             failed  == [granted EXCEPT !.ready = "Failed"]
  <2>1. obj \in Request /\ "Failed" \in Reasons /\ pc = "grant" /\ obj.access \in BOOLEAN
    BY <1>2, <1>8, ReasonNames, RequestFields DEF GrantAccess, WorkOK
  <2>2. granted \in Request /\ granted.phase = obj.phase
    BY <2>1, WithAccess
  <2> HIDE DEF granted
  <2>3. failed \in Request /\ failed.phase = obj.phase
    BY <2>1, <2>2, WithReady
  <2> HIDE DEF failed
  <2>4. secret' = secret \/ secret' = (secret \/ ~obj.access)
    BY <1>8 DEF GrantAccess
  <2>5. secret' \in BOOLEAN
    BY <1>2, <2>1, <2>4
  <2>6. CASE Requeue
    <3>1. UNCHANGED sr \/ (obj = sr /\ sr' \in {granted, failed})
      BY <1>8, <2>6 DEF GrantAccess, Requeue, Done, Retry, granted, failed
    <3>2. Keeps
      BY <1>2, <2>1, <2>2, <2>3, <3>1, KeepsSame DEF Keeps
    <3> QED
      BY <1>1, <1>2, <1>8, <2>5, <2>6, <3>2, IdleStep, BoundStep DEF GrantAccess, Requeue
  <2>7. CASE ~Requeue
    <3>1. obj = sr /\ sr' = granted /\ obj' = granted /\ pc' = "mirror" /\ UNCHANGED <<queued, at, sub, boundVars>>
      BY <1>8, <2>7 DEF GrantAccess, Retry, granted
    <3>2. WorkOK' /\ Keeps
      BY <1>2, <2>1, <2>2, <3>1 DEF WorkOK, Keeps
    <3> QED
      BY <1>1, <1>2, <2>5, <3>1, <3>2, BoundStep
  <2> QED
    BY <2>6, <2>7
<1>9. CASE updateSpaceRequest
  <2>1. obj \in Request /\ sub \in SubSpace /\ UNCHANGED secret
    BY <1>2, <1>9 DEF updateSpaceRequest, WorkOK
  <2>2. CASE Retry /\ (UNCHANGED boundVars \/ Fault)
    BY <1>2, <1>3, <2>1, <2>2, RetryStep
  <2>3. CASE UNCHANGED sr /\ Done /\ UNCHANGED <<queued, boundVars>>
    BY <1>2, <1>3, <2>1, <2>3, DoneStep, KeepsSame
  <2>4. CASE /\ sub.cluster # None /\ obj = sr /\ sr' = [obj EXCEPT !.ready = sub.ready, !.url = sub.cluster]
             /\ Done /\ UNCHANGED <<queued, boundVars>>
    <3>1. sub.cluster \in Clusters /\ sub.ready \in Reasons
      BY <2>1, <2>4, SubSpaceFields, ReasonNames
    <3>2. sr' \in Request /\ sr'.phase = sr.phase
      BY <2>1, <2>4, <3>1, Mirrored
    <3> QED
      BY <1>2, <1>3, <2>1, <2>4, <3>2, DoneStep DEF Keeps
  <2> QED
    BY <1>9, <2>2, <2>3, <2>4 DEF updateSpaceRequest
<1>10. CASE AwaitSubSpace
  <2>1. obj \in Request /\ "TerminatingFailed" \in Reasons /\ UNCHANGED secret
    BY <1>2, <1>10, ReasonNames DEF AwaitSubSpace, WorkOK
  <2>2. CASE Fail("TerminatingFailed")
    BY <1>2, <1>3, <2>1, <2>2, FailStep
  <2>3. CASE pc' = "terminating" /\ UNCHANGED <<sr, obj, at, sub, queued, boundVars>>
    BY <1>1, <1>2, <2>1, <2>3, KeepsSame, BoundStep DEF WorkOK
  <2> QED
    BY <1>10, <2>2, <2>3 DEF AwaitSubSpace
<1>11. CASE TooManySubSpaces
  <2>1. obj \in Request /\ "TerminatingFailed" \in Reasons /\ UNCHANGED secret
    BY <1>2, <1>11, ReasonNames DEF TooManySubSpaces, WorkOK
  <2> QED
    BY <1>2, <1>3, <1>11, <2>1, FailStep DEF TooManySubSpaces
<1>12. CASE setStatusTerminating
  <2>1. obj \in Request /\ "Terminating" \in Reasons /\ UNCHANGED secret
    BY <1>2, <1>12, ReasonNames DEF setStatusTerminating, WorkOK
  <2>2. CASE Retry /\ (UNCHANGED boundVars \/ Fault)
    BY <1>2, <1>3, <2>1, <2>2, RetryStep
  <2>3. CASE Report(obj, "Terminating") /\ Done /\ UNCHANGED <<queued, boundVars>>
    BY <1>2, <1>3, <2>1, <2>3, ReportStep, DoneStep
  <2> QED
    BY <1>12, <2>2, <2>3 DEF setStatusTerminating
<1>13. CASE Restart
  BY <1>2, <1>3, <1>13, RetryStep DEF Restart
<1> QED
  BY <1>1, <1>4, <1>5, <1>6, <1>7, <1>8, <1>9, <1>10, <1>11, <1>12, <1>13

LEMMA SpaceAt == ASSUME ListsOK, NEW n \in SubSpaces(spaces) PROVE n \in Names /\ spaces[n] \in SubSpace
  BY DEF ListsOK, Lists, SpaceMaps, SubSpaces

LEMMA CachedAt == ASSUME ListsOK, NEW n \in SubSpaces(spacesC) PROVE n \in Names /\ spacesC[n] \in SubSpace
  BY DEF ListsOK, Lists, SpaceMaps, SubSpaces

LEMMA SubSpaceTypes ==
    ASSUME TypeInv, NEW n \in Names, UpdateSubSpace(n) \/ DeleteSubSpace(n)
    PROVE  Typed /\ UNCHANGED secret
<1> USE Split DEF Typed
<1>1. RequestOK /\ BoundOK /\ ListsOK /\ queued \in BOOLEAN /\ WorkOK /\ secret \in BOOLEAN
  BY DEF RequestOK
<1>2. UNCHANGED secret /\ obj \in Request
  BY <1>1 DEF UpdateSubSpace, DeleteSubSpace, WorkOK
<1>3. ASSUME Ends, UNCHANGED spaceVars \/ Shrinks PROVE Typed
  BY <1>1, <1>2, <1>3 DEF Ends
<1>4. CASE UpdateSubSpace(n)
  <2> DEFINE updated == [spaces EXCEPT ![n].spec = obj.spec, ![n].pending = TRUE]
  <2>1. n \in SubSpaces(spacesC) /\ spacesC[n] \in SubSpace /\ obj.spec \in AllSpecs
    BY <1>1, <1>2, <1>4, CachedAt, RequestFields DEF UpdateSubSpace
  <2>2. CASE Retry /\ (UNCHANGED boundVars \/ Fault) /\ UNCHANGED spaceVars
    BY <1>1, <1>2, <1>3, <2>2, RetryStep
  <2>3. CASE /\ pc = "space" /\ pc' = "access" /\ at' = n /\ sub' = spacesC[n]
             /\ UNCHANGED <<sr, obj, queued, spaceVars, boundVars>>
    <3>1. WorkOK'
      BY <1>2, <2>1, <2>3 DEF WorkOK
    <3> QED
      BY <1>1, <1>2, <2>3, <3>1, KeepsSame, BoundStep
  <2>4. CASE spaces[n] = spacesC[n] /\ SetSpaces(updated)
    <3> DEFINE v == [spaces[n] EXCEPT !.spec = obj.spec, !.pending = TRUE]
    <3>1. v \in SubSpace /\ spaces[n] \in SubSpace
      BY <2>1, <2>4, Respecified
    <3>2. updated = [spaces EXCEPT ![n] = v]
      BY <1>1 DEF ListsOK, Lists, SpaceMaps
    <3> HIDE DEF updated, v
    <3>3. Shrinks
      BY <2>4, <3>1, <3>2 DEF Shrinks
    <3>4. \/ Done /\ queued' = Wakes(updated) /\ UNCHANGED <<sr, boundVars>>
          \/ Retry /\ (UNCHANGED boundVars \/ Fault)
          \/ pc' = "access" /\ UNCHANGED <<sr, obj, queued, boundVars>> /\ at' = n /\ sub' = spacesC[n]
      BY <1>4 DEF UpdateSubSpace, updated
    <3>5. CASE Retry /\ (UNCHANGED boundVars \/ Fault)
      BY <1>1, <1>2, <1>3, <3>3, <3>5, RetryStep
    <3>6. CASE Done /\ queued' = Wakes(updated) /\ UNCHANGED <<sr, boundVars>>
      BY <1>1, <1>2, <3>3, <3>6, WakesType, IdleStep, KeepsSame, BoundStep
    <3>7. CASE pc' = "access" /\ UNCHANGED <<sr, obj, queued, boundVars>> /\ at' = n /\ sub' = spacesC[n]
      <4>1. WorkOK'
        BY <1>2, <2>1, <3>7 DEF WorkOK
      <4> QED
        BY <1>1, <1>2, <3>3, <3>7, <4>1, KeepsSame, BoundStep
    <3> QED
      BY <3>4, <3>5, <3>6, <3>7
  <2> QED
    BY <1>4, <2>2, <2>3, <2>4 DEF UpdateSubSpace
<1>5. CASE DeleteSubSpace(n)
  <2> DEFINE left == [spaces EXCEPT ![n] = Deleted(@)]
  <2>1. pc = "delete" /\ "TerminatingFailed" \in Reasons
    BY <1>5, ReasonNames DEF DeleteSubSpace
  <2>2. CASE Break("TerminatingFailed") /\ UNCHANGED spaceVars
    BY <1>1, <1>2, <1>3, <2>1, <2>2, FailStep
  <2>3. CASE n \notin SubSpaces(spaces) /\ pc' = "finalize" /\ UNCHANGED <<sr, obj, at, sub, queued, spaceVars, boundVars>>
    BY <1>1, <1>2, <2>3, KeepsSame, BoundStep DEF WorkOK
  <2>4. CASE n \in SubSpaces(spaces) /\ SetSpaces(left)
    <3>1. spaces[n] \in SubSpace /\ Deleted(spaces[n]) \in SubSpace \cup {None}
      BY <1>1, <2>4, SpaceAt, DeletedType
    <3>2. Shrinks
      BY <2>4, <3>1 DEF Shrinks
    <3> HIDE DEF left
    <3>3. \/ pc' = "terminating" /\ queued' = Wakes(left) /\ UNCHANGED <<sr, obj, at, sub, boundVars>>
          \/ Break("TerminatingFailed")
      BY <1>5, <2>4 DEF DeleteSubSpace, left
    <3>4. CASE Break("TerminatingFailed")
      BY <1>1, <1>2, <1>3, <2>1, <3>2, <3>4, FailStep
    <3>5. CASE pc' = "terminating" /\ queued' = Wakes(left) /\ UNCHANGED <<sr, obj, at, sub, boundVars>>
      <4>1. WorkOK'
        BY <1>2, <3>5 DEF WorkOK
      <4> QED
        BY <1>1, <1>2, <3>2, <3>5, <4>1, WakesType, KeepsSame, BoundStep
    <3> QED
      BY <3>3, <3>4, <3>5
  <2> QED
    BY <1>5, <2>2, <2>3, <2>4 DEF DeleteSubSpace
<1> QED
  BY <1>2, <1>4, <1>5

\* The finalizer, and the step that makes a sub-space.
LEMMA FinalizerTypes ==
    ASSUME TypeInv, addFinalizer \/ RemoveFinalizer
    PROVE  /\ sr' \in Request \cup {None} /\ secret' \in BOOLEAN /\ queued' \in BOOLEAN
           /\ WorkOK' /\ BoundOK' /\ UNCHANGED <<spaceVars, scenario>>
<1> USE Split
<1>1. RequestOK /\ BoundOK /\ queued \in BOOLEAN /\ WorkOK /\ secret \in BOOLEAN
  BY DEF RequestOK
<1>2. obj \in Request /\ UNCHANGED spaceVars
  BY <1>1 DEF addFinalizer, RemoveFinalizer, WorkOK
<1>3. ASSUME Ends, secret' \in BOOLEAN
      PROVE  /\ sr' \in Request \cup {None} /\ secret' \in BOOLEAN /\ queued' \in BOOLEAN
             /\ WorkOK' /\ BoundOK' /\ UNCHANGED <<spaceVars, scenario>>
  BY <1>2, <1>3 DEF Ends, Keeps
<1>4. CASE addFinalizer
  <2>1. CASE Retry /\ (UNCHANGED boundVars \/ Fault)
    BY <1>1, <1>3, <1>4, <2>1, RetryStep DEF addFinalizer
  <2>2. CASE /\ sr' = [obj EXCEPT !.phase = "live"] /\ obj' = sr' /\ pc' = "space"
             /\ UNCHANGED <<queued, at, sub, boundVars>>
    <3>1. sr' \in Request
      BY <1>2, <2>2, WithPhase
    <3>2. WorkOK'
      BY <1>1, <2>2, <3>1 DEF WorkOK
    <3> QED
      BY <1>1, <1>2, <1>4, <2>2, <3>1, <3>2, BoundStep DEF addFinalizer
  <2> QED
    BY <1>4, <2>1, <2>2 DEF addFinalizer
<1>5. CASE RemoveFinalizer
  <2>1. "TerminatingFailed" \in Reasons
    BY ReasonNames
  <2>2. CASE (Fail("TerminatingFailed") \/ Break("TerminatingFailed")) /\ UNCHANGED secret
    BY <1>1, <1>2, <1>3, <2>1, <2>2, FailStep
  <2>3. CASE sr' = None /\ secret' = FALSE /\ Done /\ UNCHANGED <<queued, boundVars>>
    BY <1>1, <1>2, <2>3, IdleStep, BoundStep
  <2> QED
    BY <1>5, <2>2, <2>3 DEF RemoveFinalizer
<1> QED
  BY <1>4, <1>5

LEMMA CreateTypes ==
    ASSUME TypeInv, CreateSubSpace
    PROVE  /\ Keeps /\ UNCHANGED secret /\ queued' \in BOOLEAN /\ WorkOK' /\ BoundOK' /\ UNCHANGED scenario
           /\ ListsOK' /\ pc' = "idle"
           /\ \/ UNCHANGED spaceVars
              \/ \E n \in resolveSubSpaceName :
                    spaces[n] = None /\ SetSpaces([spaces EXCEPT ![n] = NewSubSpace])
<1> USE Split
<1>1. RequestOK /\ BoundOK /\ ListsOK /\ queued \in BOOLEAN /\ WorkOK
  OBVIOUS
<1>2. obj \in Request /\ "Failed" \in Reasons /\ UNCHANGED secret
  BY <1>1, ReasonNames DEF CreateSubSpace, WorkOK
<1>3. CASE (Fail("Failed") \/ Break("Failed")) /\ UNCHANGED spaceVars
  <2>1. Ends
    BY <1>1, <1>2, <1>3, FailStep
  <2> QED
    BY <1>1, <1>2, <1>3, <2>1 DEF Ends, spaceVars, ListsOK, Lists
<1>4. ASSUME NEW n \in resolveSubSpaceName, NEW made, made = [spaces EXCEPT ![n] = NewSubSpace],
             spaces[n] = None, SetSpaces(made),
             (Done /\ queued' = Wakes(made) /\ UNCHANGED <<sr, boundVars>>) \/ Break("Failed")
      PROVE  /\ Keeps /\ queued' \in BOOLEAN /\ WorkOK' /\ BoundOK' /\ UNCHANGED scenario
             /\ ListsOK' /\ pc' = "idle"
  <2>1. Keeps /\ queued' \in BOOLEAN /\ WorkOK' /\ BoundOK' /\ UNCHANGED scenario /\ pc' = "idle"
    <3>1. CASE Break("Failed")
      BY <1>1, <1>2, <3>1, FailStep DEF Ends
    <3>2. CASE Done /\ queued' = Wakes(made) /\ UNCHANGED <<sr, boundVars>>
      BY <1>1, <3>2, WakesType, IdleStep, KeepsSame, BoundStep
    <3> QED
      BY <1>4, <3>1, <3>2
  <2>2. made \in Lists
    BY <1>1, <1>2, <1>4, NewSubSpaceType, ResolvedStep
  <2> QED
    BY <1>1, <1>4, <2>1, <2>2, SetStep
<1> QED
  BY <1>2, <1>3, <1>4 DEF CreateSubSpace

LEMMA ChangeStep ==
    ASSUME TypeInv, NEW n \in Names, NEW v \in SubSpace \cup {None}, v = None \/ spaces[n] \in SubSpace,
           ChangeSpace(n, v)
    PROVE  Shrinks /\ queued' \in BOOLEAN /\ UNCHANGED <<requestVars, placeVars, workVars>>
<1>1. SetSpaces([spaces EXCEPT ![n] = v]) /\ queued' = Wakes([spaces EXCEPT ![n] = v])
      /\ UNCHANGED <<requestVars, placeVars, workVars>>
  BY DEF ChangeSpace
<1> QED
  BY <1>1, WakesType, Split DEF Shrinks

\* The Space controller, and administrators that move, delete or rename Spaces.
SpaceActs(n) ==
    \/ SpaceStarts(n) \/ SpaceUpdates(n) \/ SpaceSettles(n) \/ SpaceGoes(n)
    \/ DeleteSubSpaceByHand(n) \/ FreeName(n) \/ \E c \in Clusters : RetargetSubSpace(n, c)

LEMMA KindNames == {"request", "removal", "secret", "parent", "space", "name"} \subseteq Kinds
  BY DEF Kinds

LEMMA SpaceTypes ==
    ASSUME TypeInv, NEW n \in Names, SpaceActs(n)
    PROVE  /\ Shrinks /\ queued' \in BOOLEAN /\ UNCHANGED <<requestVars, placeVars, workVars, scenario>>
           /\ BoundOK'
<1>1. ListsOK /\ BoundOK /\ First \in Clusters
  BY Split, RequestsAssumption DEF RequestsAssumption
<1>2. BoundOK' /\ UNCHANGED scenario
  BY <1>1, BoundStep, KindNames DEF SpaceActs, SpaceStarts, SpaceUpdates, SpaceSettles, SpaceGoes,
         DeleteSubSpaceByHand, FreeName, RetargetSubSpace
<1>3. n \in SubSpaces(spaces) => spaces[n] \in SubSpace
  BY <1>1, SpaceAt
<1>4. \E v \in SubSpace \cup {None} : (v = None \/ spaces[n] \in SubSpace) /\ ChangeSpace(n, v)
  <2>1. CASE SpaceStarts(n)
    BY <1>1, <1>3, <2>1, Worked DEF SpaceStarts, Alive
  <2>2. CASE SpaceUpdates(n)
    BY <1>1, <1>3, <2>2, Worked DEF SpaceUpdates, Alive
  <2>3. CASE SpaceSettles(n)
    BY <1>1, <1>3, <2>3, Worked DEF SpaceSettles, Alive
  <2>4. CASE SpaceGoes(n) \/ FreeName(n)
    BY <2>4 DEF SpaceGoes, FreeName
  <2>5. CASE DeleteSubSpaceByHand(n)
    BY <1>3, <2>5, DeletedType DEF DeleteSubSpaceByHand, Alive
  <2>6. ASSUME NEW c \in Clusters, RetargetSubSpace(n, c)
        PROVE  \E v \in SubSpace \cup {None} : (v = None \/ spaces[n] \in SubSpace) /\ ChangeSpace(n, v)
    BY <1>3, <2>6, Worked DEF RetargetSubSpace, Alive
  <2> QED
    BY <2>1, <2>2, <2>3, <2>4, <2>5, <2>6 DEF SpaceActs
<1> QED
  BY <1>2, <1>4, ChangeStep

\* What is done to the request, its namespace and its parent, and by the caches.
RequestActs ==
    \/ DeliverRequest \/ NamespaceTerminates \/ NamespaceGoes
    \/ CreateRequest \/ DeleteRequest \/ DeleteSecret \/ DeleteParent
    \/ \E spec \in AllSpecs : EditRequest(spec)

LEMMA DeletedRequestType ==
    ASSUME sr \in Request \cup {None}
    PROVE  /\ sr = None \/ sr.phase = "new" => DeletedRequest = None
           /\ sr # None /\ sr.phase # "new" =>
                 DeletedRequest \in Request /\ DeletedRequest.phase = "deleting"
  BY WithPhase DEF DeletedRequest

LEMMA RequestTypes ==
    ASSUME TypeInv, RequestActs
    PROVE  RequestOK' /\ PlacesOK' /\ queued' \in BOOLEAN /\ BoundOK' /\ UNCHANGED <<spaceVars, workVars, scenario>>
<1>1. RequestOK /\ PlacesOK /\ queued \in BOOLEAN /\ BoundOK
  BY Split
<1>2. BoundOK' /\ UNCHANGED <<spaceVars, workVars, scenario>>
  BY <1>1, BoundStep, KindNames DEF RequestActs, DeliverRequest, NamespaceTerminates, NamespaceGoes,
         CreateRequest, DeleteRequest, DeleteSecret, DeleteParent, EditRequest
<1>3. queued' \in BOOLEAN /\ secret' \in BOOLEAN /\ PlacesOK' /\ srC' \in Request \cup {None}
  BY <1>1 DEF RequestActs, DeliverRequest, NamespaceTerminates, NamespaceGoes, RequestOK, PlacesOK,
         CreateRequest, DeleteRequest, DeleteSecret, DeleteParent, EditRequest, requestVars, placeVars
<1>4. sr' \in Request \cup {None}
  <2>1. CASE UNCHANGED sr
    BY <1>1, <2>1 DEF RequestOK
  <2>2. CASE NamespaceTerminates \/ DeleteRequest
    BY <1>1, <2>2, DeletedRequestType DEF NamespaceTerminates, DeleteRequest, RequestOK
  <2>3. CASE CreateRequest
    BY <2>3, NewRequestType DEF CreateRequest
  <2>4. ASSUME NEW spec \in AllSpecs, EditRequest(spec) PROVE sr' \in Request \cup {None}
    BY <1>1, <2>4, WithSpec DEF EditRequest, RequestOK
  <2> QED
    BY <2>1, <2>2, <2>3, <2>4
    DEF RequestActs, DeliverRequest, NamespaceGoes, DeleteSecret, DeleteParent, requestVars
<1> QED
  BY <1>2, <1>3, <1>4 DEF RequestOK

LEMMA DeliverTypes ==
    ASSUME TypeInv, DeliverSpaces
    PROVE  CatchesUp /\ queued' \in BOOLEAN /\ BoundOK' /\ UNCHANGED <<requestVars, placeVars, workVars, boundVars>>
<1>1. queued' = (queued \/ MapSubSpaceToSpaceRequest(spacesC, spacesC')) /\ queued \in BOOLEAN /\ BoundOK
  BY Split DEF DeliverSpaces
<1>2. MapSubSpaceToSpaceRequest(spacesC, spacesC') \in BOOLEAN
  BY DEF MapSubSpaceToSpaceRequest
<1> QED
  BY <1>1, <1>2, BoundStep DEF DeliverSpaces, CatchesUp

\* The steps of the controller leave the cache of the member and the places alone.
LEMMA ControllerKeeps == ASSUME Controller \/ Restart PROVE UNCHANGED <<srC, placeVars>>
  BY DEF Controller, Restart, Reconcile, addFinalizer, CannotEnsure, setStatusProvisioning, CreateSubSpace,
         EnsureSecret, GrantAccess, updateSpaceRequest, AwaitSubSpace, TooManySubSpaces, setStatusTerminating,
         RemoveFinalizer, UpdateSubSpace, DeleteSubSpace, requestVars

\* The steps, in the groups that the lemmas are about.
LEMMA Steps ==
    ASSUME Next
    PROVE  \/ /\ Controller \/ Restart
              /\ \/ Reconcile \/ CannotEnsure \/ setStatusProvisioning \/ EnsureSecret
                 \/ GrantAccess \/ updateSpaceRequest \/ AwaitSubSpace \/ TooManySubSpaces
                 \/ setStatusTerminating \/ Restart
           \/ Controller /\ \E n \in Names : UpdateSubSpace(n) \/ DeleteSubSpace(n)
           \/ Controller /\ (addFinalizer \/ RemoveFinalizer)
           \/ Controller /\ CreateSubSpace
           \/ \E n \in Names : SpaceActs(n)
           \/ RequestActs
           \/ DeliverSpaces
  BY DEF Next, Controller, Environment, Users, SpaceActs, RequestActs

LEMMA TypeNext == TypeInv /\ [Next]_vars => TypeInv'
<1> SUFFICES ASSUME TypeInv, [Next]_vars PROVE TypeInv'
  OBVIOUS
<1>1. RequestOK /\ PlacesOK /\ ListsOK /\ queued \in BOOLEAN /\ WorkOK /\ BoundOK
  BY Split
<1>2. ASSUME RequestOK' /\ PlacesOK' /\ ListsOK' /\ queued' \in BOOLEAN /\ WorkOK' /\ BoundOK' PROVE TypeInv'
  <2>1. /\ \A s \in {spaces', spacesC'} : s \in [Names -> SubSpace \cup {None, Other}]
        /\ Len(feed') \in 0..MaxLag /\ (~scenario'.lag => feed' = <<>> /\ spacesC' = spaces')
    BY <1>2 DEF ListsOK, Lists, SpaceMaps
  <2> QED
    BY <1>2, <2>1 DEF TypeInv, TypeOK, RequestOK, PlacesOK, WorkOK, BoundOK
<1>3. Keeps => sr' \in Request \cup {None}
  BY DEF Keeps
<1>4. ASSUME UNCHANGED <<spaceVars, scenario>> PROVE ListsOK'
  BY <1>1, <1>4 DEF spaceVars, ListsOK, Lists
<1>5. ASSUME UNCHANGED workVars PROVE WorkOK'
  BY <1>1, <1>5 DEF workVars, WorkOK
<1>6. ASSUME UNCHANGED placeVars PROVE PlacesOK'
  BY <1>1, <1>6 DEF placeVars, PlacesOK
<1>7. ASSUME sr' \in Request \cup {None}, secret' \in BOOLEAN, UNCHANGED srC PROVE RequestOK'
  BY <1>1, <1>7 DEF RequestOK
<1>8. ASSUME Typed, UNCHANGED <<srC, placeVars>> PROVE TypeInv'
  <2>1. ListsOK'
    BY <1>1, <1>4, <1>8, ShrinkStep DEF Typed
  <2> QED
    BY <1>2, <1>3, <1>6, <1>7, <1>8, <2>1 DEF Typed
<1>9. CASE UNCHANGED vars
  <2>1. UNCHANGED <<spaceVars, workVars, placeVars, boundVars, queued, scenario>> /\ UNCHANGED <<sr, srC, secret>>
    BY <1>9 DEF vars, spaceVars, workVars, placeVars, boundVars
  <2> QED
    BY <1>1, <1>2, <1>4, <1>5, <1>6, <2>1, BoundStep DEF RequestOK
<1>10. CASE /\ Controller \/ Restart
            /\ \/ Reconcile \/ CannotEnsure \/ setStatusProvisioning \/ EnsureSecret
               \/ GrantAccess \/ updateSpaceRequest \/ AwaitSubSpace \/ TooManySubSpaces
               \/ setStatusTerminating \/ Restart
  BY <1>8, <1>10, StatusTypes, ControllerKeeps
<1>11. CASE Controller /\ \E n \in Names : UpdateSubSpace(n) \/ DeleteSubSpace(n)
  BY <1>8, <1>11, SubSpaceTypes, ControllerKeeps
<1>12. CASE Controller /\ (addFinalizer \/ RemoveFinalizer)
  BY <1>2, <1>4, <1>6, <1>7, <1>12, FinalizerTypes, ControllerKeeps
<1>13. CASE Controller /\ CreateSubSpace
  <2>1. sr' \in Request \cup {None} /\ secret' \in BOOLEAN
    BY <1>1, <1>3, <1>13, CreateTypes DEF RequestOK
  <2> QED
    BY <1>2, <1>6, <1>7, <1>13, <2>1, CreateTypes, ControllerKeeps
<1>14. ASSUME NEW n \in Names, SpaceActs(n) PROVE TypeInv'
  <2>1. RequestOK' /\ ListsOK'
    BY <1>1, <1>14, SpaceTypes, ShrinkStep DEF RequestOK, requestVars
  <2> QED
    BY <1>2, <1>5, <1>6, <1>14, <2>1, SpaceTypes
<1>15. CASE RequestActs
  BY <1>2, <1>4, <1>5, <1>15, RequestTypes
<1>16. CASE DeliverSpaces
  <2>1. RequestOK' /\ UNCHANGED scenario
    BY <1>1, <1>16, DeliverTypes DEF RequestOK, requestVars, boundVars
  <2> QED
    BY <1>1, <1>2, <1>5, <1>6, <1>16, <2>1, DeliverTypes, CatchUpStep
<1> QED
  BY <1>9, <1>10, <1>11, <1>12, <1>13, <1>14, <1>15, <1>16, Steps

LEMMA TypeInit == Init => TypeInv
<1> SUFFICES ASSUME Init PROVE TypeInv
  OBVIOUS
<1>1. RequestOK /\ PlacesOK /\ WorkOK /\ queued \in BOOLEAN
  BY NewRequestType DEF Init, RequestOK, PlacesOK, WorkOK
<1>2. BoundOK
  BY RequestsAssumption DEF Init, BoundOK, RequestsAssumption
<1> QED
  BY <1>1, <1>2, ListsInit, Split

LEMMA TypesHold == Spec => []TypeInv
  BY TypeInit, TypeNext, PTL DEF Spec

\* The types of the request, of its copies and of the sub-spaces (Request, SubSpace), and that
\* only the cache of Spaces is ever behind, by MaxLag states at most.
THEOREM TypeCorrect == Spec => []TypeOK
<1>1. TypeInv => TypeOK
  BY DEF TypeInv
<1> QED
  BY <1>1, TypesHold, PTL

LEMMA SingleSubSpace == TypeInv => OneSubSpace
<1> SUFFICES ASSUME TypeInv, scenario.taken = {} PROVE Cardinality(SubSpaces(spaces)) <= 1
  BY DEF OneSubSpace
<1>1. SubSpaces(spaces) \subseteq {1}
  BY Split DEF ListsOK, Lists, OnlyFirst, SubSpaces
<1>2. IsFiniteSet({1}) /\ Cardinality({1}) = 1
  BY FS_Singleton
<1>3. IsFiniteSet(SubSpaces(spaces)) /\ Cardinality(SubSpaces(spaces)) <= 1
  BY <1>1, <1>2, FS_Subset
<1> QED
  BY <1>3

\* A request has one sub-space at most when no other Space had its name: the reconcile that does
\* not see it yet resolves the same name again, and the API server refuses that
\* (resolveSubSpaceName).
THEOREM OneSubSpaceAlways == Spec => []OneSubSpace
  BY SingleSubSpace, TypesHold, PTL

-----------------------------------------------------------------------------
(***************************************************************************)
(* Ownership                                                               *)
(***************************************************************************)
Held == sr # None /\ sr.phase # "new"

Owned == IF scenario.lag THEN {} ELSE SubSpaces(spaces)

NotLive(o) == o = None \/ o.phase # "live"

\* A request of the cache with finalizer: it has it still, or the cache saw its deletion.
CacheInv ==
    /\ srC # None /\ srC.phase = "live" => Held
    /\ srC # None /\ srC.phase = "deleting" => NotLive(sr)

\* The request in hand.  The finalizer that a reconcile adds was never there before; a sub-space
\* is made, and the finalizer goes, only when there is none.
HandInv ==
    /\ pc = "finalizer" => obj.phase = "new" /\ (~Held => srC = None \/ srC.phase = "new")
    /\ pc \in {"space", "create", "access", "grant", "mirror"} => obj.phase = "live"
    /\ pc \in {"delete", "terminating", "finalize"} => obj.phase = "deleting"
    /\ pc # "idle" /\ obj.phase = "live" => Held
    /\ pc # "idle" /\ obj.phase = "deleting" => NotLive(sr) /\ NotLive(srC)
    /\ pc \in {"create", "finalize"} => Owned = {}

SubSpaceInv == Owned # {} => Held

IInv == TypeInv /\ CacheInv /\ HandInv /\ SubSpaceInv

OwnershipStep == [Ownership!Next]_<<Held, Owned>>

Inv3 == CacheInv' /\ HandInv' /\ SubSpaceInv' /\ OwnershipStep

LEMMA Kept == ASSUME Keeps PROVE Held' = Held /\ NotLive(sr)' = NotLive(sr)
  BY Special DEF Keeps, Held, NotLive

LEMMA CacheKept == ASSUME CacheInv, Keeps, UNCHANGED srC PROVE CacheInv'
  BY Kept DEF CacheInv, NotLive

\* Without lag, what the cache of Spaces says of the sub-spaces is so.
LEMMA Current == ASSUME ListsOK PROVE Owned = {} \/ Owned = SubSpaces(spacesC)
  BY DEF ListsOK, Owned

LEMMA OwnedShrinks ==
    ASSUME ListsOK, UNCHANGED scenario, UNCHANGED spaceVars \/ Shrinks \/ CatchesUp
    PROVE  Owned' = Owned \/ \E p \in Owned \cap Names : Owned' = Owned \ {p}
<1>1. CASE scenario.lag
  BY <1>1 DEF Owned
<1>2. CASE UNCHANGED spaces
  BY <1>2 DEF Owned, SubSpaces
<1>3. ASSUME ~scenario.lag, NEW n \in Names, NEW v \in SubSpace \cup {None}, SetSpaces([spaces EXCEPT ![n] = v]),
             v = None \/ spaces[n] \in SubSpace
      PROVE  Owned' = Owned \/ \E p \in Owned \cap Names : Owned' = Owned \ {p}
  <2>1. spaces' = [spaces EXCEPT ![n] = v] /\ spaces \in [Names -> SubSpace \cup {None, Other}]
    BY <1>3 DEF SetSpaces, ListsOK, Lists, SpaceMaps
  <2>2. Owned = SubSpaces(spaces) /\ Owned' = SubSpaces(spaces')
    BY <1>3 DEF Owned, SubSpaces
  <2>3. CASE v = None /\ n \in SubSpaces(spaces)
    <3>1. SubSpaces(spaces') = SubSpaces(spaces) \ {n}
      BY <2>1, <2>3 DEF SubSpaces
    <3> QED
      BY <2>2, <2>3, <3>1
  <2>4. CASE ~(v = None /\ n \in SubSpaces(spaces))
    <3>1. SubSpaces(spaces') = SubSpaces(spaces)
      BY <1>3, <2>1, <2>4, Special DEF SubSpaces
    <3> QED
      BY <2>2, <3>1
  <2> QED
    BY <2>3, <2>4
<1> QED
  BY <1>1, <1>2, <1>3 DEF Shrinks, CatchesUp, spaceVars

\* The request keeps its finalizer or stays without one; sub-spaces only go.
LEMMA OwnerKept ==
    ASSUME ListsOK, SubSpaceInv, Held' = Held, UNCHANGED scenario, UNCHANGED spaceVars \/ Shrinks \/ CatchesUp
    PROVE  SubSpaceInv' /\ OwnershipStep /\ Owned' \subseteq Owned
<1>1. CASE Owned' = Owned
  BY <1>1 DEF SubSpaceInv, OwnershipStep
<1>2. ASSUME NEW p \in Owned \cap Names, Owned' = Owned \ {p}
      PROVE  SubSpaceInv' /\ OwnershipStep /\ Owned' \subseteq Owned
  <2>1. Ownership!Close(p)
    BY <1>2 DEF Ownership!Close, Owned, Held
  <2> QED
    BY <1>2, <2>1 DEF SubSpaceInv, OwnershipStep, Ownership!Next
<1> QED
  BY <1>1, <1>2, OwnedShrinks

LEMMA Idle == ASSUME pc' = "idle" PROVE HandInv'
  BY DEF HandInv

\* The reconcile goes on with the request in hand.
LEMMA MoveOn ==
    ASSUME HandInv, Keeps, UNCHANGED srC, pc # "idle", obj'.phase = obj.phase,
           pc' \in {"create", "finalize"} => Owned' = {},
           \/ obj.phase = "live" /\ pc' \in {"space", "create", "access", "grant", "mirror"}
           \/ obj.phase = "deleting" /\ pc' \in {"terminating", "finalize"}
    PROVE  HandInv'
  BY Kept DEF HandInv, NotLive

LEMMA SameHand ==
    ASSUME HandInv, Keeps, UNCHANGED <<srC, pc, obj>>, Owned' \subseteq Owned
    PROVE  HandInv'
  BY Kept DEF HandInv, NotLive

LEMMA StatusOwns ==
    ASSUME IInv, UNCHANGED srC,
           \/ Reconcile \/ CannotEnsure \/ setStatusProvisioning \/ EnsureSecret
           \/ GrantAccess \/ updateSpaceRequest \/ AwaitSubSpace \/ TooManySubSpaces
           \/ setStatusTerminating \/ Restart
    PROVE  Inv3
<1>1. TypeInv /\ CacheInv /\ HandInv /\ SubSpaceInv /\ ListsOK /\ WorkOK /\ RequestOK
  BY Split DEF IInv
<1>2. Keeps /\ UNCHANGED spaceVars /\ UNCHANGED scenario
  BY <1>1, StatusTypes DEF Typed
<1>3. CacheInv' /\ SubSpaceInv' /\ OwnershipStep /\ Owned' \subseteq Owned
  BY <1>1, <1>2, CacheKept, Kept, OwnerKept
<1>4. HandInv'
  <2>1. CASE Reconcile
    <3>1. CASE srC = None
      BY <2>1, <3>1, Idle DEF Reconcile
    <3>2. CASE srC # None
      <4>1. srC \in Request /\ obj' = srC /\ srC.phase \in {"new", "live", "deleting"}
        BY <1>1, <2>1, <3>2, RequestFields DEF Reconcile, RequestOK
      <4>2. CASE srC.phase = "new"
        <5>1. pc' = "finalizer"
          BY <2>1, <3>2, <4>2 DEF Reconcile
        <5> QED
          BY <3>2, <4>1, <4>2, <5>1 DEF HandInv
      <4>3. CASE srC.phase = "live"
        <5>1. pc' = "space" /\ Held
          BY <1>1, <2>1, <3>2, <4>3 DEF Reconcile, CacheInv
        <5>2. Held'
          BY <1>2, <5>1, Kept
        <5> QED
          BY <4>1, <4>3, <5>1, <5>2 DEF HandInv
      <4>4. CASE srC.phase = "deleting"
        <5>1. pc' = "delete" /\ NotLive(sr)
          BY <1>1, <2>1, <3>2, <4>4 DEF Reconcile, CacheInv
        <5>2. NotLive(sr)' /\ NotLive(srC)'
          BY <1>2, <4>4, <5>1, Kept DEF NotLive
        <5> QED
          BY <4>1, <4>4, <5>1, <5>2 DEF HandInv
      <4> QED
        BY <4>1, <4>2, <4>3, <4>4
    <3> QED
      BY <3>1, <3>2
  <2>2. CASE setStatusProvisioning
    <3>1. CASE pc' = "idle"
      BY <3>1, Idle
    <3>2. CASE pc' # "idle"
      <4>1. /\ pc = "space" /\ pc' = "create" /\ obj' = [obj EXCEPT !.ready = "Provisioning"]
            /\ SubSpaces(spacesC) = {}
        BY <2>2, <3>2 DEF setStatusProvisioning, Retry, Requeue, Done
      <4>2. obj \in Request /\ obj'.phase = obj.phase
        BY <1>1, <4>1, WithReady, ReasonNames DEF WorkOK
      <4>3. Owned' = {}
        BY <1>1, <1>3, <4>1, Current
      <4>4. obj.phase = "live"
        BY <1>1, <4>1 DEF HandInv
      <4> QED
        BY <1>1, <1>2, <4>1, <4>2, <4>3, <4>4, MoveOn
    <3> QED
      BY <3>1, <3>2
  <2>3. CASE EnsureSecret
    <3>1. pc = "access" /\ (pc' = "idle" \/ (pc' \in {"grant", "mirror"} /\ UNCHANGED obj))
      BY <2>3 DEF EnsureSecret, Break, Requeue, Done
    <3>2. obj.phase = "live"
      BY <1>1, <3>1 DEF HandInv
    <3> QED
      BY <1>1, <1>2, <3>1, <3>2, MoveOn, Idle
  <2>4. CASE GrantAccess
    <3>1. pc = "grant" /\ (pc' = "idle" \/ (pc' = "mirror" /\ obj' = [obj EXCEPT !.access = TRUE]))
      BY <2>4 DEF GrantAccess, Retry, Requeue, Done
    <3>2. obj.phase = "live" /\ obj \in Request
      BY <1>1, <3>1 DEF HandInv, WorkOK
    <3>3. pc' = "mirror" => obj'.phase = obj.phase
      BY <3>1, <3>2, WithAccess
    <3> QED
      BY <1>1, <1>2, <3>1, <3>2, <3>3, MoveOn, Idle
  <2>5. CASE AwaitSubSpace
    <3>1. pc = "delete" /\ (pc' = "idle" \/ (pc' = "terminating" /\ UNCHANGED obj))
      BY <2>5 DEF AwaitSubSpace, Fail, Requeue, Done
    <3>2. obj.phase = "deleting"
      BY <1>1, <3>1 DEF HandInv
    <3> QED
      BY <1>1, <1>2, <3>1, <3>2, MoveOn, Idle
  <2>6. CASE CannotEnsure \/ updateSpaceRequest \/ TooManySubSpaces \/ setStatusTerminating \/ Restart
    <3>1. pc' = "idle"
      BY <2>6 DEF CannotEnsure, updateSpaceRequest, TooManySubSpaces, setStatusTerminating, Restart,
                  Fail, Retry, Requeue, Done
    <3> QED
      BY <3>1, Idle
  <2> QED
    BY <2>1, <2>2, <2>3, <2>4, <2>5, <2>6
<1> QED
  BY <1>3, <1>4 DEF Inv3

LEMMA SubSpaceOwns ==
    ASSUME IInv, UNCHANGED srC, NEW n \in Names, UpdateSubSpace(n) \/ DeleteSubSpace(n)
    PROVE  Inv3
<1>1. TypeInv /\ CacheInv /\ HandInv /\ SubSpaceInv /\ ListsOK
  BY Split DEF IInv
<1>2. Keeps /\ UNCHANGED scenario /\ (UNCHANGED spaceVars \/ Shrinks)
  BY <1>1, SubSpaceTypes DEF Typed
<1>3. CacheInv' /\ SubSpaceInv' /\ OwnershipStep /\ Owned' \subseteq Owned
  BY <1>1, <1>2, CacheKept, Kept, OwnerKept
<1>4. HandInv'
  <2>1. CASE UpdateSubSpace(n)
    <3>1. pc = "space" /\ (pc' = "idle" \/ (pc' = "access" /\ UNCHANGED obj))
      BY <2>1 DEF UpdateSubSpace, Retry, Requeue, Done
    <3>2. obj.phase = "live"
      BY <1>1, <3>1 DEF HandInv
    <3> QED
      BY <1>1, <1>2, <3>1, <3>2, MoveOn, Idle
  <2>2. CASE DeleteSubSpace(n)
    <3>1. /\ pc = "delete" /\ n \in SubSpaces(spacesC)
          /\ \/ pc' = "idle"
             \/ pc' = "terminating" /\ UNCHANGED obj
             \/ pc' = "finalize" /\ n \notin SubSpaces(spaces) /\ UNCHANGED obj
      BY <2>2 DEF DeleteSubSpace, Remaining, Break, Requeue, Done
    <3>2. obj.phase = "deleting"
      BY <1>1, <3>1 DEF HandInv
    <3>3. n \notin SubSpaces(spaces) => Owned = {}
      BY <1>1, <3>1 DEF ListsOK, Owned
    <3> QED
      BY <1>1, <1>2, <1>3, <3>1, <3>2, <3>3, MoveOn, Idle
  <2> QED
    BY <2>1, <2>2
<1> QED
  BY <1>3, <1>4 DEF Inv3

LEMMA CreateOwns == ASSUME IInv, UNCHANGED srC, CreateSubSpace PROVE Inv3
<1>1. TypeInv /\ CacheInv /\ HandInv /\ SubSpaceInv /\ ListsOK
  BY Split DEF IInv
<1>2. Keeps /\ UNCHANGED scenario /\ pc' = "idle"
  BY <1>1, CreateTypes
<1>3. CacheInv' /\ HandInv'
  BY <1>1, <1>2, CacheKept, Idle
<1>4. pc = "create" /\ Held /\ Held' /\ Owned = {}
  BY <1>1, <1>2, Kept DEF CreateSubSpace, HandInv
<1>5. CASE UNCHANGED spaceVars
  BY <1>1, <1>2, <1>3, <1>5, Kept, OwnerKept DEF Inv3
<1>6. CASE scenario.lag
  <2>1. Owned' = Owned
    BY <1>2, <1>6 DEF Owned
  <2> QED
    BY <1>3, <1>4, <2>1 DEF Inv3, SubSpaceInv, OwnershipStep
<1>7. ASSUME ~scenario.lag, NEW n \in resolveSubSpaceName, spaces[n] = None,
             SetSpaces([spaces EXCEPT ![n] = NewSubSpace])
      PROVE  Inv3
  <2>1. n \in Names /\ NewSubSpace \in SubSpace
    BY <1>1, <1>4, NewSubSpaceType, Split DEF resolveSubSpaceName, WorkOK
  <2>2. spaces \in [Names -> SubSpace \cup {None, Other}] /\ spaces' = [spaces EXCEPT ![n] = NewSubSpace]
    BY <1>1, <1>7 DEF SetSpaces, ListsOK, Lists, SpaceMaps
  <2>3. SubSpaces(spaces') = SubSpaces(spaces) \cup {n} /\ n \notin SubSpaces(spaces)
    BY <1>7, <2>1, <2>2, Special DEF SubSpaces
  <2>4. Owned' = Owned \cup {n} /\ n \notin Owned
    BY <1>2, <1>7, <2>3 DEF Owned
  <2>5. Ownership!Open(n)
    BY <1>4, <2>4 DEF Ownership!Open, Owned, Held
  <2> QED
    BY <1>3, <1>4, <2>1, <2>5 DEF Inv3, SubSpaceInv, OwnershipStep, Ownership!Next
<1> QED
  BY <1>1, <1>5, <1>6, <1>7, CreateTypes

LEMMA FinalizerOwns == ASSUME IInv, UNCHANGED srC, addFinalizer \/ RemoveFinalizer PROVE Inv3
<1>1. TypeInv /\ CacheInv /\ HandInv /\ SubSpaceInv /\ ListsOK /\ RequestOK /\ WorkOK /\ BoundOK
  BY Split DEF IInv
<1>2. UNCHANGED <<spaceVars, scenario>> /\ obj \in Request
  BY <1>1, FinalizerTypes DEF addFinalizer, RemoveFinalizer, WorkOK
<1>3. UNCHANGED Owned
  BY <1>2 DEF Owned, SubSpaces, spaceVars
<1>4. ASSUME Ends PROVE Inv3
  BY <1>1, <1>2, <1>4, CacheKept, Kept, OwnerKept, Idle DEF Ends, Inv3
<1>5. CASE addFinalizer
  <2>1. CASE Retry /\ (UNCHANGED boundVars \/ Fault)
    BY <1>1, <1>4, <2>1, RetryStep
  <2>2. CASE obj = sr /\ sr' = [obj EXCEPT !.phase = "live"] /\ obj' = sr' /\ pc' = "space"
    <3>1. obj.phase = "new" /\ sr' \in Request /\ sr'.phase = "live"
      BY <1>1, <1>2, <1>5, <2>2, WithPhase DEF addFinalizer, HandInv
    <3>2. ~Held /\ Held' /\ (srC = None \/ srC.phase = "new")
      BY <1>1, <1>5, <2>2, <3>1, Special DEF addFinalizer, HandInv, Held
    <3>3. CacheInv' /\ HandInv' /\ SubSpaceInv'
      BY <1>1, <2>2, <3>1, <3>2 DEF CacheInv, HandInv, SubSpaceInv
    <3>4. OwnershipStep
      BY <1>3, <3>2 DEF OwnershipStep, Ownership!Next, Ownership!Take, Held, Owned
    <3> QED
      BY <3>3, <3>4 DEF Inv3
  <2> QED
    BY <1>5, <2>1, <2>2 DEF addFinalizer
<1>6. CASE RemoveFinalizer
  <2>1. "TerminatingFailed" \in Reasons
    BY ReasonNames
  <2>2. CASE Fail("TerminatingFailed") \/ Break("TerminatingFailed")
    BY <1>1, <1>2, <1>4, <2>1, <2>2, FailStep
  <2>3. CASE obj = sr /\ sr' = None /\ Done
    <3>1. pc \in {"delete", "finalize"} /\ obj.phase = "deleting" /\ NotLive(srC)
      BY <1>1, <1>6 DEF RemoveFinalizer, HandInv
    <3>2. Owned = {}
      BY <1>1, <1>6, Current DEF RemoveFinalizer, HandInv, Remaining
    <3>3. Held /\ ~Held'
      BY <1>2, <2>3, <3>1, Special DEF Held
    <3>4. CacheInv' /\ HandInv' /\ SubSpaceInv'
      BY <1>3, <2>3, <3>1, <3>2, Idle DEF CacheInv, SubSpaceInv, NotLive, Done
    <3>5. OwnershipStep
      BY <1>3, <3>2, <3>3 DEF OwnershipStep, Ownership!Next, Ownership!Release, Held, Owned
    <3> QED
      BY <3>4, <3>5 DEF Inv3
  <2> QED
    BY <1>6, <2>2, <2>3 DEF RemoveFinalizer
<1> QED
  BY <1>5, <1>6

LEMMA SpaceOwns == ASSUME IInv, (\E n \in Names : SpaceActs(n)) \/ DeliverSpaces PROVE Inv3
<1>1. TypeInv /\ CacheInv /\ HandInv /\ SubSpaceInv /\ ListsOK /\ RequestOK
  BY Split DEF IInv
<1>2. (Shrinks \/ CatchesUp) /\ UNCHANGED <<sr, srC, pc, obj, scenario>>
  BY <1>1, SpaceTypes, DeliverTypes DEF requestVars, workVars, boundVars
<1>3. Keeps
  BY <1>1, <1>2, KeepsSame
<1>4. CacheInv' /\ SubSpaceInv' /\ OwnershipStep /\ Owned' \subseteq Owned
  BY <1>1, <1>2, <1>3, CacheKept, Kept, OwnerKept
<1> QED
  BY <1>1, <1>2, <1>3, <1>4, SameHand DEF Inv3

LEMMA RequestOwns == ASSUME IInv, RequestActs PROVE Inv3
<1>1. TypeInv /\ CacheInv /\ HandInv /\ SubSpaceInv /\ ListsOK /\ RequestOK /\ WorkOK
  BY Split DEF IInv
<1>2. UNCHANGED <<spaceVars, pc, obj, scenario>>
  BY <1>1, RequestTypes DEF workVars
<1>3. UNCHANGED Owned
  BY <1>2 DEF Owned, SubSpaces, spaceVars
<1>4. ASSUME Held' = Held PROVE SubSpaceInv' /\ OwnershipStep
  BY <1>1, <1>2, <1>4, OwnerKept
<1>5. ASSUME Keeps, UNCHANGED srC PROVE Inv3
  BY <1>1, <1>2, <1>3, <1>4, <1>5, Kept, CacheKept, SameHand DEF Inv3
<1>6. CASE NamespaceGoes \/ DeleteSecret \/ DeleteParent
  BY <1>1, <1>5, <1>6, KeepsSame DEF NamespaceGoes, DeleteSecret, DeleteParent, requestVars
<1>7. ASSUME NEW spec \in AllSpecs, EditRequest(spec) PROVE Inv3
  <2>1. sr \in Request /\ sr' = [sr EXCEPT !.spec = spec] /\ UNCHANGED srC
    BY <1>1, <1>7 DEF EditRequest, RequestOK
  <2>2. Keeps
    BY <2>1, WithSpec DEF Keeps
  <2> QED
    BY <1>5, <2>1, <2>2
<1>8. CASE DeliverRequest
  <2>1. UNCHANGED sr /\ srC' = sr
    BY <1>8 DEF DeliverRequest
  <2>2. CacheInv' /\ Held' = Held
    BY <1>1, <2>1 DEF CacheInv, Held, NotLive
  <2>3. HandInv'
    BY <1>1, <1>2, <1>3, <2>1, <2>2 DEF HandInv, NotLive, Held
  <2> QED
    BY <1>4, <2>2, <2>3 DEF Inv3
<1>9. CASE CreateRequest
  <2>1. sr = None /\ sr' \in Request /\ sr'.phase = "new" /\ UNCHANGED srC
    BY <1>9, NewRequestType DEF CreateRequest
  <2>2. CacheInv' /\ Held' = Held
    BY <1>1, <2>1 DEF CacheInv, Held, NotLive
  <2>3. HandInv'
    BY <1>1, <1>2, <1>3, <2>1, <2>2 DEF HandInv, NotLive
  <2> QED
    BY <1>4, <2>2, <2>3 DEF Inv3
<1>10. CASE NamespaceTerminates \/ DeleteRequest
  <2>1. sr' = DeletedRequest /\ UNCHANGED srC
    BY <1>10 DEF NamespaceTerminates, DeleteRequest
  <2>2. /\ sr = None \/ sr.phase = "new" => sr' = None
        /\ sr # None /\ sr.phase # "new" => sr' \in Request /\ sr'.phase = "deleting"
    BY <1>1, <2>1, DeletedRequestType DEF RequestOK
  <2>3. CacheInv' /\ Held' = Held
    BY <1>1, <2>1, <2>2, Special DEF CacheInv, Held, NotLive
  <2>4. HandInv'
    BY <1>1, <1>2, <1>3, <2>1, <2>2, <2>3, Special DEF HandInv, NotLive
  <2> QED
    BY <1>4, <2>3, <2>4 DEF Inv3
<1> QED
  BY <1>6, <1>7, <1>8, <1>9, <1>10 DEF RequestActs

LEMMA OwnershipInit == Init => IInv /\ ~Held /\ Owned = {}
<1> SUFFICES ASSUME Init PROVE IInv /\ ~Held /\ Owned = {}
  OBVIOUS
<1>1. TypeInv /\ sr = NewRequest /\ srC = None /\ pc = "idle"
  BY TypeInit DEF Init
<1>2. SubSpaces(spaces) = {}
  BY DEF Init, SubSpaces
<1> QED
  BY <1>1, <1>2, NewRequestType DEF IInv, CacheInv, HandInv, SubSpaceInv, Held, Owned

LEMMA OwnershipNext == ASSUME IInv, [Next]_vars PROVE IInv' /\ OwnershipStep
<1>1. TypeInv'
  BY TypeNext DEF IInv
<1>2. Inv3
  <2>1. CASE UNCHANGED vars
    <3>1. UNCHANGED Owned /\ UNCHANGED Held
      BY <2>1 DEF vars, Owned, Held, SubSpaces
    <3> QED
      BY <2>1, <3>1 DEF vars, IInv, Inv3, CacheInv, HandInv, SubSpaceInv, NotLive, OwnershipStep
  <2> QED
    BY <2>1, Steps, ControllerKeeps, StatusOwns, SubSpaceOwns, CreateOwns, FinalizerOwns, SpaceOwns, RequestOwns
<1> QED
  BY <1>1, <1>2 DEF Inv3, IInv

\* With a current cache of Spaces, a sub-space is made only for a request with finalizer and
\* beside no other one, and the finalizer goes only after the sub-space (ResourceOwnership).
THEOREM RequestsImplementOwnership == Spec => ImplementsOwnership
<1>1. Init => IInv /\ Ownership!Init
  BY OwnershipInit DEF Ownership!Init, Held, Owned
<1>2. IInv /\ [Next]_vars =>
        IInv' /\ [Ownership!Next]_<<sr # None /\ sr.phase # "new", IF scenario.lag THEN {} ELSE SubSpaces(spaces)>>
  BY OwnershipNext DEF OwnershipStep, Held, Owned
<1> QED
  BY <1>1, <1>2, PTL DEF Spec, ImplementsOwnership, Ownership!Spec

=============================================================================
