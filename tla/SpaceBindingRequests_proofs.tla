----------------------- MODULE SpaceBindingRequests_proofs -----------------------
(***************************************************************************)
(* The SpaceBindingRequest controller implements ResourceOwnership for any  *)
(* number of requests, roles, changes and failures when the caches of the   *)
(* host are current; and then the SpaceBindingCleanup controller takes      *)
(* nothing away from a user and a Space that were there all the time.       *)
(***************************************************************************)
EXTENDS SpaceBindingRequests, TLAPS

-----------------------------------------------------------------------------
(***************************************************************************)
(* Types                                                                   *)
(***************************************************************************)
Copies == [Requests -> Request \cup {None}]

RequestOK == req \in Copies /\ reqC \in Copies /\ terminating \in BOOLEAN

Bindings == Binding \cup {None}

BindingOK == sb \in Bindings /\ sbC \in Bindings /\ feed \in Seq(Bindings) /\ unbound \in BOOLEAN

Lives == {"live", "deleting", "gone"}

PlaceOK == mur \in Lives /\ murC \in Lives /\ space \in Lives /\ spaceC \in Lives

\* Without lag the caches of the host are current.
CurrentOK == ~scenario.lag => feed = <<>> /\ sbC = sb /\ murC = mur /\ spaceC = space

QueueOK == queued \in SUBSET Requests /\ queuedB \in BOOLEAN

WorkOK ==
    /\ pc \in {"idle", "finalizer", "ensure", "create", "ready", "fail", "delete", "terminating", "finalize"}
    /\ pc # "idle" => cur \in Requests /\ obj \in Request

CleanOK ==
    /\ pcB \in {"idle", "request", "binding"} /\ victim \in Requests \cup {None}
    /\ pcB = "request" => victim \in Requests

BoundOK == scenario \in Scenarios /\ edits \in 0..scenario.edits /\ faults \in 0..scenario.faults

TypeInv == RequestOK /\ BindingOK /\ PlaceOK /\ CurrentOK /\ QueueOK /\ WorkOK /\ CleanOK /\ BoundOK

LEMMA Types == TypeInv => TypeOK
  BY DEF TypeInv, TypeOK, RequestOK, BindingOK, PlaceOK, CurrentOK, QueueOK, WorkOK, CleanOK, BoundOK,
         Copies, Bindings, Lives

LEMMA NoneDiffers == None \notin Request /\ None \notin Binding /\ None \notin Requests /\ First \in Requests
  BY NoneAssumption, BindingsAssumption DEF BindingsAssumption

LEMMA RequestFields ==
    ASSUME NEW o \in Request
    PROVE  o.phase \in {"new", "live", "deleting"} /\ o.role \in AllRoles
  BY DEF Request

LEMMA WithReady ==
    ASSUME NEW o \in Request, NEW c \in Reasons
    PROVE  [o EXCEPT !.ready = c] \in Request /\ [o EXCEPT !.ready = c].phase = o.phase
  BY DEF Request

LEMMA WithRole ==
    ASSUME NEW o \in Request, NEW role \in AllRoles
    PROVE  [o EXCEPT !.role = role] \in Request /\ [o EXCEPT !.role = role].phase = o.phase
  BY DEF Request

LEMMA WithPhase ==
    ASSUME NEW o \in Request, NEW f \in {"new", "live", "deleting"}
    PROVE  [o EXCEPT !.phase = f] \in Request /\ [o EXCEPT !.phase = f].phase = f
  BY DEF Request

LEMMA NewRequestType == NewRequest(FirstRole) \in Request /\ NewRequest(FirstRole).phase = "new"
  BY BindingsAssumption DEF BindingsAssumption, NewRequest, Request, AllRoles, Reasons

LEMMA BindingType ==
    ASSUME NEW b \in Binding
    PROVE  /\ b.owner \in Requests \cup {None}
           /\ \A role \in AllRoles :
                 [b EXCEPT !.role = role] \in Binding /\ [b EXCEPT !.role = role].owner = b.owner
           /\ [b EXCEPT !.deleting = TRUE] \in Binding /\ [b EXCEPT !.deleting = TRUE].owner = b.owner
           /\ [b EXCEPT !.old = TRUE] \in Binding /\ [b EXCEPT !.old = TRUE].owner = b.owner
  BY DEF Binding

LEMMA NewBindingType ==
    ASSUME NEW r \in Requests \cup {None}
    PROVE  NewSpaceBinding(r) \in Binding /\ NewSpaceBinding(r).owner = r
  BY BindingsAssumption DEF BindingsAssumption, NewSpaceBinding, Binding, AllRoles

LEMMA ReasonNames == {"Provisioning", "Provisioned", "Failed", "Terminating", "TerminatingFailed"} \subseteq Reasons
  BY DEF Reasons

LEMMA BoundStep ==
    ASSUME BoundOK, Edit \/ Fault \/ UNCHANGED boundVars
    PROVE  BoundOK' /\ UNCHANGED scenario
<1>1. scenario.edits \in Nat /\ scenario.faults \in Nat
  BY BindingsAssumption DEF BoundOK, BindingsAssumption
<1> QED
  BY <1>1 DEF BoundOK, Edit, Fault, boundVars

LEMMA TypeInit == Init => TypeInv
<1> SUFFICES ASSUME Init PROVE TypeInv
  OBVIOUS
<1>1. RequestOK /\ QueueOK /\ WorkOK /\ CleanOK /\ PlaceOK /\ CurrentOK
  BY NewRequestType DEF Init, RequestOK, QueueOK, WorkOK, CleanOK, PlaceOK, CurrentOK, Copies, Lives
<1>2. <<>> \in Seq(Bindings)
  OBVIOUS
<1>3. BindingOK
  BY <1>2 DEF Init, BindingOK, Bindings
<1>4. BoundOK
  BY BindingsAssumption DEF Init, BoundOK, BindingsAssumption
<1> QED
  BY <1>1, <1>3, <1>4 DEF TypeInv

-----------------------------------------------------------------------------
(***************************************************************************)
(* What a step may do to the requests: most leave them and their phases as  *)
(* they are.                                                                *)
(***************************************************************************)
KeepsAt(r) ==
    \/ req[r] = None /\ req'[r] = None
    \/ req[r] \in Request /\ req'[r] \in Request /\ req'[r].phase = req[r].phase

Keeps == req' \in Copies /\ \A r \in Requests : KeepsAt(r)

LEMMA KeepsSame == ASSUME req \in Copies, UNCHANGED req PROVE Keeps
  BY DEF Keeps, KeepsAt, Copies

LEMMA KeepsOne ==
    ASSUME req \in Copies, NEW r \in Requests, NEW o \in Request, req[r] \in Request, o.phase = req[r].phase,
           req' = [req EXCEPT ![r] = o]
    PROVE  Keeps
  BY DEF Keeps, KeepsAt, Copies

LEMMA ReadyStep ==
    ASSUME req \in Copies, cur \in Requests, obj \in Request, NEW c \in Reasons,
           obj = req[cur], req' = [req EXCEPT ![cur].ready = c]
    PROVE  Keeps
<1>1. [obj EXCEPT !.ready = c] \in Request /\ [obj EXCEPT !.ready = c].phase = obj.phase
  BY WithReady
<1>2. req' = [req EXCEPT ![cur] = [obj EXCEPT !.ready = c]]
  OBVIOUS
<1> QED
  BY <1>1, <1>2, KeepsOne

LEMMA ReportStep ==
    ASSUME req \in Copies, cur \in Requests, obj \in Request, NEW c \in Reasons, Report(c)
    PROVE  Keeps
  BY KeepsSame, ReadyStep DEF Report

LEMMA IdleStep == ASSUME Done PROVE WorkOK' /\ pc' = "idle"
  BY DEF Done, WorkOK

\* The SpaceBinding changes.  Nobody but its request's reconcile makes one with the labels of
\* the first request.
Moves ==
    \E b \in Bindings, more \in SUBSET Requests :
        /\ SetBinding(b, more) /\ UNCHANGED <<mur, murC, space, spaceC>>
        /\ b = None \/ b.owner # First \/ (sb # None /\ b.owner = sb.owner)

LEMMA MapsTypes ==
    ASSUME NEW S \in SUBSET Bindings
    PROVE  MapSpaceBindingToSpaceBindingRequest(S) \in SUBSET Requests
<1>1. \A b \in S \ {None} : b.owner \in Requests \cup {None}
  BY BindingType DEF Bindings
<1> QED
  BY <1>1 DEF MapSpaceBindingToSpaceBindingRequest

LEMMA SetBindingStep ==
    ASSUME BindingOK, QueueOK, PlaceOK, CurrentOK, UNCHANGED <<scenario, mur, murC, space, spaceC>>,
           NEW b \in Bindings, NEW more \in SUBSET Requests, SetBinding(b, more)
    PROVE  BindingOK' /\ QueueOK' /\ PlaceOK' /\ CurrentOK'
<1>1. MapSpaceBindingToSpaceBindingRequest({sbC, b}) \in SUBSET Requests
  BY MapsTypes DEF BindingOK
<1>2. unbound' \in BOOLEAN /\ PlaceOK'
  BY DEF SetBinding, BindingOK, PlaceOK
<1>3. CASE scenario.lag
  <2>1. feed' \in Seq(Bindings)
    BY <1>3 DEF SetBinding, BindingOK
  <2> QED
    BY <1>2, <1>3, <2>1 DEF SetBinding, BindingOK, QueueOK, CurrentOK
<1>4. CASE ~scenario.lag
  BY <1>1, <1>2, <1>4 DEF SetBinding, BindingOK, QueueOK, CurrentOK
<1> QED
  BY <1>3, <1>4

LEMMA MovesStep ==
    ASSUME BindingOK, QueueOK, PlaceOK, CurrentOK, UNCHANGED scenario, Moves
    PROVE  BindingOK' /\ QueueOK' /\ PlaceOK' /\ CurrentOK'
  BY SetBindingStep DEF Moves

\* Deleting a SpaceBinding, by whomever.
LEMMA DeletedMoves ==
    ASSUME sb \in Bindings, sb # None, NEW b \in Deleted(sb), NEW more \in SUBSET Requests,
           SetBinding(b, more), UNCHANGED <<mur, murC, space, spaceC>>
    PROVE  Moves
<1>1. sb \in Binding
  BY DEF Bindings
<1>2. b \in Bindings /\ (b = None \/ b.owner = sb.owner)
  BY <1>1, BindingType DEF Deleted, Bindings
<1> QED
  BY <1>2 DEF Moves

\* The host's objects and the two queues.
HostStep == Moves \/ (UNCHANGED hostVars /\ queued' \in SUBSET Requests /\ queuedB' \in BOOLEAN)

\* What a step of the controller does that neither adds nor removes the finalizer, nor makes
\* the SpaceBinding.
Typed == Keeps /\ HostStep /\ WorkOK' /\ BoundOK' /\ UNCHANGED scenario

LEMMA SameHost ==
    ASSUME QueueOK, SameBinding, queued' \in SUBSET Requests, UNCHANGED <<mur, murC, space, spaceC>>
    PROVE  HostStep
  BY DEF QueueOK, SameBinding, HostStep, hostVars

LEMMA StatusTypes ==
    ASSUME TypeInv,
           \/ \E r \in Requests : Reconcile(r)
           \/ CannotEnsure \/ setStatusProvisioning \/ SetReady \/ SetFailed
           \/ SpaceMissing \/ AwaitSpaceBinding \/ setStatusTerminating
    PROVE  Typed /\ UNCHANGED hostVars
<1> USE DEF Typed
<1>1. RequestOK /\ WorkOK /\ QueueOK /\ BoundOK /\ req \in Copies
  BY DEF TypeInv, RequestOK
<1>2. UNCHANGED <<hostVars, queuedB>>
  BY DEF Reconcile, CannotEnsure, setStatusProvisioning, SetReady, SetFailed, SpaceMissing, AwaitSpaceBinding,
         setStatusTerminating, cleanVars
<1>3. pc # "idle" => cur \in Requests /\ obj \in Request /\ queued \cup {cur} \in SUBSET Requests
  BY <1>1 DEF WorkOK, QueueOK
<1>4. ASSUME Keeps, Done, queued' = queued \/ (pc # "idle" /\ queued' = queued \cup {cur}), UNCHANGED boundVars \/ Fault
      PROVE  Typed /\ UNCHANGED hostVars
  BY <1>1, <1>2, <1>3, <1>4, IdleStep, BoundStep DEF HostStep, QueueOK
<1>5. ASSUME pc # "idle", Retry, UNCHANGED boundVars \/ Fault PROVE Typed /\ UNCHANGED hostVars
  BY <1>1, <1>4, <1>5, KeepsSame DEF Retry
<1>6. ASSUME pc # "idle", NEW next \in {"create", "ready", "fail", "terminating", "finalize"}, Go(next),
             UNCHANGED queued, UNCHANGED boundVars \/ Fault
      PROVE  Typed /\ UNCHANGED hostVars
  <2>1. WorkOK'
    BY <1>1, <1>6 DEF Go, WorkOK
  <2>2. Keeps
    BY <1>1, <1>6, KeepsSame DEF Go
  <2> QED
    BY <1>1, <1>2, <1>6, <2>1, <2>2, BoundStep DEF HostStep, QueueOK
<1>7. ASSUME pc # "idle", NEW c \in Reasons, ReportFailure(c) PROVE Typed /\ UNCHANGED hostVars
  <2>1. Keeps
    BY <1>1, <1>3, <1>7, KeepsSame, ReportStep DEF ReportFailure
  <2> QED
    BY <1>4, <1>7, <2>1 DEF ReportFailure
<1>8. ASSUME pc # "idle", NEW c \in Reasons, Report(c) PROVE Keeps
  BY <1>1, <1>3, <1>8, ReportStep
<1>9. ASSUME NEW r \in Requests, Reconcile(r) PROVE Typed /\ UNCHANGED hostVars
  <2>1. Keeps
    BY <1>1, <1>9, KeepsSame DEF Reconcile, requestVars
  <2>2. WorkOK'
    <3>1. CASE reqC[r] = None
      BY <1>9, <3>1, IdleStep DEF Reconcile
    <3>2. CASE reqC[r] # None
      <4>1. reqC[r] \in Request /\ obj' = reqC[r] /\ cur' = r
        BY <1>1, <1>9, <3>2 DEF Reconcile, RequestOK, Copies
      <4>2. pc' \in {"finalizer", "ensure", "delete"}
        BY <1>9, <3>2, <4>1, RequestFields DEF Reconcile
      <4> QED
        BY <4>1, <4>2 DEF WorkOK
    <3> QED
      BY <3>1, <3>2
  <2>3. queued' \in SUBSET Requests /\ UNCHANGED boundVars
    BY <1>1, <1>9 DEF Reconcile, QueueOK
  <2> QED
    BY <1>1, <1>2, <2>1, <2>2, <2>3, BoundStep DEF HostStep, QueueOK
<1>10. CASE CannotEnsure
  BY <1>6, <1>10 DEF CannotEnsure
<1>11. CASE setStatusProvisioning
  <2>1. CASE Go("fail") /\ UNCHANGED queued /\ (UNCHANGED boundVars \/ Fault)
    BY <1>6, <1>11, <2>1 DEF setStatusProvisioning
  <2>2. CASE /\ Report("Provisioning") /\ pc' = "create" /\ obj' = [obj EXCEPT !.ready = "Provisioning"]
             /\ UNCHANGED <<cur, queued, boundVars>>
    <3>1. pc # "idle" /\ "Provisioning" \in Reasons
      BY <1>11, ReasonNames DEF setStatusProvisioning
    <3>2. WorkOK'
      BY <1>3, <2>2, <3>1, WithReady DEF WorkOK
    <3> QED
      BY <1>1, <1>2, <1>8, <2>2, <3>1, <3>2, BoundStep DEF HostStep, QueueOK
  <2> QED
    BY <1>11, <2>1, <2>2 DEF setStatusProvisioning, Written
<1>12. CASE SetReady
  <2>1. pc # "idle" /\ "Provisioned" \in Reasons
    BY <1>12, ReasonNames DEF SetReady
  <2> QED
    BY <1>4, <1>5, <1>8, <1>12, <2>1 DEF SetReady, Written
<1>13. CASE SetFailed
  BY <1>7, <1>13, ReasonNames DEF SetFailed
<1>14. CASE SpaceMissing
  BY <1>5, <1>14 DEF SpaceMissing
<1>15. CASE AwaitSpaceBinding
  <2>1. pc # "idle" /\ "TerminatingFailed" \in Reasons
    BY <1>15, ReasonNames DEF AwaitSpaceBinding
  <2> QED
    BY <1>6, <1>7, <1>15, <2>1 DEF AwaitSpaceBinding
<1>16. CASE setStatusTerminating
  <2>1. pc # "idle" /\ "Terminating" \in Reasons
    BY <1>16, ReasonNames DEF setStatusTerminating
  <2> QED
    BY <1>4, <1>5, <1>8, <1>16, <2>1 DEF setStatusTerminating, Written
<1> QED
  BY <1>9, <1>10, <1>11, <1>12, <1>13, <1>14, <1>15, <1>16

LEMMA BindingTypes ==
    ASSUME TypeInv, UpdateSpaceBinding \/ DeleteSpaceBinding
    PROVE  Typed
<1> USE DEF Typed
<1>1. WorkOK /\ QueueOK /\ BoundOK /\ req \in Copies /\ sb \in Bindings /\ sbC \in Bindings
  BY DEF TypeInv, RequestOK, BindingOK
<1>2. /\ pc \in {"ensure", "delete"} /\ cur \in Requests /\ obj \in Request
      /\ UNCHANGED <<mur, murC, space, spaceC>>
      /\ queued \cup {cur} \in SUBSET Requests /\ {cur} \in SUBSET Requests /\ {} \in SUBSET Requests
  BY <1>1 DEF UpdateSpaceBinding, DeleteSpaceBinding, WorkOK, QueueOK
<1>3. ASSUME NEW next \in {"ready", "fail", "terminating", "finalize"}, Go(next), UNCHANGED boundVars \/ Fault,
             HostStep
      PROVE  Typed
  <2>1. WorkOK'
    BY <1>1, <1>2, <1>3 DEF Go, WorkOK
  <2> QED
    BY <1>1, <1>3, <2>1, KeepsSame, BoundStep DEF Go
<1>4. CASE UpdateSpaceBinding
  <2>1. CASE SameBinding /\ UNCHANGED queued
    <3>1. HostStep
      BY <1>1, <1>2, <2>1, SameHost DEF QueueOK
    <3> QED
      BY <1>3, <1>4, <3>1 DEF UpdateSpaceBinding
  <2>2. CASE sbC # None /\ sb = sbC /\ SetBinding([sb EXCEPT !.role = obj.role], {})
    <3>1. sb \in Binding /\ obj.role \in AllRoles
      BY <1>1, <1>2, <2>2, RequestFields DEF Bindings
    <3>2. [sb EXCEPT !.role = obj.role] \in Bindings /\ [sb EXCEPT !.role = obj.role].owner = sb.owner
      BY <3>1, BindingType DEF Bindings
    <3>3. HostStep
      BY <1>2, <2>2, <3>2 DEF HostStep, Moves
    <3> QED
      BY <1>3, <1>4, <3>3 DEF UpdateSpaceBinding
  <2> QED
    BY <1>4, <2>1, <2>2 DEF UpdateSpaceBinding
<1>5. CASE DeleteSpaceBinding
  <2>1. HostStep
    <3>1. ASSUME sb # None, NEW b \in Deleted(sb), NEW more \in SUBSET Requests, SetBinding(b, more)
          PROVE  HostStep
      BY <1>1, <1>2, <3>1, DeletedMoves DEF HostStep
    <3>2. CASE SameBinding /\ queued' \in {queued, queued \cup {cur}}
      BY <1>1, <1>2, <3>2, SameHost DEF QueueOK
    <3> QED
      BY <1>2, <1>5, <3>1, <3>2 DEF DeleteSpaceBinding
  <2>2. CASE Go("terminating") \/ Go("finalize")
    BY <1>3, <1>5, <2>1, <2>2 DEF DeleteSpaceBinding, Go
  <2>3. CASE Fault /\ (Report("TerminatingFailed") \/ UNCHANGED req) /\ Done
    <3>1. Keeps
      BY <1>1, <1>2, <2>3, KeepsSame, ReportStep, ReasonNames
    <3> QED
      BY <1>1, <2>1, <2>3, <3>1, IdleStep, BoundStep
  <2> QED
    BY <1>5, <2>2, <2>3 DEF DeleteSpaceBinding
<1> QED
  BY <1>4, <1>5

LEMMA CreateTypes ==
    ASSUME TypeInv, CreateSpaceBinding
    PROVE  /\ UNCHANGED <<req, cur, obj, scenario>> /\ pc' \in {"ready", "fail"} /\ WorkOK' /\ BoundOK'
           /\ UNCHANGED <<mur, murC, space, spaceC>>
           /\ HostStep \/ (sb = None /\ SetBinding(NewSpaceBinding(cur), {}))
<1>1. WorkOK /\ QueueOK /\ BoundOK
  BY DEF TypeInv
<1>2. /\ UNCHANGED <<req, cur, obj>> /\ pc' \in {"ready", "fail"} /\ pc # "idle"
      /\ (UNCHANGED boundVars \/ Fault) /\ UNCHANGED <<mur, murC, space, spaceC>>
      /\ (sb = None /\ SetBinding(NewSpaceBinding(cur), {})) \/ (SameBinding /\ UNCHANGED queued)
  BY DEF CreateSpaceBinding, Go
<1>3. SameBinding /\ UNCHANGED queued => HostStep
  BY <1>1, <1>2, SameHost DEF QueueOK
<1>4. WorkOK'
  BY <1>1, <1>2 DEF WorkOK
<1> QED
  BY <1>1, <1>2, <1>3, <1>4, BoundStep

LEMMA FinalizerTypes ==
    ASSUME TypeInv, addFinalizer \/ RemoveFinalizer
    PROVE  /\ req' \in Copies /\ WorkOK' /\ BoundOK' /\ queued' \in SUBSET Requests
           /\ UNCHANGED <<hostVars, queuedB, scenario>>
           /\ \/ Keeps /\ pc' = "idle"
              \/ addFinalizer /\ obj = req[cur] /\ req' = [req EXCEPT ![cur] = [obj EXCEPT !.phase = "live"]]
                 /\ obj' = [obj EXCEPT !.phase = "live"] /\ UNCHANGED cur /\ pc' = "ensure"
              \/ RemoveFinalizer /\ obj = req[cur] /\ req' = [req EXCEPT ![cur] = None] /\ pc' = "idle"
<1> DEFINE made == [obj EXCEPT !.phase = "live"]
<1>1. WorkOK /\ QueueOK /\ BoundOK /\ req \in Copies
  BY DEF TypeInv, RequestOK
<1>2. /\ cur \in Requests /\ obj \in Request /\ UNCHANGED <<hostVars, queuedB>>
      /\ queued \cup {cur} \in SUBSET Requests /\ queued \in SUBSET Requests
  BY <1>1 DEF addFinalizer, RemoveFinalizer, WorkOK, QueueOK, cleanVars
<1>3. made \in Request
  BY <1>2, WithPhase
<1>4. CASE Retry /\ (UNCHANGED boundVars \/ Fault)
  BY <1>1, <1>2, <1>4, IdleStep, KeepsSame, BoundStep DEF Retry
<1>5. CASE Fault /\ Report("TerminatingFailed") /\ queued' = queued \cup {cur} /\ Done
  <2>1. Keeps
    BY <1>1, <1>2, <1>5, ReportStep, ReasonNames
  <2> QED
    BY <1>1, <1>2, <1>5, <2>1, IdleStep, BoundStep DEF Keeps
<1>6. CASE /\ addFinalizer /\ obj = req[cur] /\ req' = [req EXCEPT ![cur].phase = "live"] /\ obj' = req'[cur]
           /\ pc' = "ensure" /\ UNCHANGED <<cur, queued, boundVars>>
  <2>1. req' = [req EXCEPT ![cur] = made] /\ obj' = made
    BY <1>1, <1>2, <1>6 DEF Copies
  <2>2. req' \in Copies /\ WorkOK'
    BY <1>1, <1>2, <1>3, <1>6, <2>1 DEF Copies, WorkOK
  <2> QED
    BY <1>1, <1>2, <1>6, <2>1, <2>2, BoundStep
<1>7. CASE RemoveFinalizer /\ obj = req[cur] /\ req' = [req EXCEPT ![cur] = None] /\ Done /\ UNCHANGED <<queued, boundVars>>
  <2>1. req' \in Copies
    BY <1>1, <1>7 DEF Copies
  <2> QED
    BY <1>1, <1>2, <1>7, <2>1, IdleStep, BoundStep
<1> QED
  BY <1>4, <1>5, <1>6, <1>7 DEF addFinalizer, RemoveFinalizer

LEMMA HostTypes ==
    ASSUME TypeInv, UNCHANGED scenario, HostStep
    PROVE  BindingOK' /\ PlaceOK' /\ CurrentOK' /\ QueueOK'
<1>1. CASE Moves
  BY <1>1, MovesStep DEF TypeInv
<1>2. CASE UNCHANGED hostVars /\ queued' \in SUBSET Requests /\ queuedB' \in BOOLEAN
  BY <1>2 DEF TypeInv, hostVars, BindingOK, PlaceOK, CurrentOK, QueueOK
<1> QED
  BY <1>1, <1>2 DEF HostStep

\* The requests may be deleted; without finalizer they go at once.
Removes == req' \in Copies /\ \A r \in Requests : KeepsAt(r) \/ req'[r] = DeletedRequest(req[r])

LEMMA DeletedRequestType ==
    ASSUME NEW o \in Request \cup {None}
    PROVE  /\ DeletedRequest(o) \in Request \cup {None}
           /\ o = None \/ o.phase = "new" => DeletedRequest(o) = None
           /\ o # None /\ o.phase # "new" => DeletedRequest(o) \in Request /\ DeletedRequest(o).phase = "deleting"
  BY WithPhase DEF DeletedRequest

LEMMA RemovesOne ==
    ASSUME req \in Copies, NEW r \in Requests, req' = [req EXCEPT ![r] = DeletedRequest(@)]
    PROVE  Removes
<1>1. DeletedRequest(req[r]) \in Request \cup {None}
  BY DeletedRequestType DEF Copies
<1> QED
  BY <1>1 DEF Removes, KeepsAt, Copies

LEMMA KeepsRemoves == Keeps => Removes
  BY DEF Keeps, Removes

\* The clean-up, and what is done to the SpaceBinding by others.
CleanupActs == CleanUp \/ DeleteRequestOfBinding \/ DeleteBindingItself

LEMMA CleanupTypes ==
    ASSUME TypeInv, CleanupActs
    PROVE  Removes /\ HostStep /\ CleanOK' /\ BoundOK' /\ UNCHANGED <<reqC, terminating, workVars, scenario>>
<1>1. req \in Copies /\ QueueOK /\ CleanOK /\ BoundOK /\ sb \in Bindings /\ sbC \in Bindings /\ queued \in SUBSET Requests
  BY DEF TypeInv, RequestOK, BindingOK, QueueOK
<1>2. BoundOK' /\ UNCHANGED <<reqC, terminating, workVars, scenario>>
  BY <1>1, BoundStep DEF CleanupActs, CleanUp, DeleteRequestOfBinding, DeleteBindingItself, requestVars
<1>3. CASE CleanUp
  <2>1. Removes
    BY <1>1, <1>3, KeepsSame, KeepsRemoves DEF CleanUp, requestVars
  <2>2. HostStep
    BY <1>1, <1>3 DEF CleanUp, HostStep
  <2>3. CleanOK'
    <3>1. CASE UNCHANGED <<pcB, victim>>
      BY <1>1, <3>1 DEF CleanOK
    <3>2. CASE ~UNCHANGED <<pcB, victim>>
      <4>1. /\ sbC # None /\ victim' = sbC.owner
            /\ pcB' = IF sbC.owner # None /\ reqC[sbC.owner] # None THEN "request" ELSE "binding"
        BY <1>3, <3>2 DEF CleanUp
      <4>2. sbC.owner \in Requests \cup {None}
        BY <1>1, <4>1, BindingType DEF Bindings
      <4> QED
        BY <4>1, <4>2 DEF CleanOK
    <3> QED
      BY <3>1, <3>2
  <2> QED
    BY <1>2, <2>1, <2>2, <2>3
<1>4. CASE DeleteRequestOfBinding
  <2>1. victim \in Requests
    BY <1>1, <1>4 DEF DeleteRequestOfBinding, CleanOK
  <2>2. Removes
    BY <1>1, <1>4, <2>1, RemovesOne, KeepsSame, KeepsRemoves DEF DeleteRequestOfBinding
  <2>3. HostStep /\ CleanOK'
    BY <1>1, <1>4 DEF DeleteRequestOfBinding, CleanUpDone, HostStep, CleanOK
  <2> QED
    BY <1>2, <2>2, <2>3
<1>5. CASE DeleteBindingItself
  <2>1. Removes /\ CleanOK'
    BY <1>1, <1>5, KeepsSame, KeepsRemoves DEF DeleteBindingItself, requestVars, CleanUpDone, CleanOK
  <2>2. CASE \E b \in Deleted(sb) : sb # None /\ SetBinding(b, {})
    <3>1. Moves
      BY <1>1, <1>5, <2>2, DeletedMoves DEF DeleteBindingItself
    <3> QED
      BY <1>2, <2>1, <3>1 DEF HostStep
  <2>3. CASE queuedB' = TRUE /\ UNCHANGED <<sb, sbC, feed, unbound, queued>>
    BY <1>1, <1>2, <1>5, <2>1, <2>3 DEF DeleteBindingItself, HostStep, hostVars
  <2> QED
    BY <1>5, <2>2, <2>3 DEF DeleteBindingItself
<1> QED
  BY <1>3, <1>4, <1>5 DEF CleanupActs

OthersBind == BindingGoes \/ CreateBinding \/ DeleteBindingByHand

LEMMA OthersTypes ==
    ASSUME TypeInv, OthersBind
    PROVE  Moves /\ BoundOK' /\ UNCHANGED <<requestVars, workVars, pcB, victim, scenario>>
<1>1. BoundOK /\ sb \in Bindings
  BY DEF TypeInv, BindingOK
<1>2. BoundOK' /\ UNCHANGED <<requestVars, workVars, pcB, victim, scenario, mur, murC, space, spaceC>>
  BY <1>1, BoundStep DEF OthersBind, BindingGoes, CreateBinding, DeleteBindingByHand
<1>3. Moves
  <2>1. CASE BindingGoes
    BY <1>2, <2>1 DEF BindingGoes, Moves, Bindings
  <2>2. CASE CreateBinding
    <3>1. NewSpaceBinding(None) \in Bindings /\ NewSpaceBinding(None).owner # First
      BY NewBindingType, NoneDiffers DEF Bindings
    <3> QED
      BY <1>2, <2>2, <3>1 DEF CreateBinding, Moves
  <2>3. CASE DeleteBindingByHand
    BY <1>1, <1>2, <2>3, DeletedMoves DEF DeleteBindingByHand
  <2> QED
    BY <2>1, <2>2, <2>3 DEF OthersBind
<1> QED
  BY <1>2, <1>3

\* Caches of the host, time, the user and the Space.
HostActs == DeliverBinding \/ DeliverMur \/ DeliverSpace \/ Age \/ DeleteMur \/ MurGoes \/ CreateMur \/ DeleteSpace \/ SpaceGoes

LEMMA GoneEventType == ASSUME QueueOK, NEW old, NEW new, GoneEvent(old, new) PROVE queuedB' \in BOOLEAN
  BY DEF QueueOK, GoneEvent

LEMMA HostActsTypes ==
    ASSUME TypeInv, HostActs
    PROVE  /\ BindingOK' /\ PlaceOK' /\ CurrentOK' /\ QueueOK' /\ BoundOK'
           /\ UNCHANGED <<requestVars, workVars, pcB, victim, scenario>>
<1>1. BindingOK /\ PlaceOK /\ CurrentOK /\ QueueOK /\ BoundOK
  BY DEF TypeInv
<1>2. BoundOK' /\ UNCHANGED <<requestVars, workVars, pcB, victim, scenario>>
  BY <1>1, BoundStep DEF HostActs, DeliverBinding, DeliverMur, DeliverSpace, Age, DeleteMur, MurGoes, CreateMur,
         DeleteSpace, SpaceGoes, SetMur, SetSpace, requestVars, cleanVars
<1>3. CASE DeliverBinding
  <2>1. Head(feed) \in Bindings /\ Tail(feed) \in Seq(Bindings) /\ scenario.lag
    BY <1>1, <1>3 DEF DeliverBinding, BindingOK, CurrentOK
  <2>2. MapSpaceBindingToSpaceBindingRequest({sbC, sbC'}) \in SUBSET Requests
    BY <1>1, <1>3, <2>1, MapsTypes DEF DeliverBinding, BindingOK
  <2>3. BindingOK'
    BY <1>1, <1>3, <2>1 DEF DeliverBinding, BindingOK
  <2>4. QueueOK'
    BY <1>1, <1>3, <2>2 DEF DeliverBinding, QueueOK
  <2>5. PlaceOK' /\ CurrentOK'
    BY <1>1, <1>2, <1>3, <2>1 DEF DeliverBinding, PlaceOK, CurrentOK
  <2> QED
    BY <1>2, <2>3, <2>4, <2>5
<1>4. CASE DeliverMur \/ DeliverSpace
  <2>1. queuedB' \in BOOLEAN
    BY <1>1, <1>4, GoneEventType DEF DeliverMur, DeliverSpace
  <2>2. scenario.lag
    BY <1>1, <1>4 DEF DeliverMur, DeliverSpace, CurrentOK
  <2> QED
    BY <1>1, <1>2, <1>4, <2>1, <2>2 DEF DeliverMur, DeliverSpace, BindingOK, PlaceOK, CurrentOK, QueueOK
<1>5. CASE Age
  <2>1. sb \in Binding
    BY <1>1, <1>5 DEF Age, BindingOK, Bindings
  <2>2. sb' \in Bindings /\ sbC' = sb' /\ feed = <<>> /\ UNCHANGED <<feed, mur, murC, space, spaceC, unbound, queued, queuedB>>
    BY <1>5, <2>1, BindingType DEF Age, Bindings, cleanVars
  <2> QED
    BY <1>1, <1>2, <2>2 DEF BindingOK, PlaceOK, CurrentOK, QueueOK
<1>6. ASSUME NEW m \in Lives, SetMur(m) PROVE BindingOK' /\ PlaceOK' /\ CurrentOK' /\ QueueOK'
  <2>1. queuedB' \in BOOLEAN /\ unbound' \in BOOLEAN
    BY <1>1, <1>6, GoneEventType DEF SetMur, QueueOK, BindingOK
  <2> QED
    BY <1>1, <1>2, <1>6, <2>1 DEF SetMur, BindingOK, PlaceOK, CurrentOK, QueueOK
<1>7. ASSUME NEW s \in Lives, SetSpace(s) PROVE BindingOK' /\ PlaceOK' /\ CurrentOK' /\ QueueOK'
  <2>1. queuedB' \in BOOLEAN /\ unbound' \in BOOLEAN
    BY <1>1, <1>7, GoneEventType DEF SetSpace, QueueOK, BindingOK
  <2> QED
    BY <1>1, <1>2, <1>7, <2>1 DEF SetSpace, BindingOK, PlaceOK, CurrentOK, QueueOK
<1>8. {"live", "deleting", "gone"} \subseteq Lives
  BY DEF Lives
<1>9. CASE DeleteMur \/ MurGoes \/ CreateMur
  BY <1>2, <1>6, <1>8, <1>9 DEF DeleteMur, MurGoes, CreateMur
<1>10. CASE DeleteSpace \/ SpaceGoes
  BY <1>2, <1>7, <1>8, <1>10 DEF DeleteSpace, SpaceGoes
<1> QED
  BY <1>3, <1>4, <1>5, <1>9, <1>10 DEF HostActs

\* What is done to the requests.
RequestActs ==
    \/ NamespaceTerminates
    \/ \E r \in Requests :
          DeliverRequest(r) \/ DeleteRequest(r) \/ CreateRequest(r) \/ \E role \in AllRoles : EditRole(r, role)

LEMMA RequestTypes ==
    ASSUME TypeInv, RequestActs
    PROVE  /\ RequestOK' /\ QueueOK' /\ BoundOK' /\ UNCHANGED <<hostVars, workVars, pcB, victim, scenario>>
           /\ \/ Removes /\ UNCHANGED reqC
              \/ \E r \in Requests : UNCHANGED req /\ reqC' = [reqC EXCEPT ![r] = req[r]]
              \/ \E r \in Requests : UNCHANGED reqC /\ req[r] = None /\ req' = [req EXCEPT ![r] = NewRequest(FirstRole)]
<1>1. RequestOK /\ QueueOK /\ BoundOK /\ req \in Copies /\ reqC \in Copies
  BY DEF TypeInv, RequestOK
<1>2. BoundOK' /\ UNCHANGED <<hostVars, workVars, pcB, victim, queuedB, scenario>>
  BY <1>1, BoundStep DEF RequestActs, NamespaceTerminates, DeliverRequest, DeleteRequest, CreateRequest, EditRole,
         EditRequests, cleanVars
<1>3. QueueOK' /\ terminating' \in BOOLEAN
  BY <1>1, <1>2 DEF RequestActs, NamespaceTerminates, DeliverRequest, DeleteRequest, CreateRequest, EditRole,
         EditRequests, QueueOK, RequestOK
<1>4. ASSUME Removes, UNCHANGED reqC PROVE RequestOK'
  BY <1>1, <1>3, <1>4 DEF Removes, RequestOK
<1>5. CASE NamespaceTerminates
  <2>1. \A r \in Requests : DeletedRequest(req[r]) \in Request \cup {None}
    BY <1>1, DeletedRequestType DEF Copies
  <2>2. Removes /\ UNCHANGED reqC
    BY <1>5, <2>1 DEF NamespaceTerminates, Removes, Copies
  <2> QED
    BY <1>2, <1>3, <1>4, <2>2
<1>6. ASSUME NEW r \in Requests, DeliverRequest(r)
      PROVE  RequestOK' /\ UNCHANGED req /\ reqC' = [reqC EXCEPT ![r] = req[r]]
  BY <1>1, <1>3, <1>6 DEF DeliverRequest, RequestOK, Copies
<1>7. ASSUME NEW r \in Requests, DeleteRequest(r) PROVE Removes /\ UNCHANGED reqC
  BY <1>1, <1>7, RemovesOne DEF DeleteRequest, EditRequests
<1>8. ASSUME NEW r \in Requests, CreateRequest(r)
      PROVE  /\ RequestOK' /\ UNCHANGED reqC /\ req[r] = None
             /\ req' = [req EXCEPT ![r] = NewRequest(FirstRole)]
  BY <1>1, <1>3, <1>8, NewRequestType DEF CreateRequest, EditRequests, RequestOK, Copies
<1>9. ASSUME NEW r \in Requests, NEW role \in AllRoles, EditRole(r, role) PROVE Removes /\ UNCHANGED reqC
  <2>1. req[r] \in Request /\ req' = [req EXCEPT ![r] = [req[r] EXCEPT !.role = role]] /\ UNCHANGED reqC
    BY <1>1, <1>9 DEF EditRole, EditRequests, Copies
  <2>2. Keeps
    BY <1>1, <2>1, WithRole, KeepsOne
  <2> QED
    BY <2>1, <2>2, KeepsRemoves
<1> QED
  BY <1>2, <1>3, <1>4, <1>5, <1>6, <1>7, <1>8, <1>9 DEF RequestActs

\* The steps, in the groups that the lemmas are about.
LEMMA Steps ==
    ASSUME Next
    PROVE  \/ /\ Controller
              /\ \/ \E r \in Requests : Reconcile(r)
                 \/ CannotEnsure \/ setStatusProvisioning \/ SetReady \/ SetFailed
                 \/ SpaceMissing \/ AwaitSpaceBinding \/ setStatusTerminating
           \/ Controller /\ (UpdateSpaceBinding \/ DeleteSpaceBinding)
           \/ Controller /\ CreateSpaceBinding
           \/ Controller /\ (addFinalizer \/ RemoveFinalizer)
           \/ CleanupActs \/ Restart \/ OthersBind \/ HostActs \/ RequestActs
  BY DEF Next, Controller, Cleanup, Environment, Users, CleanupActs, OthersBind, HostActs, RequestActs

LEMMA ControllerKeeps == ASSUME Controller PROVE UNCHANGED <<reqC, terminating, pcB, victim>>
  BY DEF Controller, Reconcile, addFinalizer, CannotEnsure, setStatusProvisioning, CreateSpaceBinding,
         UpdateSpaceBinding, SetReady, SetFailed, SpaceMissing, DeleteSpaceBinding, AwaitSpaceBinding,
         setStatusTerminating, RemoveFinalizer, requestVars, cleanVars

LEMMA RestartTypes ==
    ASSUME TypeInv, Restart
    PROVE  /\ UNCHANGED <<requestVars, hostVars, scenario>> /\ WorkOK' /\ CleanOK' /\ QueueOK' /\ BoundOK'
           /\ pc' = "idle" /\ pcB' = "idle"
<1>1. BoundOK
  BY DEF TypeInv
<1> QED
  BY <1>1, IdleStep, BoundStep DEF Restart, CleanUpDone, CleanOK, QueueOK

LEMMA TypeNext == TypeInv /\ [Next]_vars => TypeInv'
<1> SUFFICES ASSUME TypeInv, [Next]_vars PROVE TypeInv'
  OBVIOUS
<1>1. RequestOK /\ WorkOK /\ CleanOK /\ BindingOK /\ PlaceOK /\ CurrentOK /\ QueueOK /\ BoundOK
  BY DEF TypeInv
<1>2. ASSUME req' \in Copies, UNCHANGED <<reqC, terminating>> PROVE RequestOK'
  BY <1>1, <1>2 DEF RequestOK
<1>3. ASSUME UNCHANGED <<pcB, victim>> PROVE CleanOK'
  BY <1>1, <1>3 DEF CleanOK
<1>4. ASSUME UNCHANGED workVars PROVE WorkOK'
  BY <1>1, <1>4 DEF workVars, WorkOK
<1>5. ASSUME UNCHANGED requestVars PROVE RequestOK'
  BY <1>1, <1>5 DEF requestVars, RequestOK
<1>6. ASSUME UNCHANGED <<hostVars, scenario>> PROVE BindingOK' /\ PlaceOK' /\ CurrentOK'
  BY <1>1, <1>6 DEF hostVars, BindingOK, PlaceOK, CurrentOK
<1>7. ASSUME Typed, UNCHANGED <<reqC, terminating, pcB, victim>> PROVE TypeInv'
  <2>1. BindingOK' /\ PlaceOK' /\ CurrentOK' /\ QueueOK'
    BY <1>7, HostTypes DEF Typed
  <2> QED
    BY <1>2, <1>3, <1>7, <2>1 DEF Typed, Keeps, TypeInv
<1>8. CASE UNCHANGED vars
  <2>1. UNCHANGED <<requestVars, hostVars, workVars, boundVars, queued, queuedB, pcB, victim, scenario>>
    BY <1>8 DEF vars, requestVars, hostVars, workVars, boundVars
  <2>2. QueueOK' /\ BoundOK'
    BY <1>1, <2>1, BoundStep DEF QueueOK
  <2> QED
    BY <1>3, <1>4, <1>5, <1>6, <2>1, <2>2 DEF TypeInv
<1>9. CASE /\ Controller
           /\ \/ \E r \in Requests : Reconcile(r)
              \/ CannotEnsure \/ setStatusProvisioning \/ SetReady \/ SetFailed
              \/ SpaceMissing \/ AwaitSpaceBinding \/ setStatusTerminating
  BY <1>7, <1>9, StatusTypes, ControllerKeeps
<1>10. CASE Controller /\ (UpdateSpaceBinding \/ DeleteSpaceBinding)
  BY <1>7, <1>10, BindingTypes, ControllerKeeps
<1>11. CASE Controller /\ CreateSpaceBinding
  <2>1. /\ UNCHANGED <<reqC, terminating, pcB, victim, req, scenario>> /\ WorkOK' /\ BoundOK'
        /\ UNCHANGED <<mur, murC, space, spaceC>>
        /\ HostStep \/ (sb = None /\ SetBinding(NewSpaceBinding(cur), {}))
    BY <1>11, CreateTypes, ControllerKeeps
  <2>2. cur \in Requests
    BY <1>1, <1>11 DEF CreateSpaceBinding, WorkOK
  <2>3. NewSpaceBinding(cur) \in Bindings
    BY <2>2, NewBindingType DEF Bindings
  <2>4. BindingOK' /\ PlaceOK' /\ CurrentOK' /\ QueueOK'
    BY <1>1, <2>1, <2>3, HostTypes, SetBindingStep
  <2> QED
    BY <1>1, <1>2, <1>3, <2>1, <2>4 DEF TypeInv, RequestOK
<1>12. CASE Controller /\ (addFinalizer \/ RemoveFinalizer)
  <2>1. QueueOK'
    BY <1>1, <1>12, FinalizerTypes DEF QueueOK
  <2> QED
    BY <1>2, <1>3, <1>6, <1>12, <2>1, FinalizerTypes, ControllerKeeps DEF TypeInv
<1>13. CASE CleanupActs
  <2>1. /\ req' \in Copies /\ HostStep /\ CleanOK' /\ BoundOK' /\ UNCHANGED <<reqC, terminating, workVars, scenario>>
    BY <1>13, CleanupTypes DEF Removes
  <2> QED
    BY <1>2, <1>4, <2>1, HostTypes DEF TypeInv
<1>14. CASE Restart
  BY <1>5, <1>6, <1>14, RestartTypes DEF TypeInv
<1>15. CASE OthersBind
  <2>1. HostStep /\ BoundOK' /\ UNCHANGED <<requestVars, workVars, pcB, victim, scenario>>
    BY <1>15, OthersTypes DEF HostStep
  <2> QED
    BY <1>3, <1>4, <1>5, <2>1, HostTypes DEF TypeInv
<1>16. CASE HostActs
  BY <1>3, <1>4, <1>5, <1>16, HostActsTypes DEF TypeInv
<1>17. CASE RequestActs
  BY <1>3, <1>4, <1>6, <1>17, RequestTypes DEF TypeInv
<1> QED
  BY <1>8, <1>9, <1>10, <1>11, <1>12, <1>13, <1>14, <1>15, <1>16, <1>17, Steps

LEMMA TypesHold == Spec => []TypeInv
  BY TypeInit, TypeNext, PTL DEF Spec

\* The types of the requests, the SpaceBinding and their copies (Request, Binding), and that only
\* the caches of the host are ever behind.
THEOREM TypeCorrect == Spec => []TypeOK
  BY Types, TypesHold, PTL

-----------------------------------------------------------------------------
(***************************************************************************)
(* The clean-up                                                            *)
(***************************************************************************)
\* `unbound' remembers that the user or the Space was away; with current caches the clean-up is
\* at work only when one of them was.
UnboundInv ==
    /\ mur = "gone" \/ space = "gone" => unbound
    /\ ~scenario.lag /\ pcB # "idle" => unbound

LEMMA UnboundInit == Init => UnboundInv
  BY DEF Init, UnboundInv

LEMMA UnboundKept ==
    ASSUME UnboundInv, UNCHANGED <<mur, space, scenario>>, pcB' \in {pcB, "idle"},
           UNCHANGED unbound \/ \E b, more : SetBinding(b, more)
    PROVE  UnboundInv'
  BY DEF UnboundInv, SetBinding

LEMMA UnboundHost ==
    ASSUME UnboundInv, UNCHANGED scenario, pcB' \in {pcB, "idle"}, HostStep
    PROVE  UnboundInv'
  BY UnboundKept DEF HostStep, Moves, hostVars

LEMMA UnboundNext == TypeInv /\ UnboundInv /\ [Next]_vars => UnboundInv'
<1> SUFFICES ASSUME TypeInv, UnboundInv, [Next]_vars PROVE UnboundInv'
  OBVIOUS
<1>1. CASE UNCHANGED vars
  BY <1>1 DEF vars, UnboundInv
<1>2. CASE Controller
  <2>1. UNCHANGED <<pcB, scenario>>
    BY <1>2, ControllerKeeps, StatusTypes, BindingTypes, CreateTypes, FinalizerTypes DEF Typed, Controller
  <2>2. HostStep \/ (SetBinding(NewSpaceBinding(cur), {}) /\ UNCHANGED <<mur, space>>) \/ UNCHANGED hostVars
    BY <1>2, StatusTypes, BindingTypes, CreateTypes, FinalizerTypes DEF Typed, Controller
  <2> QED
    BY <2>1, <2>2, UnboundHost, UnboundKept DEF hostVars
<1>3. CASE CleanupActs
  <2>1. HostStep /\ UNCHANGED scenario /\ CurrentOK
    BY <1>3, CleanupTypes DEF TypeInv
  <2>2. CASE CleanUp /\ pcB' # pcB
    <3>1. UNCHANGED <<mur, space, unbound>> /\ (murC = "gone" \/ spaceC = "gone")
      BY <2>2 DEF CleanUp, hostVars, Lost
    <3> QED
      BY <2>1, <3>1 DEF UnboundInv, CurrentOK
  <2>3. CASE ~(CleanUp /\ pcB' # pcB)
    <3>1. pcB' \in {pcB, "idle"}
      BY <1>3, <2>3 DEF CleanupActs, DeleteRequestOfBinding, DeleteBindingItself, CleanUpDone
    <3> QED
      BY <2>1, <3>1, UnboundHost
  <2> QED
    BY <2>2, <2>3
<1>4. CASE Restart
  BY <1>4, RestartTypes, UnboundKept DEF hostVars
<1>5. CASE OthersBind
  BY <1>5, OthersTypes, UnboundHost DEF HostStep
<1>6. CASE RequestActs
  BY <1>6, RequestTypes, UnboundKept DEF hostVars
<1>7. CASE HostActs
  <2>1. UNCHANGED <<pcB, scenario>>
    BY <1>7, HostActsTypes
  <2>2. CASE DeliverBinding \/ DeliverMur \/ DeliverSpace \/ Age
    BY <2>1, <2>2, UnboundKept DEF DeliverBinding, DeliverMur, DeliverSpace, Age
  <2>3. CASE DeleteMur \/ MurGoes \/ CreateMur
    BY <2>1, <2>3 DEF DeleteMur, MurGoes, CreateMur, SetMur, UnboundInv
  <2>4. CASE DeleteSpace \/ SpaceGoes
    BY <2>1, <2>4 DEF DeleteSpace, SpaceGoes, SetSpace, UnboundInv
  <2> QED
    BY <1>7, <2>2, <2>3, <2>4 DEF HostActs
<1> QED
  BY <1>1, <1>2, <1>3, <1>4, <1>5, <1>6, <1>7, Steps

\* With current caches the clean-up takes neither the SpaceBinding nor its request away from a
\* user and a Space that were there all the time since the SpaceBinding was made
\* (spacebindingcleanup: Reconcile).
THEOREM KeepsBoundAlways == Spec => KeepsBound
<1>1. UnboundInv /\ [Next]_vars =>
        [~scenario.lag /\ pcB # "idle" /\ pcB' = "idle" /\ (sb' # sb \/ req' # req) => unbound \/ sb = None]_vars
  BY DEF UnboundInv
<1> QED
  BY <1>1, UnboundInit, UnboundNext, TypesHold, PTL DEF Spec, KeepsBound

-----------------------------------------------------------------------------
(***************************************************************************)
(* Ownership                                                               *)
(***************************************************************************)
Held == req[First] # None /\ req[First].phase # "new"

Owned == IF ~scenario.lag /\ sb # None /\ sb.owner = First THEN {First} ELSE {}

NotLive(o) == o = None \/ o.phase # "live"

\* A request of the cache with finalizer: it has it still, or the cache saw its deletion.
CacheInv ==
    /\ reqC[First] # None /\ reqC[First].phase = "live" => Held
    /\ reqC[First] # None /\ reqC[First].phase = "deleting" => NotLive(req[First])

\* The request in hand.  The finalizer that a reconcile adds was never there before; it goes
\* only when there is no SpaceBinding of the request.
InHand ==
    /\ pc = "finalizer" => obj.phase = "new" /\ (~Held => reqC[First] = None \/ reqC[First].phase = "new")
    /\ pc \in {"ensure", "create", "ready", "fail"} => obj.phase = "live"
    /\ pc \in {"delete", "terminating", "finalize"} => obj.phase = "deleting"
    /\ obj.phase = "live" => Held
    /\ obj.phase = "deleting" => NotLive(req[First]) /\ NotLive(reqC[First])
    /\ pc = "finalize" => Owned = {}

HandInv == pc # "idle" /\ cur = First => InHand

BindingInv == Owned # {} => Held

IInv == TypeInv /\ CacheInv /\ HandInv /\ BindingInv

OwnershipStep == [Ownership!Next]_<<Held, Owned>>

Inv3 == CacheInv' /\ HandInv' /\ BindingInv' /\ OwnershipStep

LEMMA Kept == ASSUME KeepsAt(First) PROVE Held' = Held /\ NotLive(req[First])' = NotLive(req[First])
  BY NoneDiffers DEF KeepsAt, Held, NotLive

LEMMA KeptFirst == Keeps => KeepsAt(First)
  BY NoneDiffers DEF Keeps

LEMMA CacheKept == ASSUME CacheInv, KeepsAt(First), UNCHANGED reqC PROVE CacheInv'
  BY Kept DEF CacheInv, NotLive

\* With a current cache, what it says of the SpaceBinding is so.
LEMMA Current == ASSUME CurrentOK PROVE Owned = {} \/ (sbC # None /\ sbC.owner = First)
  BY DEF CurrentOK, Owned

LEMMA OwnedMoves == ASSUME UNCHANGED scenario, HostStep PROVE Owned' = Owned \/ (Owned = {First} /\ Owned' = {})
<1>1. CASE UNCHANGED hostVars
  BY <1>1 DEF hostVars, Owned
<1>2. CASE Moves
  BY <1>2, NoneDiffers DEF Moves, SetBinding, Owned
<1> QED
  BY <1>1, <1>2 DEF HostStep

\* The request keeps its finalizer or stays without one; the SpaceBinding only goes.
LEMMA OwnerKept ==
    ASSUME BindingInv, Held' = Held, Owned' = Owned \/ (Owned = {First} /\ Owned' = {})
    PROVE  BindingInv' /\ OwnershipStep /\ Owned' \subseteq Owned
<1>1. CASE Owned' = Owned
  BY <1>1 DEF BindingInv, OwnershipStep
<1>2. CASE Owned = {First} /\ Owned' = {}
  <2>1. Ownership!Close(First)
    BY <1>2 DEF Ownership!Close, Owned, Held
  <2> QED
    BY <1>2, <2>1 DEF BindingInv, OwnershipStep, Ownership!Next
<1> QED
  BY <1>1, <1>2

LEMMA Idle == ASSUME pc' = "idle" PROVE HandInv'
  BY DEF HandInv

\* The reconcile goes on with the request in hand.
LEMMA MoveOn ==
    ASSUME HandInv, KeepsAt(First), UNCHANGED <<reqC, cur>>, pc # "idle", obj'.phase = obj.phase,
           pc' = "finalize" => Owned' = {},
           \/ pc \in {"ensure", "create"} /\ pc' \in {"create", "ready", "fail"}
           \/ pc = "delete" /\ pc' \in {"terminating", "finalize"}
    PROVE  HandInv'
  BY Kept DEF HandInv, InHand, NotLive

LEMMA SameHand ==
    ASSUME HandInv, KeepsAt(First), UNCHANGED <<reqC, workVars>>, Owned' \subseteq Owned
    PROVE  HandInv'
  BY Kept DEF HandInv, InHand, NotLive, workVars

LEMMA StatusOwns ==
    ASSUME IInv, UNCHANGED reqC,
           \/ \E r \in Requests : Reconcile(r)
           \/ CannotEnsure \/ setStatusProvisioning \/ SetReady \/ SetFailed
           \/ SpaceMissing \/ AwaitSpaceBinding \/ setStatusTerminating
    PROVE  Inv3
<1>1. TypeInv /\ CacheInv /\ HandInv /\ BindingInv /\ WorkOK /\ reqC \in Copies
  BY DEF IInv, TypeInv, RequestOK
<1>2. KeepsAt(First) /\ UNCHANGED <<hostVars, scenario>>
  BY <1>1, StatusTypes, KeptFirst DEF Typed
<1>3. Owned' = Owned
  BY <1>2 DEF Owned, hostVars
<1>4. CacheInv' /\ BindingInv' /\ OwnershipStep
  BY <1>1, <1>2, <1>3, CacheKept, Kept, OwnerKept
<1>5. HandInv'
  <2>1. ASSUME NEW r \in Requests, Reconcile(r) PROVE HandInv'
    <3>1. CASE reqC[r] = None
      BY <2>1, <3>1, Idle DEF Reconcile, Done
    <3>2. CASE reqC[r] # None
      <4>1. reqC[r] \in Request /\ obj' = reqC[r] /\ cur' = r /\ reqC[r].phase \in {"new", "live", "deleting"}
        BY <1>1, <2>1, <3>2, RequestFields DEF Reconcile, Copies
      <4>2. CASE reqC[r].phase = "new"
        <5>1. pc' = "finalizer"
          BY <2>1, <3>2, <4>2 DEF Reconcile
        <5> QED
          BY <3>2, <4>1, <4>2, <5>1 DEF HandInv, InHand
      <4>3. CASE reqC[r].phase = "live"
        <5>1. pc' = "ensure" /\ (r = First => Held)
          BY <1>1, <2>1, <3>2, <4>3 DEF Reconcile, CacheInv
        <5>2. r = First => Held'
          BY <1>2, <5>1, Kept
        <5> QED
          BY <4>1, <4>3, <5>1, <5>2 DEF HandInv, InHand
      <4>4. CASE reqC[r].phase = "deleting"
        <5>1. pc' = "delete" /\ (r = First => NotLive(req[First]) /\ NotLive(reqC[First]))
          BY <1>1, <2>1, <3>2, <4>4 DEF Reconcile, CacheInv, NotLive
        <5>2. r = First => NotLive(req[First])' /\ NotLive(reqC[First])'
          BY <1>2, <5>1, Kept DEF NotLive
        <5> QED
          BY <4>1, <4>4, <5>1, <5>2 DEF HandInv, InHand
      <4> QED
        BY <4>1, <4>2, <4>3, <4>4
    <3> QED
      BY <3>1, <3>2
  <2>2. CASE CannotEnsure
    BY <1>1, <1>2, <2>2, MoveOn DEF CannotEnsure, Go
  <2>3. CASE setStatusProvisioning
    <3>1. /\ pc = "ensure" /\ UNCHANGED cur
          /\ \/ pc' = "create" /\ obj' = [obj EXCEPT !.ready = "Provisioning"]
             \/ pc' = "fail" /\ UNCHANGED obj
      BY <2>3 DEF setStatusProvisioning, Go
    <3>2. obj'.phase = obj.phase
      BY <1>1, <3>1, WithReady, ReasonNames DEF WorkOK
    <3> QED
      BY <1>1, <1>2, <3>1, <3>2, MoveOn
  <2>4. CASE AwaitSpaceBinding
    <3>1. pc = "delete" /\ (pc' = "idle" \/ (pc' = "terminating" /\ UNCHANGED <<cur, obj>>))
      BY <2>4 DEF AwaitSpaceBinding, Go, ReportFailure, Done
    <3> QED
      BY <1>1, <1>2, <3>1, MoveOn, Idle
  <2>5. CASE SetReady \/ SetFailed \/ SpaceMissing \/ setStatusTerminating
    <3>1. pc' = "idle"
      BY <2>5 DEF SetReady, SetFailed, SpaceMissing, setStatusTerminating, ReportFailure, Retry, Done
    <3> QED
      BY <3>1, Idle
  <2> QED
    BY <2>1, <2>2, <2>3, <2>4, <2>5
<1> QED
  BY <1>4, <1>5 DEF Inv3

LEMMA BindingOwns == ASSUME IInv, UNCHANGED reqC, UpdateSpaceBinding \/ DeleteSpaceBinding PROVE Inv3
<1>1. TypeInv /\ CacheInv /\ HandInv /\ BindingInv /\ CurrentOK
  BY DEF IInv, TypeInv
<1>2. KeepsAt(First) /\ UNCHANGED scenario /\ HostStep
  BY <1>1, BindingTypes, KeptFirst DEF Typed
<1>3. CacheInv' /\ BindingInv' /\ OwnershipStep /\ Owned' \subseteq Owned
  BY <1>1, <1>2, CacheKept, Kept, OwnedMoves, OwnerKept
<1>4. HandInv'
  <2>1. CASE UpdateSpaceBinding
    BY <1>1, <1>2, <2>1, MoveOn DEF UpdateSpaceBinding, Go
  <2>2. CASE DeleteSpaceBinding
    <3>1. /\ pc = "delete" /\ sbrOwnsSpaceBinding(sbC, cur)
          /\ \/ pc' = "idle"
             \/ pc' = "terminating" /\ UNCHANGED <<cur, obj>>
             \/ pc' = "finalize" /\ UNCHANGED <<cur, obj>> /\ sb = None
      BY <2>2 DEF DeleteSpaceBinding, Go, Done
    <3>2. sb = None => Owned = {}
      BY DEF Owned
    <3> QED
      BY <1>1, <1>2, <1>3, <3>1, <3>2, MoveOn, Idle
  <2> QED
    BY <2>1, <2>2
<1> QED
  BY <1>3, <1>4 DEF Inv3

LEMMA CreateOwns == ASSUME IInv, UNCHANGED reqC, CreateSpaceBinding PROVE Inv3
<1>1. TypeInv /\ CacheInv /\ HandInv /\ BindingInv /\ req \in Copies /\ WorkOK
  BY DEF IInv, TypeInv, RequestOK
<1>2. UNCHANGED <<req, cur, obj, scenario>> /\ pc = "create" /\ pc' \in {"ready", "fail"} /\ cur \in Requests
  BY <1>1, CreateTypes DEF CreateSpaceBinding, WorkOK
<1>3. KeepsAt(First)
  BY <1>1, <1>2, KeepsSame, KeptFirst
<1>4. CacheInv' /\ HandInv' /\ Held' = Held
  BY <1>1, <1>2, <1>3, CacheKept, Kept, MoveOn
<1>5. CASE HostStep
  BY <1>1, <1>2, <1>4, <1>5, OwnedMoves, OwnerKept DEF Inv3
<1>6. CASE sb = None /\ SetBinding(NewSpaceBinding(cur), {})
  <2>1. sb' # None /\ sb'.owner = cur /\ Owned = {}
    BY <1>2, <1>6, NewBindingType, NoneDiffers DEF SetBinding, Owned
  <2>2. CASE Owned' = Owned
    BY <1>1, <1>4, <2>2, OwnerKept DEF Inv3
  <2>3. CASE Owned' # Owned
    <3>1. cur = First /\ Owned' = {First}
      BY <2>1, <2>3 DEF Owned
    <3>2. Held /\ Held'
      BY <1>1, <1>2, <1>4, <3>1 DEF HandInv, InHand
    <3>3. Ownership!Open(First)
      BY <2>1, <3>1, <3>2 DEF Ownership!Open, Owned, Held
    <3> QED
      BY <1>4, <3>2, <3>3 DEF Inv3, BindingInv, OwnershipStep, Ownership!Next
  <2> QED
    BY <2>2, <2>3
<1> QED
  BY <1>1, <1>5, <1>6, CreateTypes

LEMMA FinalizerOwns == ASSUME IInv, UNCHANGED reqC, addFinalizer \/ RemoveFinalizer PROVE Inv3
<1>1. TypeInv /\ CacheInv /\ HandInv /\ BindingInv /\ req \in Copies /\ WorkOK /\ CurrentOK
  BY DEF IInv, TypeInv, RequestOK
<1>2. UNCHANGED <<hostVars, scenario>> /\ cur \in Requests /\ obj \in Request
  BY <1>1, FinalizerTypes DEF addFinalizer, RemoveFinalizer, WorkOK
<1>3. UNCHANGED Owned
  BY <1>2 DEF Owned, hostVars
<1>4. ASSUME KeepsAt(First) PROVE CacheInv' /\ BindingInv' /\ OwnershipStep
  BY <1>1, <1>2, <1>3, <1>4, CacheKept, Kept, OwnerKept
<1>5. CASE Keeps /\ pc' = "idle"
  BY <1>4, <1>5, KeptFirst, Idle DEF Inv3
<1>6. CASE /\ addFinalizer /\ obj = req[cur] /\ req' = [req EXCEPT ![cur] = [obj EXCEPT !.phase = "live"]]
           /\ obj' = [obj EXCEPT !.phase = "live"] /\ UNCHANGED cur /\ pc' = "ensure"
  <2>1. [obj EXCEPT !.phase = "live"] \in Request /\ [obj EXCEPT !.phase = "live"].phase = "live"
    BY <1>2, WithPhase
  <2>2. CASE cur # First
    <3>1. KeepsAt(First) /\ HandInv'
      BY <1>1, <1>6, <2>2, NoneDiffers DEF KeepsAt, Copies, HandInv
    <3> QED
      BY <1>4, <3>1 DEF Inv3
  <2>3. CASE cur = First
    <3>1. obj.phase = "new" /\ req'[First] \in Request /\ req'[First].phase = "live" /\ obj'.phase = "live"
      BY <1>1, <1>6, <2>1, <2>3, NoneDiffers DEF addFinalizer, HandInv, InHand, Copies
    <3>2. ~Held /\ Held' /\ (reqC[First] = None \/ reqC[First].phase = "new")
      BY <1>1, <1>6, <2>3, <3>1, NoneDiffers DEF addFinalizer, HandInv, InHand, Held
    <3>3. CacheInv' /\ HandInv' /\ BindingInv'
      BY <1>1, <1>6, <3>1, <3>2 DEF CacheInv, HandInv, InHand, BindingInv
    <3>4. OwnershipStep
      BY <1>3, <3>2 DEF OwnershipStep, Ownership!Next, Ownership!Take, Held, Owned
    <3> QED
      BY <3>3, <3>4 DEF Inv3
  <2> QED
    BY <2>2, <2>3
<1>7. CASE RemoveFinalizer /\ obj = req[cur] /\ req' = [req EXCEPT ![cur] = None] /\ pc' = "idle"
  <2>1. CASE cur # First
    <3>1. KeepsAt(First)
      BY <1>1, <1>7, <2>1, NoneDiffers DEF KeepsAt, Copies
    <3> QED
      BY <1>4, <1>7, <3>1, Idle DEF Inv3
  <2>2. CASE cur = First
    <3>1. pc \in {"delete", "finalize"} /\ obj.phase = "deleting" /\ NotLive(reqC[First])
      BY <1>1, <1>7, <2>2 DEF RemoveFinalizer, HandInv, InHand
    <3>2. Owned = {}
      BY <1>1, <1>7, <2>2, Current DEF RemoveFinalizer, HandInv, InHand, sbrOwnsSpaceBinding
    <3>3. req'[First] = None /\ Held /\ ~Held'
      BY <1>1, <1>2, <1>7, <2>2, <3>1, NoneDiffers DEF Held, Copies
    <3>4. CacheInv' /\ HandInv' /\ BindingInv'
      BY <1>3, <1>7, <3>1, <3>2, <3>3, Idle DEF CacheInv, BindingInv, NotLive
    <3>5. OwnershipStep
      BY <1>3, <3>2, <3>3 DEF OwnershipStep, Ownership!Next, Ownership!Release, Held, Owned
    <3> QED
      BY <3>4, <3>5 DEF Inv3
  <2> QED
    BY <2>1, <2>2
<1> QED
  BY <1>1, <1>5, <1>6, <1>7, FinalizerTypes

\* A deletion leaves the finalizer; the cache and the reconcile do not know of it yet.
LEMMA RemovesOwns ==
    ASSUME TypeInv, CacheInv, HandInv, Removes, UNCHANGED <<reqC, workVars>>, Owned' \subseteq Owned
    PROVE  CacheInv' /\ HandInv' /\ Held' = Held
<1>1. CASE KeepsAt(First)
  BY <1>1, CacheKept, SameHand, Kept
<1>2. CASE req'[First] = DeletedRequest(req[First])
  <2>1. /\ req[First] = None \/ req[First].phase = "new" => req'[First] = None
        /\ req[First] # None /\ req[First].phase # "new" =>
              req'[First] \in Request /\ req'[First].phase = "deleting"
    BY <1>2, DeletedRequestType, NoneDiffers DEF TypeInv, RequestOK, Copies
  <2>2. CacheInv' /\ Held' = Held
    BY <2>1, NoneDiffers DEF CacheInv, Held, NotLive
  <2>3. HandInv'
    BY <2>1, <2>2, NoneDiffers DEF HandInv, InHand, NotLive, workVars
  <2> QED
    BY <2>2, <2>3
<1> QED
  BY <1>1, <1>2, NoneDiffers DEF Removes

LEMMA OthersOwn == ASSUME IInv, CleanupActs \/ OthersBind \/ HostActs \/ Restart PROVE Inv3
<1>1. TypeInv /\ CacheInv /\ HandInv /\ BindingInv /\ req \in Copies
  BY DEF IInv, TypeInv, RequestOK
<1>2. ASSUME Held' = Held, Owned' = Owned \/ (Owned = {First} /\ Owned' = {}) PROVE BindingInv' /\ OwnershipStep
  BY <1>1, <1>2, OwnerKept
<1>3. CASE CleanupActs
  <2>1. Removes /\ HostStep /\ UNCHANGED <<reqC, workVars, scenario>>
    BY <1>1, <1>3, CleanupTypes
  <2>2. Owned' = Owned \/ (Owned = {First} /\ Owned' = {})
    BY <2>1, OwnedMoves
  <2> QED
    BY <1>1, <1>2, <2>1, <2>2, RemovesOwns DEF Inv3
<1>4. ASSUME UNCHANGED requestVars, UNCHANGED workVars \/ pc' = "idle", Owned' = Owned \/ (Owned = {First} /\ Owned' = {})
      PROVE  Inv3
  <2>1. KeepsAt(First) /\ UNCHANGED reqC
    BY <1>1, <1>4, KeepsSame, KeptFirst DEF requestVars
  <2> QED
    BY <1>1, <1>2, <1>4, <2>1, Kept, CacheKept, SameHand, Idle DEF Inv3
<1>5. CASE OthersBind
  BY <1>1, <1>4, <1>5, OthersTypes, OwnedMoves DEF HostStep
<1>6. CASE Restart
  BY <1>1, <1>4, <1>6, RestartTypes DEF hostVars, Owned
<1>7. CASE HostActs
  <2>1. UNCHANGED <<requestVars, workVars, scenario>>
    BY <1>1, <1>7, HostActsTypes
  <2>2. CASE UNCHANGED sb
    BY <1>4, <2>1, <2>2 DEF Owned
  <2>3. CASE Age
    <3>1. sb \in Binding /\ sb' \in Binding /\ sb'.owner = sb.owner
      BY <1>1, <2>3, BindingType DEF Age, TypeInv, BindingOK, Bindings
    <3> QED
      BY <1>4, <2>1, <3>1, NoneDiffers DEF Owned
  <2> QED
    BY <1>7, <2>2, <2>3 DEF HostActs, DeliverBinding, DeliverMur, DeliverSpace, DeleteMur, MurGoes, CreateMur,
                            DeleteSpace, SpaceGoes, SetMur, SetSpace
<1> QED
  BY <1>3, <1>5, <1>6, <1>7

LEMMA RequestOwns == ASSUME IInv, RequestActs PROVE Inv3
<1>1. TypeInv /\ CacheInv /\ HandInv /\ BindingInv /\ req \in Copies /\ reqC \in Copies
  BY DEF IInv, TypeInv, RequestOK
<1>2. UNCHANGED <<hostVars, workVars, scenario>>
  BY <1>1, RequestTypes
<1>3. Owned' = Owned
  BY <1>2 DEF Owned, hostVars
<1>4. ASSUME Held' = Held PROVE BindingInv' /\ OwnershipStep
  BY <1>1, <1>3, <1>4, OwnerKept
<1>5. CASE Removes /\ UNCHANGED reqC
  BY <1>1, <1>2, <1>3, <1>4, <1>5, RemovesOwns DEF Inv3
<1>6. ASSUME NEW r \in Requests, UNCHANGED req, reqC' = [reqC EXCEPT ![r] = req[r]] PROVE Inv3
  <2>1. reqC'[First] \in {reqC[First], req[First]}
    BY <1>1, <1>6, NoneDiffers DEF Copies
  <2>2. CacheInv' /\ Held' = Held
    BY <1>1, <1>6, <2>1 DEF CacheInv, Held, NotLive
  <2>3. HandInv'
    BY <1>1, <1>2, <1>3, <1>6, <2>1, <2>2 DEF HandInv, InHand, NotLive, Held, workVars
  <2> QED
    BY <1>4, <2>2, <2>3 DEF Inv3
<1>7. ASSUME NEW r \in Requests, UNCHANGED reqC, req[r] = None, req' = [req EXCEPT ![r] = NewRequest(FirstRole)]
      PROVE  Inv3
  <2>1. \/ req'[First] = req[First]
        \/ req[First] = None /\ req'[First] \in Request /\ req'[First].phase = "new"
    BY <1>1, <1>7, NewRequestType, NoneDiffers DEF Copies
  <2>2. CacheInv' /\ Held' = Held
    BY <1>1, <1>7, <2>1 DEF CacheInv, Held, NotLive
  <2>3. HandInv'
    BY <1>1, <1>2, <1>3, <1>7, <2>1, <2>2 DEF HandInv, InHand, NotLive, workVars
  <2> QED
    BY <1>4, <2>2, <2>3 DEF Inv3
<1> QED
  BY <1>1, <1>5, <1>6, <1>7, RequestTypes

LEMMA OwnershipInit == Init => IInv /\ ~Held /\ Owned = {}
<1> SUFFICES ASSUME Init PROVE IInv /\ ~Held /\ Owned = {}
  OBVIOUS
<1>1. TypeInv /\ req[First] = NewRequest(FirstRole) /\ reqC[First] = None /\ pc = "idle" /\ sb = None
  BY TypeInit, NoneDiffers DEF Init
<1> QED
  BY <1>1, NewRequestType DEF IInv, CacheInv, HandInv, BindingInv, Held, Owned

LEMMA OwnershipNext == ASSUME IInv, [Next]_vars PROVE IInv' /\ OwnershipStep
<1>1. TypeInv'
  BY TypeNext DEF IInv
<1>2. Inv3
  <2>1. CASE UNCHANGED vars
    <3>1. UNCHANGED Owned /\ UNCHANGED Held
      BY <2>1 DEF vars, Owned, Held
    <3> QED
      BY <2>1, <3>1 DEF vars, IInv, Inv3, CacheInv, HandInv, InHand, BindingInv, NotLive, OwnershipStep
  <2> QED
    BY <2>1, Steps, ControllerKeeps, StatusOwns, BindingOwns, CreateOwns, FinalizerOwns, OthersOwn, RequestOwns
<1> QED
  BY <1>1, <1>2 DEF Inv3, IInv

\* With a current cache a SpaceBinding with the labels of a request is made only while it holds
\* the finalizer, and the finalizer goes only after it (ResourceOwnership).
THEOREM BindingRequestsImplementOwnership == Spec => ImplementsOwnership
<1>1. Init => IInv /\ Ownership!Init
  BY OwnershipInit DEF Ownership!Init, Held, Owned
<1>2. IInv /\ [Next]_vars =>
        /\ IInv'
        /\ [Ownership!Next]_<<req[First] # None /\ req[First].phase # "new",
                              IF ~scenario.lag /\ sb # None /\ sb.owner = First THEN {First} ELSE {}>>
  BY OwnershipNext DEF OwnershipStep, Held, Owned
<1> QED
  BY <1>1, <1>2, PTL DEF Spec, ImplementsOwnership, Ownership!Spec

=============================================================================
