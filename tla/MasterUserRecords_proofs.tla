------------------------ MODULE MasterUserRecords_proofs ------------------------
(***************************************************************************)
(* The MasterUserRecord controller implements ResourceOwnership for any     *)
(* number of member clusters, changes and failures, as long as the caches   *)
(* of the members are current: whoever has a UserAccount has a record with  *)
(* finalizer.                                                               *)
(***************************************************************************)
EXTENDS MasterUserRecords, TLAPS

-----------------------------------------------------------------------------
Held == mur # None /\ mur.phase # "new"

NotLive(o) == o = None \/ o.phase # "live"

\* A record of the cache with finalizer: it has it still, or the cache saw its deletion.
CacheInv ==
    /\ murC # None /\ murC.phase = "live" => Held
    /\ murC # None /\ murC.phase = "deleting" => NotLive(mur)

\* The record in hand.  One that is being deleted has lost its accounts on the clusters
\* that were looked at; the finalizer that a reconcile adds was never there before.
HandInv ==
    /\ pc = "finalize" => obj.phase = "deleting" /\ todo = {}
    /\ pc \in {"opened", "update", "sync", "resync", "align"} => obj.phase = "live"
    /\ pc = "others" => obj.phase # "new"
    /\ pc = "account" => obj.phase # "deleting"
    /\ pc = "account" /\ obj.phase = "new" /\ ~Held => murC = None \/ murC.phase = "new"
    /\ pc # "idle" /\ obj.phase = "live" => Held
    /\ pc # "idle" /\ obj.phase = "deleting" =>
          /\ NotLive(mur) /\ NotLive(murC)
          /\ \A c \in Clusters \ todo : ua[c] = None

AccountInv == (\E c \in Clusters : ua[c] # None) => Held

IInv == TypeOK /\ uaC = ua /\ CacheInv /\ HandInv /\ AccountInv

-----------------------------------------------------------------------------
(***************************************************************************)
(* Types                                                                   *)
(***************************************************************************)
LEMMA Aligned ==
    ASSUME NEW o \in Record
    PROVE  /\ alignReadiness(o) \in Record /\ alignReadiness(o).phase = o.phase
           /\ alignDisabled(o) \in Record /\ alignDisabled(o).phase = o.phase
  BY DEF alignReadiness, alignDisabled, Record, Reasons

LEMMA Listed ==
    ASSUME NEW o \in Record, NEW c \in Clusters, NEW v \in Conditions \cup {None}
    PROVE  [o EXCEPT !.accounts[c] = v] \in Record /\ [o EXCEPT !.accounts[c] = v].phase = o.phase
  BY DEF Record

LEMMA SynchronizedType ==
    ASSUME NEW o \in Record, NEW c \in Clusters, NEW a \in Account
    PROVE  Synchronized(o, c, a) \in Record /\ Synchronized(o, c, a).phase = o.phase
<1>1. a.cond \in Conditions \cup {None}
  BY DEF Account
<1> DEFINE listed == [o EXCEPT !.accounts[c] = a.cond]
<1>2. listed \in Record /\ listed.phase = o.phase
  BY <1>1, Listed
<1>3. alignReadiness(listed) \in Record /\ alignReadiness(listed).phase = o.phase
  BY <1>2, Aligned
<1> HIDE DEF listed
<1>4. alignDisabled(alignReadiness(listed)) \in Record /\ alignDisabled(alignReadiness(listed)).phase = o.phase
  BY <1>3, Aligned
<1> QED
  BY <1>2, <1>3, <1>4, Aligned DEF Synchronized, listed

LEMMA WithReady ==
    ASSUME NEW o \in Record, NEW r \in Reasons
    PROVE  [o EXCEPT !.ready = r] \in Record /\ [o EXCEPT !.ready = r].phase = o.phase
  BY DEF Record

LEMMA WithNotified ==
    ASSUME NEW o \in Record, NEW b \in BOOLEAN
    PROVE  [o EXCEPT !.notified = b] \in Record /\ [o EXCEPT !.notified = b].phase = o.phase
  BY DEF Record

LEMMA Switched ==
    ASSUME NEW o \in Record
    PROVE  [o EXCEPT !.disabled = ~@] \in Record /\ [o EXCEPT !.disabled = ~@].phase = o.phase
  BY DEF Record

LEMMA WithPhase ==
    ASSUME NEW o \in Record, NEW f \in {"new", "live", "deleting"}
    PROVE  [o EXCEPT !.phase = f] \in Record /\ [o EXCEPT !.phase = f].phase = f
  BY DEF Record

LEMMA Fields ==
    ASSUME NEW o \in Record
    PROVE  o.phase \in {"new", "live", "deleting"} /\ o.notified \in BOOLEAN /\ o.disabled \in BOOLEAN
  BY DEF Record

LEMMA Relisted ==
    ASSUME NEW o \in Record, NEW p \in Record
    PROVE  [o EXCEPT !.accounts = p.accounts] \in Record /\ [o EXCEPT !.accounts = p.accounts].phase = o.phase
  BY DEF Record

LEMMA NewRecordType == NewRecord \in Record /\ NewRecord.phase = "new"
  BY DEF NewRecord, Record, Reasons

LEMMA AccountType ==
    ASSUME NEW a \in Account
    PROVE  /\ \A b \in BOOLEAN : [a EXCEPT !.deleting = b] \in Account /\ [a EXCEPT !.disabled = b] \in Account
           /\ \A v \in Conditions : [a EXCEPT !.cond = v] \in Account
           /\ a.cond \in Conditions /\ a.disabled \in BOOLEAN
  BY DEF Account

LEMMA NewAccountType == ASSUME obj \in Record PROVE NewAccount \in Account
  BY Fields DEF NewAccount, Account, Conditions

LEMMA NoneDiffers == None \notin Record /\ None \notin Account
  BY NoneAssumption

LEMMA BoundTypes == MaxEdits \in Nat /\ MaxFaults \in Nat /\ Home \in Clusters
  BY AccountsAssumption DEF AccountsAssumption

LEMMA TypeInit == Init => TypeOK
<1> SUFFICES ASSUME Init PROVE TypeOK
  OBVIOUS
<1>1. mur \in Record /\ murC = None
  BY NewRecordType DEF Init
<1>2. ua \in [Clusters -> Account \cup {None}] /\ uaC \in [Clusters -> Account \cup {None}]
  BY DEF Init
<1>3. edits \in 0..MaxEdits /\ faults \in 0..MaxFaults
  BY BoundTypes DEF Init
<1> QED
  BY <1>1, <1>2, <1>3, BoundTypes DEF Init, TypeOK, Targets

\* Most steps leave the record and its phase as they are.
Keeps ==
    \/ mur = None /\ mur' = None
    \/ mur \in Record /\ mur' \in Record /\ mur'.phase = mur.phase

BoundOK == edits \in 0..MaxEdits /\ faults \in 0..MaxFaults

LEMMA BoundStep ==
    ASSUME BoundOK, Fault \/ Edit \/ UNCHANGED boundVars
    PROVE  BoundOK'
  BY BoundTypes DEF BoundOK, Fault, Edit, boundVars

LEMMA FailStep ==
    ASSUME TypeOK, pc # "idle", Fail \/ Break
    PROVE  Keeps /\ Requeue /\ BoundOK'
<1>1. Requeue /\ BoundOK'
  BY BoundStep DEF Fail, Break, ReportFailure, TypeOK, BoundOK
<1>2. obj \in Record /\ "Failed" \in Reasons
  BY DEF TypeOK, Reasons
<1>3. [obj EXCEPT !.ready = "Failed"] \in Record /\ [obj EXCEPT !.ready = "Failed"].phase = obj.phase
  BY <1>2, WithReady
<1>4. mur' = mur \/ (obj = mur /\ mur' = [obj EXCEPT !.ready = "Failed"])
  BY DEF Fail, Break, ReportFailure
<1>5. mur = None \/ mur \in Record
  BY DEF TypeOK
<1> QED
  BY <1>1, <1>2, <1>3, <1>4, <1>5 DEF Keeps

\* WriteAligned without what comes after it.
LEMMA WriteStep ==
    ASSUME TypeOK, pc # "idle", NEW o \in Record, NEW found, NEW kept \in Record,
           o.phase = obj.phase, kept.phase = obj.phase,
           \/ obj = mur /\ mur' = o /\ Notify(found) /\ UNCHANGED boundVars
           \/ obj # mur /\ Notify(found) /\ Requeue /\ UNCHANGED <<mur, boundVars>>
           \/ /\ Fault /\ Requeue
              /\ \E made \in BOOLEAN :
                    /\ IF made THEN Notify(found) ELSE UNCHANGED notified
                    /\ \/ UNCHANGED mur
                       \/ obj = mur /\ mur' = [kept EXCEPT !.notified = obj.notified \/ (@ /\ made)]
    PROVE  Keeps /\ notified' \in BOOLEAN /\ BoundOK'
<1>1. obj \in Record /\ notified \in BOOLEAN
  BY DEF TypeOK
<1>2. notified' \in BOOLEAN
  BY <1>1 DEF Notify
<1>3. BoundOK'
  BY BoundStep DEF TypeOK, BoundOK, boundVars
<1>4. \A b \in BOOLEAN : [kept EXCEPT !.notified = b] \in Record /\ [kept EXCEPT !.notified = b].phase = obj.phase
  BY WithNotified
<1>5. obj.notified \in BOOLEAN /\ kept.notified \in BOOLEAN
  BY <1>1, Fields
<1>6. \/ mur' = mur
      \/ obj = mur /\ mur' = o
      \/ obj = mur /\ \E b \in BOOLEAN : mur' = [kept EXCEPT !.notified = b]
  <2>1. ASSUME NEW made \in BOOLEAN, mur' = [kept EXCEPT !.notified = obj.notified \/ (@ /\ made)]
        PROVE  \E b \in BOOLEAN : mur' = [kept EXCEPT !.notified = b]
    <3>1. (obj.notified \/ (kept.notified /\ made)) \in BOOLEAN
      BY <1>5
    <3> QED
      BY <2>1, <3>1, Zenon
  <2> QED
    BY <2>1
<1>7. mur = None \/ mur \in Record
  BY DEF TypeOK
<1> QED
  BY <1>1, <1>2, <1>3, <1>4, <1>6, <1>7 DEF Keeps

\* What a step may do to the record: nothing but its status and spec, except for the steps
\* that add and remove the finalizer, create and delete the record.
WorkOK ==
    /\ pc \in {"idle", "account", "opened", "update", "sync", "resync", "others", "align", "finalize"}
    /\ pc # "idle" => obj \in Record
    /\ pc \in {"update", "sync", "resync"} => at \in Clusters /\ acc \in Account
    /\ todo \in SUBSET Clusters

UaOK == ua \in [Clusters -> Account \cup {None}] /\ uaC \in [Clusters -> Account \cup {None}] /\ behind \in SUBSET Clusters

LEMMA Split == TypeOK <=> /\ mur \in Record \cup {None} /\ murC \in Record \cup {None}
                          /\ UaOK /\ WorkOK /\ BoundOK
                          /\ target \in Targets /\ notified \in BOOLEAN /\ queued \in BOOLEAN
  BY DEF TypeOK, UaOK, WorkOK, BoundOK

LEMMA RequeueStep == ASSUME Requeue PROVE WorkOK' /\ queued' \in BOOLEAN /\ pc' = "idle" /\ todo' = {}
  BY DEF Requeue, Done, WorkOK

LEMMA AccountStep ==
    ASSUME UaOK, queued \in BOOLEAN, NEW c \in Clusters, NEW a \in Account \cup {None}, SetAccount(c, a)
    PROVE  UaOK' /\ queued' \in BOOLEAN
  BY DEF UaOK, SetAccount

LEMMA ProceedStep ==
    ASSUME NEW o \in Record, NEW rest \in SUBSET Clusters, Proceed(o, rest)
    PROVE  WorkOK'
  BY DEF Proceed, Done, WorkOK

\* A step that leaves the phase of the record alone.
Typed == Keeps /\ UaOK' /\ WorkOK' /\ BoundOK' /\ notified' \in BOOLEAN /\ queued' \in BOOLEAN

LEMMA KeepsSame == ASSUME mur \in Record \cup {None}, UNCHANGED mur PROVE Keeps
  BY DEF Keeps

LEMMA KeepsReady ==
    ASSUME obj \in Record, obj = mur, NEW r \in Reasons, mur' = [obj EXCEPT !.ready = r]
    PROVE  Keeps
  BY WithReady DEF Keeps

LEMMA WorkerTypes ==
    ASSUME TypeOK,
           \/ Reconcile \/ NoTarget \/ TargetUnknown \/ WaitForAccount
           \/ UpdateAccount \/ SyncStatus \/ AlignWithoutAccounts
    PROVE  Typed
<1> USE Split
<1> USE DEF Typed
<1>1. CASE Reconcile
  <2>1. WorkOK'
    BY <1>1 DEF Reconcile, WorkOK
  <2> QED
    BY <1>1, <2>1, KeepsSame, BoundStep DEF Reconcile, murVars, uaVars, UaOK
<1>2. CASE NoTarget
  <2>1. WorkOK'
    BY <1>2, ProceedStep DEF NoTarget, WorkOK
  <2> QED
    BY <1>2, <2>1, KeepsSame, BoundStep DEF NoTarget, murVars, uaVars, UaOK
<1>3. CASE TargetUnknown
  BY <1>3, FailStep, RequeueStep DEF TargetUnknown, uaVars, UaOK
<1>4. CASE WaitForAccount
  <2>1. obj \in Record /\ "Provisioning" \in Reasons
    BY <1>4 DEF WaitForAccount, WorkOK, Reasons
  <2>2. CASE obj = mur /\ mur' = [obj EXCEPT !.ready = "Provisioning"] /\ Done /\ UNCHANGED <<queued, boundVars>>
    BY <1>4, <2>1, <2>2, KeepsReady, BoundStep DEF WaitForAccount, uaVars, UaOK, Done, WorkOK
  <2>3. CASE UNCHANGED mur /\ Done /\ UNCHANGED <<queued, boundVars>>
    BY <1>4, <2>3, KeepsSame, BoundStep DEF WaitForAccount, uaVars, UaOK, Done, WorkOK
  <2>4. CASE UNCHANGED mur /\ Requeue /\ (UNCHANGED boundVars \/ Fault)
    BY <1>4, <2>4, KeepsSame, BoundStep, RequeueStep DEF WaitForAccount, uaVars, UaOK
  <2> QED
    BY <1>4, <2>2, <2>3, <2>4 DEF WaitForAccount, CannotSetReady
<1>5. CASE UpdateAccount
  <2>1. CASE Break \/ Fail
    BY <1>5, <2>1, FailStep, RequeueStep DEF UpdateAccount, uaVars, UaOK
  <2>2. CASE ~(Break \/ Fail)
    <3>1. at \in Clusters /\ acc \in Account /\ obj \in Record
      BY <1>5 DEF UpdateAccount, WorkOK
    <3>2. acc' = [acc EXCEPT !.disabled = obj.disabled] /\ SetAccount(at, acc') /\ pc' = "resync"
          /\ UNCHANGED <<mur, obj, at, todo, boundVars, notified>>
      BY <1>5, <2>2 DEF UpdateAccount
    <3>3. acc' \in Account
      BY <3>1, <3>2, Fields, AccountType
    <3> QED
      BY <3>1, <3>2, <3>3, AccountStep, KeepsSame, BoundStep DEF WorkOK
  <2> QED
    BY <2>1, <2>2
<1>6. CASE SyncStatus
  <2> DEFINE o == Synchronized(obj, at, acc)
             found == [obj EXCEPT !.accounts[at] = acc.cond]
             kept == [o EXCEPT !.accounts = obj.accounts]
  <2>1. obj \in Record /\ at \in Clusters /\ acc \in Account /\ pc # "idle"
    BY <1>6 DEF SyncStatus, WorkOK
  <2>2. o \in Record /\ o.phase = obj.phase
    BY <2>1, SynchronizedType
  <2>3. kept \in Record /\ kept.phase = obj.phase
    BY <2>1, <2>2, Relisted
  <2> HIDE DEF o, kept, found
  <2>4. WriteAligned(o, found, kept, (IF pc = "resync" THEN Done ELSE Proceed(o, Clusters \ {at})) /\ UNCHANGED queued)
        /\ UNCHANGED <<murC, uaVars, target>>
    BY <1>6 DEF SyncStatus, o, kept, found
  <2>5. Keeps /\ notified' \in BOOLEAN /\ BoundOK'
    BY <2>1, <2>2, <2>3, <2>4, WriteStep DEF WriteAligned
  <2>6. WorkOK' /\ queued' \in BOOLEAN
    BY <2>2, <2>4, ProceedStep, RequeueStep DEF WriteAligned, Done, WorkOK
  <2> QED
    BY <2>4, <2>5, <2>6 DEF uaVars, UaOK
<1>7. CASE AlignWithoutAccounts
  <2> DEFINE o == alignReadiness(obj)
  <2>1. obj \in Record /\ pc # "idle"
    BY <1>7 DEF AlignWithoutAccounts, WorkOK
  <2>2. o \in Record /\ o.phase = obj.phase
    BY <2>1, Aligned
  <2> HIDE DEF o
  <2>4. WriteAligned(o, obj, o, Done /\ UNCHANGED queued) /\ UNCHANGED <<murC, uaVars, target>>
    BY <1>7 DEF AlignWithoutAccounts, o
  <2>5. Keeps /\ notified' \in BOOLEAN /\ BoundOK'
    BY <2>1, <2>2, <2>4, WriteStep DEF WriteAligned
  <2>6. WorkOK' /\ queued' \in BOOLEAN
    BY <2>4, RequeueStep DEF WriteAligned, Done, WorkOK
  <2> QED
    BY <2>4, <2>5, <2>6 DEF uaVars, UaOK
<1> QED
  BY <1>1, <1>2, <1>3, <1>4, <1>5, <1>6, <1>7

LEMMA ClusterTypes ==
    ASSUME TypeOK, NEW c \in Clusters,
           CreateAccount(c) \/ TakeAccount(c) \/ RemoveFromStatus(c) \/ AwaitRemoval(c) \/ DeleteAccount(c)
    PROVE  Typed
<1> USE Split
<1> USE DEF Typed
<1>1. CASE CreateAccount(c)
  <2>1. CASE Break \/ Fail
    BY <1>1, <2>1, FailStep, RequeueStep DEF CreateAccount, uaVars, UaOK
  <2>2. CASE ~(Break \/ Fail)
    <3>1. SetAccount(c, NewAccount) /\ pc' = "opened" /\ UNCHANGED <<mur, obj, at, acc, todo, boundVars, notified>>
      BY <1>1, <2>2 DEF CreateAccount
    <3>2. NewAccount \in Account
      BY <1>1, NewAccountType DEF CreateAccount, WorkOK
    <3>3. WorkOK'
      BY <1>1, <3>1 DEF CreateAccount, WorkOK
    <3> QED
      BY <3>1, <3>2, <3>3, AccountStep, KeepsSame, BoundStep
  <2> QED
    BY <2>1, <2>2
<1>2. CASE TakeAccount(c)
  <2>1. obj \in Record /\ uaC[c] \in Account /\ "Updating" \in Reasons
    BY <1>2 DEF TakeAccount, WorkOK, UaOK, Reasons
  <2>2. CASE Requeue
    <3>1. UNCHANGED mur /\ (UNCHANGED boundVars \/ Fault)
      BY <1>2, <2>2 DEF TakeAccount, CannotSetReady, Requeue, Done, SetReady
    <3> QED
      BY <1>2, <2>2, <3>1, KeepsSame, BoundStep, RequeueStep DEF TakeAccount, uaVars, UaOK
  <2>3. CASE ~Requeue
    <3>1. /\ UNCHANGED <<mur, obj>> \/ (obj = mur /\ mur' = [obj EXCEPT !.ready = "Updating"] /\ obj' = mur')
          /\ pc' \in {"sync", "update"} /\ at' = c /\ acc' = uaC[c] /\ UNCHANGED <<queued, todo, boundVars>>
      BY <1>2, <2>3 DEF TakeAccount, SetReady, CannotSetReady
    <3>2. Keeps /\ obj' \in Record
      BY <2>1, <3>1, KeepsSame, KeepsReady, WithReady
    <3>3. WorkOK'
      BY <2>1, <3>1, <3>2 DEF WorkOK
    <3> QED
      BY <1>2, <3>1, <3>2, <3>3, BoundStep DEF TakeAccount, uaVars, UaOK
  <2> QED
    BY <2>2, <2>3
<1>3. CASE RemoveFromStatus(c)
  <2>1. obj \in Record /\ pc # "idle" /\ todo \ {c} \in SUBSET Clusters /\ "Failed" \in Reasons
    BY <1>3 DEF RemoveFromStatus, WorkOK, Reasons
  <2>2. CASE obj.accounts[c] = None
    <3>1. Proceed(obj, todo \ {c}) /\ UNCHANGED <<mur, notified, queued, boundVars, uaVars>>
      BY <1>3, <2>2 DEF RemoveFromStatus
    <3> QED
      BY <2>1, <3>1, ProceedStep, KeepsSame, BoundStep DEF uaVars, UaOK
  <2>3. CASE obj.accounts[c] # None
    <3> DEFINE found == [obj EXCEPT !.accounts[c] = None]
               o == IF obj.phase = "deleting" THEN found ELSE alignReadiness(found)
               seen == IF obj.phase = "deleting" THEN obj ELSE found
               kept == [o EXCEPT !.ready = "Failed"]
    <3>1. found \in Record /\ found.phase = obj.phase
      BY <2>1, Listed
    <3> HIDE DEF found
    <3>2. o \in Record /\ o.phase = obj.phase
      BY <3>1, Aligned
    <3> HIDE DEF o
    <3>3. kept \in Record /\ kept.phase = obj.phase
      BY <2>1, <3>2, WithReady
    <3> HIDE DEF kept, seen
    <3>4. WriteAligned(o, seen, kept, Proceed(o, todo \ {c}) /\ UNCHANGED queued)
          /\ UNCHANGED <<murC, uaVars, target>>
      BY <1>3, <2>3 DEF RemoveFromStatus, o, kept, seen, found
    <3>5. Keeps /\ notified' \in BOOLEAN /\ BoundOK'
      BY <2>1, <3>2, <3>3, <3>4, WriteStep DEF WriteAligned
    <3>6. WorkOK' /\ queued' \in BOOLEAN
      BY <2>1, <3>2, <3>4, ProceedStep, RequeueStep DEF WriteAligned
    <3> QED
      BY <3>4, <3>5, <3>6 DEF uaVars, UaOK
  <2> QED
    BY <2>2, <2>3
<1>4. CASE AwaitRemoval(c)
  <2> DEFINE found == [obj EXCEPT !.accounts[c] = uaC[c].cond]
             o == Synchronized(obj, c, uaC[c])
             kept == [o EXCEPT !.accounts = obj.accounts, !.ready = "Failed"]
             late == [o EXCEPT !.ready = "Failed"]
  <2>1. obj \in Record /\ pc # "idle" /\ uaC[c] \in Account /\ "Failed" \in Reasons
    BY <1>4 DEF AwaitRemoval, WorkOK, UaOK, Reasons
  <2>2. o \in Record /\ o.phase = obj.phase
    BY <2>1, SynchronizedType
  <2> HIDE DEF o
  <2>3. kept \in Record /\ kept.phase = obj.phase
    <3> DEFINE k == [o EXCEPT !.accounts = obj.accounts]
    <3>1. k \in Record /\ k.phase = obj.phase
      BY <2>1, <2>2, Relisted
    <3>2. kept = [k EXCEPT !.ready = "Failed"]
      OBVIOUS
    <3> HIDE DEF k, kept
    <3> QED
      BY <2>1, <3>1, <3>2, WithReady
  <2>4. late \in Record /\ late.phase = obj.phase
    BY <2>1, <2>2, WithReady
  <2> HIDE DEF kept, late, found
  <2>5. /\ \/ WriteAligned(o, found, kept, Requeue)
           \/ obj = mur /\ mur' = late /\ Notify(found) /\ Fault /\ Requeue
        /\ UNCHANGED <<murC, uaVars, target>>
    BY <1>4 DEF AwaitRemoval, o, kept, found, late
  <2>6. Keeps /\ notified' \in BOOLEAN /\ BoundOK'
    <3>1. CASE WriteAligned(o, found, kept, Requeue)
      BY <2>1, <2>2, <2>3, <3>1, WriteStep DEF WriteAligned
    <3>2. CASE obj = mur /\ mur' = late /\ Notify(found) /\ Fault /\ Requeue
      BY <2>1, <2>4, <3>2, BoundStep DEF Keeps, Notify
    <3> QED
      BY <2>5, <3>1, <3>2
  <2>7. WorkOK' /\ queued' \in BOOLEAN
    BY <2>5, RequeueStep DEF WriteAligned
  <2> QED
    BY <2>5, <2>6, <2>7 DEF uaVars, UaOK
<1>5. CASE DeleteAccount(c)
  <2>1. CASE (Break \/ Fail) /\ UNCHANGED uaVars
    BY <1>5, <2>1, FailStep, RequeueStep DEF DeleteAccount, uaVars, UaOK
  <2>2. CASE ~((Break \/ Fail) /\ UNCHANGED uaVars)
    <3>1. /\ ua[c] # None /\ ua' = [ua EXCEPT ![c].deleting = TRUE]
          /\ IF MemberLag THEN behind' = behind \cup {c} /\ UNCHANGED uaC ELSE uaC' = ua' /\ UNCHANGED behind
          /\ Requeue /\ UNCHANGED <<mur, boundVars, notified>>
      BY <1>5, <2>2 DEF DeleteAccount
    <3>2. [ua[c] EXCEPT !.deleting = TRUE] \in Account
      BY <3>1, AccountType DEF UaOK
    <3>3. ua' \in [Clusters -> Account \cup {None}]
      BY <3>1, <3>2 DEF UaOK
    <3>4. UaOK'
      BY <3>1, <3>3 DEF UaOK
    <3> QED
      BY <3>1, <3>4, RequeueStep, KeepsSame, BoundStep
  <2> QED
    BY <2>1, <2>2
<1> QED
  BY <1>1, <1>2, <1>3, <1>4, <1>5

LEMMA MemberTypes ==
    ASSUME TypeOK, NEW c \in Clusters,
           DeliverAccount(c) \/ MemberSettles(c) \/ MemberRemoves(c) \/ DeleteByHand(c)
    PROVE  Typed /\ UNCHANGED <<mur, murC, workVars>>
<1> USE Split
<1> USE DEF Typed
<1>1. UNCHANGED <<mur, murC, workVars, notified>> /\ (Edit \/ UNCHANGED boundVars)
  BY DEF DeliverAccount, MemberSettles, MemberRemoves, DeleteByHand, murVars
<1>2. WorkOK' /\ BoundOK' /\ Keeps /\ notified' \in BOOLEAN
  BY <1>1, BoundStep, KeepsSame DEF WorkOK, workVars
<1>3. UaOK' /\ queued' \in BOOLEAN
  <2>1. CASE DeliverAccount(c)
    BY <2>1 DEF DeliverAccount, UaOK
  <2>2. CASE MemberSettles(c)
    <3>1. Settled(ua[c]) \in Conditions
      BY DEF Settled, Conditions
    <3>2. [ua[c] EXCEPT !.cond = Settled(ua[c])] \in Account
      BY <2>2, <3>1, AccountType DEF MemberSettles, UaOK
    <3> QED
      BY <2>2, <3>2, AccountStep DEF MemberSettles
  <2>3. CASE MemberRemoves(c)
    BY <2>3, AccountStep DEF MemberRemoves
  <2>4. CASE DeleteByHand(c)
    <3>1. [ua[c] EXCEPT !.deleting = TRUE] \in Account
      BY <2>4, AccountType DEF DeleteByHand, UaOK
    <3> QED
      BY <2>4, <3>1, AccountStep DEF DeleteByHand
  <2> QED
    BY <2>1, <2>2, <2>3, <2>4
<1> QED
  BY <1>1, <1>2, <1>3

LEMMA OtherTypes ==
    ASSUME TypeOK,
           \/ Restart \/ DeliverMur \/ CreateMur \/ DeleteMur \/ SwitchDisabled
           \/ addFinalizer \/ RemoveFinalizer \/ \E t \in Targets : ChangeTarget(t)
    PROVE  /\ mur' \in Record \cup {None} /\ UaOK' /\ WorkOK' /\ BoundOK'
           /\ notified' \in BOOLEAN /\ queued' \in BOOLEAN /\ target' \in Targets
<1> USE Split
<1>1. CASE Restart
  BY <1>1, BoundStep, RequeueStep DEF Restart, murVars, uaVars, UaOK
<1>2. CASE DeliverMur
  BY <1>2, BoundStep DEF DeliverMur, uaVars, UaOK, workVars, WorkOK
<1>3. CASE CreateMur
  BY <1>3, BoundStep, NewRecordType DEF CreateMur, uaVars, UaOK, workVars, WorkOK
<1>4. CASE DeleteMur
  <2>1. mur' \in Record \cup {None}
    BY <1>4, WithPhase DEF DeleteMur
  <2> QED
    BY <1>4, <2>1, BoundStep DEF DeleteMur, uaVars, UaOK, workVars, WorkOK
<1>5. CASE SwitchDisabled
  <2>1. mur' \in Record \cup {None}
    BY <1>5, Switched DEF SwitchDisabled
  <2> QED
    BY <1>5, <2>1, BoundStep DEF SwitchDisabled, uaVars, UaOK, workVars, WorkOK
<1>6. CASE addFinalizer
  <2>1. CASE Break \/ Fail
    BY <1>6, <2>1, FailStep, RequeueStep DEF addFinalizer, uaVars, UaOK, Keeps
  <2>2. CASE ~(Break \/ Fail)
    <3>1. obj \in Record /\ mur' = [obj EXCEPT !.phase = "live"] /\ obj' = mur'
          /\ UNCHANGED <<queued, pc, at, acc, todo, boundVars>>
      BY <1>6, <2>2 DEF addFinalizer, WorkOK
    <3>2. mur' \in Record
      BY <3>1, WithPhase
    <3> QED
      BY <1>6, <3>1, <3>2, BoundStep DEF addFinalizer, uaVars, UaOK, WorkOK
  <2> QED
    BY <2>1, <2>2
<1>7. CASE RemoveFinalizer
  <2>1. CASE Break \/ Fail
    BY <1>7, <2>1, FailStep, RequeueStep DEF RemoveFinalizer, uaVars, UaOK, Keeps
  <2>2. CASE ~(Break \/ Fail)
    BY <1>7, <2>2, BoundStep DEF RemoveFinalizer, uaVars, UaOK, Done, WorkOK
  <2> QED
    BY <2>1, <2>2
<1>8. ASSUME NEW t \in Targets, ChangeTarget(t)
      PROVE  /\ mur' \in Record \cup {None} /\ UaOK' /\ WorkOK' /\ BoundOK'
             /\ notified' \in BOOLEAN /\ queued' \in BOOLEAN /\ target' \in Targets
  BY <1>8, BoundStep DEF ChangeTarget, murVars, uaVars, UaOK, workVars, WorkOK
<1> QED
  BY <1>1, <1>2, <1>3, <1>4, <1>5, <1>6, <1>7, <1>8

LEMMA CacheTypes == ASSUME TypeOK, [Next]_vars PROVE murC' \in Record \cup {None} /\ target' \in Targets
<1> USE Split
<1>1. CASE DeliverMur
  BY <1>1 DEF DeliverMur
<1>2. ASSUME NEW t \in Targets, ChangeTarget(t) PROVE murC' \in Record \cup {None} /\ target' \in Targets
  BY <1>2 DEF ChangeTarget, murVars
<1>3. CASE UNCHANGED <<murC, target>>
  BY <1>3
<1>4. UNCHANGED <<murC, target>> \/ DeliverMur \/ \E t \in Targets : ChangeTarget(t)
  BY DEF Next, Controller, Environment, vars, Reconcile, addFinalizer, NoTarget, TargetUnknown, WaitForAccount,
         UpdateAccount, SyncStatus, AlignWithoutAccounts, RemoveFinalizer, CreateAccount, TakeAccount,
         RemoveFromStatus, AwaitRemoval, DeleteAccount, Restart, CreateMur, DeleteMur, SwitchDisabled,
         DeliverAccount, MemberSettles, MemberRemoves, DeleteByHand, murVars
<1> QED
  BY <1>1, <1>2, <1>3, <1>4

LEMMA TypeNext == TypeOK /\ [Next]_vars => TypeOK'
<1> SUFFICES ASSUME TypeOK, [Next]_vars PROVE TypeOK'
  OBVIOUS
<1>1. murC' \in Record \cup {None} /\ target' \in Targets
  BY CacheTypes
<1>2. /\ mur' \in Record \cup {None} /\ UaOK' /\ WorkOK' /\ BoundOK'
      /\ notified' \in BOOLEAN /\ queued' \in BOOLEAN
  <2>1. Typed => mur' \in Record \cup {None}
    BY DEF Typed, Keeps
  <2>2. CASE UNCHANGED vars
    BY <2>2, Split DEF vars, UaOK, WorkOK, BoundOK
  <2> QED
    BY <2>1, <2>2, WorkerTypes, ClusterTypes, MemberTypes, OtherTypes DEF Typed, Next, Controller, Environment
<1> QED
  BY <1>1, <1>2 DEF TypeOK, UaOK, WorkOK, BoundOK

\* The types of the record, its copies and the accounts (Record, Account).
THEOREM TypeCorrect == Spec => []TypeOK
  BY TypeInit, TypeNext, PTL DEF Spec

-----------------------------------------------------------------------------
(***************************************************************************)
(* Ownership                                                               *)
(***************************************************************************)
Owned == {c \in Clusters : ua[c] # None}

OwnershipStep == [Ownership!Next]_<<Held, Owned>>

LEMMA Kept == ASSUME Keeps PROVE Held' = Held /\ NotLive(mur)' = NotLive(mur)
  BY NoneDiffers DEF Keeps, Held, NotLive

\* Nothing happens to accounts, or to whether the record has the finalizer.
LEMMA NoAccountChanges ==
    ASSUME AccountInv, Held' = Held, UNCHANGED ua
    PROVE  AccountInv' /\ OwnershipStep
<1>1. UNCHANGED Owned
  BY DEF Owned
<1> QED
  BY <1>1 DEF AccountInv, OwnershipStep

LEMMA AccountChanges ==
    ASSUME UaOK, AccountInv, Held' = Held, NEW c \in Clusters, NEW a, ua' = [ua EXCEPT ![c] = a],
           ua[c] # None \/ Held
    PROVE  AccountInv' /\ OwnershipStep
<1>1. Held
  BY DEF AccountInv
<1>2. CASE a # None /\ ua[c] # None
  <2>1. Owned' = Owned
    BY <1>2 DEF Owned, UaOK
  <2> QED
    BY <1>1, <2>1 DEF AccountInv, OwnershipStep
<1>3. CASE a = None /\ ua[c] = None
  <2>1. Owned' = Owned
    BY <1>3 DEF Owned, UaOK
  <2> QED
    BY <1>1, <2>1 DEF AccountInv, OwnershipStep
<1>4. CASE a # None /\ ua[c] = None
  <2>1. Owned' = Owned \cup {c} /\ c \notin Owned
    BY <1>4 DEF Owned, UaOK
  <2>2. Ownership!Open(c)
    BY <1>1, <2>1 DEF Ownership!Open, Owned, Held
  <2> QED
    BY <1>1, <2>2 DEF AccountInv, OwnershipStep, Ownership!Next
<1>5. CASE a = None /\ ua[c] # None
  <2>1. Owned' = Owned \ {c} /\ c \in Owned
    BY <1>5 DEF Owned, UaOK
  <2>2. Ownership!Close(c)
    BY <2>1 DEF Ownership!Close, Owned, Held
  <2> QED
    BY <1>1, <2>2 DEF AccountInv, OwnershipStep, Ownership!Next
<1> QED
  BY <1>2, <1>3, <1>4, <1>5

\* The cache and the record in hand, when neither the record's phase nor its copy changes.
LEMMA CacheKept == ASSUME CacheInv, Keeps, UNCHANGED murC PROVE CacheInv'
  BY Kept DEF CacheInv, NotLive

LEMMA Idle == ASSUME pc' = "idle" PROVE HandInv'
  BY DEF HandInv

LEMMA SameHand ==
    ASSUME HandInv, Keeps, UNCHANGED <<murC, pc, obj, todo>>, \A c \in Clusters : ua[c] = None => ua'[c] = None
    PROVE  HandInv'
  BY Kept DEF HandInv, NotLive

LEMMA MoveOn ==
    ASSUME HandInv, Keeps, UNCHANGED <<murC, ua>>, pc # "idle", obj.phase # "new",
           NEW o \in Record, o.phase = obj.phase, NEW rest \in SUBSET Clusters, Proceed(o, rest),
           obj.phase = "deleting" => \A c \in Clusters \ rest : ua[c] = None
    PROVE  HandInv'
<1>1. o.phase \in {"live", "deleting"}
  BY Fields
<1>2. CASE pc' = "idle"
  BY <1>2, Idle
<1>3. CASE pc' # "idle"
  <2>1. /\ obj' = o /\ todo' = rest
        /\ pc' = IF rest # {} THEN "others" ELSE IF o.phase = "deleting" THEN "finalize" ELSE "align"
    BY <1>3 DEF Proceed, Done
  <2> QED
    BY <1>1, <2>1, Kept DEF HandInv, NotLive
<1> QED
  BY <1>2, <1>3

Inv4 == uaC' = ua' /\ CacheInv' /\ HandInv' /\ AccountInv' /\ OwnershipStep

LEMMA WorkerOwns ==
    ASSUME IInv,
           \/ Reconcile \/ NoTarget \/ TargetUnknown \/ WaitForAccount
           \/ SyncStatus \/ AlignWithoutAccounts
    PROVE  Inv4
<1> USE DEF IInv
<1>1. obj \in Record \/ pc = "idle"
  BY Split DEF WorkOK
<1>2. Keeps
  BY WorkerTypes DEF Typed
<1>3. UNCHANGED <<murC, ua, uaC>>
  BY DEF Reconcile, NoTarget, TargetUnknown, WaitForAccount, SyncStatus, AlignWithoutAccounts, murVars, uaVars
<1>4. CacheInv' /\ AccountInv' /\ OwnershipStep /\ uaC' = ua'
  BY <1>2, <1>3, CacheKept, Kept, NoAccountChanges
<1>5. HandInv'
  <2>1. CASE Reconcile
    <3>1. CASE murC = None
      BY <2>1, <3>1, Idle DEF Reconcile
    <3>2. CASE murC # None
      <4>1. murC \in Record /\ UNCHANGED mur
        BY <2>1, <3>2, Split DEF Reconcile, murVars
      <4>2. murC.phase \in {"new", "live", "deleting"} /\ obj' = murC
        BY <2>1, <3>2, <4>1, Fields DEF Reconcile
      <4>3. CASE murC.phase = "deleting"
        <5>1. pc' = "others" /\ todo' = Clusters /\ Clusters \ todo' = {}
          BY <2>1, <3>2, <4>3 DEF Reconcile
        <5> QED
          BY <1>3, <3>2, <4>1, <4>2, <4>3, <5>1 DEF HandInv, CacheInv, NotLive
      <4>4. CASE murC.phase # "deleting"
        <5>1. pc' = "account"
          BY <2>1, <3>2, <4>4 DEF Reconcile
        <5> QED
          BY <1>3, <3>2, <4>1, <4>2, <4>4, <5>1 DEF HandInv, CacheInv, NotLive, Held
      <4> QED
        BY <4>3, <4>4
    <3> QED
      BY <3>1, <3>2
  <2>2. CASE NoTarget
    <3>1. obj \in Record /\ pc = "account" /\ obj.phase # "new" /\ Proceed(obj, Clusters)
      BY <2>2, <1>1 DEF NoTarget
    <3> QED
      BY <1>2, <1>3, <3>1, MoveOn DEF HandInv
  <2>3. CASE SyncStatus
    <3> DEFINE o == Synchronized(obj, at, acc)
    <3>1. obj \in Record /\ at \in Clusters /\ acc \in Account /\ pc \in {"sync", "resync"}
      BY <2>3, Split DEF SyncStatus, WorkOK
    <3>2. o \in Record /\ o.phase = obj.phase
      BY <3>1, SynchronizedType
    <3>3. obj.phase = "live"
      BY <3>1 DEF HandInv
    <3> HIDE DEF o
    <3>4. pc' = "idle" \/ Proceed(o, Clusters \ {at})
      BY <2>3 DEF SyncStatus, WriteAligned, Requeue, Done, o
    <3> QED
      BY <1>2, <1>3, <3>1, <3>2, <3>3, <3>4, MoveOn, Idle
  <2>4. CASE TargetUnknown
    BY <2>4, Idle DEF TargetUnknown, Fail, ReportFailure, Requeue, Done
  <2>5. CASE WaitForAccount
    BY <2>5, Idle DEF WaitForAccount, Requeue, Done
  <2>6. CASE AlignWithoutAccounts
    BY <2>6, Idle DEF AlignWithoutAccounts, WriteAligned, Requeue, Done
  <2> QED
    BY <2>1, <2>2, <2>3, <2>4, <2>5, <2>6
<1> QED
  BY <1>4, <1>5 DEF Inv4

LEMMA AccountOwns ==
    ASSUME MemberLag = FALSE, IInv, NEW c \in Clusters,
           \/ UpdateAccount \/ CreateAccount(c) \/ TakeAccount(c) \/ RemoveFromStatus(c)
           \/ AwaitRemoval(c) \/ DeleteAccount(c)
    PROVE  Inv4
<1> USE DEF IInv
<1>1. Keeps
  BY WorkerTypes, ClusterTypes DEF Typed
<1>2. UNCHANGED murC
  BY DEF UpdateAccount, CreateAccount, TakeAccount, RemoveFromStatus, AwaitRemoval, DeleteAccount
<1>3. CacheInv' /\ Held' = Held
  BY <1>1, <1>2, CacheKept, Kept
<1>4. UaOK /\ WorkOK
  BY Split
<1>5. ASSUME UNCHANGED uaVars, pc' = "idle" PROVE Inv4
  BY <1>3, <1>5, NoAccountChanges, Idle DEF Inv4, uaVars
<1>6. CASE UpdateAccount
  <2>1. CASE (Break \/ Fail) /\ UNCHANGED uaVars
    BY <1>5, <2>1 DEF Break, Fail, ReportFailure, Requeue, Done
  <2>2. CASE ~((Break \/ Fail) /\ UNCHANGED uaVars)
    <3>1. /\ SetAccount(at, acc') /\ acc = ua[at] /\ acc' = [acc EXCEPT !.disabled = obj.disabled]
          /\ pc = "update" /\ pc' = "resync" /\ UNCHANGED <<mur, obj, todo>>
      BY <1>6, <2>2 DEF UpdateAccount
    <3>2. at \in Clusters /\ acc \in Account
      BY <1>4, <3>1 DEF WorkOK
    <3>3. uaC' = ua' /\ ua' = [ua EXCEPT ![at] = acc'] /\ ua[at] # None
      BY <3>1, <3>2, NoneDiffers DEF SetAccount
    <3>4. HandInv'
      BY <1>1, <1>2, <3>1, Kept DEF HandInv
    <3> QED
      BY <1>3, <1>4, <3>2, <3>3, <3>4, AccountChanges DEF Inv4
  <2> QED
    BY <2>1, <2>2
<1>7. CASE CreateAccount(c)
  <2>1. CASE (Break \/ Fail) /\ UNCHANGED uaVars
    BY <1>5, <2>1 DEF Break, Fail, ReportFailure, Requeue, Done
  <2>2. CASE ~((Break \/ Fail) /\ UNCHANGED uaVars)
    <3>1. /\ SetAccount(c, NewAccount) /\ pc = "account" /\ obj.phase # "new"
          /\ pc' = "opened" /\ UNCHANGED <<mur, obj, todo>>
      BY <1>7, <2>2 DEF CreateAccount
    <3>2. obj.phase = "live" /\ Held
      BY <1>4, <3>1, Fields DEF HandInv, WorkOK
    <3>3. uaC' = ua' /\ ua' = [ua EXCEPT ![c] = NewAccount]
      BY <3>1 DEF SetAccount
    <3>4. HandInv'
      BY <1>3, <3>1, <3>2 DEF HandInv
    <3> QED
      BY <1>3, <1>4, <3>2, <3>3, <3>4, AccountChanges DEF Inv4
  <2> QED
    BY <2>1, <2>2
<1>8. CASE TakeAccount(c)
  <2>1. UNCHANGED uaVars /\ pc = "account" /\ obj.phase # "new"
    BY <1>8 DEF TakeAccount
  <2>2. pc' = "idle" \/ (pc' \in {"sync", "update"} /\ (obj' = obj \/ (obj = mur /\ obj' = mur')))
    BY <1>8 DEF TakeAccount, SetReady, CannotSetReady, Requeue, Done
  <2>3. obj.phase = "live" /\ Held
    BY <1>4, <2>1, Fields DEF HandInv, WorkOK
  <2>4. CASE pc' = "idle"
    BY <1>5, <2>1, <2>4
  <2>5. CASE pc' # "idle"
    <3>1. obj'.phase = "live" /\ pc' \in {"sync", "update"}
      BY <1>1, <1>4, <2>1, <2>2, <2>3, <2>5, NoneDiffers DEF Keeps, WorkOK
    <3>2. HandInv'
      BY <1>3, <2>3, <3>1 DEF HandInv
    <3> QED
      BY <1>3, <2>1, <3>2, NoAccountChanges DEF Inv4, uaVars
  <2> QED
    BY <2>4, <2>5
<1>9. CASE RemoveFromStatus(c)
  <2>1. /\ obj \in Record /\ pc = "others" /\ obj.phase # "new" /\ ua[c] = None /\ UNCHANGED uaVars
        /\ todo \ {c} \in SUBSET Clusters
    BY <1>4, <1>9 DEF RemoveFromStatus, HandInv, WorkOK
  <2>2. obj.phase = "deleting" => \A d \in Clusters \ (todo \ {c}) : ua[d] = None
    BY <2>1 DEF HandInv
  <2> DEFINE found == [obj EXCEPT !.accounts[c] = None]
             o == IF obj.phase = "deleting" THEN found ELSE alignReadiness(found)
  <2>3. found \in Record /\ found.phase = obj.phase
    BY <2>1, Listed
  <2> HIDE DEF found
  <2>4. o \in Record /\ o.phase = obj.phase
    BY <2>3, Aligned
  <2> HIDE DEF o
  <2>5. pc' = "idle" \/ Proceed(obj, todo \ {c}) \/ Proceed(o, todo \ {c})
    BY <1>9 DEF RemoveFromStatus, WriteAligned, Requeue, Done, o, found
  <2>6. HandInv'
    BY <1>1, <1>2, <2>1, <2>2, <2>4, <2>5, MoveOn, Idle DEF uaVars
  <2> QED
    BY <1>3, <2>1, <2>6, NoAccountChanges DEF Inv4, uaVars
<1>10. CASE AwaitRemoval(c)
  BY <1>5, <1>10 DEF AwaitRemoval, WriteAligned, Requeue, Done
<1>11. CASE DeleteAccount(c)
  <2>1. CASE (Break \/ Fail) /\ UNCHANGED uaVars
    BY <1>5, <2>1 DEF Break, Fail, ReportFailure, Requeue, Done
  <2>2. CASE ~((Break \/ Fail) /\ UNCHANGED uaVars)
    <3>1. /\ ua[c] # None /\ ua' = [ua EXCEPT ![c].deleting = TRUE] /\ uaC' = ua' /\ pc' = "idle"
      BY <1>11, <2>2 DEF DeleteAccount, Requeue, Done
    <3>2. ua' = [ua EXCEPT ![c] = [ua[c] EXCEPT !.deleting = TRUE]]
      BY <3>1
    <3> QED
      BY <1>3, <1>4, <3>1, <3>2, AccountChanges, Idle DEF Inv4
  <2> QED
    BY <2>1, <2>2
<1> QED
  BY <1>6, <1>7, <1>8, <1>9, <1>10, <1>11

LEMMA MemberOwns ==
    ASSUME MemberLag = FALSE, IInv, NEW c \in Clusters,
           DeliverAccount(c) \/ MemberSettles(c) \/ MemberRemoves(c) \/ DeleteByHand(c)
    PROVE  Inv4
<1> USE DEF IInv
<1>1. Keeps /\ UNCHANGED <<murC, pc, obj, todo>>
  BY MemberTypes DEF Typed, workVars
<1>2. UaOK
  BY Split
<1>3. CacheInv' /\ Held' = Held
  BY <1>1, CacheKept, Kept
<1>4. CASE DeliverAccount(c)
  <2>1. UNCHANGED ua /\ uaC' = ua'
    BY <1>2, <1>4 DEF DeliverAccount, UaOK
  <2> QED
    BY <1>1, <1>3, <2>1, SameHand, NoAccountChanges DEF Inv4
<1>5. CASE ~DeliverAccount(c)
  <2>1. PICK a : SetAccount(c, a) /\ ua[c] # None
    BY <1>5 DEF MemberSettles, MemberRemoves, DeleteByHand
  <2>2. uaC' = ua' /\ ua' = [ua EXCEPT ![c] = a]
    BY <2>1 DEF SetAccount
  <2>3. \A d \in Clusters : ua[d] = None => ua'[d] = None
    BY <1>2, <2>1, <2>2 DEF UaOK
  <2> QED
    BY <1>1, <1>2, <1>3, <2>1, <2>2, <2>3, SameHand, AccountChanges DEF Inv4
<1> QED
  BY <1>4, <1>5

LEMMA RecordOwns ==
    ASSUME IInv,
           \/ Restart \/ DeliverMur \/ CreateMur \/ DeleteMur \/ SwitchDisabled
           \/ addFinalizer \/ RemoveFinalizer \/ \E t \in Targets : ChangeTarget(t)
    PROVE  Inv4
<1> USE DEF IInv
<1>1. mur \in Record \cup {None} /\ murC \in Record \cup {None} /\ (pc # "idle" => obj \in Record)
  BY Split DEF WorkOK
<1>2. UNCHANGED <<ua, uaC>>
  BY DEF Restart, DeliverMur, CreateMur, DeleteMur, SwitchDisabled, addFinalizer, RemoveFinalizer, ChangeTarget, uaVars
<1>3. CASE Restart
  <2>1. Keeps /\ UNCHANGED murC /\ pc' = "idle"
    BY <1>1, <1>3, KeepsSame DEF Restart, murVars, Requeue, Done
  <2> QED
    BY <1>2, <2>1, CacheKept, Kept, Idle, NoAccountChanges DEF Inv4
<1>4. CASE DeliverMur
  <2>1. UNCHANGED <<mur, pc, obj, todo>> /\ murC' = mur
    BY <1>4 DEF DeliverMur, workVars
  <2>2. CacheInv' /\ Held' = Held
    BY <1>1, <2>1 DEF CacheInv, Held, NotLive
  <2>3. HandInv'
    BY <1>1, <1>2, <2>1, <2>2 DEF HandInv, NotLive, Held
  <2> QED
    BY <1>2, <2>2, <2>3, NoAccountChanges DEF Inv4
<1>5. CASE CreateMur
  <2>1. mur = None /\ mur' \in Record /\ mur'.phase = "new" /\ UNCHANGED <<murC, pc, obj, todo>>
    BY <1>5, NewRecordType DEF CreateMur, workVars
  <2>2. CacheInv' /\ Held' = Held
    BY <2>1 DEF CacheInv, Held, NotLive
  <2>3. HandInv'
    BY <1>2, <2>1, <2>2 DEF HandInv, NotLive
  <2> QED
    BY <1>2, <2>2, <2>3, NoAccountChanges DEF Inv4
<1>6. CASE DeleteMur
  <2>1. mur \in Record /\ UNCHANGED <<murC, pc, obj, todo>>
    BY <1>1, <1>6 DEF DeleteMur, workVars
  <2>2. /\ mur.phase = "new" => mur' = None
        /\ mur.phase = "live" => mur' \in Record /\ mur'.phase = "deleting"
        /\ mur.phase \in {"new", "live"}
    BY <1>6, <2>1, WithPhase, Fields DEF DeleteMur
  <2>3. CacheInv' /\ Held' = Held
    BY <2>1, <2>2, NoneDiffers DEF CacheInv, Held, NotLive
  <2>4. HandInv'
    BY <1>2, <2>1, <2>2, <2>3, NoneDiffers DEF HandInv, NotLive
  <2> QED
    BY <1>2, <2>3, <2>4, NoAccountChanges DEF Inv4
<1>7. CASE SwitchDisabled
  <2>1. Keeps /\ UNCHANGED <<murC, pc, obj, todo>>
    BY <1>1, <1>7, Switched DEF SwitchDisabled, workVars, Keeps
  <2> QED
    BY <1>2, <2>1, CacheKept, Kept, SameHand, NoAccountChanges DEF Inv4
<1>8. CASE addFinalizer
  <2>1. CASE Break \/ Fail
    <3>1. Keeps /\ pc' = "idle" /\ UNCHANGED murC
      BY <1>8, <2>1, FailStep, RequeueStep DEF addFinalizer
    <3> QED
      BY <1>2, <3>1, CacheKept, Kept, Idle, NoAccountChanges DEF Inv4
  <2>2. CASE ~(Break \/ Fail)
    <3>1. /\ pc = "account" /\ obj.phase = "new" /\ obj = mur /\ obj \in Record /\ obj' = mur'
          /\ mur' = [obj EXCEPT !.phase = "live"] /\ UNCHANGED <<murC, pc, todo>>
      BY <1>1, <1>8, <2>2 DEF addFinalizer
    <3>2. mur' \in Record /\ mur'.phase = "live"
      BY <3>1, WithPhase
    <3>3. ~Held /\ Held' /\ (murC = None \/ murC.phase = "new")
      BY <3>1, <3>2, NoneDiffers DEF Held, HandInv
    <3>4. CacheInv' /\ HandInv'
      BY <3>1, <3>2, <3>3 DEF CacheInv, HandInv
    <3>5. AccountInv'
      BY <3>3 DEF AccountInv
    <3>6. OwnershipStep
      <4>1. UNCHANGED Owned
        BY <1>2 DEF Owned
      <4> QED
        BY <3>3, <4>1 DEF OwnershipStep, Ownership!Next, Ownership!Take, Held, Owned
    <3> QED
      BY <1>2, <3>4, <3>5, <3>6 DEF Inv4
  <2> QED
    BY <2>1, <2>2
<1>9. CASE RemoveFinalizer
  <2>1. CASE Break \/ Fail
    <3>1. Keeps /\ pc' = "idle" /\ UNCHANGED murC
      BY <1>9, <2>1, FailStep, RequeueStep DEF RemoveFinalizer
    <3> QED
      BY <1>2, <3>1, CacheKept, Kept, Idle, NoAccountChanges DEF Inv4
  <2>2. CASE ~(Break \/ Fail)
    <3>1. pc = "finalize" /\ obj = mur /\ mur' = None /\ pc' = "idle" /\ UNCHANGED murC
      BY <1>9, <2>2 DEF RemoveFinalizer, Done
    <3>2. obj.phase = "deleting" /\ mur \in Record /\ NotLive(murC) /\ \A c \in Clusters : ua[c] = None
      BY <1>1, <3>1, NoneDiffers DEF HandInv
    <3>3. Held /\ ~Held' /\ Owned = {} /\ UNCHANGED Owned
      BY <1>2, <3>1, <3>2, NoneDiffers DEF Held, Owned
    <3>4. CacheInv' /\ HandInv' /\ AccountInv'
      BY <1>2, <3>1, <3>2, Idle DEF CacheInv, AccountInv, NotLive
    <3>5. OwnershipStep
      BY <3>3 DEF OwnershipStep, Ownership!Next, Ownership!Release, Held, Owned
    <3> QED
      BY <1>2, <3>4, <3>5 DEF Inv4
  <2> QED
    BY <2>1, <2>2
<1>10. ASSUME NEW t \in Targets, ChangeTarget(t) PROVE Inv4
  <2>1. Keeps /\ UNCHANGED <<murC, pc, obj, todo>>
    BY <1>1, <1>10, KeepsSame DEF ChangeTarget, murVars, workVars
  <2> QED
    BY <1>2, <2>1, CacheKept, Kept, SameHand, NoAccountChanges DEF Inv4
<1> QED
  BY <1>3, <1>4, <1>5, <1>6, <1>7, <1>8, <1>9, <1>10

LEMMA OwnershipInit == Init => IInv /\ ~Held /\ Owned = {}
  BY TypeInit, NewRecordType DEF Init, IInv, CacheInv, HandInv, AccountInv, Held, Owned

LEMMA OwnershipNext ==
    ASSUME MemberLag = FALSE, IInv, [Next]_vars
    PROVE  IInv' /\ OwnershipStep
<1>1. TypeOK'
  BY TypeNext DEF IInv
<1>2. Inv4
  <2>1. CASE UNCHANGED vars
    <3>1. UNCHANGED Owned /\ UNCHANGED Held
      BY <2>1 DEF vars, Owned, Held
    <3> QED
      BY <2>1, <3>1 DEF vars, IInv, Inv4, CacheInv, HandInv, AccountInv, NotLive, Held, OwnershipStep
  <2>2. CASE UpdateAccount
    BY <2>2, AccountOwns, BoundTypes
  <2> QED
    BY <2>1, <2>2, WorkerOwns, AccountOwns, MemberOwns, RecordOwns DEF Next, Controller, Environment
<1> QED
  BY <1>1, <1>2 DEF Inv4, IInv

\* Accounts are created only for a record with finalizer, and the finalizer goes only after
\* the last account, when the caches of the members are current (ResourceOwnership).
THEOREM RecordsImplementOwnership == ASSUME MemberLag = FALSE PROVE Spec => ImplementsOwnership
<1>1. Init => IInv /\ Ownership!Init
  BY OwnershipInit DEF Ownership!Init, Held, Owned
<1>2. IInv /\ [Next]_vars => IInv' /\ [Ownership!Next]_<<mur # None /\ mur.phase # "new", {c \in Clusters : ua[c] # None}>>
  BY OwnershipNext DEF OwnershipStep, Held, Owned
<1> QED
  BY <1>1, <1>2, PTL DEF Spec, ImplementsOwnership, Ownership!Spec

=============================================================================
