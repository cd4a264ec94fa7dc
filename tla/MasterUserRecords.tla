--------------------------- MODULE MasterUserRecords ---------------------------
(***************************************************************************)
(* The MasterUserRecord controller for one user: the UserAccount on the     *)
(* cluster of the user's default Space, its removal from other clusters,    *)
(* the status collected from the members and the finalizer.  The host and   *)
(* every member have a cache of their own; the API servers refuse updates   *)
(* of outdated copies.                                                      *)
(***************************************************************************)
EXTENDS FiniteSets, Integers

CONSTANTS
    Clusters,   \* member clusters
    Unknown,    \* targets with a cluster, or a Space, the operator does not know
    Home,       \* cluster of the default Space at first
    None,
    SkipAutoCreateSpace,  \* annotation of the MasterUserRecord
    MemberLag,  \* may the caches of the members be behind?
    MaxEdits,   \* bound: changes by users and other controllers
    MaxFaults   \* bound: failed calls and restarts

ASSUME AccountsAssumption ==
    /\ IsFiniteSet(Clusters) /\ Home \in Clusters /\ Clusters \cap Unknown = {}
    /\ None \notin Clusters \cup Unknown
    /\ {SkipAutoCreateSpace, MemberLag} \subseteq BOOLEAN
    /\ {MaxEdits, MaxFaults} \subseteq Nat

VARIABLES
    mur, murC,       \* the MasterUserRecord, and its copy in the cache
    ua, uaC,         \* the UserAccounts, and those in the caches of the members
    behind,          \* clusters with an event that did not arrive yet
    target,          \* cluster of the default Space, as the bindings in the cache tell
    notified,        \* is there a Notification that the user is provisioned?
    queued,          \* is the record in the work queue?
    pc, obj,         \* next call of the reconcile, the record in hand
    at, acc,         \* cluster of the account and the account in hand
    todo,            \* clusters whose account must not be there
    edits, faults

murVars   == <<mur, murC>>
uaVars    == <<ua, uaC, behind>>
workVars  == <<pc, obj, at, acc, todo>>
boundVars == <<edits, faults>>

vars == <<mur, murC, ua, uaC, behind, target, notified, queued, pc, obj, at, acc, todo, edits, faults>>

-----------------------------------------------------------------------------
\* Ready condition of an account.
Conditions == {"unknown", "ready", "disabled"}

Account == [deleting: BOOLEAN, disabled: BOOLEAN, cond: Conditions]

Reasons == {"None", "Provisioning", "Updating", "Provisioned", "Disabled", "Failed"}

Record == [phase: {"new", "live", "deleting"},   \* new: without finalizer
           disabled: BOOLEAN,
           accounts: [Clusters -> Conditions \cup {None}],  \* Status.UserAccounts
           ready: Reasons, provisioned: BOOLEAN, notified: BOOLEAN]

Targets == Clusters \cup Unknown \cup {None}

ASSUME NoneAssumption == None \notin Record \cup Account

TypeOK ==
    /\ mur \in Record \cup {None} /\ murC \in Record \cup {None}
    /\ ua \in [Clusters -> Account \cup {None}] /\ uaC \in [Clusters -> Account \cup {None}]
    /\ target \in Targets
    /\ behind \in SUBSET Clusters /\ notified \in BOOLEAN
    /\ queued \in BOOLEAN
    /\ pc \in {"idle", "account", "opened", "update", "sync", "resync", "others", "align", "finalize"}
    /\ pc # "idle" => obj \in Record
    /\ pc \in {"update", "sync", "resync"} => at \in Clusters /\ acc \in Account
    /\ todo \in SUBSET Clusters
    /\ edits \in 0..MaxEdits /\ faults \in 0..MaxFaults

NewRecord == [phase |-> "new", disabled |-> FALSE, accounts |-> [c \in Clusters |-> None],
              ready |-> "None", provisioned |-> FALSE, notified |-> FALSE]

Init ==
    /\ mur = NewRecord /\ murC = None
    /\ ua = [c \in Clusters |-> None] /\ uaC = ua /\ behind = {}
    /\ target = Home /\ notified = FALSE
    /\ queued = FALSE /\ pc = "idle" /\ obj = None /\ at = None /\ acc = None /\ todo = {}
    /\ edits = 0 /\ faults = 0

-----------------------------------------------------------------------------
Fault == faults < MaxFaults /\ faults' = faults + 1 /\ UNCHANGED edits

Edit == edits < MaxEdits /\ edits' = edits + 1 /\ UNCHANGED faults

\* Change of UserAccounts; an event of a member queues the record of that name.
SetAccount(c, a) ==
    /\ ua' = [ua EXCEPT ![c] = a]
    /\ IF MemberLag THEN behind' = behind \cup {c} /\ UNCHANGED <<uaC, queued>>
       ELSE uaC' = ua' /\ queued' = TRUE /\ UNCHANGED behind

Done == pc' = "idle" /\ obj' = None /\ at' = None /\ acc' = None /\ todo' = {}

\* An error or a requeue time of Reconcile.
Requeue == queued' = TRUE /\ Done

\* wrapErrorWithStatusUpdate(setStatusFailed(..)): the error is returned whether or not
\* the condition can be written; a write of an outdated copy is refused.
ReportFailure == Requeue /\ mur' = IF obj = mur THEN [obj EXCEPT !.ready = "Failed"] ELSE mur

\* The reconcile cannot go on.
Fail == (ReportFailure /\ UNCHANGED boundVars) \/ (Fault /\ Requeue /\ UNCHANGED mur)

\* A call fails that could have succeeded.
Break == Fault /\ (ReportFailure \/ (Requeue /\ UNCHANGED mur))

\* The record o when alignReadiness returns without error.
AllReady(o) == \A c \in Clusters : o.accounts[c] \in {"ready", None}

NoAccount(o) == \A c \in Clusters : o.accounts[c] = None

Waiting(o) == ~SkipAutoCreateSpace /\ NoAccount(o) /\ ~o.provisioned

alignReadiness(o) ==
    IF ~AllReady(o) THEN o
    ELSE IF Waiting(o) THEN [o EXCEPT !.ready = "Provisioning"]
    ELSE [o EXCEPT !.ready = "Provisioned", !.provisioned = TRUE, !.notified = TRUE]

\* Does alignReadiness(o) look for the Notification?
Notifies(o) == AllReady(o) /\ ~Waiting(o) /\ ~o.notified

Notify(o) == notified' = (notified \/ Notifies(o))

alignDisabled(o) ==
    IF ~NoAccount(o) /\ \A c \in Clusters : o.accounts[c] \in {"disabled", None}
    THEN [o EXCEPT !.ready = "Disabled"] ELSE o

\* Mutant: nothing is aligned when the account's status did not change.
AlignedWhenChanged(o, c, a) ==
    LET listed == [o EXCEPT !.accounts[c] = a.cond]
    IN  IF listed = o THEN o ELSE alignDisabled(alignReadiness(listed))

\* The status of the record after synchronizeStatus with the account a of cluster c.
\* Only a change of the account's status lets the condition become Disabled.
Synchronized(o, c, a) ==
    LET listed == [o EXCEPT !.accounts[c] = a.cond]
    IN  IF listed = o THEN alignReadiness(o)
        ELSE IF AllReady(listed) /\ ~Waiting(listed) THEN alignReadiness(listed)
        ELSE alignDisabled(alignReadiness(listed))

\* Mutant: the loop over the clusters ends after the first without account.
FirstOnly(o, rest) ==
    IF at # None THEN Done
    ELSE /\ obj' = o /\ todo' = {} /\ at' = at /\ acc' = None
         /\ pc' = IF o.phase = "deleting" THEN "finalize" ELSE "align"

\* Goes on with the clusters whose account must not be there.
Proceed(o, rest) ==
    IF rest = {} /\ o.phase # "deleting" /\ at # None THEN Done
    ELSE /\ obj' = o /\ todo' = rest /\ at' = at /\ acc' = None
         /\ pc' = IF rest # {} THEN "others" ELSE IF o.phase = "deleting" THEN "finalize" ELSE "align"

\* The status update of the copy in hand to o, whose accounts are those of `found`: written,
\* refused as outdated, or failed.  After a failure the condition is written once more, with
\* what the failed update left in memory: `kept` is that record.  The Notification is created
\* before the update, unless that already failed.
WriteAligned(o, found, kept, next) ==
    \/ obj = mur /\ mur' = o /\ Notify(found) /\ next /\ UNCHANGED boundVars
    \/ obj # mur /\ Notify(found) /\ Requeue /\ UNCHANGED <<mur, boundVars>>
    \/ /\ Fault /\ Requeue
       /\ \E made \in BOOLEAN :
             /\ IF made THEN Notify(found) ELSE UNCHANGED notified
             /\ \/ UNCHANGED mur
                \/ obj = mur /\ mur' = [kept EXCEPT !.notified = obj.notified \/ (@ /\ made)]

-----------------------------------------------------------------------------
(* Reconcile *)

\* A new record gets its finalizer, one that is being deleted loses its accounts.
Reconcile ==
    /\ pc = "idle" /\ queued /\ queued' = FALSE
    /\ at' = None /\ acc' = None
    /\ IF murC = None
       THEN pc' = "idle" /\ obj' = None /\ todo' = {}
       ELSE /\ obj' = murC
            /\ IF murC.phase = "deleting" THEN pc' = "others" /\ todo' = Clusters
               ELSE pc' = "account" /\ todo' = {}
    /\ UNCHANGED <<murVars, uaVars, target, notified, boundVars>>

addFinalizer ==
    /\ pc = "account" /\ obj.phase = "new"
    /\ \/ /\ obj = mur /\ mur' = [obj EXCEPT !.phase = "live"] /\ obj' = mur'
          /\ UNCHANGED <<queued, pc, at, acc, todo, boundVars>>
       \/ Break \/ (obj # mur /\ Fail)
    /\ UNCHANGED <<murC, uaVars, target, notified>>

\* ensureUserAccounts finds no cluster an account belongs on.
NoTarget ==
    /\ pc = "account" /\ obj.phase # "new" /\ target = None
    /\ Proceed(obj, Clusters)
    /\ UNCHANGED <<murVars, uaVars, target, notified, queued, boundVars>>

\* The Space or its cluster is not known.
TargetUnknown ==
    /\ pc = "account" /\ obj.phase # "new" /\ target \in Unknown
    /\ Fail
    /\ UNCHANGED <<murC, uaVars, target, notified>>

\* Mutant: the account starts with the condition of the record.
AccountLikeRecord == [deleting |-> FALSE, disabled |-> obj.disabled, cond |-> obj.ready]

NewAccount == [deleting |-> FALSE, disabled |-> obj.disabled, cond |-> "unknown"]

CreateAccount(c) ==
    /\ pc = "account" /\ obj.phase # "new" /\ target = c /\ uaC[c] = None
    /\ \/ /\ ua[c] = None /\ SetAccount(c, NewAccount)
          /\ pc' = "opened" /\ UNCHANGED <<mur, obj, at, acc, todo, boundVars>>
       \/ (Break \/ (ua[c] # None /\ Fail)) /\ UNCHANGED uaVars
    /\ UNCHANGED <<murC, target, notified>>

\* updateStatusConditions: nothing is written when the reason is there already.
SetReady(reason) ==
    \/ obj.ready = reason /\ UNCHANGED <<mur, obj>>
    \/ obj.ready # reason /\ obj = mur /\ mur' = [obj EXCEPT !.ready = reason] /\ obj' = mur'

CannotSetReady(reason) == obj.ready # reason /\ obj # mur /\ UNCHANGED <<mur, boundVars>>

\* An account was created, or one that is being deleted has to go before it can be
\* created again.
WaitForAccount ==
    /\ \/ pc = "opened"
       \/ /\ pc = "account" /\ obj.phase # "new" /\ target \in Clusters
          /\ uaC[target] # None /\ uaC[target].deleting
    /\ \/ /\ obj.ready = "Provisioning" \/ obj = mur
          /\ mur' = IF obj.ready = "Provisioning" THEN mur ELSE [obj EXCEPT !.ready = "Provisioning"]
          /\ Done /\ UNCHANGED <<queued, boundVars>>
       \/ CannotSetReady("Provisioning") /\ Requeue
       \/ Fault /\ Requeue /\ UNCHANGED mur
    /\ UNCHANGED <<murC, uaVars, target, notified>>

\* Mutant: a change of the record never reaches an account that exists.
AlwaysSynchronized(a) == TRUE

isSynchronized(a) == a.disabled = obj.disabled

\* The account of the cache; when its spec differs the record says so before the update.
TakeAccount(c) ==
    /\ pc = "account" /\ obj.phase # "new" /\ target = c
    /\ uaC[c] # None /\ ~uaC[c].deleting
    /\ IF isSynchronized(uaC[c])
       THEN /\ pc' = "sync" /\ at' = c /\ acc' = uaC[c]
            /\ UNCHANGED <<mur, obj, queued, todo, boundVars>>
       ELSE \/ /\ SetReady("Updating")
               /\ pc' = "update" /\ at' = c /\ acc' = uaC[c] /\ UNCHANGED <<queued, todo, boundVars>>
            \/ CannotSetReady("Updating") /\ Requeue
            \/ Fault /\ Requeue /\ UNCHANGED mur
    /\ UNCHANGED <<murC, uaVars, target, notified>>

UpdateAccount ==
    /\ pc = "update"
    /\ \/ /\ acc = ua[at] /\ acc' = [acc EXCEPT !.disabled = obj.disabled] /\ SetAccount(at, acc')
          /\ pc' = "resync" /\ UNCHANGED <<mur, obj, at, todo, boundVars>>
       \/ (Break \/ (acc # ua[at] /\ Fail)) /\ UNCHANGED uaVars
    /\ UNCHANGED <<murC, target, notified>>

\* synchronizeStatus with the account in hand; an account that was updated ends the reconcile.
SyncStatus ==
    /\ pc \in {"sync", "resync"}
    /\ LET o == Synchronized(obj, at, acc)
       IN  WriteAligned(o, [obj EXCEPT !.accounts[at] = acc.cond], [o EXCEPT !.accounts = obj.accounts],
               /\ IF pc = "resync" THEN Done ELSE Proceed(o, Clusters \ {at})
               /\ UNCHANGED queued)
    /\ UNCHANGED <<murC, uaVars, target>>

-----------------------------------------------------------------------------
(* deleteUserAccount on every other cluster, or on every cluster *)

\* removeAccountFromStatus: no account, and none in the status afterwards.
RemoveFromStatus(c) ==
    /\ pc = "others" /\ c \in todo /\ uaC[c] = None
    /\ IF obj.accounts[c] = None
       THEN Proceed(obj, todo \ {c}) /\ UNCHANGED <<mur, notified, queued, boundVars>>
       ELSE LET found == [obj EXCEPT !.accounts[c] = None]
                o == IF obj.phase = "deleting" THEN found ELSE alignReadiness(found)
            IN  WriteAligned(o, IF obj.phase = "deleting" THEN obj ELSE found, [o EXCEPT !.ready = "Failed"],
                    Proceed(o, todo \ {c}) /\ UNCHANGED queued)
    /\ UNCHANGED <<murC, uaVars, target>>

\* The account is on its way out: its status is taken over once more.  A minute of that is
\* reported as a failure.
AwaitRemoval(c) ==
    /\ pc = "others" /\ c \in todo /\ uaC[c] # None /\ uaC[c].deleting
    /\ LET found == [obj EXCEPT !.accounts[c] = uaC[c].cond]
           o == Synchronized(obj, c, uaC[c])
       IN  \/ WriteAligned(o, found, [o EXCEPT !.accounts = obj.accounts, !.ready = "Failed"], Requeue)
           \/ obj = mur /\ mur' = [o EXCEPT !.ready = "Failed"] /\ Notify(found) /\ Fault /\ Requeue
    /\ UNCHANGED <<murC, uaVars, target>>

DeleteAccount(c) ==
    /\ pc = "others" /\ c \in todo /\ uaC[c] # None /\ ~uaC[c].deleting
    /\ \/ /\ ua[c] # None /\ ua' = [ua EXCEPT ![c].deleting = TRUE]
          /\ IF MemberLag THEN behind' = behind \cup {c} /\ UNCHANGED uaC ELSE uaC' = ua' /\ UNCHANGED behind
          /\ Requeue /\ UNCHANGED <<mur, boundVars>>
       \/ (Break \/ (ua[c] = None /\ Fail)) /\ UNCHANGED uaVars
    /\ UNCHANGED <<murC, target, notified>>

\* No account is left anywhere and none belongs anywhere.
AlignWithoutAccounts ==
    /\ pc = "align"
    /\ WriteAligned(alignReadiness(obj), obj, alignReadiness(obj), Done /\ UNCHANGED queued)
    /\ UNCHANGED <<murC, uaVars, target>>

\* The finalizer goes, and with it the record and the Notifications it owns.
RemoveFinalizer ==
    /\ pc = "finalize"
    /\ \/ obj = mur /\ mur' = None /\ notified' = FALSE /\ Done /\ UNCHANGED <<queued, boundVars>>
       \/ (Break \/ (obj # mur /\ Fail)) /\ UNCHANGED notified
    /\ UNCHANGED <<murC, uaVars, target>>

Restart ==
    /\ pc # "idle" /\ Fault /\ Requeue
    /\ UNCHANGED <<murVars, uaVars, target, notified>>

-----------------------------------------------------------------------------
(* Caches, members and the users of the record *)

\* Mutant: the event of a deletion is filtered out.
SpecGeneration(o) == IF o = None THEN None ELSE <<o.disabled>>

Generation(o) == IF o = None THEN None ELSE <<o.disabled, o.phase = "deleting">>

\* For(.., GenerationChangedPredicate)
DeliverMur ==
    /\ murC # mur /\ murC' = mur
    /\ queued' = (queued \/ Generation(mur) # Generation(murC))
    /\ UNCHANGED <<mur, uaVars, target, notified, workVars, boundVars>>

DeliverAccount(c) ==
    /\ c \in behind /\ behind' = behind \ {c}
    /\ uaC' = [uaC EXCEPT ![c] = ua[c]] /\ queued' = TRUE
    /\ UNCHANGED <<murVars, ua, target, notified, workVars, boundVars>>

Settled(a) == IF a.disabled THEN "disabled" ELSE "ready"

MemberSettles(c) ==
    /\ ua[c] # None /\ ~ua[c].deleting /\ ua[c].cond # Settled(ua[c])
    /\ SetAccount(c, [ua[c] EXCEPT !.cond = Settled(ua[c])])
    /\ UNCHANGED <<murVars, target, notified, workVars, boundVars>>

MemberRemoves(c) ==
    /\ ua[c] # None /\ ua[c].deleting /\ SetAccount(c, None)
    /\ UNCHANGED <<murVars, target, notified, workVars, boundVars>>

\* Somebody deletes the account on the member.
DeleteByHand(c) ==
    /\ ua[c] # None /\ ~ua[c].deleting /\ Edit
    /\ SetAccount(c, [ua[c] EXCEPT !.deleting = TRUE])
    /\ UNCHANGED <<murVars, target, notified, workVars>>

\* The UserSignup controller makes the record, and deletes it.
CreateMur ==
    /\ mur = None /\ Edit /\ mur' = NewRecord
    /\ UNCHANGED <<murC, uaVars, target, notified, queued, workVars>>

DeleteMur ==
    /\ mur # None /\ mur.phase # "deleting" /\ Edit
    /\ mur' = IF mur.phase = "new" THEN None ELSE [mur EXCEPT !.phase = "deleting"]
    /\ UNCHANGED <<murC, uaVars, target, notified, queued, workVars>>

SwitchDisabled ==
    /\ mur # None /\ Edit /\ mur' = [mur EXCEPT !.disabled = ~@]
    /\ UNCHANGED <<murC, uaVars, target, notified, queued, workVars>>

\* An event of a SpaceBinding or of its Space, which is what the next reconcile reads.
ChangeTarget(t) ==
    /\ target # t /\ Edit /\ target' = t /\ queued' = TRUE
    /\ UNCHANGED <<murVars, uaVars, notified, workVars>>

-----------------------------------------------------------------------------
Controller ==
    \/ Reconcile \/ addFinalizer \/ NoTarget \/ TargetUnknown \/ WaitForAccount
    \/ UpdateAccount \/ SyncStatus \/ AlignWithoutAccounts \/ RemoveFinalizer
    \/ \E c \in Clusters :
          CreateAccount(c) \/ TakeAccount(c) \/ RemoveFromStatus(c) \/ AwaitRemoval(c) \/ DeleteAccount(c)

Environment ==
    \/ Restart \/ DeliverMur
    \/ CreateMur \/ DeleteMur \/ SwitchDisabled
    \/ \E t \in Targets : ChangeTarget(t)
    \/ \E c \in Clusters :
          DeliverAccount(c) \/ MemberSettles(c) \/ MemberRemoves(c) \/ DeleteByHand(c)

Next == Controller \/ Environment

Spec == Init /\ [][Next]_vars

\* The worker runs, caches catch up and members do their part; nobody has to edit anything
\* and no call has to fail.
Fairness ==
    /\ WF_vars(Controller) /\ WF_vars(DeliverMur)
    /\ \A c \in Clusters :
         WF_vars(DeliverAccount(c)) /\ WF_vars(MemberSettles(c)) /\ WF_vars(MemberRemoves(c))

FairSpec == Spec /\ Fairness

-----------------------------------------------------------------------------
(* Properties *)

\* The controller implements ResourceOwnership when the caches of the members are current:
\* accounts are created only for a record with finalizer, and the finalizer stays until
\* the last account is gone.
Ownership == INSTANCE ResourceOwnership WITH
    Places <- Clusters, Single <- FALSE,
    owner <- mur # None /\ mur.phase # "new",
    owned <- {c \in Clusters : ua[c] # None}

ImplementsOwnership == Ownership!Spec

OnlyAccount(c) ==
    /\ ua[c] # None /\ ~ua[c].deleting /\ ua[c].disabled = mur.disabled
    /\ \A d \in Clusters \ {c} : ua[d] = None
    /\ mur.accounts = [d \in Clusters |-> IF d = c THEN ua[c].cond ELSE None]

\* The calls of a reconcile that fail, accounts deleted by hand, targets and specs that
\* change while accounts are moved: in the end the record of a user has one account, on the
\* cluster of the default Space, as enabled as the record, and tells so; or no account when
\* there is no such Space.  An enabled user is Provisioned, and was told so.
Converged ==
    mur # None /\ mur.phase = "live" =>
        /\ target \in Clusters => OnlyAccount(target) /\ (~mur.disabled => mur.ready = "Provisioned" /\ mur.notified /\ notified)
        /\ target = None =>
              /\ \A c \in Clusters : ua[c] = None /\ mur.accounts[c] = None
              /\ mur.ready = IF SkipAutoCreateSpace \/ mur.provisioned THEN "Provisioned" ELSE "Provisioning"

AccountsConverge == <>[]Converged

\* A record that is being deleted goes away, however long members take to remove accounts.
RecordDeletionCompletes ==
    mur # None /\ mur.phase = "deleting" ~> mur = None \/ mur.phase # "deleting"

=============================================================================
