---------------------------- MODULE ResourceOwnership ----------------------------
(***************************************************************************)
(* What a controller with a finalizer promises: the resources it makes on   *)
(* behalf of an object exist only while that object holds the finalizer, so *)
(* nothing is left behind.  MasterUserRecords own UserAccounts, SpaceRequests*)
(* own one sub-space, SpaceBindingRequests own one SpaceBinding.            *)
(***************************************************************************)
CONSTANTS
    Places,  \* where there can be a resource: clusters, names
    Single   \* is there at most one at a time?

VARIABLES
    owner,   \* is there an object with the finalizer?
    owned    \* places with a resource of that object

Init == owner = FALSE /\ owned = {}

Take == ~owner /\ owner' = TRUE /\ UNCHANGED owned

Open(p) ==
    /\ owner /\ p \notin owned /\ (Single => owned = {})
    /\ owned' = owned \cup {p} /\ UNCHANGED owner

Close(p) == p \in owned /\ owned' = owned \ {p} /\ UNCHANGED owner

Release == owner /\ owned = {} /\ owner' = FALSE /\ UNCHANGED owned

Next == Take \/ Release \/ \E p \in Places : Open(p) \/ Close(p)

Spec == Init /\ [][Next]_<<owner, owned>>

=============================================================================
