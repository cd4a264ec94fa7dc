---------------------------- MODULE SpacePlacement ----------------------------
(***************************************************************************)
(* What the Space controller promises about the place of one Space: it is  *)
(* provisioned to at most one member cluster at a time, only while it      *)
(* exists, and it is gone only when no cluster holds anything of it.       *)
(***************************************************************************)
CONSTANT Clusters

VARIABLES
    space,  \* "absent", "present" or "terminating"
    hosts   \* the member clusters that hold an NSTemplateSet of the Space

vars == <<space, hosts>>

Init == space = "absent" /\ hosts = {}

Request == space = "absent" /\ space' = "present" /\ UNCHANGED hosts

Terminate == space = "present" /\ space' = "terminating" /\ UNCHANGED hosts

\* Nothing of the Space is left on any cluster when it disappears.
Release == /\ space # "absent" /\ hosts = {}
           /\ space' = "absent"
           /\ UNCHANGED hosts

\* The Space moves to a cluster when it has left the previous one.
Place(c) == /\ space # "absent" /\ hosts = {}
            /\ hosts' = {c}
            /\ UNCHANGED space

Vacate(c) == hosts = {c} /\ hosts' = {} /\ UNCHANGED space

Next ==
    \/ Request \/ Terminate \/ Release
    \/ \E c \in Clusters : Place(c) \/ Vacate(c)

Spec == Init /\ [][Next]_vars

=============================================================================
