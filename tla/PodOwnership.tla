---------------------------- MODULE PodOwnership ----------------------------
(***************************************************************************)
(* What claiming promises, seen from the API server: a Pod changes hands   *)
(* in one step, from nobody to a controller or from a controller to        *)
(* nobody, and a ReplicaSet takes only a Pod its selector matches and      *)
(* gives up only a Pod its selector does not match.  No caches, versions   *)
(* or reconciles in progress.  PodClaim implements it.                     *)
(***************************************************************************)
EXTENDS Naturals

CONSTANTS PodKeys, MaxUid, NoOwner, Other

VARIABLES
    replicaSet,     \* the ReplicaSet of one name: its UID and whether it lives
    members         \* the Pods: whether they exist, match, and whose they are

vars == <<replicaSet, members>>

Uids == 1..MaxUid

Init ==
    /\ replicaSet = [uid |-> 1, state |-> "alive"]
    /\ members \in [PodKeys -> [there: {TRUE}, owner: {1, NoOwner}, matches: BOOLEAN]]

-----------------------------------------------------------------------------
\* From nobody to a ReplicaSet of the name that exists or existed.  (It may be
\* deleted while the adoption is under way; its garbage is then collected.)
Adopt(p) ==
    /\ members[p].there /\ members[p].owner = NoOwner /\ members[p].matches
    /\ \E uid \in 1..replicaSet.uid : members' = [members EXCEPT ![p].owner = uid]
    /\ UNCHANGED replicaSet

\* From a ReplicaSet to nobody.
Release(p) ==
    /\ members[p].there /\ members[p].owner \in 1..replicaSet.uid /\ ~members[p].matches
    /\ members' = [members EXCEPT ![p].owner = NoOwner]
    /\ UNCHANGED replicaSet

Relabel(p) ==
    /\ members[p].there
    /\ members' = [members EXCEPT ![p].matches = ~@]
    /\ UNCHANGED replicaSet

\* Another controller takes an orphan or makes one.
OtherMoves(p) ==
    /\ members[p].there
    /\ \E move \in {<<NoOwner, Other>>, <<Other, NoOwner>>} :
          /\ members[p].owner = move[1]
          /\ members' = [members EXCEPT ![p].owner = move[2]]
    /\ UNCHANGED replicaSet

\* The Pods of a ReplicaSet that is being deleted or gone are removed or orphaned.
Collect(p) ==
    /\ members[p].there /\ members[p].owner \in 1..replicaSet.uid
    /\ ~(members[p].owner = replicaSet.uid /\ replicaSet.state = "alive")
    /\ \/ members' = [members EXCEPT ![p].there = FALSE]
       \/ members' = [members EXCEPT ![p].owner = NoOwner]
    /\ UNCHANGED replicaSet

Lifecycle ==
    /\ \/ replicaSet.state = "alive" /\ replicaSet' = [replicaSet EXCEPT !.state = "deleting"]
       \/ replicaSet.state = "deleting" /\ replicaSet' = [replicaSet EXCEPT !.state = "gone"]
       \/ /\ replicaSet.state = "gone" /\ replicaSet.uid < MaxUid
          /\ replicaSet' = [uid |-> replicaSet.uid + 1, state |-> "alive"]
    /\ UNCHANGED members

Next ==
    \/ Lifecycle
    \/ \E p \in PodKeys : Adopt(p) \/ Release(p) \/ Relabel(p) \/ OtherMoves(p) \/ Collect(p)

Spec == Init /\ [][Next]_vars
=============================================================================
