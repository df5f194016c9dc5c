------------------------------ MODULE PodClaim ------------------------------
(***************************************************************************)
(* How a ReplicaSet finds the Pods that are its own: claimPods,            *)
(* podCandidates and canAdopt.                                             *)
(*                                                                         *)
(* One ReplicaSet name, which may be deleted and created again with a new  *)
(* UID, and the Pods of its namespace.  The reconcile reads the ReplicaSet *)
(* from the cache, lists the matching Pods live, adds those the informer's *)
(* owner index still knows, and releases or adopts the first Pod that      *)
(* needs it, with a patch that carries the resource version it has read.   *)
(* Another controller, users who change labels and the garbage collector   *)
(* write the same Pods.                                                    *)
(***************************************************************************)
EXTENDS Naturals, FiniteSets

CONSTANTS
    NumPods,        \* Pods are numbered in the order of their keys
    MaxUid,         \* bound: how often the ReplicaSet is created
    MaxChanges,     \* bound: writes by others and failing calls
    NoOwner,        \* a Pod without a controller
    Other           \* another controller

ASSUME NumPodsAssumption == NumPods \in Nat
ASSUME UidAssumption     == MaxUid \in Nat \ {0}
ASSUME ChangesAssumption == MaxChanges \in Nat
ASSUME OwnersAssumption  == NoOwner \notin Nat /\ Other \notin Nat /\ NoOwner # Other

PodKeys == 1..NumPods
Uids == 1..MaxUid
Owners == Uids \cup {NoOwner, Other}

VARIABLES
    live,           \* the ReplicaSet in the API server
    cached,         \* the informer's copy of it
    pods,           \* the Pods in the API server
    index,          \* the informer's index: the controller of each Pod
    pc,             \* the reconcile in progress: the call it is about to make
    w,              \* the ReplicaSet as it was read
    seen,           \* the candidates as they were read
    todo,           \* indexed candidates still to be read
    changes,        \* writes by others and failed calls so far
    eligible,       \* history: Pods that, as they are now, were orphans the
                    \*   selector matches while the reconcile's ReplicaSet lived
    steady          \* history: Pods the reconcile's ReplicaSet has controlled
                    \*   and matched since the reconcile began

apiVars == <<live, cached, pods, index, changes>>
ctxVars == <<pc, w, seen, todo>>
vars == <<apiVars, ctxVars, eligible, steady>>

ReplicaSet == [uid: Uids, state: {"alive", "deleting", "gone"}]
Pod == [there: BOOLEAN, owner: Owners, matches: BOOLEAN, version: Nat]

TypeOK ==
    /\ live \in ReplicaSet /\ cached \in ReplicaSet
    /\ pods \in [PodKeys -> Pod]
    /\ index \in [PodKeys -> Owners]
    /\ pc \in {"idle", "list", "index", "get", "adopt", "claimed"}
    /\ w \in ReplicaSet
    /\ DOMAIN seen \subseteq PodKeys /\ seen \in [DOMAIN seen -> Pod]
    /\ todo \subseteq PodKeys
    /\ changes \in 0..MaxChanges
    /\ eligible \subseteq PodKeys /\ steady \subseteq PodKeys

-----------------------------------------------------------------------------
IsOrphan(pod) == pod.there /\ pod.owner = NoOwner /\ pod.matches
IsOwn(pod, uid) == pod.there /\ pod.owner = uid /\ pod.matches

\* The two histories; fresh begins a new reconcile.
Witness(fresh) ==
    /\ eligible' = {p \in PodKeys :
                      /\ pc' # "idle" /\ IsOrphan(pods'[p])
                      /\ \/ ~fresh /\ p \in eligible /\ pods'[p] = pods[p]
                         \/ live' = [uid |-> w'.uid, state |-> "alive"]}
    /\ steady' = {p \in PodKeys : /\ pc' # "idle" /\ IsOwn(pods'[p], w'.uid)
                                  /\ fresh \/ p \in steady}

Unread == [uid |-> 1, state |-> "gone"]
NoPods == [p \in {} |-> {}]

\* The reconcile ends; what it read is forgotten.
End == pc' = "idle" /\ w' = Unread /\ seen' = NoPods /\ todo' = {}

Init ==
    /\ live = [uid |-> 1, state |-> "alive"]
    /\ cached = live
    /\ pods \in [PodKeys -> [there: {TRUE}, owner: {1, NoOwner}, matches: BOOLEAN, version: {0}]]
    /\ index = [p \in PodKeys |-> pods[p].owner]
    /\ pc = "idle" /\ w = Unread /\ seen = NoPods /\ todo = {}
    /\ changes = 0
    /\ eligible = {} /\ steady = {}

-----------------------------------------------------------------------------
(***************************************************************************)
(* The reconcile.                                                          *)
(***************************************************************************)
Reads == UNCHANGED apiVars /\ Witness(FALSE)

Start ==
    /\ pc = "idle" /\ pc' = "list"
    /\ cached.state # "gone" /\ w' = cached
    /\ UNCHANGED <<seen, todo>>
    /\ UNCHANGED apiVars
    /\ Witness(TRUE)

\* Mutant: the list of the matching Pods comes from the cache.
ListMatching_Cached ==
    /\ pc = "list" /\ pc' = "index"
    /\ seen' = [p \in {q \in PodKeys : /\ pods[q].there /\ pods[q].matches
                                       /\ index[q] = pods[q].owner} |-> pods[p]]
    /\ UNCHANGED <<w, todo>> /\ Reads

\* The live list of the Pods the selector matches.
ListMatching ==
    /\ pc = "list" /\ pc' = "index"
    /\ seen' = [p \in {q \in PodKeys : pods[q].there /\ pods[q].matches} |-> pods[p]]
    /\ UNCHANGED <<w, todo>> /\ Reads

\* Mutant: Pods that do not match are not looked for.
ListIndexed_Nothing ==
    /\ pc = "index" /\ pc' = "get"
    /\ UNCHANGED <<w, seen, todo>> /\ Reads

\* Those the informer believes to be controlled by the ReplicaSet.
ListIndexed ==
    /\ pc = "index" /\ pc' = "get"
    /\ todo' = {p \in PodKeys : index[p] = w.uid} \ DOMAIN seen
    /\ UNCHANGED <<w, seen>> /\ Reads

\* One of them is read live; it may be gone.
GetFresh(p) ==
    /\ pc = "get" /\ p \in todo
    /\ todo' = todo \ {p}
    /\ seen' = IF pods[p].there
               THEN [q \in DOMAIN seen \cup {p} |-> IF q = p THEN pods[p] ELSE seen[q]]
               ELSE seen
    /\ UNCHANGED <<pc, w>> /\ Reads

\* What the loop of claimPods does with a candidate.
ToRelease(p) == seen[p].owner = w.uid /\ ~seen[p].matches
ToClaim(p)   == seen[p].owner = w.uid /\ seen[p].matches
ToAdopt(p)   == seen[p].owner = NoOwner /\ seen[p].matches /\ w.state = "alive"

ClaimedPods == {p \in DOMAIN seen : ToClaim(p)}

\* The first candidate, by key, that needs a patch: the loop ends there.
IsFirst(p) ==
    /\ todo = {} /\ p \in DOMAIN seen
    /\ ToRelease(p) \/ ToAdopt(p)
    /\ \A q \in DOMAIN seen : q < p => ~ToRelease(q) /\ ~ToAdopt(q)

\* Mutant: the patch carries no resource version.
PatchOwner_Unlocked(p, owner) ==
    /\ pods' = IF pods[p].there
               THEN [pods EXCEPT ![p].owner = owner, ![p].version = @ + 1] ELSE pods
    /\ End
    /\ UNCHANGED <<live, cached, index, changes>>
    /\ Witness(FALSE)

\* A patch of the owner references fails when the Pod is not as it was read; the
\* reconcile ends in both cases.
PatchOwner(p, owner) ==
    /\ pods' = IF pods[p].there /\ pods[p].version = seen[p].version
               THEN [pods EXCEPT ![p].owner = owner, ![p].version = @ + 1] ELSE pods
    /\ End
    /\ UNCHANGED <<live, cached, index, changes>>
    /\ Witness(FALSE)

Release(p) == pc = "get" /\ IsFirst(p) /\ ToRelease(p) /\ PatchOwner(p, NoOwner)

\* Mutant: the UID is not compared.
CanAdopt_AnyUid(p) ==
    /\ pc = "get" /\ IsFirst(p) /\ ToAdopt(p)
    /\ IF live.state = "alive" THEN pc' = "adopt" /\ UNCHANGED <<w, seen, todo>> ELSE End
    /\ Reads

\* The ReplicaSet is read again, live, before a Pod is adopted.
CanAdopt(p) ==
    /\ pc = "get" /\ IsFirst(p) /\ ToAdopt(p)
    /\ IF live = [uid |-> w.uid, state |-> "alive"]
       THEN pc' = "adopt" /\ UNCHANGED <<w, seen, todo>> ELSE End
    /\ Reads

Adopt(p) == pc = "adopt" /\ IsFirst(p) /\ PatchOwner(p, w.uid)

\* No candidate needs a patch: the reconcile goes on with the claimed Pods.
Claimed ==
    /\ pc = "get" /\ pc' = "claimed"
    /\ todo = {} /\ \A p \in DOMAIN seen : ~ToRelease(p) /\ ~ToAdopt(p)
    /\ UNCHANGED <<w, seen, todo>> /\ Reads

\* The rest of the reconcile.
Finish == pc = "claimed" /\ End /\ Reads

Reconcile ==
    \/ Start \/ ListMatching \/ ListIndexed \/ Claimed \/ Finish
    \/ \E p \in PodKeys : GetFresh(p) \/ Release(p) \/ CanAdopt(p) \/ Adopt(p)

-----------------------------------------------------------------------------
(***************************************************************************)
(* Everybody else.                                                         *)
(***************************************************************************)
Change ==
    /\ changes < MaxChanges /\ changes' = changes + 1

\* A call of the reconcile fails, or the manager is restarted.
Fail ==
    /\ pc # "idle"
    /\ Change
    /\ End
    /\ UNCHANGED <<live, cached, pods, index>>
    /\ Witness(FALSE)

PodWrite(p, pod) ==
    /\ pods[p].there
    /\ pods' = [pods EXCEPT ![p] = [pod EXCEPT !.version = pods[p].version + 1]]
    /\ UNCHANGED <<live, cached, index>> /\ UNCHANGED ctxVars
    /\ Witness(FALSE)

\* A user changes labels; another controller adopts or releases.
Relabel(p) == Change /\ PodWrite(p, [pods[p] EXCEPT !.matches = ~@])
OtherAdopts(p) ==
    pods[p].owner = NoOwner /\ Change /\ PodWrite(p, [pods[p] EXCEPT !.owner = Other])
OtherReleases(p) ==
    pods[p].owner = Other /\ Change /\ PodWrite(p, [pods[p] EXCEPT !.owner = NoOwner])

\* A Pod whose controller is deleted is collected, or orphaned if the deletion
\* asked for that.
GarbageCollect(p) ==
    /\ pods[p].owner \in Uids
    /\ ~(pods[p].owner = live.uid /\ live.state = "alive")
    /\ UNCHANGED changes
    /\ \/ PodWrite(p, [pods[p] EXCEPT !.there = FALSE])
       \/ PodWrite(p, [pods[p] EXCEPT !.owner = NoOwner])

ReplicaSetWrite(new) ==
    /\ Change
    /\ live' = new
    /\ UNCHANGED <<cached, pods, index>> /\ UNCHANGED ctxVars
    /\ Witness(FALSE)

DeleteReplicaSet == live.state = "alive" /\ ReplicaSetWrite([live EXCEPT !.state = "deleting"])
ReplicaSetGone == live.state = "deleting" /\ ReplicaSetWrite([live EXCEPT !.state = "gone"])
CreateReplicaSet ==
    /\ live.state = "gone" /\ live.uid < MaxUid
    /\ ReplicaSetWrite([uid |-> live.uid + 1, state |-> "alive"])

RefreshReplicaSet ==
    /\ cached # live /\ cached' = live
    /\ UNCHANGED <<live, pods, index, changes, ctxVars>>
    /\ Witness(FALSE)

RefreshPod(p) ==
    LET now == IF pods[p].there THEN pods[p].owner ELSE NoOwner
    IN  /\ index[p] # now
        /\ index' = [index EXCEPT ![p] = now]
        /\ UNCHANGED <<live, cached, pods, changes, ctxVars>>
        /\ Witness(FALSE)

Refresh == RefreshReplicaSet \/ \E p \in PodKeys : RefreshPod(p)

Others ==
    \/ Fail \/ DeleteReplicaSet \/ ReplicaSetGone \/ CreateReplicaSet
    \/ \E p \in PodKeys : \/ Relabel(p) \/ OtherAdopts(p) \/ OtherReleases(p)
                          \/ GarbageCollect(p)

Next == Reconcile \/ Others \/ Refresh

Spec == Init /\ [][Next]_vars

\* Reconciles run again and again, and the informers catch up.
FairSpec == Spec /\ WF_vars(Reconcile) /\ WF_vars(Refresh)

-----------------------------------------------------------------------------
\* A Pod gets a new controller only if it has none, the selector matches it, and
\* since the reconcile began there was a moment when that was so and the
\* ReplicaSet existed with this UID and was not being deleted.
AdoptsOrphans ==
    [][\A p \in PodKeys :
          pods'[p].owner \in Uids /\ pods'[p].owner # pods[p].owner
          => IsOrphan(pods[p]) /\ p \in eligible]_vars

\* A ReplicaSet that lives loses a Pod only when its selector no longer matches
\* the Pod, and then to nobody.
KeepsMembers ==
    [][\A p \in PodKeys :
          /\ live = [uid |-> pods[p].owner, state |-> "alive"]
          /\ pods'[p].owner # pods[p].owner
          => ~pods[p].matches /\ pods'[p].owner = NoOwner]_vars

\* The claimed Pods, by which reconcileReplicas counts, include every Pod that
\* was the ReplicaSet's own all through the reconcile, however old the caches
\* are: none is created again.
NoneOverlooked == pc = "claimed" => steady \subseteq ClaimedPods

\* When the others are done, every matching Pod has a controller and no Pod is
\* controlled by a ReplicaSet that does not match it.
ClaimSettles ==
    <>[](live.state = "alive" =>
            \A p \in PodKeys : pods[p].there =>
                /\ pods[p].matches => pods[p].owner # NoOwner
                /\ pods[p].owner = live.uid => pods[p].matches)

\* The Pods without their versions.
Members == [p \in PodKeys |-> [there |-> pods[p].there, owner |-> pods[p].owner,
                               matches |-> pods[p].matches]]

Ownership == INSTANCE PodOwnership WITH replicaSet <- live, members <- Members

\* To the API server, a reconcile of many calls on stale copies is no more than
\* atomic adoptions of orphans and releases of strangers.
ImplementsOwnership == Ownership!Spec
=============================================================================
