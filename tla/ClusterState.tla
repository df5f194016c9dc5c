---------------------------- MODULE ClusterState ----------------------------
(***************************************************************************)
(* The API objects the two Churnless controllers share, and everybody else *)
(* who changes them: the user who edits the Deployment, the kubelet, the   *)
(* node that evicts a Pod, and the informers that refresh the caches.      *)
(*                                                                         *)
(* A Pod template is a pair <<structure, revision>>.  The structure is     *)
(* what structuralRevision hashes and names one ReplicaSet; the revision   *)
(* is what mutablePodPolicy.revision hashes (images, labels, annotations)  *)
(* and is changed in place.  Both hashes are taken to be injective.  The   *)
(* kubelet sees only the image of a revision: two revisions with the same  *)
(* image differ in metadata.                                               *)
(*                                                                         *)
(* minReadySeconds is 0, so a ready Pod is available.                      *)
(***************************************************************************)
EXTENDS RolloutPolicy

CONSTANTS
    Revisions,      \* in-place revisions of a template
    Images,         \* what the kubelet can run
    ImageOf,        \* the image of each revision
    Broken,         \* images with which a Pod never becomes ready
    Strategies,     \* values the user gives spec.strategy
    ReplicaChoices, \* values the user gives spec.replicas
    PauseChoices,   \* values the user gives spec.paused
    PodIds,         \* bound: names of Pods that exist at one time
    MaxEdits,       \* bound: edits of the Deployment
    FaultKinds,     \* "api": calls that fail; "evict": Pods that are evicted
    MaxFaults,      \* bound: how many faults of these kinds
    Lagging,        \* bound: ReplicaSets whose cached copy may be out of date
    DeploymentLags, \* bound: whether the cached Deployment may be
    NoRevision      \* a status that has not been written yet

ASSUME StructuresAssumption == IsFiniteSet(Structures)
ASSUME RevisionsAssumption  == NoRevision \notin Revisions
ASSUME ImagesAssumption     == ImageOf \in [Revisions -> Images] /\ Broken \subseteq Images
ASSUME ChoicesAssumption    == /\ Strategies \subseteq Strategy
                               /\ ReplicaChoices \subseteq Nat /\ PauseChoices \subseteq BOOLEAN
ASSUME BoundsAssumption     == /\ IsFiniteSet(PodIds) /\ Lagging \subseteq Structures
                               /\ MaxEdits \in Nat /\ MaxFaults \in Nat
                               /\ FaultKinds \subseteq {"api", "evict"}
                               /\ DeploymentLags \in BOOLEAN

VARIABLES
    deploy,         \* the Deployment: generation, spec and status
    dcache,         \* the informer's copy of it
    rs,             \* the ReplicaSets; generation 0 is one not created yet
    rscache,        \* the informer's copies of the lagging ones
    pods,           \* the Pods that exist
    faults          \* faults so far

clusterVars == <<deploy, dcache, rs, rscache, pods, faults>>

-----------------------------------------------------------------------------
Reasons == {"None", "ReplicaSetUpdated", "NewReplicaSetAvailable", "DeploymentPaused"}

\* The status is reduced to the observed generation and the reason of the
\* Progressing condition.
DeploymentStatus == [gen: Nat, reason: Reasons]

Deployment == [gen: Nat, structure: Structures, rev: Revisions, strategy: Strategies,
               replicas: ReplicaChoices, paused: BOOLEAN, status: DeploymentStatus]

\* Replica counts of Churnless' ReplicaSetStatus and its inPlace part.
RSStatus == [gen: Nat, replicas: Nat, available: Nat, terminating: Nat,
             rev: Revisions \cup {NoRevision}, updated: Nat, ready: Nat]

NoStatus == [gen |-> 0, replicas |-> 0, available |-> 0, terminating |-> 0,
             rev |-> NoRevision, updated |-> 0, ready |-> 0]

\* rev is the revision of spec.template, par the in-place-parallelism
\* annotation and born the creation second.
ReplicaSet == [gen: Nat, rev: Revisions \cup {NoRevision}, replicas: Nat,
               par: Nat, born: Nat, status: RSStatus]

NoReplicaSet == [gen |-> 0, rev |-> NoRevision, replicas |-> 0,
                 par |-> 0, born |-> 0, status |-> NoStatus]

\* observed is the image in the container statuses.  A Pod that is not ready
\* reports nothing a controller uses, so a new Pod already has one.
Pod == [owner: Structures, rev: Revisions, observed: Images, ready: BOOLEAN,
        phase: {"Active", "Terminating", "Terminal"}]

ClusterTypeOK ==
    /\ deploy \in Deployment /\ dcache \in Deployment
    /\ rs \in [Structures -> ReplicaSet]
    /\ rscache \in [Lagging -> ReplicaSet]
    /\ DOMAIN pods \subseteq PodIds
    /\ \A p \in DOMAIN pods : pods[p] \in Pod
    /\ faults \in 0..MaxFaults

-----------------------------------------------------------------------------
Existing == {s \in Structures : rs[s].gen > 0}

CachedReplicaSet(s) == IF s \in Lagging THEN rscache[s] ELSE rs[s]

PodsIn(phase, s) == {p \in DOMAIN pods : pods[p].phase = phase /\ pods[p].owner = s}

ActivePods(s) == PodsIn("Active", s)

IsAvailable(p) == pods[p].phase = "Active" /\ pods[p].ready

\* readyAndObserved against a revision, of a Pod as some reader saw it.
SpecMatches(pod, rev) == pod.rev = rev
ReadyAndObserved(pod, rev) ==
    SpecMatches(pod, rev) /\ pod.ready /\ pod.observed = ImageOf[rev]

\* A merge patch carries the fields in which the new value differs from the
\* base, which is the cached copy, and leaves the others as they are in the API
\* server.
MergePatch(base, new, live) ==
    [f \in DOMAIN live |-> IF new[f] = base[f] THEN live[f] ELSE new[f]]

-----------------------------------------------------------------------------
\* The specs a user may write, with the generation the API server gives them.
SpecChoices(gen, status) ==
    [gen: {gen}, structure: Structures, rev: Revisions, strategy: Strategies,
     replicas: ReplicaChoices, paused: PauseChoices, status: {status}]

ClusterInit ==
    /\ deploy \in {d \in SpecChoices(1, [gen |-> 0, reason |-> "None"]) : ~d.paused}
    /\ dcache = deploy
    /\ rs = [s \in Structures |-> NoReplicaSet]
    /\ rscache = [s \in Lagging |-> NoReplicaSet]
    /\ pods = [p \in {} |-> {}]
    /\ faults = 0

Fault(kind) ==
    /\ kind \in FaultKinds
    /\ faults < MaxFaults
    /\ faults' = faults + 1

\* A cache always holds a version that was live, and never an older one than
\* it held before.
DeploymentWritten == dcache' = IF DeploymentLags THEN dcache ELSE deploy'

UserEdit ==
    /\ deploy.gen <= MaxEdits
    /\ deploy' \in SpecChoices(deploy.gen + 1, deploy.status)
    /\ [deploy' EXCEPT !.gen = deploy.gen] # deploy
    /\ DeploymentWritten
    /\ UNCHANGED <<rs, rscache, pods, faults>>

RefreshDeployment ==
    /\ dcache # deploy
    /\ dcache' = deploy
    /\ UNCHANGED <<deploy, rs, rscache, pods, faults>>

RefreshReplicaSet(s) ==
    /\ rscache[s] # rs[s]
    /\ rscache' = [rscache EXCEPT ![s] = rs[s]]
    /\ UNCHANGED <<deploy, dcache, rs, pods, faults>>

-----------------------------------------------------------------------------
\* The kubelet restarts the containers whose image was patched.
KubeletRestart(p) ==
    /\ pods[p].phase = "Active"
    /\ pods[p].observed # ImageOf[pods[p].rev]
    /\ pods' = [pods EXCEPT ![p].observed = ImageOf[pods[p].rev], ![p].ready = FALSE]
    /\ UNCHANGED <<deploy, dcache, rs, rscache, faults>>

KubeletReady(p) ==
    /\ pods[p].phase = "Active"
    /\ ~pods[p].ready /\ pods[p].observed \notin Broken
    /\ pods' = [pods EXCEPT ![p].ready = TRUE]
    /\ UNCHANGED <<deploy, dcache, rs, rscache, faults>>

\* The kubelet finishes a deletion, or the Pod garbage collector removes a
\* Failed or Succeeded Pod.
PodGone(p) ==
    /\ pods[p].phase # "Active"
    /\ pods' = [q \in DOMAIN pods \ {p} |-> pods[q]]
    /\ UNCHANGED <<deploy, dcache, rs, rscache, faults>>

\* A node fails or evicts a Pod: its phase becomes Failed.
Evict(p) ==
    /\ Fault("evict")
    /\ pods[p].phase = "Active"
    /\ pods' = [pods EXCEPT ![p].phase = "Terminal", ![p].ready = FALSE]
    /\ UNCHANGED <<deploy, dcache, rs, rscache>>

Kubelet == \E p \in DOMAIN pods : KubeletRestart(p) \/ KubeletReady(p) \/ PodGone(p)

ClusterNext ==
    \/ UserEdit
    \/ RefreshDeployment
    \/ \E s \in Lagging : RefreshReplicaSet(s)
    \/ Kubelet
    \/ \E p \in DOMAIN pods : Evict(p)
=============================================================================
