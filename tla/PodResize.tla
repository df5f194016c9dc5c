----------------------------- MODULE PodResize -----------------------------
(***************************************************************************)
(* The in-place update of the Pods of one ReplicaSet, with the resize of   *)
(* their resources: updatePods call by call.                               *)
(*                                                                         *)
(* For each outdated Pod a merge patch of metadata and images is followed, *)
(* if the workload opted in, by an update of the resize subresource, which *)
(* may be accepted, refused, or fail.  A Pod whose resize is refused, or   *)
(* that the kubelet calls infeasible, is deleted and created again.        *)
(*                                                                         *)
(* spec.replicas is constant here, so that the reconcile has no surplus to *)
(* delete; ReplicaSetController models scaling, and PodClaim how the Pods  *)
(* are found.  The Deployment controller writes into the ReplicaSet as it  *)
(* is; merge patches against stale copies of it are in DeploymentController. *)
(***************************************************************************)
EXTENDS PodTemplate, FiniteSets

CONSTANTS
    Replicas,       \* spec.replicas
    Annotation,     \* the in-place-parallelism annotation while the Deployment
                    \* is not paused, Nil if unset
    MaxEdits,       \* bound: edits of the workload
    MaxFaults       \* bound: failed and refused calls, verdicts, evictions

ASSUME ReplicasAssumption == Replicas \in Nat
ASSUME BoundsAssumption   == MaxEdits \in Nat /\ MaxFaults \in Nat
ASSUME VerdictAssumption  == Nil \notin {"Pending", "Infeasible"}

\* Names are never used again.  A Pod is replaced or evicted at the price of a
\* fault, so that the names do not run out.
PodIds == 1..(Replicas + MaxFaults)

VARIABLES
    rset,           \* the ReplicaSet in the API server: annotations and template
    status,         \* status.inPlace.readyUpdatedReplicas
    cached,         \* the informer's copy of it
    cachedStatus,   \* and of its status
    pods,           \* the Pods in the API server
    rctx,           \* the reconcile in progress
    edits, faults   \* so far

vars == <<rset, status, cached, cachedStatus, pods, rctx, edits, faults>>

-----------------------------------------------------------------------------
\* A ReplicaSet as an unpaused Deployment wants it, and all it may become.
ReplicaSetOf(w) == [policy |-> ResourcePolicy(w.policy), parallelism |-> Annotation,
                    template |-> StampedTemplate(w)]
ReplicaSets == [policy: {Nil, BestEffort}, parallelism: {Annotation, 0},
                template: {StampedTemplate(w) : w \in Workloads}]

\* image and cpu are what the kubelet runs.  A pending resize stands for all
\* verdicts but infeasible.  refused records the API server's answer.
NewPod(t) == [phase |-> "Active", spec |-> t, image |-> t.image, cpu |-> t.cpu,
              resize |-> Nil, ready |-> FALSE, refused |-> FALSE]
NoPod == [phase |-> "None"]

\* The specs that templates give to Pods, and the Pods that have them.
FieldValues(f) == {w.template[f] : w \in Workloads}
Template == [meta: FieldValues("meta"), restarted: FieldValues("restarted"),
             stamp: {StructuralRevision(w) : w \in Workloads},
             image: FieldValues("image"), cpu: FieldValues("cpu"), fixed: FieldValues("fixed")]
Pod == [phase: {"Active", "Replaced", "Evicted"}, spec: Template,
        image: FieldValues("image"), cpu: FieldValues("cpu"),
        resize: {Nil, "Pending", "Infeasible"}, ready: BOOLEAN, refused: BOOLEAN]

IsActive(p) == pods[p].phase = "Active"
ActivePods == {p \in PodIds : IsActive(p)}

\* resizeInfeasible
ResizeInfeasible(policy, pod) == ResizeResources(policy) /\ pod.resize = "Infeasible"

\* Mutant: a resize that is pending does not count.
ReadyAndObserved_AnyResize(policy, pod, t) ==
    SpecMatches(policy, pod.spec, t) /\ pod.ready /\ pod.image = t.image

ReadyAndObserved(policy, pod, t) ==
    /\ SpecMatches(policy, pod.spec, t)
    /\ ResizeResources(policy) => pod.resize = Nil
    /\ pod.ready /\ pod.image = t.image

ReplicaSetParallelism(rs) == IF rs.parallelism \in Nat THEN rs.parallelism ELSE 1

-----------------------------------------------------------------------------
\* The reconcile in progress: the ReplicaSet, its status and the active Pods as
\* they were read, where a patched Pod is replaced by the API server's answer; the Pods
\* the loop has not reached, and how many are in flight.
Idle == [pc |-> "idle"]

CreateContext == [pc: {"create"}, obj: ReplicaSets, n: Nat \ {0}]
UpdateContext(P) == [pc: {"update", "resize", "replace"}, obj: ReplicaSets, base: Nat,
                     seen: [P -> Pod], left: SUBSET P, inFlight: Nat,
                     pod: P \cup {Nil}, touched: BOOLEAN]

TypeOK ==
    /\ rset \in ReplicaSets /\ cached \in ReplicaSets
    /\ status \in Nat /\ cachedStatus \in Nat
    /\ pods \in [PodIds -> Pod \cup {NoPod}]
    /\ \/ rctx \in {Idle} \cup CreateContext
       \/ \E P \in SUBSET PodIds : rctx \in UpdateContext(P)
    /\ edits \in 0..MaxEdits /\ faults \in 0..MaxFaults

InFlight(policy, seen, t) ==
    Cardinality({p \in DOMAIN seen : /\ ~ResizeInfeasible(policy, seen[p])
                                     /\ SpecMatches(policy, seen[p].spec, t)
                                     /\ ~ReadyAndObserved(policy, seen[p], t)})

\* Mutant: the verdict of the kubelet is not looked at.
Due_IgnoresInfeasible(c) ==
    IF c.inFlight >= ReplicaSetParallelism(c.obj) THEN {}
    ELSE {p \in c.left : ~SpecMatches(c.obj.policy, c.seen[p].spec, c.obj.template)}

\* The Pods at which the loop would stop to act.
Due(c) ==
    IF c.inFlight >= ReplicaSetParallelism(c.obj) THEN {}
    ELSE {p \in c.left : \/ ResizeInfeasible(c.obj.policy, c.seen[p])
                         \/ ~SpecMatches(c.obj.policy, c.seen[p].spec, c.obj.template)}

\* The loop goes by age, and names are given in that order.
NextDue(c) == {p \in Due(c) : \A q \in Due(c) : p <= q}

\* The loop is done with p, which is now in flight.
Moved(c, p) == [c EXCEPT !.pc = "update", !.inFlight = @ + 1,
                         !.left = {q \in @ : q > p}, !.pod = Nil]

\* calculateProgress, of which the Pods that are done are kept here: the other counts
\* are merged the same way, and are in ReplicaSetController and WakeUps.
ReadyUpdated(c) ==
    Cardinality({p \in DOMAIN c.seen : ReadyAndObserved(c.obj.policy, c.seen[p], c.obj.template)})

Init ==
    /\ rset \in {ReplicaSetOf(w) : w \in Workloads}
    /\ cached = rset
    /\ pods = [p \in PodIds |-> IF p <= Replicas
                                THEN [NewPod(rset.template) EXCEPT !.ready = TRUE] ELSE NoPod]
    /\ status = Replicas /\ cachedStatus = status
    /\ rctx = Idle
    /\ edits = 0 /\ faults = 0

-----------------------------------------------------------------------------
(***************************************************************************)
(* The reconcile.                                                          *)
(***************************************************************************)
Fault == faults < MaxFaults /\ faults' = faults + 1

\* The cached Get and the live list.
RRead ==
    /\ rctx = Idle
    /\ LET seen == [p \in ActivePods |-> pods[p]]
       IN  rctx' = IF Cardinality(ActivePods) < Replicas
                   THEN [pc |-> "create", obj |-> cached,
                         n |-> Replicas - Cardinality(ActivePods)]
                   ELSE [pc |-> "update", obj |-> cached, base |-> cachedStatus,
                         seen |-> seen, left |-> ActivePods,
                         inFlight |-> InFlight(cached.policy, seen, cached.template),
                         pod |-> Nil, touched |-> FALSE]
    /\ UNCHANGED <<rset, status, cached, cachedStatus, pods, edits, faults>>

\* One call of the creation batch; then the reconcile is queued again.
RCreatePod ==
    /\ rctx.pc = "create"
    /\ \E new \in PodIds :
          /\ pods[new] = NoPod /\ \A p \in PodIds : pods[p] = NoPod => new <= p
          /\ pods' = [pods EXCEPT ![new] = NewPod(rctx.obj.template)]
    /\ rctx' = IF rctx.n = 1 THEN Idle ELSE [rctx EXCEPT !.n = @ - 1]
    /\ UNCHANGED <<rset, status, cached, cachedStatus, edits, faults>>

\* Deleting a Pod that is gone is not an error.
Delete(p) == pods' = IF IsActive(p) THEN [pods EXCEPT ![p].phase = "Replaced"] ELSE pods

RDeleteInfeasible ==
    /\ rctx.pc = "update"
    /\ \E p \in NextDue(rctx) :
          /\ ResizeInfeasible(rctx.obj.policy, rctx.seen[p])
          /\ Delete(p)
          /\ rctx' = Moved(rctx, p)
    /\ UNCHANGED <<rset, status, cached, cachedStatus, edits, faults>>

\* The merge patch of metadata and images.  Patching a Pod that is gone ends the
\* reconcile; if the answer has other resources, they are set in the local copy
\* and the resize comes next.
RPatchPod ==
    /\ rctx.pc = "update"
    /\ \E p \in NextDue(rctx) :
       LET t == rctx.obj.template
           new == [pods[p] EXCEPT !.spec = WithMetadataAndImages(@, t)]
           resize == ResizeResources(rctx.obj.policy) /\ ~HasResources(new.spec, t)
       IN  /\ ~ResizeInfeasible(rctx.obj.policy, rctx.seen[p])
           /\ pods' = IF IsActive(p) THEN [pods EXCEPT ![p] = new] ELSE pods
           /\ rctx' = IF ~IsActive(p) THEN Idle
                      ELSE IF resize
                      THEN [rctx EXCEPT !.pc = "resize", !.pod = p, !.touched = FALSE,
                                        !.seen[p] = [new EXCEPT !.spec = WithResources(@, t)]]
                      ELSE Moved([rctx EXCEPT !.seen[p] = new], p)
    /\ UNCHANGED <<rset, status, cached, cachedStatus, edits, faults>>

\* The resize is accepted if the Pod is as the patch left it, and then pending.
RResizeAccepted ==
    /\ rctx.pc = "resize" /\ IsActive(rctx.pod) /\ ~rctx.touched
    /\ LET p == rctx.pod
       IN  /\ pods' = [pods EXCEPT ![p].spec = WithResources(@, rctx.obj.template),
                                   ![p].resize = "Pending"]
           /\ rctx' = Moved([rctx EXCEPT !.seen[p] = pods'[p]], p)
    /\ UNCHANGED <<rset, status, cached, cachedStatus, edits, faults>>

\* Mutant: a conflict makes the controller give up on the Pod.
FallbackFromResizeError_Conflict(error) ==
    error \in {"BadRequest", "Forbidden", "Invalid", "MethodNotAllowed", "NotFound", "Conflict"}

FallbackFromResizeError(error) ==
    error \in {"BadRequest", "Forbidden", "Invalid", "MethodNotAllowed", "NotFound"}

\* An error either makes the controller replace the Pod or ends the reconcile.
\* The local copy of the Pod keeps the resources that were asked for.
AfterResizeError(error) ==
    rctx' = IF FallbackFromResizeError(error) THEN [rctx EXCEPT !.pc = "replace"] ELSE Idle

\* Somebody else wrote the Pod, or it is gone.
RResizeOutdated ==
    /\ rctx.pc = "resize"
    /\ \/ ~IsActive(rctx.pod) /\ AfterResizeError("NotFound")
       \/ IsActive(rctx.pod) /\ rctx.touched /\ AfterResizeError("Conflict")
    /\ UNCHANGED <<rset, status, cached, cachedStatus, pods, edits, faults>>

\* QoS rules, the API server or its version do not permit the resize.
RResizeRefused ==
    /\ rctx.pc = "resize" /\ IsActive(rctx.pod)
    /\ Fault
    /\ pods' = [pods EXCEPT ![rctx.pod].refused = TRUE]
    /\ AfterResizeError("Invalid")
    /\ UNCHANGED <<rset, status, cached, cachedStatus, edits>>

RReplacePod ==
    /\ rctx.pc = "replace"
    /\ Delete(rctx.pod)
    /\ rctx' = Moved(rctx, rctx.pod)
    /\ UNCHANGED <<rset, status, cached, cachedStatus, edits, faults>>

\* A merge patch against the status that was read, so none if that is the same.
RPatchStatus ==
    /\ rctx.pc = "update" /\ Due(rctx) = {}
    /\ status' = IF ReadyUpdated(rctx) = rctx.base THEN status ELSE ReadyUpdated(rctx)
    /\ rctx' = Idle
    /\ UNCHANGED <<rset, cached, cachedStatus, pods, edits, faults>>

\* A call fails, or the manager is restarted.
RFail ==
    /\ rctx # Idle
    /\ Fault
    /\ rctx' = Idle
    /\ UNCHANGED <<rset, status, cached, cachedStatus, pods, edits>>

Worker ==
    \/ RRead \/ RCreatePod \/ RDeleteInfeasible \/ RPatchPod
    \/ RResizeAccepted \/ RResizeOutdated \/ RReplacePod \/ RPatchStatus

-----------------------------------------------------------------------------
(***************************************************************************)
(* Everybody else.                                                         *)
(***************************************************************************)
\* syncReplicaSet writes an edit that is not structural into the ReplicaSet; one
\* that is structural goes to another ReplicaSet.
Sync(w) ==
    /\ edits < MaxEdits /\ edits' = edits + 1
    /\ StructuralRevision(w) = rset.template.stamp
    /\ rset # ReplicaSetOf(w) /\ rset' = ReplicaSetOf(w)
    /\ UNCHANGED <<status, cached, cachedStatus, pods, rctx, faults>>

\* Mutant: a pause leaves the budget alone.
PausedReplicaSet_KeepsBudget(rs, w) == [rs EXCEPT !.policy = ResourcePolicy(w.policy)]

\* A paused Deployment, whatever was edited, keeps the template and stops the
\* updates, but its resource policy is written.
PausedReplicaSet(rs, w) == [rs EXCEPT !.policy = ResourcePolicy(w.policy), !.parallelism = 0]

PausedSync(w) ==
    /\ edits < MaxEdits /\ edits' = edits + 1
    /\ rset # PausedReplicaSet(rset, w) /\ rset' = PausedReplicaSet(rset, w)
    /\ UNCHANGED <<status, cached, cachedStatus, pods, rctx, faults>>

Refresh ==
    /\ <<cached, cachedStatus>> # <<rset, status>>
    /\ cached' = rset /\ cachedStatus' = status
    /\ UNCHANGED <<rset, status, pods, rctx, edits, faults>>

\* A write of a Pod makes a resize with the version before it fail.
Write(p, pod) ==
    /\ pods' = [pods EXCEPT ![p] = pod]
    /\ rctx' = IF rctx.pc = "resize" /\ rctx.pod = p
               THEN [rctx EXCEPT !.touched = TRUE] ELSE rctx
    /\ UNCHANGED <<rset, status, cached, cachedStatus, edits>>

KubeletRestart(p) ==
    /\ IsActive(p) /\ pods[p].image # pods[p].spec.image
    /\ Write(p, [pods[p] EXCEPT !.image = pods[p].spec.image, !.ready = FALSE])
    /\ UNCHANGED faults

KubeletReady(p) ==
    /\ IsActive(p) /\ ~pods[p].ready
    /\ Write(p, [pods[p] EXCEPT !.ready = TRUE])
    /\ UNCHANGED faults

\* The resize is carried out, with or without a restart.
KubeletResize(p) ==
    /\ IsActive(p) /\ pods[p].resize = "Pending"
    /\ \E ready \in {pods[p].ready, FALSE} :
          Write(p, [pods[p] EXCEPT !.resize = Nil, !.cpu = pods[p].spec.cpu, !.ready = ready])
    /\ UNCHANGED faults

KubeletInfeasible(p) ==
    /\ IsActive(p) /\ pods[p].resize = "Pending"
    /\ Fault
    /\ Write(p, [pods[p] EXCEPT !.resize = "Infeasible"])

Evict(p) ==
    /\ IsActive(p)
    /\ Fault
    /\ Write(p, [pods[p] EXCEPT !.phase = "Evicted"])

Kubelet(p) == KubeletRestart(p) \/ KubeletReady(p) \/ KubeletResize(p)

Next ==
    \/ Worker \/ RResizeRefused \/ RFail \/ Refresh
    \/ \E w \in Workloads : Sync(w) \/ PausedSync(w)
    \/ \E p \in PodIds : Kubelet(p) \/ KubeletInfeasible(p) \/ Evict(p)

Spec == Init /\ [][Next]_vars

\* Reconciles run again and again, the informer catches up, the kubelet acts.
FairSpec == /\ Spec
            /\ WF_vars(Worker) /\ WF_vars(Refresh)
            /\ \A p \in PodIds : WF_vars(Kubelet(p))

-----------------------------------------------------------------------------
\* While the Deployment is not paused, a Pod that counts as updated is, in every
\* field, the Pod that createPod would make now: what updatePods compares and writes
\* and what structuralRevision leaves out of the structure are the same fields, and
\* the policy is the one the structure was computed with.
MatchIsReplacement ==
    \A p \in ActivePods :
        ReplicaSetParallelism(rset) > 0 /\ SpecMatches(rset.policy, pods[p].spec, rset.template)
        => pods[p].spec = rset.template

\* Every change of the template or of the policy changes the revision by which
\* observedInPlaceStatus tells old progress from new, a policy written by a paused
\* Deployment too: no progress is taken for that of another edit.
EditsChangeRevision ==
    [][<<rset.policy, rset.template>>' # <<rset.policy, rset.template>>
       => InPlaceRevision(rset.policy, rset.template)'
            # InPlaceRevision(rset.policy, rset.template)]_vars

\* A Pod loses its identity only if the API server refused to resize it or the
\* kubelet cannot: no conflict, lost call, restart or stale copy costs a Pod.
ReplacedOnlyIfRefused ==
    [][\A p \in PodIds :
          pods[p].phase = "Active" /\ pods'[p].phase = "Replaced"
          => pods[p].refused \/ pods[p].resize = "Infeasible"]_vars

\* The Pods a reconcile has to count: those on the way to its template, as they
\* are now, and those it has replaced.
Disturbed(c) ==
    {p \in DOMAIN c.seen :
        \/ pods[p].phase = "Replaced"
        \/ /\ IsActive(p) /\ pods[p].spec = c.obj.template /\ pods[p].resize # "Infeasible"
           /\ \/ ~pods[p].ready \/ pods[p].image # c.obj.template.image
              \/ pods[p].resize = "Pending"}

\* updatePods changes or replaces a Pod only while fewer Pods than the budget are
\* disturbed, whatever the kubelet did since they were listed and counted.
BudgetKept ==
    [][\A p \in PodIds :
          /\ pods[p].phase = "Active"
          /\ pods'[p].phase = "Replaced" \/ pods'[p].spec # pods[p].spec
          => Cardinality(Disturbed(rctx)) < ReplicaSetParallelism(rctx.obj)]_vars

\* Edits and faults over, all Pods are there and ready and the status counts them
\* right; unless the Deployment is left paused, every Pod has and runs the template.
UpdateSettles ==
    <>[](/\ Cardinality(ActivePods) = Replicas
         /\ \A p \in ActivePods : pods[p].ready
         /\ status = ReadyUpdated([obj |-> rset, seen |-> [p \in ActivePods |-> pods[p]]])
         /\ ReplicaSetParallelism(rset) > 0 =>
               /\ status = Replicas
               /\ \A p \in ActivePods : /\ pods[p].spec = rset.template
                                        /\ pods[p].image = rset.template.image
                                        /\ pods[p].cpu = rset.template.cpu)
=============================================================================
