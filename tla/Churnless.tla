----------------------------- MODULE Churnless -----------------------------
(***************************************************************************)
(* The whole system: one Deployment, its ReplicaSets and Pods, the two     *)
(* controllers, and the environment they run in.                           *)
(***************************************************************************)
EXTENDS DeploymentController, ReplicaSetController

vars == <<deploy, dcache, rs, rscache, pods, faults, dctx, rctx>>

Init == ClusterInit /\ DeploymentInit /\ ReplicaSetInit

Next ==
    \/ ClusterNext /\ UNCHANGED <<dctx, rctx>>
    \/ (DWork \/ DFail) /\ UNCHANGED rctx
    \/ ((\E s \in Structures : RRead(s)) \/ RStep \/ RFail) /\ UNCHANGED dctx

Spec == Init /\ [][Next]_vars

(***************************************************************************)
(* A Deployment that was rolled out and has come to rest, the state in     *)
(* which a user edits a running workload.  Every such state is reached     *)
(* from Init.                                                              *)
(***************************************************************************)
Rested(d) ==
    LET done == [NoReplicaSet EXCEPT
                    !.gen = 2, !.rev = d.rev, !.replicas = d.replicas,
                    !.status = [gen |-> 2, replicas |-> d.replicas,
                                available |-> d.replicas, terminating |-> 0,
                                rev |-> d.rev, updated |-> d.replicas,
                                ready |-> d.replicas]]
        view == [s \in Structures |-> IF s = d.structure THEN done ELSE NoReplicaSet]
    IN  [view EXCEPT ![d.structure].par = Parallelism(d, view)]

SteadyInit ==
    /\ deploy \in {d \in SpecChoices(1, [gen |-> 1, reason |-> "NewReplicaSetAvailable"]) :
                     ~d.paused /\ d.replicas > 0 /\ ImageOf[d.rev] \notin Broken}
    /\ dcache = deploy
    /\ rs = Rested(deploy)
    /\ rscache = [s \in Lagging |-> rs[s]]
    /\ \E P \in SUBSET PodIds :
          /\ Cardinality(P) = deploy.replicas
          /\ pods = [p \in P |-> [NewPod(deploy.structure, deploy.rev) EXCEPT !.ready = TRUE]]
    /\ faults = 0
    /\ dctx = DIdle
    /\ rctx = RIdle

SteadySpec == SteadyInit /\ [][Next]_vars

(***************************************************************************)
(* Fairness.  Every reconcile that can run is run: a watch event, a        *)
(* requeue or the periodic resync puts the key into the work queue, and    *)
(* the queue is first in, first out, so that one ReplicaSet cannot starve  *)
(* another (strong fairness of each read).  API calls return, the          *)
(* informers catch up and the kubelet acts.  The user, failures and        *)
(* evictions are not fair.                                                 *)
(***************************************************************************)
Fairness ==
    /\ WF_vars(DWork /\ UNCHANGED rctx)
    /\ WF_vars(RStep /\ UNCHANGED dctx)
    /\ \A s \in Structures : SF_vars(RRead(s) /\ UNCHANGED dctx)
    /\ \A s \in Lagging : WF_vars(RefreshReplicaSet(s) /\ UNCHANGED <<dctx, rctx>>)
    /\ WF_vars(RefreshDeployment /\ UNCHANGED <<dctx, rctx>>)
    /\ WF_vars(Kubelet /\ UNCHANGED <<dctx, rctx>>)

FairSpec == Spec /\ Fairness
SteadyFairSpec == SteadySpec /\ Fairness

-----------------------------------------------------------------------------
(***************************************************************************)
(* Vocabulary of the properties.                                           *)
(***************************************************************************)
AvailablePods == {p \in DOMAIN pods : IsAvailable(p)}

\* Available, and not about to be restarted for a new image.
UndisruptedPods == {p \in AvailablePods : pods[p].observed = ImageOf[pods[p].rev]}

\* Recreate promises no minimum.
MinAvailable ==
    IF deploy.strategy.recreate THEN 0
    ELSE Max2(deploy.replicas - Limits(deploy).unavailable, 0)

\* What the user asked for is what runs, and nothing else does.
Converged ==
    /\ Cardinality(DOMAIN pods) = deploy.replicas
    /\ \A p \in DOMAIN pods : /\ pods[p].phase = "Active"
                              /\ pods[p].owner = deploy.structure
                              /\ ReadyAndObserved(pods[p], deploy.rev)

\* The Deployment's own status says that the present spec was observed.
Published(reason) == deploy.status = [gen |-> deploy.gen, reason |-> reason]

-----------------------------------------------------------------------------
(***************************************************************************)
(* Safety.                                                                 *)
(***************************************************************************)
\* Every variable, the two reconciles in progress included, has its type: no
\* arithmetic of the rollout writes a negative replica count or parallelism.
TypeOK == ClusterTypeOK /\ DeploymentTypeOK /\ ReplicaSetTypeOK

\* totalAvailableReplicas never counts a replica that is not there.  The status
\* it reads is older than the scale patches, and the reconcile that deletes
\* Pods may have read either; cutting the count off at spec.replicas must make
\* up for all of that.
NoPhantomAvailability ==
    \A s \in Structures : Min2(rs[s].status.available, rs[s].replicas)
                            <= Cardinality({p \in ActivePods(s) : pods[p].ready})

\* Once the ReplicaSets report the minimum of desired - maxUnavailable Pods, a
\* rolling update keeps both the report and the Pods at the minimum, whatever
\* rollout has read of the statuses and the ReplicaSet controller of the caches.
FloorKept ==
    [][/\ TotalAvailableReplicas(rs) >= MinAvailable
       /\ deploy'.gen = deploy.gen
       => /\ TotalAvailableReplicas(rs)' >= MinAvailable
          /\ Cardinality(AvailablePods') >= MinAvailable]_vars

\* A patch that scales a ReplicaSet up leaves the sum of all spec.replicas
\* within desired + maxSurge of the Deployment the reconcile decided by: the one
\* the status patch returned, or the cached one.  The sum was taken before that
\* patch, and by a reconcile that read another replica count or strategy.
ScaleUpWithinSurge ==
    [][\A s \in Structures :
          rs'[s].replicas > rs[s].replicas
          => TotalReplicaSpec(rs') <= dctx.d.replicas
                 + (IF dctx.d.strategy.recreate THEN 0 ELSE Limits(dctx.d).surge)]_vars

\* When updatePods disturbs a Pod that serves, at least desired -
\* max(1, maxUnavailable) Pods serve and are not waiting for a restart, provided
\* that every other Pod is out of service for the same revision.
PatchesKeepMinimum ==
    [][/\ \E p \in UndisruptedPods : p \in DOMAIN pods' /\ pods'[p].rev # pods[p].rev
       /\ \A q \in DOMAIN pods \ UndisruptedPods : pods[q].rev = rctx.obj.rev
       => Cardinality(UndisruptedPods')
             >= deploy.replicas - Max2(1, Limits(deploy).unavailable)]_vars

\* As long as nobody changes spec.replicas or the structure, the controllers
\* delete no Pod: images change in place, and what an eviction takes away is
\* replaced without ever creating a Pod too many.
IdentityKept ==
    [][\A p \in DOMAIN pods : pods[p].phase = "Active"
          => p \in DOMAIN pods' /\ pods'[p].phase # "Terminating"]_vars

\* A reconcile that decides by a Recreate strategy, though it may have read another
\* one, scales a ReplicaSet up only while every other one has spec.replicas = 0
\* (rollout, and totalOldReplicas on a list that was read before the status patch
\* and the Pod list).
RecreateScalesUpAlone ==
    [][\A s \in Structures :
          /\ rs'[s].replicas > rs[s].replicas
          /\ dctx.d.strategy.recreate
          => \A t \in Structures \ {s} : rs[t].replicas = 0]_vars

\* Under Recreate no two Pods that may run belong to different ReplicaSets:
\* oldPodsRunning must have seen the last old one go before rollout scales up.
RecreatePodsExclusive ==
    \A p, q \in DOMAIN pods :
        /\ deploy.strategy.recreate
        /\ pods[p].phase # "Terminal" /\ pods[q].phase # "Terminal"
        => pods[p].owner = pods[q].owner

\* deploymentComplete, evaluated on the API objects as they are, implies that
\* every Pod of the current ReplicaSet has the revision of its template, runs
\* it and is ready.
CompleteIsConverged ==
    LET cur == deploy.structure
    IN  /\ cur \in Existing
        /\ DeploymentComplete(deploy.replicas, cur, rs)
        => /\ Cardinality(ActivePods(cur)) = deploy.replicas
           /\ \A p \in ActivePods(cur) : ReadyAndObserved(pods[p], rs[cur].rev)

\* From the moment a pause is published, spec.replicas of no ReplicaSet changes
\* until the next edit: no reconcile is left that has read or been given a
\* Deployment that was not paused.
PausedKeepsScale ==
    [][Published("DeploymentPaused") /\ deploy.paused
        => \A s \in Structures : rs'[s].replicas = rs[s].replicas]_vars

-----------------------------------------------------------------------------
(***************************************************************************)
(* Liveness.                                                               *)
(***************************************************************************)
\* When the edits and the faults are over, a Deployment that is not paused and
\* whose image works is rolled out, and stays so.
RolloutCompletes ==
    <>[](~deploy.paused /\ ImageOf[deploy.rev] \notin Broken => Converged)
=============================================================================
