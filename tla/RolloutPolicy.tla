--------------------------- MODULE RolloutPolicy ---------------------------
(***************************************************************************)
(* The arithmetic of a rollout: what the Deployment controller computes    *)
(* from the ReplicaSets it has listed, before it writes anything.          *)
(*                                                                         *)
(* A ReplicaSet is a function of its structural revision; `view` is the    *)
(* list as read, with the fields replicas (spec.replicas) and status, and  *)
(* a ReplicaSet that does not exist contributes zero to every sum.  `lim`  *)
(* is a resolved pair of fenceposts [surge, unavailable].                  *)
(***************************************************************************)
EXTENDS Integers, FiniteSets

CONSTANT
    Structures      \* structural revisions; each names one ReplicaSet

Min2(a, b) == IF a <= b THEN a ELSE b
Max2(a, b) == IF a >= b THEN a ELSE b

-----------------------------------------------------------------------------
(***************************************************************************)
(* Sums over ReplicaSets.  The code adds int32 counters in a loop; the sum *)
(* of f over S is written as the number of slots <<s, i>> with i in        *)
(* 1..f[s], which needs no recursion.                                      *)
(***************************************************************************)
Slots(f, S) == UNION {{s} \X (1..f[s]) : s \in S}
Total(f, S) == Cardinality(Slots(f, S))

TotalReplicaSpec(view) ==
    Total([s \in Structures |-> view[s].replicas], Structures)

\* Mutant: spends replicas that a scale-down has already given up.
TotalAvailableReplicas_Unclamped(view) ==
    Total([s \in Structures |-> view[s].status.available], Structures)

\* A scale-down patch is visible before the status catches up, so an available
\* replica above the spec is never counted.
TotalAvailableReplicas(view) ==
    Total([s \in Structures |-> Min2(view[s].status.available, view[s].replicas)],
          Structures)

TotalOldReplicas(cur, view) ==
    Total([s \in Structures |-> view[s].replicas], Structures \ {cur})

TotalOldObservedPods(cur, view) ==
    Total([s \in Structures |-> view[s].status.replicas + view[s].status.terminating],
          Structures \ {cur})

-----------------------------------------------------------------------------
(***************************************************************************)
(* Fenceposts: a number or a percentage of the replicas.  Kubernetes       *)
(* rounds a surge percentage up and an unavailable percentage down, and    *)
(* never lets both be zero.                                                *)
(***************************************************************************)
Fencepost == [pct: BOOLEAN, val: Nat]
Strategy  == [recreate: BOOLEAN, surge: Fencepost, unavailable: Fencepost]

RoundUp(v, n)   == IF v.pct THEN (v.val * n + 99) \div 100 ELSE v.val
RoundDown(v, n) == IF v.pct THEN (v.val * n) \div 100 ELSE v.val

ResolveFenceposts(strategy, n) ==
    LET s == RoundUp(strategy.surge, n)
        u == RoundDown(strategy.unavailable, n)
    IN  [surge |-> s, unavailable |-> IF s = 0 /\ u = 0 THEN 1 ELSE u]

RollingLimits(strategy, n) ==
    LET f == ResolveFenceposts(strategy, n)
    IN  [surge |-> f.surge, unavailable |-> Min2(f.unavailable, n)]

-----------------------------------------------------------------------------
(***************************************************************************)
(* How many Pods the current ReplicaSet may have in flight in place.       *)
(***************************************************************************)
\* Mutant: nothing is updated in place when maxUnavailable is zero.
DeploymentParallelism_Strict(strategy, desired, view) ==
    LET maximum     == ResolveFenceposts(strategy, desired).unavailable
        unavailable == Max2(desired - TotalAvailableReplicas(view), 0)
    IN  IF strategy.recreate THEN desired ELSE Max2(maximum - unavailable, 0)

\* Mutant: the budget is not cut off at zero.
DeploymentParallelism_Unclamped(strategy, desired, view) ==
    ResolveFenceposts(strategy, desired).unavailable
        - Max2(desired - TotalAvailableReplicas(view), 0)

DeploymentParallelism(strategy, desired, view) ==
    LET maximum     == ResolveFenceposts(strategy, desired).unavailable
        unavailable == Max2(desired - TotalAvailableReplicas(view), 0)
    IN  IF desired = 0 THEN 0
        ELSE IF strategy.recreate THEN desired
        ELSE IF maximum = 0 /\ unavailable = 0 THEN 1
        ELSE Max2(maximum - unavailable, 0)

(***************************************************************************)
(* One structural rollout decision: the set of scale patches [rs, n] the   *)
(* loop of rollout may issue.  The ReplicaSets are listed by name, and     *)
(* names end in hashes, so the first old ReplicaSet with a positive        *)
(* decrease may be any of them.  The empty set means nothing changes.      *)
(***************************************************************************)
\* Mutant: scales straight to the desired count.
ScaleUp_IgnoresSurge(desired, lim, cur, view) == desired - view[cur].replicas

ScaleUp(desired, lim, cur, view) ==
    LET total == TotalReplicaSpec(view)
    IN  Min2(desired - view[cur].replicas, desired + lim.surge - total)

\* Mutant: only unhealthy replicas are taken down.
Decrease_OnlyUnhealthy(desired, lim, cur, old, view) ==
    Max2(view[old].replicas - view[old].status.available, 0)

Decrease(desired, lim, cur, old, view) ==
    LET total      == TotalReplicaSpec(view)
        minimum    == Max2(desired - lim.unavailable, 0)
        budget     == Max2(TotalAvailableReplicas(view) - minimum, 0)
        unhealthy  == Max2(view[old].replicas - view[old].status.available, 0)
        excess     == Max2(total - desired, 0)
        needed     == Max2(desired - view[cur].replicas, 0)
    IN  Min2(Min2(view[old].replicas, unhealthy + budget),
             IF excess > 0 THEN excess ELSE needed)

ScaleDowns(desired, lim, cur, view) ==
    {[rs |-> s, n |-> view[s].replicas - Decrease(desired, lim, cur, s, view)] :
        s \in {o \in Structures \ {cur} : /\ view[o].replicas > 0
                                          /\ Decrease(desired, lim, cur, o, view) > 0}}

RollingChoices(desired, lim, cur, view) ==
    IF /\ view[cur].replicas < desired
       /\ TotalReplicaSpec(view) < desired + lim.surge
    THEN {[rs |-> cur, n |-> view[cur].replicas + ScaleUp(desired, lim, cur, view)]}
    ELSE IF ScaleDowns(desired, lim, cur, view) # {}
    THEN ScaleDowns(desired, lim, cur, view)
    ELSE IF view[cur].replicas # desired /\ TotalOldReplicas(cur, view) = 0
    THEN {[rs |-> cur, n |-> desired]}
    ELSE {}

\* Under Recreate every old ReplicaSet is first scaled to zero.
RecreateScaleDowns(cur, view) ==
    {[rs |-> s, n |-> 0] : s \in {o \in Structures \ {cur} : view[o].replicas > 0}}

-----------------------------------------------------------------------------
(***************************************************************************)
(* What the controller reports.  Progress counts only when the ReplicaSet  *)
(* has observed its own generation and the revision of its own template.   *)
(***************************************************************************)
\* Mutant: a status of an older generation counts.
ObservedInPlaceStatus_NoFence(obj) ==
    IF obj.status.rev # obj.rev
    THEN [updated |-> 0, ready |-> 0]
    ELSE [updated |-> obj.status.updated, ready |-> obj.status.ready]

ObservedInPlaceStatus(obj) ==
    IF obj.status.gen < obj.gen \/ obj.status.rev # obj.rev
    THEN [updated |-> 0, ready |-> 0]
    ELSE [updated |-> obj.status.updated, ready |-> obj.status.ready]

DeploymentComplete(desired, cur, view) ==
    /\ TotalOldReplicas(cur, view) = 0
    /\ TotalOldObservedPods(cur, view) = 0
    /\ view[cur].replicas = desired
    /\ ObservedInPlaceStatus(view[cur]) = [updated |-> desired, ready |-> desired]
    /\ view[cur].status.available = desired

\* The reason of the Progressing condition.
ProgressingReason(paused, desired, cur, view) ==
    IF paused THEN "DeploymentPaused"
    ELSE IF /\ ObservedInPlaceStatus(view[cur]).updated = desired
            /\ Total([s \in Structures |-> view[s].status.available], Structures) = desired
         THEN "NewReplicaSetAvailable"
         ELSE "ReplicaSetUpdated"
=============================================================================
