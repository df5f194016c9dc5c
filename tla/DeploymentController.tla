------------------------ MODULE DeploymentController ------------------------
(***************************************************************************)
(* DeploymentReconciler.Reconcile as a sequence of API calls.              *)
(*                                                                         *)
(* The controller runs one worker.  DRead is the cached Get of the         *)
(* Deployment and the live List of its ReplicaSets; everything up to the   *)
(* next write is computed from that snapshot and kept in dctx.  Each later *)
(* action is one API call, between which every other process may move.     *)
(* The status patch returns the Deployment as it is by then, and the rest  *)
(* of the reconcile works with that one and with the ReplicaSets as listed.*)
(* DFail is a call that returns an error, or the manager being restarted:  *)
(* the reconcile ends and a later one starts again from the read.          *)
(***************************************************************************)
EXTENDS ClusterState

VARIABLE
    dctx            \* the reconcile in progress

-----------------------------------------------------------------------------
(***************************************************************************)
(* The reconcile in progress: the call it is about to make and what the    *)
(* call needs.  d is the Deployment the reconcile holds, cur the current   *)
(* ReplicaSet, view the ReplicaSets as listed.                             *)
(***************************************************************************)
DIdle == [pc |-> "idle"]

ListContext  == [pc: {"list"}, d: Deployment, cur: Structures]
ScaleContext == [pc: {"scale"}, d: Deployment, cur: Structures, rs: Structures, n: Nat]
DContext ==
    {DIdle} \cup ListContext \cup ScaleContext
    \cup [pc: {"create"}, d: Deployment]
    \cup [pc: {"sync"}, d: Deployment, cur: Structures, par: Nat]
    \cup [pc: {"status"}, d: Deployment, cur: Structures,
          view: [Structures -> ReplicaSet]]

DeploymentTypeOK == dctx \in DContext

DeploymentInit == dctx = DIdle

-----------------------------------------------------------------------------
Limits(d) == RollingLimits(d.strategy, d.replicas)

\* The ReplicaSet of the Deployment's structure; for a paused Deployment
\* without one, the newest (a creation time has a resolution of a second, so
\* several may be).
CurrentChoices(d) ==
    IF d.structure \in Existing THEN {d.structure}
    ELSE IF d.paused
    THEN {s \in Existing : \A t \in Existing : rs[t].born <= rs[s].born}
    ELSE {}

Parallelism(d, view) ==
    IF d.paused THEN 0 ELSE DeploymentParallelism(d.strategy, d.replicas, view)

\* A paused Deployment leaves the template of the ReplicaSet alone.
SyncedRevision(d, cur) == IF d.paused THEN rs[cur].rev ELSE d.rev

\* Mutant: Recreate is rolled out like RollingUpdate.
ScaleChoices_AlwaysRolling(d, cur, view) == RollingChoices(d.replicas, Limits(d), cur, view)

ScaleChoices(d, cur, view) ==
    IF d.strategy.recreate THEN RecreateScaleDowns(cur, view)
    ELSE RollingChoices(d.replicas, Limits(d), cur, view)

\* Mutant: a paused Deployment is rolled out.
RolloutChoices_IgnoresPause(d, cur, view) ==
    IF ScaleChoices(d, cur, view) # {}
    THEN {[pc |-> "scale", d |-> d, cur |-> cur, rs |-> c.rs, n |-> c.n] :
             c \in ScaleChoices(d, cur, view)}
    ELSE {DIdle}

\* Mutant: Recreate scales the new ReplicaSet up right after the old ones went
\* down, without waiting for their Pods.
RolloutChoices_NoWait(d, cur, view) ==
    IF d.paused THEN {DIdle}
    ELSE {[pc |-> "scale", d |-> d, cur |-> cur, rs |-> c.rs, n |-> c.n] :
             c \in IF ScaleChoices(d, cur, view) # {} THEN ScaleChoices(d, cur, view)
                   ELSE {[rs |-> cur, n |-> d.replicas]}}

\* What the reconcile does when the status is written.
RolloutChoices(d, cur, view) ==
    IF d.paused THEN {DIdle}
    ELSE IF ScaleChoices(d, cur, view) # {}
    THEN {[pc |-> "scale", d |-> d, cur |-> cur, rs |-> c.rs, n |-> c.n] :
             c \in ScaleChoices(d, cur, view)}
    ELSE IF d.strategy.recreate /\ TotalOldObservedPods(cur, view) = 0
    THEN {[pc |-> "list", d |-> d, cur |-> cur]}
    ELSE {DIdle}

\* updateDeploymentStatus
NewStatus(d, cur, view) ==
    [gen |-> d.gen, reason |-> ProgressingReason(d.paused, d.replicas, cur, view)]

-----------------------------------------------------------------------------
DReadCreate ==
    /\ CurrentChoices(dcache) = {}
    /\ dctx' = [pc |-> "create", d |-> dcache]

DReadSync(cur) ==
    /\ \/ rs[cur].rev # SyncedRevision(dcache, cur)
       \/ rs[cur].par # Parallelism(dcache, rs)
    /\ dctx' = [pc |-> "sync", d |-> dcache, cur |-> cur, par |-> Parallelism(dcache, rs)]

Synced(cur) ==
    /\ rs[cur].rev = SyncedRevision(dcache, cur)
    /\ rs[cur].par = Parallelism(dcache, rs)

DReadStatus(cur) ==
    /\ Synced(cur)
    /\ dctx' = [pc |-> "status", d |-> dcache, cur |-> cur, view |-> rs]

\* A status that is the same as the cached one, in the counts and messages too
\* that are left out here, is not written.
DReadRollout(cur) ==
    /\ Synced(cur)
    /\ NewStatus(dcache, cur, rs) = dcache.status
    /\ dctx' \in RolloutChoices(dcache, cur, rs)

DRead ==
    /\ dctx = DIdle
    /\ \/ DReadCreate
       \/ \E cur \in CurrentChoices(dcache) :
             DReadSync(cur) \/ DReadStatus(cur) \/ DReadRollout(cur)
    /\ UNCHANGED clusterVars

\* The second of the newest ReplicaSet, or a later one.
CreationSeconds ==
    {b \in 0..Cardinality(Structures) :
        /\ \A s \in Existing : rs[s].born <= b
        /\ b = 0 \/ \E s \in Existing : b <= rs[s].born + 1}

\* A new ReplicaSet starts with no replicas and a parallelism of 0.
DCreate ==
    /\ dctx.pc = "create"
    /\ \E b \in CreationSeconds :
          rs' = [rs EXCEPT ![dctx.d.structure] =
                    [NoReplicaSet EXCEPT !.gen = 1, !.rev = dctx.d.rev, !.born = b]]
    /\ dctx' = DIdle
    /\ UNCHANGED <<deploy, dcache, rscache, pods, faults>>

\* The annotation is not part of the spec: only a new template raises the
\* generation.
DSync ==
    /\ dctx.pc = "sync"
    /\ LET old == rs[dctx.cur]
           rev == SyncedRevision(dctx.d, dctx.cur)
       IN  rs' = [rs EXCEPT ![dctx.cur] =
                    [old EXCEPT !.rev = rev, !.par = dctx.par,
                                !.gen = IF rev = old.rev THEN @ ELSE @ + 1]]
    /\ dctx' = DIdle
    /\ UNCHANGED <<deploy, dcache, rscache, pods, faults>>

\* The API server's answer is decoded into the Deployment the reconcile holds.
\* What the answer omits stays as it was: spec.paused, if it was removed.
Refreshed(held, answer) == {answer, [answer EXCEPT !.paused = @ \/ held.paused]}

\* The conditions are one list, which is sent whole when a message or the other
\* condition changed, so a reason may be sent although the cached one is equal.
DStatus ==
    /\ dctx.pc = "status"
    /\ LET new    == NewStatus(dctx.d, dctx.cur, dctx.view)
           merged == MergePatch(dctx.d.status, new, deploy.status)
       IN  \E reason \in {merged.reason, new.reason} :
              deploy' = [deploy EXCEPT !.status = [gen |-> merged.gen, reason |-> reason]]
    /\ DeploymentWritten
    /\ \E d \in Refreshed(dctx.d, deploy') : dctx' \in RolloutChoices(d, dctx.cur, dctx.view)
    /\ UNCHANGED <<rs, rscache, pods, faults>>

\* oldPodsRunning: a live list of the Pods of the other ReplicaSets, of which
\* only the Failed and Succeeded ones do not count as running.
DListPods ==
    /\ dctx.pc = "list"
    /\ dctx' = IF \E p \in DOMAIN pods : /\ pods[p].owner # dctx.cur
                                         /\ pods[p].phase # "Terminal"
               THEN DIdle
               ELSE IF rs[dctx.cur].replicas = dctx.d.replicas THEN DIdle
               ELSE [pc |-> "scale", d |-> dctx.d, cur |-> dctx.cur,
                     rs |-> dctx.cur, n |-> dctx.d.replicas]
    /\ UNCHANGED clusterVars

DScale ==
    /\ dctx.pc = "scale"
    /\ rs' = [rs EXCEPT ![dctx.rs].replicas = dctx.n, ![dctx.rs].gen = @ + 1]
    /\ dctx' = DIdle
    /\ UNCHANGED <<deploy, dcache, rscache, pods, faults>>

DFail ==
    /\ dctx # DIdle
    /\ Fault("api")
    /\ dctx' = DIdle
    /\ UNCHANGED <<deploy, dcache, rs, rscache, pods>>

DWork == DRead \/ DCreate \/ DSync \/ DStatus \/ DListPods \/ DScale
=============================================================================
