-------------------------- MODULE ChurnlessProofs --------------------------
(***************************************************************************)
(* The composed system, for every set of ReplicaSets, revisions and Pods,  *)
(* every strategy and replica count, and every number of edits and faults. *)
(***************************************************************************)
EXTENDS Churnless, RolloutPolicyProofs

(***************************************************************************)
(* The inductive invariant.  TypeOK alone is not inductive: a Pod gets the *)
(* revision of a ReplicaSet, so a ReplicaSet that a reconcile acts on must *)
(* have one, and a reconcile in progress must go on acting on such a one.  *)
(***************************************************************************)
HasRevision(obj) == obj.gen > 0 \/ obj.replicas > 0 => obj.rev \in Revisions

Named ==
    /\ \A s \in Structures : HasRevision(rs[s])
    /\ \A s \in Lagging : HasRevision(rscache[s])

\* What a Deployment reconcile will write to has a revision.
TargetsNamed(c) ==
    /\ c.pc \in {"sync", "status", "list", "scale"} => rs[c.cur].rev \in Revisions
    /\ c.pc = "scale" => rs[c.rs].rev \in Revisions

\* The replica counts that were listed are still the live ones when the status
\* patch returns: nobody but the one worker of this controller writes them.
SpecStands(view) ==
    \A s \in Structures : view[s].replicas = rs[s].replicas /\ view[s].gen = rs[s].gen

ViewStands == dctx.pc = "status" => SpecStands(dctx.view)

\* What a ReplicaSet reconcile makes Pods from has one too, and it has not
\* counted down past its last Pod.
SourceNamed ==
    /\ rctx.pc \in {"create", "update"} => rctx.obj.rev \in Revisions
    /\ rctx.pc = "create" => rctx.n > 0

TypeInv == TypeOK /\ Named /\ TargetsNamed(dctx) /\ ViewStands /\ SourceNamed

-----------------------------------------------------------------------------
(***************************************************************************)
(* Types of the operators the actions are built from.                      *)
(***************************************************************************)
\* A Deployment has a strategy and a replica count the policy can work with.
LEMMA DeploymentFields ==
    ASSUME NEW d \in Deployment
    PROVE  /\ d.strategy \in Strategy /\ d.replicas \in Nat
           /\ LimitsOK(Limits(d))
<1>1. d.strategy \in Strategy /\ d.replicas \in Nat
  BY ChoicesAssumption DEF Deployment
<1> QED
  BY <1>1, LimitsType DEF LimitsOK, Limits

\* The ReplicaSets are a view with natural counters.
LEMMA StoreView ==
    ASSUME rs \in [Structures -> ReplicaSet]
    PROVE  ViewOK(rs)
  BY DEF ViewOK, ReplicaSet, RSStatus

\* A ReplicaSet that does not exist is typed like one that does.
LEMMA NoReplicaSetType == NoReplicaSet \in ReplicaSet
  BY DEF NoReplicaSet, NoStatus, ReplicaSet, RSStatus

\* A set of Pods has a size.
LEMMA PodsCount ==
    ASSUME NEW S \in SUBSET PodIds
    PROVE  IsFiniteSet(S) /\ Cardinality(S) \in Nat
  BY BoundsAssumption, FS_Subset, FS_CardinalityType

\* The budget written to the annotation is a natural number.
LEMMA BudgetType ==
    ASSUME NEW d \in Deployment, rs \in [Structures -> ReplicaSet]
    PROVE  Parallelism(d, rs) \in Nat
  BY DeploymentFields, StoreView, StructuresAssumption, ParallelismType DEF Parallelism

\* The reconcile in progress has the fields of its kind.
LEMMA DContextKinds ==
    ASSUME NEW c \in DContext
    PROVE  /\ c.pc \in {"idle", "list", "scale", "create", "sync", "status"}
           /\ c.pc = "idle" => c = DIdle
           /\ c.pc = "list" => c \in ListContext
           /\ c.pc = "scale" => c \in ScaleContext
           /\ c.pc = "create" => c.d \in Deployment
           /\ c.pc = "sync" => c.d \in Deployment /\ c.cur \in Structures /\ c.par \in Nat
           /\ c.pc = "status" => /\ c.d \in Deployment /\ c.cur \in Structures
                                 /\ c.view \in [Structures -> ReplicaSet]
  BY DEF DContext, DIdle, ListContext, ScaleContext

\* The same of the ReplicaSet controller.
LEMMA RContextKinds ==
    ASSUME NEW c \in RContext
    PROVE  /\ c.pc \in {"idle", "create", "delete", "update"}
           /\ c.pc = "create" => c \in [pc: {"create"}, s: Structures, obj: ReplicaSet, n: Nat]
           /\ c.pc = "delete" => c \in [pc: {"delete"}, s: Structures, victims: SUBSET PodIds]
           /\ c.pc = "update" => c \in [pc: {"update"}, s: Structures, obj: ReplicaSet,
                                        seen: UNION {[D -> Pod] : D \in SUBSET PodIds},
                                        terminating: Nat, inFlight: Nat]
  BY DEF RContext, RIdle

\* A merge of statuses is a status.
LEMMA MergeType ==
    ASSUME NEW base \in RSStatus, NEW new \in RSStatus, NEW live \in RSStatus
    PROVE  MergePatch(base, new, live) \in RSStatus
  BY DEF MergePatch, RSStatus

\* The status that updateReplicaSetStatus computes is one.
LEMMA CalculatedType ==
    ASSUME NEW c \in RContext, c.pc = "update"
    PROVE  CalculatedStatus(c) \in RSStatus
<1>1. c \in [pc: {"update"}, s: Structures, obj: ReplicaSet,
             seen: UNION {[D -> Pod] : D \in SUBSET PodIds}, terminating: Nat, inFlight: Nat]
  BY RContextKinds
<1>2. DOMAIN c.seen \in SUBSET PodIds /\ c.terminating \in Nat
      /\ c.obj.gen \in Nat /\ c.obj.rev \in Revisions \cup {NoRevision}
  BY <1>1 DEF ReplicaSet
<1>3. \A S \in SUBSET DOMAIN c.seen : Cardinality(S) \in Nat
  BY <1>2, PodsCount
<1>4. /\ Cardinality(DOMAIN c.seen) \in Nat
      /\ Cardinality({p \in DOMAIN c.seen : c.seen[p].ready}) \in Nat
      /\ Cardinality({p \in DOMAIN c.seen : SpecMatches(c.seen[p], c.obj.rev)}) \in Nat
      /\ Cardinality({p \in DOMAIN c.seen : ReadyAndObserved(c.seen[p], c.obj.rev)}) \in Nat
  BY <1>3
<1> QED
  BY <1>2, <1>4 DEF CalculatedStatus, RSStatus
-----------------------------------------------------------------------------
(***************************************************************************)
(* The type invariant is inductive.                                        *)
(***************************************************************************)
\* The first reconcile starts from nothing.
LEMMA TypeInit == Init => TypeInv
<1> SUFFICES ASSUME Init
             PROVE  TypeInv
  OBVIOUS
<1> USE DEF Init, ClusterInit, DeploymentInit, ReplicaSetInit
<1>1. deploy \in Deployment /\ dcache \in Deployment
  BY ChoicesAssumption DEF SpecChoices, Deployment, DeploymentStatus, Reasons
<1>2. rs \in [Structures -> ReplicaSet] /\ rscache \in [Lagging -> ReplicaSet]
  BY NoReplicaSetType
<1>3. ClusterTypeOK
  BY <1>1, <1>2, BoundsAssumption DEF ClusterTypeOK
<1>4. TypeOK
  BY <1>3 DEF TypeOK, DeploymentTypeOK, DContext, Reasons, ReplicaSetTypeOK, RContext
<1>5. Named
  BY BoundsAssumption DEF Named, HasRevision, NoReplicaSet
<1>6. TargetsNamed(dctx) /\ ViewStands /\ SourceNamed
  BY DEF TargetsNamed, ViewStands, SourceNamed, DIdle, RIdle
<1> QED
  BY <1>4, <1>5, <1>6 DEF TypeInv

\* A rolled-out Deployment is typed as well.
LEMMA SteadyTypeInit == SteadyInit => TypeInv
<1> SUFFICES ASSUME SteadyInit
             PROVE  TypeInv
  OBVIOUS
<1> USE DEF SteadyInit
<1> DEFINE d == deploy
           done == [NoReplicaSet EXCEPT
                       !.gen = 2, !.rev = d.rev, !.replicas = d.replicas,
                       !.status = [gen |-> 2, replicas |-> d.replicas,
                                   available |-> d.replicas, terminating |-> 0,
                                   rev |-> d.rev, updated |-> d.replicas,
                                   ready |-> d.replicas]]
           view == [s \in Structures |-> IF s = d.structure THEN done ELSE NoReplicaSet]
<1>1. d \in Deployment /\ dcache \in Deployment
  BY ChoicesAssumption DEF SpecChoices, Deployment, DeploymentStatus, Reasons
<1>2. d.rev \in Revisions /\ d.structure \in Structures /\ d.replicas \in Nat
  BY <1>1, DeploymentFields DEF Deployment
<1>3. done \in ReplicaSet /\ done.rev = d.rev
  BY <1>2, NoReplicaSetType DEF ReplicaSet, RSStatus
<1> HIDE DEF done
<1>4. view \in [Structures -> ReplicaSet]
  BY <1>3, NoReplicaSetType
<1>5. ViewOK(view)
  BY <1>4 DEF ViewOK, ReplicaSet, RSStatus
<1>6. Parallelism(d, view) \in Nat
  BY <1>1, <1>5, DeploymentFields, StructuresAssumption, ParallelismType DEF Parallelism
<1>7. rs = [view EXCEPT ![d.structure].par = Parallelism(d, view)]
  BY DEF Rested, done
<1> DEFINE top == [view[d.structure] EXCEPT !.par = Parallelism(d, view)]
<1>8. rs = [view EXCEPT ![d.structure] = top]
  BY <1>7
<1>9. top \in ReplicaSet /\ top.rev = d.rev
  <2>1. view[d.structure] = done
    BY <1>2
  <2> HIDE DEF view
  <2> QED
    BY <1>3, <1>6, <2>1 DEF ReplicaSet
<1> HIDE DEF top
<1>10. \A s \in Structures : rs[s] = IF s = d.structure THEN top ELSE NoReplicaSet
  BY <1>8
<1>11. rs \in [Structures -> ReplicaSet]
  BY <1>4, <1>8, <1>9
<1>12. rscache \in [Lagging -> ReplicaSet]
  BY <1>11, BoundsAssumption
<1>13. Named
  <2>1. HasRevision(NoReplicaSet) /\ HasRevision(top)
    BY <1>2, <1>9 DEF HasRevision, NoReplicaSet
  <2> QED
    BY <1>10, <2>1, BoundsAssumption DEF Named
<1>14. PICK P \in SUBSET PodIds :
          pods = [p \in P |-> [NewPod(d.structure, d.rev) EXCEPT !.ready = TRUE]]
  OBVIOUS
<1>15. [NewPod(d.structure, d.rev) EXCEPT !.ready = TRUE] \in Pod
  BY <1>2, ImagesAssumption DEF NewPod, Pod
<1>16. ClusterTypeOK
  BY <1>1, <1>11, <1>12, <1>14, <1>15, BoundsAssumption DEF ClusterTypeOK
<1>17. TypeOK
  BY <1>16 DEF TypeOK, DeploymentTypeOK, DContext, Reasons, ReplicaSetTypeOK, RContext
<1>18. TargetsNamed(dctx) /\ ViewStands /\ SourceNamed
  BY DEF TargetsNamed, ViewStands, SourceNamed, DIdle, RIdle
<1> QED
  BY <1>13, <1>17, <1>18 DEF TypeInv

\* Nobody outside the controllers disturbs the types.
LEMMA TypeCluster ==
    ASSUME TypeInv, ClusterNext, UNCHANGED <<dctx, rctx>>
    PROVE  TypeInv'
<1> USE DEF TypeInv, TypeOK, ClusterTypeOK
<1>1. DeploymentTypeOK' /\ ReplicaSetTypeOK' /\ SourceNamed'
  BY DEF DeploymentTypeOK, ReplicaSetTypeOK, SourceNamed
<1>2. ASSUME UNCHANGED <<rs, rscache>>
      PROVE  Named' /\ TargetsNamed(dctx)' /\ ViewStands'
  BY <1>2 DEF Named, HasRevision, TargetsNamed, ViewStands, SpecStands
<1>3. CASE UserEdit
  <2>1. deploy' \in Deployment
    BY <1>3, ChoicesAssumption DEF UserEdit, SpecChoices, Deployment
  <2>2. dcache' \in Deployment
    BY <1>3, <2>1 DEF UserEdit, DeploymentWritten
  <2> QED
    BY <1>1, <1>2, <1>3, <2>1, <2>2 DEF UserEdit
<1>4. CASE RefreshDeployment
  BY <1>1, <1>2, <1>4 DEF RefreshDeployment
<1>5. ASSUME NEW s \in Lagging, RefreshReplicaSet(s)
      PROVE  TypeInv'
  <2>1. s \in Structures
    BY BoundsAssumption
  <2>2. rscache' \in [Lagging -> ReplicaSet]
    BY <1>5, <2>1 DEF RefreshReplicaSet
  <2>3. Named'
    BY <1>5, <2>1 DEF RefreshReplicaSet, Named, HasRevision
  <2>4. TargetsNamed(dctx)' /\ ViewStands'
    BY <1>5 DEF RefreshReplicaSet, TargetsNamed, ViewStands, SpecStands
  <2> QED
    BY <1>1, <1>5, <2>2, <2>3, <2>4 DEF RefreshReplicaSet
<1>6. ASSUME NEW p \in DOMAIN pods,
             KubeletRestart(p) \/ KubeletReady(p) \/ PodGone(p) \/ Evict(p)
      PROVE  TypeInv'
  <2>1. UNCHANGED <<deploy, dcache, rs, rscache>>
    BY <1>6 DEF KubeletRestart, KubeletReady, PodGone, Evict
  <2>2. faults' \in 0..MaxFaults
    BY <1>6, BoundsAssumption DEF KubeletRestart, KubeletReady, PodGone, Evict, Fault
  <2>3. DOMAIN pods' \subseteq PodIds
    BY <1>6 DEF KubeletRestart, KubeletReady, PodGone, Evict
  <2>4. ImageOf[pods[p].rev] \in Images
    BY ImagesAssumption DEF Pod
  <2>5. \A q \in DOMAIN pods' : pods'[q] \in Pod
    <3>1. CASE KubeletRestart(p)
      BY <3>1, <2>4 DEF KubeletRestart, Pod
    <3>2. CASE KubeletReady(p)
      BY <3>2 DEF KubeletReady, Pod
    <3>3. CASE PodGone(p)
      BY <3>3 DEF PodGone
    <3>4. CASE Evict(p)
      BY <3>4 DEF Evict, Pod
    <3> QED
      BY <1>6, <3>1, <3>2, <3>3, <3>4
  <2> QED
    BY <1>1, <1>2, <2>1, <2>2, <2>3, <2>5
<1> QED
  BY <1>3, <1>4, <1>5, <1>6 DEF ClusterNext, Kubelet
-----------------------------------------------------------------------------
(***************************************************************************)
(* What a reconcile may plan.  A list of old Pods is planned only under    *)
(* Recreate and when nothing but the current ReplicaSet has replicas, and  *)
(* a patch that scales up fits into the surge limit.                       *)
(***************************************************************************)
Alone(s) == \A t \in Structures \ {s} : rs[t].replicas = 0

SurgeLimit(d) == d.replicas + (IF d.strategy.recreate THEN 0 ELSE Limits(d).surge)

PlanSafe(c) ==
    /\ c.pc = "list" => c.d.strategy.recreate /\ Alone(c.cur)
    /\ c.pc = "scale" /\ c.n > rs[c.rs].replicas
       => /\ c.n + TotalOldReplicas(c.rs, rs) <= SurgeLimit(c.d)
          /\ c.d.strategy.recreate => Alone(c.rs)

\* The sums over listed replica counts that still stand.
LEMMA StandingTotals ==
    ASSUME NEW view, SpecStands(view)
    PROVE  \A s \in Structures : TotalOldReplicas(s, view) = TotalOldReplicas(s, rs)
<1> SUFFICES ASSUME NEW s \in Structures
             PROVE  TotalOldReplicas(s, view) = TotalOldReplicas(s, rs)
  OBVIOUS
<1> DEFINE f == [t \in Structures |-> rs[t].replicas]
           g == [t \in Structures |-> view[t].replicas]
<1>1. \A t \in Structures \ {s} : g[t] = f[t]
  BY DEF SpecStands
<1> HIDE DEF f, g
<1>2. Total(g, Structures \ {s}) = Total(f, Structures \ {s})
  BY <1>1, TotalSame
<1> QED
  BY <1>2 DEF TotalOldReplicas, f, g

\* A scale patch of rollout has a target with a revision and a natural count,
\* and is safe.
LEMMA ScaleChoicesSafe ==
    ASSUME rs \in [Structures -> ReplicaSet], Named, NEW d \in Deployment,
           NEW cur \in Structures, rs[cur].rev \in Revisions,
           NEW view \in [Structures -> ReplicaSet], SpecStands(view),
           NEW c \in ScaleChoices(d, cur, view)
    PROVE  /\ c.rs \in Structures /\ c.n \in Nat
           /\ rs[c.rs].rev \in Revisions
           /\ c.n > rs[c.rs].replicas
              => /\ ~d.strategy.recreate
                 /\ c.n + TotalOldReplicas(c.rs, rs) <= d.replicas + Limits(d).surge
<1>1. CASE d.strategy.recreate
  <2>1. PICK s \in Structures : rs[s].replicas > 0 /\ c = [rs |-> s, n |-> 0]
    BY <1>1 DEF ScaleChoices, RecreateScaleDowns, SpecStands
  <2>2. rs[s].replicas \in Nat
    BY DEF ReplicaSet
  <2>3. rs[s].rev \in Revisions
    BY <2>1 DEF Named, HasRevision
  <2> QED
    BY <2>1, <2>2, <2>3
<1>2. CASE ~d.strategy.recreate
  <2>1. c \in RollingChoices(d.replicas, Limits(d), cur, view)
    BY <1>2 DEF ScaleChoices
  <2>2. ViewOK(view) /\ LimitsOK(Limits(d)) /\ d.replicas \in Nat
    BY DeploymentFields DEF ViewOK, ReplicaSet, RSStatus
  <2>3. /\ c.rs \in Structures /\ c.n \in Nat
        /\ c.rs = cur \/ rs[c.rs].replicas > 0
        /\ c.n > rs[c.rs].replicas
           => c.n + TotalOldReplicas(c.rs, rs) <= d.replicas + Limits(d).surge
    <3>1. /\ c.rs \in Structures /\ c.n \in Nat
          /\ c.rs = cur \/ view[c.rs].replicas > 0
          /\ c.n > view[c.rs].replicas
             => c.n + TotalOldReplicas(c.rs, view) <= d.replicas + Limits(d).surge
      BY <2>1, <2>2, StructuresAssumption, RollingWithinSurge
    <3>2. TotalOldReplicas(c.rs, view) = TotalOldReplicas(c.rs, rs)
      BY <3>1, StandingTotals
    <3>3. view[c.rs].replicas = rs[c.rs].replicas
      BY <3>1 DEF SpecStands
    <3> QED
      BY <3>1, <3>2, <3>3
  <2>4. rs[c.rs].rev \in Revisions
    BY <2>3 DEF Named, HasRevision
  <2> QED
    BY <1>2, <2>3, <2>4
<1> QED
  BY <1>1, <1>2

\* What follows the status patch is idle, a list or a scale patch, on
\* ReplicaSets with a revision, and safe.
LEMMA RolloutChoicesSafe ==
    ASSUME rs \in [Structures -> ReplicaSet], Named, NEW d \in Deployment,
           NEW cur \in Structures, rs[cur].rev \in Revisions,
           NEW view \in [Structures -> ReplicaSet], SpecStands(view),
           NEW then \in RolloutChoices(d, cur, view)
    PROVE  /\ then \in {DIdle} \cup ListContext \cup ScaleContext
           /\ TargetsNamed(then)
           /\ PlanSafe(then)
<1>1. CASE then = DIdle
  BY <1>1 DEF DIdle, TargetsNamed, PlanSafe
<1>2. ASSUME NEW c \in ScaleChoices(d, cur, view),
             then = [pc |-> "scale", d |-> d, cur |-> cur, rs |-> c.rs, n |-> c.n]
      PROVE  /\ then \in ScaleContext
             /\ TargetsNamed(then)
             /\ PlanSafe(then)
  <2>1. /\ c.rs \in Structures /\ c.n \in Nat
        /\ rs[c.rs].rev \in Revisions
        /\ c.n > rs[c.rs].replicas
           => /\ ~d.strategy.recreate
              /\ c.n + TotalOldReplicas(c.rs, rs) <= d.replicas + Limits(d).surge
    BY ScaleChoicesSafe
  <2>2. /\ then.pc = "scale" /\ then.d = d /\ then.cur = cur
        /\ then.rs = c.rs /\ then.n = c.n
    BY <1>2
  <2>3. then \in ScaleContext
    BY <1>2, <2>1 DEF ScaleContext
  <2>4. TargetsNamed(then)
    BY <2>1, <2>2 DEF TargetsNamed
  <2>5. PlanSafe(then)
    BY <2>1, <2>2 DEF PlanSafe, SurgeLimit
  <2> QED
    BY <2>3, <2>4, <2>5
<1>3. ASSUME ScaleChoices(d, cur, view) = {}, d.strategy.recreate,
             then = [pc |-> "list", d |-> d, cur |-> cur]
      PROVE  /\ then \in ListContext
             /\ TargetsNamed(then)
             /\ PlanSafe(then)
  <2>1. RecreateScaleDowns(cur, view) = {}
    BY <1>3 DEF ScaleChoices
  <2>2. Alone(cur)
    <3>1. ASSUME NEW t \in Structures \ {cur}, rs[t].replicas > 0
          PROVE  [rs |-> t, n |-> 0] \in RecreateScaleDowns(cur, view)
      BY <3>1 DEF RecreateScaleDowns, SpecStands
    <3>2. \A t \in Structures : rs[t].replicas \in Nat
      BY DEF ReplicaSet
    <3> QED
      BY <2>1, <3>1, <3>2 DEF Alone
  <2>3. then.pc = "list" /\ then.d = d /\ then.cur = cur
    BY <1>3
  <2> QED
    BY <1>3, <2>2, <2>3 DEF ListContext, TargetsNamed, PlanSafe
<1> QED
  BY <1>1, <1>2, <1>3 DEF RolloutChoices
-----------------------------------------------------------------------------
\* The status patch leaves the spec alone, and the reconcile goes on with the
\* spec the API server has by then.
LEMMA StatusWrite ==
    ASSUME deploy \in Deployment, dcache \in Deployment, dctx \in DContext, DStatus
    PROVE  /\ deploy' \in Deployment /\ dcache' \in Deployment
           /\ deploy'.gen = deploy.gen /\ deploy'.structure = deploy.structure
           /\ deploy'.rev = deploy.rev /\ deploy'.strategy = deploy.strategy
           /\ deploy'.replicas = deploy.replicas /\ deploy'.paused = deploy.paused
           /\ deploy'.status.gen \in {deploy.status.gen, dctx.d.gen}
           /\ \E d \in Deployment :
                 /\ d.gen = deploy.gen /\ d.structure = deploy.structure /\ d.rev = deploy.rev
                 /\ d.strategy = deploy.strategy /\ d.replicas = deploy.replicas
                 /\ deploy.paused => d.paused
                 /\ dctx' \in RolloutChoices(d, dctx.cur, dctx.view)
<1> DEFINE new    == NewStatus(dctx.d, dctx.cur, dctx.view)
           merged == MergePatch(dctx.d.status, new, deploy.status)
<1>1. /\ dctx.pc = "status" /\ DeploymentWritten
      /\ \E d \in Refreshed(dctx.d, deploy') : dctx' \in RolloutChoices(d, dctx.cur, dctx.view)
  BY DEF DStatus
<1>2. PICK reason \in {merged.reason, new.reason} :
         deploy' = [deploy EXCEPT !.status = [gen |-> merged.gen, reason |-> reason]]
  BY DEF DStatus
<1>3. dctx.d \in Deployment
  BY <1>1, DContextKinds
<1>4. new \in DeploymentStatus /\ new.gen = dctx.d.gen
  BY <1>3 DEF NewStatus, ProgressingReason, Deployment, DeploymentStatus, Reasons
<1> HIDE DEF new
<1>5. merged \in DeploymentStatus /\ merged.gen \in {deploy.status.gen, dctx.d.gen}
  BY <1>3, <1>4 DEF MergePatch, Deployment, DeploymentStatus
<1> HIDE DEF merged
<1>6. [gen |-> merged.gen, reason |-> reason] \in DeploymentStatus
  BY <1>4, <1>5 DEF DeploymentStatus
<1>7. deploy' \in Deployment
  BY <1>2, <1>6 DEF Deployment
<1>8. dcache' \in Deployment
  BY <1>1, <1>7 DEF DeploymentWritten
<1>9. /\ deploy'.gen = deploy.gen /\ deploy'.structure = deploy.structure
      /\ deploy'.rev = deploy.rev /\ deploy'.strategy = deploy.strategy
      /\ deploy'.replicas = deploy.replicas /\ deploy'.paused = deploy.paused
      /\ deploy'.status.gen = merged.gen
  BY <1>2 DEF Deployment
<1>10. PICK d \in Refreshed(dctx.d, deploy') : dctx' \in RolloutChoices(d, dctx.cur, dctx.view)
  BY <1>1
<1>11. dctx.d.paused \in BOOLEAN /\ deploy'.paused \in BOOLEAN
  BY <1>3, <1>7 DEF Deployment
<1>12. /\ d \in Deployment /\ d.gen = deploy'.gen /\ d.structure = deploy'.structure
       /\ d.rev = deploy'.rev
       /\ d.strategy = deploy'.strategy /\ d.replicas = deploy'.replicas
       /\ deploy'.paused => d.paused
  <2>1. CASE d = deploy'
    BY <1>7, <2>1
  <2>2. CASE d = [deploy' EXCEPT !.paused = deploy'.paused \/ dctx.d.paused]
    <3>1. (deploy'.paused \/ dctx.d.paused) \in BOOLEAN
      BY <1>11
    <3> QED
      BY <1>7, <2>2, <3>1 DEF Deployment
  <2> QED
    BY <1>7, <1>10, <2>1, <2>2 DEF Refreshed, Deployment
<1> QED
  BY <1>5, <1>7, <1>8, <1>9, <1>10, <1>12

\* Every call of the Deployment controller preserves the types.
LEMMA TypeDeployment ==
    ASSUME TypeInv, DWork \/ DFail, UNCHANGED rctx
    PROVE  TypeInv'
<1> USE DEF TypeInv, TypeOK, ClusterTypeOK, DeploymentTypeOK
<1>1. ReplicaSetTypeOK' /\ SourceNamed'
  BY DEF ReplicaSetTypeOK, SourceNamed
<1>2. ASSUME UNCHANGED <<rs, rscache>>
      PROVE  Named'
  BY <1>2 DEF Named, HasRevision
<1>3. ASSUME dctx' = DIdle
      PROVE  dctx' \in DContext /\ TargetsNamed(dctx)' /\ ViewStands'
  BY <1>3 DEF DContext, TargetsNamed, ViewStands, DIdle
<1>4. CASE DRead
  <2>1. UNCHANGED clusterVars
    BY <1>4 DEF DRead
  <2>2. CASE DReadCreate
    <3>1. dctx' = [pc |-> "create", d |-> dcache]
      BY <2>2 DEF DReadCreate
    <3>2. dctx' \in DContext
      BY <3>1 DEF DContext
    <3>3. TargetsNamed(dctx)' /\ ViewStands'
      BY <3>1 DEF TargetsNamed, ViewStands
    <3> QED
      BY <1>1, <1>2, <2>1, <3>2, <3>3 DEF clusterVars
  <2>3. ASSUME NEW cur \in CurrentChoices(dcache)
        PROVE  cur \in Structures /\ rs[cur].rev \in Revisions
    BY <2>3 DEF CurrentChoices, Existing, Named, HasRevision
  <2>4. ASSUME NEW cur \in CurrentChoices(dcache), DReadSync(cur)
        PROVE  TypeInv'
    <3>1. dctx' = [pc |-> "sync", d |-> dcache, cur |-> cur, par |-> Parallelism(dcache, rs)]
      BY <2>4 DEF DReadSync
    <3>2. dctx' \in DContext
      BY <2>3, <3>1, BudgetType DEF DContext
    <3>3. TargetsNamed(dctx)' /\ ViewStands'
      BY <2>1, <2>3, <3>1 DEF TargetsNamed, ViewStands, clusterVars
    <3> QED
      BY <1>1, <1>2, <2>1, <3>2, <3>3 DEF clusterVars
  <2>5. ASSUME NEW cur \in CurrentChoices(dcache), DReadStatus(cur)
        PROVE  TypeInv'
    <3>1. dctx' = [pc |-> "status", d |-> dcache, cur |-> cur, view |-> rs]
      BY <2>5 DEF DReadStatus
    <3>2. dctx' \in DContext
      BY <2>3, <3>1 DEF DContext
    <3>3. TargetsNamed(dctx)' /\ ViewStands'
      BY <2>1, <2>3, <3>1 DEF TargetsNamed, ViewStands, SpecStands, clusterVars
    <3> QED
      BY <1>1, <1>2, <2>1, <3>2, <3>3 DEF clusterVars
  <2>6. ASSUME NEW cur \in CurrentChoices(dcache), DReadRollout(cur)
        PROVE  TypeInv'
    <3>1. dctx' \in RolloutChoices(dcache, cur, rs)
      BY <2>6 DEF DReadRollout
    <3>2. dctx' \in {DIdle} \cup ListContext \cup ScaleContext /\ TargetsNamed(dctx')
      BY <2>3, <3>1, RolloutChoicesSafe DEF SpecStands
    <3>3. dctx' \in DContext
      BY <3>2 DEF DContext
    <3>4. TargetsNamed(dctx)' /\ ViewStands'
      BY <2>1, <3>2 DEF TargetsNamed, ViewStands, clusterVars, DIdle, ListContext, ScaleContext
    <3> QED
      BY <1>1, <1>2, <2>1, <3>3, <3>4 DEF clusterVars
  <2> QED
    BY <1>4, <2>2, <2>4, <2>5, <2>6 DEF DRead
<1>5. CASE DCreate
  <2> DEFINE new(b) == [NoReplicaSet EXCEPT !.gen = 1, !.rev = dctx.d.rev, !.born = b]
  <2>1. PICK b \in CreationSeconds : rs' = [rs EXCEPT ![dctx.d.structure] = new(b)]
    BY <1>5 DEF DCreate
  <2>2. /\ dctx' = DIdle
        /\ UNCHANGED <<deploy, dcache, rscache, pods, faults>>
    BY <1>5 DEF DCreate
  <2>3. dctx.d.rev \in Revisions
    BY <1>5, DContextKinds DEF DCreate, Deployment
  <2>4. b \in Nat
    BY StructuresAssumption, FS_CardinalityType DEF CreationSeconds
  <2>5. NoReplicaSet \in ReplicaSet
    BY NoReplicaSetType
  <2>6. new(b) \in ReplicaSet /\ new(b).rev = dctx.d.rev
    BY <2>3, <2>4, <2>5 DEF ReplicaSet
  <2> HIDE DEF new
  <2>7. rs' \in [Structures -> ReplicaSet]
    BY <2>1, <2>6
  <2>8. Named'
    BY <2>1, <2>2, <2>3, <2>6 DEF Named, HasRevision
  <2> QED
    BY <1>1, <1>3, <2>2, <2>7, <2>8
<1>6. CASE DSync
  <2> DEFINE cur == dctx.cur
             rev == SyncedRevision(dctx.d, cur)
             gen == IF rev = rs[cur].rev THEN rs[cur].gen ELSE rs[cur].gen + 1
  <2>1. rs' = [rs EXCEPT ![cur] =
                  [rs[cur] EXCEPT !.rev = rev, !.par = dctx.par, !.gen = gen]]
    BY <1>6 DEF DSync
  <2>2. /\ dctx' = DIdle
        /\ UNCHANGED <<deploy, dcache, rscache, pods, faults>>
    BY <1>6 DEF DSync
  <2>3. dctx.d \in Deployment /\ cur \in Structures /\ dctx.par \in Nat
    BY <1>6, DContextKinds DEF DSync
  <2>4. rs[cur].rev \in Revisions
    BY <1>6 DEF DSync, TargetsNamed
  <2>5. rev \in Revisions
    BY <2>3, <2>4 DEF SyncedRevision, Deployment
  <2>6. gen \in Nat
    BY <2>3 DEF ReplicaSet
  <2> HIDE DEF cur, rev, gen
  <2>7. rs' \in [Structures -> ReplicaSet]
    BY <2>1, <2>3, <2>5, <2>6 DEF ReplicaSet
  <2>8. Named'
    BY <2>1, <2>2, <2>3, <2>5 DEF Named, HasRevision
  <2> QED
    BY <1>1, <1>3, <2>2, <2>7, <2>8
<1>7. CASE DStatus
  <2>1. dctx.pc = "status" /\ UNCHANGED <<rs, rscache, pods, faults>>
    BY <1>7 DEF DStatus
  <2>2. deploy' \in Deployment /\ dcache' \in Deployment
    BY <1>7, StatusWrite
  <2>3. PICK d \in Deployment : dctx' \in RolloutChoices(d, dctx.cur, dctx.view)
    BY <1>7, StatusWrite
  <2>4. /\ dctx.cur \in Structures /\ dctx.view \in [Structures -> ReplicaSet]
        /\ rs[dctx.cur].rev \in Revisions /\ SpecStands(dctx.view)
    BY <2>1, DContextKinds DEF TargetsNamed, ViewStands
  <2>5. dctx' \in {DIdle} \cup ListContext \cup ScaleContext /\ TargetsNamed(dctx')
    BY <2>3, <2>4, RolloutChoicesSafe
  <2>6. dctx' \in DContext
    BY <2>5 DEF DContext
  <2>7. TargetsNamed(dctx)' /\ ViewStands'
    BY <2>1, <2>5 DEF TargetsNamed, ViewStands, DIdle, ListContext, ScaleContext
  <2> QED
    BY <1>1, <1>2, <2>1, <2>2, <2>6, <2>7
<1>8. CASE DListPods
  <2> DEFINE scale == [pc |-> "scale", d |-> dctx.d, cur |-> dctx.cur,
                       rs |-> dctx.cur, n |-> dctx.d.replicas]
  <2>1. /\ dctx.pc = "list"
        /\ dctx' = DIdle \/ dctx' = scale
        /\ UNCHANGED clusterVars
    BY <1>8 DEF DListPods
  <2>2. CASE dctx' = DIdle
    BY <1>1, <1>2, <1>3, <2>1, <2>2 DEF clusterVars
  <2>3. CASE dctx' = scale
    <3>1. dctx.d \in Deployment /\ dctx.cur \in Structures
      BY <2>1, DContextKinds DEF ListContext
    <3>2. dctx.d.replicas \in Nat
      BY <3>1, DeploymentFields
    <3>3. dctx' \in DContext
      BY <2>3, <3>1, <3>2 DEF DContext, ScaleContext
    <3>4. rs[dctx.cur].rev \in Revisions
      BY <2>1 DEF TargetsNamed
    <3>5. TargetsNamed(dctx)' /\ ViewStands'
      BY <2>1, <2>3, <3>4 DEF TargetsNamed, ViewStands, clusterVars
    <3> QED
      BY <1>1, <1>2, <2>1, <3>3, <3>5 DEF clusterVars
  <2> QED
    BY <2>1, <2>2, <2>3
<1>9. CASE DScale
  <2> DEFINE t == dctx.rs
             new == [rs[t] EXCEPT !.replicas = dctx.n, !.gen = rs[t].gen + 1]
  <2>1. rs' = [rs EXCEPT ![t] = new]
    BY <1>9, DContextKinds DEF DScale, ScaleContext
  <2>2. /\ dctx' = DIdle
        /\ UNCHANGED <<deploy, dcache, rscache, pods, faults>>
    BY <1>9 DEF DScale
  <2>3. t \in Structures /\ dctx.n \in Nat
    BY <1>9, DContextKinds DEF DScale, ScaleContext
  <2>4. rs[t].rev \in Revisions
    BY <1>9 DEF DScale, TargetsNamed
  <2> HIDE DEF t
  <2>5. new \in ReplicaSet /\ new.rev = rs[t].rev
    <3>1. rs[t] \in ReplicaSet /\ rs[t].gen + 1 \in Nat
      BY <2>3 DEF ReplicaSet
    <3> QED
      BY <2>3, <3>1 DEF ReplicaSet
  <2> HIDE DEF new
  <2>6. rs' \in [Structures -> ReplicaSet]
    BY <2>1, <2>5
  <2>7. Named'
    BY <2>1, <2>2, <2>3, <2>4, <2>5 DEF Named, HasRevision
  <2> QED
    BY <1>1, <1>3, <2>2, <2>6, <2>7
<1>10. CASE DFail
  <2>1. /\ dctx' = DIdle
        /\ UNCHANGED <<deploy, dcache, rs, rscache, pods>>
    BY <1>10 DEF DFail
  <2>2. faults' \in 0..MaxFaults
    BY <1>10, BoundsAssumption DEF DFail, Fault
  <2> QED
    BY <1>1, <1>2, <1>3, <2>1, <2>2
<1> QED
  BY <1>4, <1>5, <1>6, <1>7, <1>8, <1>9, <1>10 DEF DWork
-----------------------------------------------------------------------------
\* Every call of the ReplicaSet controller preserves the types.
LEMMA TypeReplicaSet ==
    ASSUME TypeInv, (\E s \in Structures : RRead(s)) \/ RStep \/ RFail,
           UNCHANGED dctx
    PROVE  TypeInv'
<1> USE DEF TypeInv, TypeOK, ClusterTypeOK, ReplicaSetTypeOK
<1>1. DeploymentTypeOK'
  BY DEF DeploymentTypeOK
<1>2. ASSUME UNCHANGED <<rs, rscache>>
      PROVE  Named' /\ TargetsNamed(dctx)' /\ ViewStands'
  BY <1>2 DEF Named, HasRevision, TargetsNamed, ViewStands, SpecStands
<1>3. ASSUME rctx' = RIdle
      PROVE  rctx' \in RContext /\ SourceNamed'
  BY <1>3 DEF RContext, SourceNamed, RIdle
<1>4. ASSUME NEW s \in Structures, RRead(s)
      PROVE  TypeInv'
  <2> DEFINE obj    == CachedReplicaSet(s)
             active == ActivePods(s)
             count  == Cardinality(active)
             seen   == [p \in active |-> pods[p]]
  <2>1. UNCHANGED clusterVars
    BY <1>4 DEF RRead
  <2>2. obj \in ReplicaSet /\ obj.replicas \in Nat /\ obj.rev \in Revisions
    BY <1>4 DEF RRead, CachedReplicaSet, Named, HasRevision, ReplicaSet
  <2>3. active \in SUBSET PodIds /\ PodsIn("Terminating", s) \in SUBSET PodIds
    BY DEF ActivePods, PodsIn
  <2>4. count \in Nat /\ Cardinality(PodsIn("Terminating", s)) \in Nat
    BY <2>3, PodsCount
  <2>5. seen \in [active -> Pod]
    BY DEF ActivePods, PodsIn
  <2>6. InFlight(seen, obj.rev) \in Nat
    <3>1. {p \in DOMAIN seen : /\ SpecMatches(seen[p], obj.rev)
                              /\ ~ReadyAndObserved(seen[p], obj.rev)} \in SUBSET PodIds
      BY <2>3
    <3> QED
      BY <3>1, PodsCount DEF InFlight
  <2>7. CASE /\ count < obj.replicas
             /\ rctx' = [pc |-> "create", s |-> s, obj |-> obj,
                         n |-> Min2(obj.replicas - count, BurstReplicas)]
    <3> HIDE DEF obj, active, count
    <3>1. Min2(obj.replicas - count, BurstReplicas) \in Nat \ {0}
      BY <2>2, <2>4, <2>7, BurstAssumption DEF Min2
    <3>2. rctx' \in RContext
      BY <2>2, <2>7, <3>1 DEF RContext
    <3>3. SourceNamed'
      BY <2>2, <2>7, <3>1 DEF SourceNamed
    <3> QED
      BY <1>1, <1>2, <2>1, <3>2, <3>3 DEF clusterVars
  <2>8. CASE \E V \in SUBSET active : rctx' = [pc |-> "delete", s |-> s, victims |-> V]
    <3> HIDE DEF active
    <3>1. rctx' \in RContext
      BY <2>3, <2>8 DEF RContext
    <3>2. SourceNamed'
      BY <2>8 DEF SourceNamed
    <3> QED
      BY <1>1, <1>2, <2>1, <3>1, <3>2 DEF clusterVars
  <2>9. CASE rctx' = [pc |-> "update", s |-> s, obj |-> obj, seen |-> seen,
                      terminating |-> Cardinality(PodsIn("Terminating", s)),
                      inFlight |-> InFlight(seen, obj.rev)]
    <3> HIDE DEF obj, active, seen
    <3>1. seen \in UNION {[D -> Pod] : D \in SUBSET PodIds}
      BY <2>3, <2>5
    <3>2. rctx' \in RContext
      BY <2>2, <2>4, <2>6, <2>9, <3>1 DEF RContext
    <3>3. SourceNamed'
      BY <2>2, <2>9 DEF SourceNamed
    <3> QED
      BY <1>1, <1>2, <2>1, <3>2, <3>3 DEF clusterVars
  <2> QED
    BY <1>4, <2>7, <2>8, <2>9 DEF RRead, DeletionChoices
<1>5. CASE RCreatePod
  <2>1. PICK p \in PodIds \ DOMAIN pods :
           pods' = [q \in DOMAIN pods \cup {p} |->
                       IF q = p THEN NewPod(rctx.s, rctx.obj.rev) ELSE pods[q]]
    BY <1>5 DEF RCreatePod
  <2>2. /\ rctx.pc = "create"
        /\ rctx' = IF rctx.n = 1 THEN RIdle ELSE [rctx EXCEPT !.n = @ - 1]
        /\ UNCHANGED <<deploy, dcache, rs, rscache, faults>>
    BY <1>5 DEF RCreatePod
  <2>3. rctx \in [pc: {"create"}, s: Structures, obj: ReplicaSet, n: Nat]
    BY <2>2, RContextKinds
  <2>4. rctx.obj.rev \in Revisions /\ rctx.n > 0
    BY <2>2 DEF SourceNamed
  <2>5. NewPod(rctx.s, rctx.obj.rev) \in Pod
    BY <2>3, <2>4, ImagesAssumption DEF NewPod, Pod
  <2>6. DOMAIN pods' \subseteq PodIds /\ \A q \in DOMAIN pods' : pods'[q] \in Pod
    BY <2>1, <2>5
  <2>7. rctx' \in RContext /\ SourceNamed'
    <3>1. CASE rctx.n = 1
      BY <1>3, <2>2, <3>1
    <3>2. CASE rctx.n # 1
      <4>1. rctx' = [rctx EXCEPT !.n = rctx.n - 1]
        BY <2>2, <2>3, <3>2
      <4>2. rctx.n - 1 \in Nat /\ rctx.n - 1 > 0
        BY <2>3, <2>4, <3>2
      <4>3. rctx' \in [pc: {"create"}, s: Structures, obj: ReplicaSet, n: Nat]
        BY <2>3, <4>1, <4>2
      <4>4. rctx'.obj = rctx.obj /\ rctx'.n = rctx.n - 1
        BY <2>3, <4>1
      <4> QED
        BY <2>4, <4>2, <4>3, <4>4 DEF RContext, SourceNamed
    <3> QED
      BY <3>1, <3>2
  <2> QED
    BY <1>1, <1>2, <2>2, <2>6, <2>7
<1>6. CASE RDeletePod
  <2>1. PICK p \in rctx.victims :
          /\ pods' = IF p \in DOMAIN pods /\ pods[p].phase = "Active"
                     THEN [pods EXCEPT ![p].phase = "Terminating"] ELSE pods
          /\ rctx' = IF rctx.victims = {p} THEN RIdle
                     ELSE [rctx EXCEPT !.victims = @ \ {p}]
    BY <1>6 DEF RDeletePod
  <2>2. rctx.pc = "delete" /\ UNCHANGED <<deploy, dcache, rs, rscache, faults>>
    BY <1>6 DEF RDeletePod
  <2>3. rctx \in [pc: {"delete"}, s: Structures, victims: SUBSET PodIds]
    BY <2>2, RContextKinds
  <2>4. DOMAIN pods' \subseteq PodIds /\ \A q \in DOMAIN pods' : pods'[q] \in Pod
    BY <2>1 DEF Pod
  <2>5. CASE rctx.victims = {p}
    BY <1>1, <1>2, <1>3, <2>1, <2>2, <2>4, <2>5
  <2>6. CASE rctx.victims # {p}
    <3>1. rctx' \in [pc: {"delete"}, s: Structures, victims: SUBSET PodIds]
      BY <2>1, <2>3, <2>6
    <3> QED
      BY <1>1, <1>2, <2>2, <2>4, <3>1 DEF RContext, SourceNamed
  <2> QED
    BY <2>5, <2>6
<1>7. CASE RPatchPod
  <2>1. rctx.pc = "update" /\ UNCHANGED <<deploy, dcache, rs, rscache, faults>>
    BY <1>7 DEF RPatchPod
  <2>2. rctx \in [pc: {"update"}, s: Structures, obj: ReplicaSet,
                  seen: UNION {[D -> Pod] : D \in SUBSET PodIds},
                  terminating: Nat, inFlight: Nat]
    BY <2>1, RContextKinds
  <2>3. rctx.obj.rev \in Revisions
    BY <2>1 DEF SourceNamed
  <2>4. PICK p \in PatchCandidates(rctx) :
          \/ /\ p \in DOMAIN pods
             /\ pods' = [pods EXCEPT ![p].rev = rctx.obj.rev]
             /\ rctx' = [rctx EXCEPT !.seen[p] = pods'[p], !.inFlight = @ + 1]
          \/ rctx' = RIdle /\ UNCHANGED pods
    BY <1>7 DEF RPatchPod
  <2>5. CASE rctx' = RIdle /\ UNCHANGED pods
    BY <1>1, <1>2, <1>3, <2>1, <2>5
  <2>6. CASE /\ p \in DOMAIN pods
             /\ pods' = [pods EXCEPT ![p].rev = rctx.obj.rev]
             /\ rctx' = [rctx EXCEPT !.seen[p] = pods'[p], !.inFlight = @ + 1]
    <3>1. DOMAIN pods' \subseteq PodIds /\ \A q \in DOMAIN pods' : pods'[q] \in Pod
      BY <2>3, <2>6 DEF Pod
    <3>2. pods'[p] \in Pod
      BY <2>6, <3>1
    <3>3. PICK D \in SUBSET PodIds : rctx.seen \in [D -> Pod]
      BY <2>2
    <3>4. [rctx.seen EXCEPT ![p] = pods'[p]] \in [D -> Pod]
      BY <3>2, <3>3
    <3>5. rctx.inFlight + 1 \in Nat
      BY <2>2
    <3>6. rctx' = [rctx EXCEPT !.seen = [rctx.seen EXCEPT ![p] = pods'[p]],
                               !.inFlight = rctx.inFlight + 1]
      BY <2>2, <2>6
    <3>7. rctx' \in [pc: {"update"}, s: Structures, obj: ReplicaSet,
                     seen: UNION {[E -> Pod] : E \in SUBSET PodIds},
                     terminating: Nat, inFlight: Nat]
      BY <2>2, <3>4, <3>5, <3>6
    <3>8. rctx'.obj = rctx.obj /\ rctx'.pc = "update"
      BY <2>1, <2>2, <3>6
    <3> QED
      BY <1>1, <1>2, <2>1, <2>3, <3>1, <3>7, <3>8 DEF RContext, SourceNamed
  <2> QED
    BY <2>4, <2>5, <2>6
<1>8. CASE RPatchStatus
  <2> DEFINE t   == rctx.s
             new == MergePatch(rctx.obj.status, CalculatedStatus(rctx), rs[t].status)
  <2>1. /\ rctx.pc = "update" /\ rctx' = RIdle
        /\ UNCHANGED <<deploy, dcache, rscache, pods, faults>>
    BY <1>8 DEF RPatchStatus
  <2>2. t \in Structures /\ rctx.obj.status \in RSStatus /\ rs[t].status \in RSStatus
    BY <2>1, RContextKinds DEF ReplicaSet
  <2>3. rs' = [rs EXCEPT ![t] = [rs[t] EXCEPT !.status = new]]
    BY <1>8, <2>2 DEF RPatchStatus
  <2>4. new \in RSStatus
    BY <2>1, <2>2, CalculatedType, MergeType
  <2> HIDE DEF new, t
  <2>5. rs' \in [Structures -> ReplicaSet]
    BY <2>2, <2>3, <2>4 DEF ReplicaSet
  <2>6. \A s \in Structures : /\ rs'[s].rev = rs[s].rev /\ rs'[s].gen = rs[s].gen
                             /\ rs'[s].replicas = rs[s].replicas
    BY <2>2, <2>3 DEF ReplicaSet
  <2>7. Named'
    BY <2>1, <2>6 DEF Named, HasRevision
  <2>8. TargetsNamed(dctx)'
    <3>1. /\ dctx.pc \in {"sync", "status", "list", "scale"} => dctx.cur \in Structures
          /\ dctx.pc = "scale" => dctx.rs \in Structures
      BY DContextKinds DEF ListContext, ScaleContext, DeploymentTypeOK
    <3> QED
      BY <2>6, <3>1 DEF TargetsNamed
  <2>9. ViewStands'
    BY <2>6 DEF ViewStands, SpecStands
  <2> QED
    BY <1>1, <1>3, <2>1, <2>5, <2>7, <2>8, <2>9
<1>9. CASE RFail
  <2>1. rctx' = RIdle /\ UNCHANGED <<deploy, dcache, rs, rscache, pods>>
    BY <1>9 DEF RFail
  <2>2. faults' \in 0..MaxFaults
    BY <1>9, BoundsAssumption DEF RFail, Fault
  <2> QED
    BY <1>1, <1>2, <1>3, <2>1, <2>2
<1> QED
  BY <1>4, <1>5, <1>6, <1>7, <1>8, <1>9 DEF RStep
\* Every step of the system preserves the types.
LEMMA TypeStep == TypeInv /\ [Next]_vars => TypeInv'
<1> SUFFICES ASSUME TypeInv, [Next]_vars
             PROVE  TypeInv'
  OBVIOUS
<1>1. CASE UNCHANGED vars
  BY <1>1 DEF vars, TypeInv, TypeOK, ClusterTypeOK, DeploymentTypeOK, ReplicaSetTypeOK,
              Named, HasRevision, TargetsNamed, ViewStands, SpecStands, SourceNamed
<1> QED
  BY <1>1, TypeCluster, TypeDeployment, TypeReplicaSet DEF Next

\* The type invariant holds from the first reconcile on, and from a rolled-out
\* Deployment on.
LEMMA TypeInvariant == Spec \/ SteadySpec => []TypeInv
  BY TypeInit, SteadyTypeInit, TypeStep, PTL DEF Spec, SteadySpec

\* No edit, fault, stale read or interleaving makes a controller write a
\* negative replica count or budget, create a Pod without a revision or act on
\* a ReplicaSet that does not exist.
THEOREM TypeCorrect == Spec \/ SteadySpec => []TypeOK
<1>1. TypeInv => TypeOK
  BY DEF TypeInv
<1> QED
  BY <1>1, TypeInvariant, PTL

-----------------------------------------------------------------------------
(***************************************************************************)
(* The plan of a reconcile stays safe until it is carried out: only the    *)
(* Deployment controller changes replica counts, one write ends its        *)
(* reconcile, and it has one worker.                                       *)
(***************************************************************************)
\* Neither starting point has a plan.
LEMMA PlanInit == Init \/ SteadyInit => PlanSafe(dctx)
  BY DEF Init, SteadyInit, DeploymentInit, PlanSafe, DIdle

\* A plan is safe as long as the replica counts stay what they were.
LEMMA PlanFrame ==
    ASSUME PlanSafe(dctx), dctx \in DContext, dctx' = dctx,
           \A s \in Structures : rs'[s].replicas = rs[s].replicas
    PROVE  PlanSafe(dctx)'
<1>1. dctx.pc = "list" => dctx.cur \in Structures
  BY DContextKinds DEF ListContext
<1>2. dctx.pc = "scale" => dctx.rs \in Structures
  BY DContextKinds DEF ScaleContext
<1>3. \A s \in Structures : Alone(s) => Alone(s)'
  BY DEF Alone
<1>4. \A s \in Structures : TotalOldReplicas(s, rs') = TotalOldReplicas(s, rs)
  <2> SUFFICES ASSUME NEW s \in Structures
               PROVE  TotalOldReplicas(s, rs') = TotalOldReplicas(s, rs)
    OBVIOUS
  <2> DEFINE f == [t \in Structures |-> rs[t].replicas]
             g == [t \in Structures |-> rs'[t].replicas]
  <2>1. \A t \in Structures \ {s} : g[t] = f[t]
    OBVIOUS
  <2> HIDE DEF f, g
  <2>2. Total(g, Structures \ {s}) = Total(f, Structures \ {s})
    BY <2>1, TotalSame
  <2> QED
    BY <2>2 DEF TotalOldReplicas, f, g
<1> QED
  BY <1>1, <1>2, <1>3, <1>4 DEF PlanSafe, SurgeLimit, Limits

\* What is not a Deployment reconcile changes no replica count.
LEMMA OthersKeepReplicas ==
    ASSUME TypeInv,
           \/ ClusterNext
           \/ (\E s \in Structures : RRead(s)) \/ RStep \/ RFail
    PROVE  \A s \in Structures : rs'[s].replicas = rs[s].replicas
<1>1. CASE ClusterNext
  BY <1>1 DEF ClusterNext, UserEdit, RefreshDeployment, RefreshReplicaSet, Kubelet,
              KubeletRestart, KubeletReady, PodGone, Evict
<1>2. CASE (\E s \in Structures : RRead(s)) \/ RCreatePod \/ RDeletePod \/ RPatchPod \/ RFail
  BY <1>2 DEF RRead, RCreatePod, RDeletePod, RPatchPod, RFail, clusterVars
<1>3. CASE RPatchStatus
  <2> DEFINE new == MergePatch(rctx.obj.status, CalculatedStatus(rctx), rs[rctx.s].status)
  <2>1. rs \in [Structures -> ReplicaSet]
    BY DEF TypeInv, TypeOK, ClusterTypeOK
  <2>2. rctx.s \in Structures
    BY <1>3, RContextKinds DEF RPatchStatus, TypeInv, TypeOK, ReplicaSetTypeOK
  <2>3. rs' = [rs EXCEPT ![rctx.s] = [rs[rctx.s] EXCEPT !.status = new]]
    BY <1>3, <2>1, <2>2 DEF RPatchStatus
  <2> HIDE DEF new
  <2> QED
    BY <2>1, <2>2, <2>3 DEF ReplicaSet
<1> QED
  BY <1>1, <1>2, <1>3 DEF RStep

\* Every step leaves the plan safe.
LEMMA PlanStep == TypeInv /\ PlanSafe(dctx) /\ [Next]_vars => PlanSafe(dctx)'
<1> SUFFICES ASSUME TypeInv, PlanSafe(dctx), [Next]_vars
             PROVE  PlanSafe(dctx)'
  OBVIOUS
<1>1. /\ rs \in [Structures -> ReplicaSet] /\ Named
      /\ deploy \in Deployment /\ dcache \in Deployment /\ dctx \in DContext
  BY DEF TypeInv, TypeOK, ClusterTypeOK, DeploymentTypeOK
<1>2. ASSUME dctx' = DIdle
      PROVE  PlanSafe(dctx)'
  BY <1>2 DEF PlanSafe, DIdle
<1>3. ASSUME UNCHANGED dctx, \A s \in Structures : rs'[s].replicas = rs[s].replicas
      PROVE  PlanSafe(dctx)'
  BY <1>1, <1>3, PlanFrame
<1>4. CASE UNCHANGED vars
  BY <1>3, <1>4 DEF vars
<1>5. CASE ClusterNext /\ UNCHANGED <<dctx, rctx>>
  BY <1>3, <1>5, OthersKeepReplicas
<1>6. CASE /\ (\E s \in Structures : RRead(s)) \/ RStep \/ RFail
           /\ UNCHANGED dctx
  BY <1>3, <1>6, OthersKeepReplicas
<1>7. CASE DRead
  <2>1. rs' = rs
    BY <1>7 DEF DRead, clusterVars
  <2>2. CASE DReadCreate
    <3>1. dctx'.pc = "create"
      BY <2>2 DEF DReadCreate
    <3> QED
      BY <3>1 DEF PlanSafe
  <2>3. ASSUME NEW cur \in CurrentChoices(dcache), DReadSync(cur)
        PROVE  PlanSafe(dctx)'
    <3>1. dctx'.pc = "sync"
      BY <2>3 DEF DReadSync
    <3> QED
      BY <3>1 DEF PlanSafe
  <2>4. ASSUME NEW cur \in CurrentChoices(dcache), DReadStatus(cur)
        PROVE  PlanSafe(dctx)'
    <3>1. dctx'.pc = "status"
      BY <2>4 DEF DReadStatus
    <3> QED
      BY <3>1 DEF PlanSafe
  <2>5. ASSUME NEW cur \in CurrentChoices(dcache), DReadRollout(cur)
        PROVE  PlanSafe(dctx)'
    <3>1. cur \in Structures /\ rs[cur].rev \in Revisions
      BY <1>1 DEF CurrentChoices, Existing, Named, HasRevision
    <3>2. dctx' \in RolloutChoices(dcache, cur, rs)
      BY <2>5 DEF DReadRollout
    <3>3. PlanSafe(dctx')
      BY <1>1, <3>1, <3>2, RolloutChoicesSafe DEF SpecStands
    <3> QED
      BY <2>1, <3>3 DEF PlanSafe, Alone, SurgeLimit, Limits
  <2> QED
    BY <1>7, <2>2, <2>3, <2>4, <2>5 DEF DRead
<1>8. CASE DStatus
  <2>1. dctx.pc = "status" /\ rs' = rs
    BY <1>8 DEF DStatus
  <2>2. PICK d \in Deployment : dctx' \in RolloutChoices(d, dctx.cur, dctx.view)
    BY <1>1, <1>8, StatusWrite
  <2>3. /\ dctx.cur \in Structures /\ dctx.view \in [Structures -> ReplicaSet]
        /\ rs[dctx.cur].rev \in Revisions /\ SpecStands(dctx.view)
    BY <1>1, <2>1, DContextKinds DEF TypeInv, TargetsNamed, ViewStands
  <2>4. PlanSafe(dctx')
    BY <1>1, <2>2, <2>3, RolloutChoicesSafe
  <2> QED
    BY <2>1, <2>4 DEF PlanSafe, Alone, SurgeLimit, Limits
<1>9. CASE DListPods
  <2> DEFINE n == dctx.d.replicas
             scale == [pc |-> "scale", d |-> dctx.d, cur |-> dctx.cur,
                       rs |-> dctx.cur, n |-> n]
  <2>1. /\ dctx.pc = "list" /\ rs' = rs
        /\ dctx' = DIdle \/ dctx' = scale
    BY <1>9 DEF DListPods, clusterVars
  <2>2. CASE dctx' = scale
    <3>1. dctx.d.strategy.recreate /\ Alone(dctx.cur)
      BY <2>1 DEF PlanSafe
    <3>2. n \in Nat
      BY <1>1, <2>1, DContextKinds, DeploymentFields DEF ListContext
    <3>3. TotalOldReplicas(dctx.cur, rs) = 0
      <4> DEFINE f == [t \in Structures |-> rs[t].replicas]
      <4>1. \A t \in Structures \ {dctx.cur} : f[t] = 0
        BY <3>1 DEF Alone
      <4> HIDE DEF f
      <4>2. Total(f, Structures \ {dctx.cur}) = 0
        BY <4>1, ZeroTotal
      <4> QED
        BY <4>2 DEF TotalOldReplicas, f
    <3>4. PlanSafe(scale)
      <4>1. n + TotalOldReplicas(dctx.cur, rs) <= SurgeLimit(dctx.d)
        BY <3>1, <3>2, <3>3 DEF SurgeLimit
      <4> QED
        BY <3>1, <4>1 DEF PlanSafe
    <3> HIDE DEF scale
    <3> QED
      BY <2>1, <2>2, <3>4 DEF PlanSafe, Alone, SurgeLimit, Limits
  <2> QED
    BY <1>2, <2>1, <2>2
<1>10. CASE DCreate \/ DSync \/ DScale \/ DFail
  BY <1>2, <1>10 DEF DCreate, DSync, DScale, DFail
<1> QED
  BY <1>4, <1>5, <1>6, <1>7, <1>8, <1>9, <1>10 DEF Next, DWork

\* Types and safe plans hold in every reachable state.
LEMMA PlanInvariant == Spec \/ SteadySpec => [](TypeInv /\ PlanSafe(dctx))
  BY TypeInit, SteadyTypeInit, TypeStep, PlanInit, PlanStep, PTL DEF Spec, SteadySpec

-----------------------------------------------------------------------------
\* A replica count grows only when the Deployment reconcile carries out its
\* scale patch.
LEMMA GrowthIsPlanned ==
    ASSUME TypeInv, [Next]_vars, NEW s \in Structures, rs'[s].replicas > rs[s].replicas
    PROVE  /\ dctx.pc = "scale" /\ dctx.rs = s /\ dctx.d \in Deployment
           /\ rs'[s].replicas = dctx.n /\ dctx.n \in Nat
           /\ \A t \in Structures \ {s} : rs'[t] = rs[t]
<1>1. /\ rs \in [Structures -> ReplicaSet] /\ dctx \in DContext
      /\ \A t \in Structures : rs[t].replicas \in Nat
  BY DEF TypeInv, TypeOK, ClusterTypeOK, DeploymentTypeOK, ReplicaSet
<1>2. ~(rs'[s].replicas = rs[s].replicas)
  BY <1>1
<1>3. ~UNCHANGED rs
  BY <1>2
<1>4. DCreate \/ DSync \/ DScale
  BY <1>2, <1>3, OthersKeepReplicas
     DEF Next, vars, DWork, DRead, DStatus, DListPods, DFail, clusterVars
<1>5. CASE DCreate
  <2>1. PICK b \in CreationSeconds :
           rs' = [rs EXCEPT ![dctx.d.structure] =
                    [NoReplicaSet EXCEPT !.gen = 1, !.rev = dctx.d.rev, !.born = b]]
    BY <1>5 DEF DCreate
  <2>2. [NoReplicaSet EXCEPT !.gen = 1, !.rev = dctx.d.rev, !.born = b].replicas = 0
    BY DEF NoReplicaSet
  <2> QED
    BY <1>1, <2>1, <2>2
<1>6. CASE DSync
  <2> DEFINE cur == dctx.cur
             rev == SyncedRevision(dctx.d, cur)
             gen == IF rev = rs[cur].rev THEN rs[cur].gen ELSE rs[cur].gen + 1
  <2>1. rs' = [rs EXCEPT ![cur] =
                  [rs[cur] EXCEPT !.rev = rev, !.par = dctx.par, !.gen = gen]]
    BY <1>6 DEF DSync
  <2> HIDE DEF cur, rev, gen
  <2> QED
    BY <1>1, <1>2, <2>1 DEF ReplicaSet
<1>7. CASE DScale
  <2> DEFINE new == [rs[dctx.rs] EXCEPT !.replicas = dctx.n, !.gen = rs[dctx.rs].gen + 1]
  <2>1. dctx.pc = "scale" /\ dctx \in ScaleContext
    BY <1>1, <1>7, DContextKinds DEF DScale
  <2>2. dctx.rs \in Structures /\ dctx.d \in Deployment /\ dctx.n \in Nat
    BY <2>1 DEF ScaleContext
  <2>3. rs' = [rs EXCEPT ![dctx.rs] = new]
    BY <1>1, <1>7, <2>2 DEF DScale
  <2>4. new.replicas = dctx.n
    BY <1>1, <2>2 DEF ReplicaSet
  <2> HIDE DEF new
  <2>5. s = dctx.rs
    BY <1>1, <1>2, <2>3
  <2> QED
    BY <1>1, <2>1, <2>2, <2>3, <2>4, <2>5
<1> QED
  BY <1>4, <1>5, <1>6, <1>7

\* No scale-up exceeds desired + maxSurge of the Deployment its reconcile decided
\* by, whatever was edited, failed or went stale since: a status patch may hand a
\* reconcile another replica count and strategy than it read, but the replica
\* counts it listed stand until it has scaled.
THEOREM SurgeRespected == Spec \/ SteadySpec => ScaleUpWithinSurge
<1> DEFINE Within == \A s \in Structures :
                        rs'[s].replicas > rs[s].replicas
                        => TotalReplicaSpec(rs') <= dctx.d.replicas
                             + (IF dctx.d.strategy.recreate THEN 0 ELSE Limits(dctx.d).surge)
<1>1. TypeInv /\ PlanSafe(dctx) /\ TypeInv' /\ [Next]_vars => Within
  <2> SUFFICES ASSUME TypeInv, PlanSafe(dctx), TypeInv', [Next]_vars,
                      NEW s \in Structures, rs'[s].replicas > rs[s].replicas
               PROVE  TotalReplicaSpec(rs') <= SurgeLimit(dctx.d)
    BY DEF SurgeLimit
  <2>1. /\ dctx.pc = "scale" /\ dctx.rs = s /\ rs'[s].replicas = dctx.n
        /\ \A t \in Structures \ {s} : rs'[t] = rs[t]
    BY GrowthIsPlanned
  <2>2. dctx.n + TotalOldReplicas(s, rs) <= SurgeLimit(dctx.d)
    BY <2>1 DEF PlanSafe
  <2>3. rs' \in [Structures -> ReplicaSet]
    BY DEF TypeInv, TypeOK, ClusterTypeOK
  <2>4. ViewOK(rs')
    BY <2>3 DEF ViewOK, ReplicaSet, RSStatus
  <2>5. TotalReplicaSpec(rs') = rs'[s].replicas + TotalOldReplicas(s, rs')
    BY <2>4, StructuresAssumption, SpecSplit
  <2>6. TotalOldReplicas(s, rs') = TotalOldReplicas(s, rs)
    <3> DEFINE f == [t \in Structures |-> rs[t].replicas]
               g == [t \in Structures |-> rs'[t].replicas]
    <3>1. \A t \in Structures \ {s} : g[t] = f[t]
      BY <2>1
    <3> HIDE DEF f, g
    <3>2. Total(g, Structures \ {s}) = Total(f, Structures \ {s})
      BY <3>1, TotalSame
    <3> QED
      BY <3>2 DEF TotalOldReplicas, f, g
  <2> QED
    BY <2>1, <2>2, <2>5, <2>6
<1>2. TypeInv /\ PlanSafe(dctx) /\ TypeInv' /\ [Next]_vars => [Within]_vars
  BY <1>1
<1> QED
  BY <1>2, PlanInvariant, PTL DEF Spec, SteadySpec, ScaleUpWithinSurge

\* A reconcile that decides by Recreate scales no ReplicaSet up while another one
\* has replicas, also when it listed them for a rolling update and the status
\* patch told it of the new strategy.
THEOREM RecreateIsExclusive == Spec \/ SteadySpec => RecreateScalesUpAlone
<1> DEFINE Exclusive == \A s \in Structures :
                           /\ rs'[s].replicas > rs[s].replicas
                           /\ dctx.d.strategy.recreate
                           => \A t \in Structures \ {s} : rs[t].replicas = 0
<1>1. TypeInv /\ PlanSafe(dctx) /\ [Next]_vars => [Exclusive]_vars
  <2> SUFFICES ASSUME TypeInv, PlanSafe(dctx), [Next]_vars,
                      NEW s \in Structures, rs'[s].replicas > rs[s].replicas,
                      dctx.d.strategy.recreate
               PROVE  Alone(s)
    BY DEF Alone
  <2>1. /\ dctx.pc = "scale" /\ dctx.rs = s /\ rs'[s].replicas = dctx.n
    BY GrowthIsPlanned
  <2> QED
    BY <2>1 DEF PlanSafe
<1> QED
  BY <1>1, PlanInvariant, PTL DEF Spec, SteadySpec, RecreateScalesUpAlone
=============================================================================
